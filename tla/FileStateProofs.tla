--------------------------- MODULE FileStateProofs ---------------------------
(***************************************************************************)
(* Proofs about one file.  Types are correct without any restriction.      *)
(* That its contents are kept, that a tape's index is written before data  *)
(* leaves the disk and that a read returns what was the content of the     *)
(* file are proved for one replica and without the overlaps that the code  *)
(* does not cope with (see Overlap in FileState), for any number of        *)
(* applications, changes, recalls and restarts, and as many migrations as  *)
(* the array in the tape attribute has room for.                           *)
(*                                                                         *)
(* FileInv is inductive.  Its parts say where the data is in every state   *)
(* of the file (DataInv), what a job, a recall and an operation have done  *)
(* and found out so far (JobOf, RecOf, OpOf), who holds the main lock      *)
(* (LockInv), and that nobody works with a file that has to be recovered   *)
(* (RecoverInv).                                                           *)
(***************************************************************************)
EXTENDS FileState, FiniteSetTheorems, SequenceTheorems, TLAPS

(* The parts of TypeOK.                                                    *)
FileType == disk \in Data /\ mtime \in Time /\ miginfo \in MigInfo /\ tapeInfo \in Seq(Tape)

TapeType == tape \in [Tape -> Data \cup {None}] /\ synced \in SUBSET Tape

ContentType == valid \in SUBSET Data /\ changes \in Version

LockType == shared \in SUBSET Handle /\ trec \in Handle \cup {None}

StaterType == stater \in [Stater -> [pc: {"idle", "first", "second"}, state: MigState]]

BoundType ==
    target \in {"PREMIGRATED", "MIGRATED"} /\ requests \in 0 .. MaxRequests /\ restarts \in 0 .. MaxRestarts

Types ==
    /\ FileType /\ TapeType /\ ContentType /\ LockType /\ StaterType /\ BoundType
    /\ job \in [Tape -> JobType] /\ rec \in [Recaller -> RecType] /\ app \in [App -> AppType]

(* A recall copies from a file that is on tape.                            *)
SourceType == \A x \in Recaller : rec[x].pc = "recalling" => OnTape(rec[x].tape) \in Data

(* They are all of it.                                                     *)
LEMMA TypesOK == Types <=> TypeOK
BY DEF Types, TypeOK, FileType, TapeType, ContentType, LockType, StaterType,
   BoundType

(* Data has a size.                                                        *)
LEMMA SizeType == ASSUME NEW d \in Data PROVE SizeOf(d) \in Nat
BY FileAssumption DEF SizeOf, Data

(* The attribute setMigInfoAt writes.                                      *)
LEMMA MigInfoAtType ==
    ASSUME FileType, NEW s \in MigState, NEW m \in Time PROVE MigInfoAt(s, m) \in MigInfo
<1>1. SizeOf(disk) \in Nat
    BY SizeType DEF FileType
<1>2. [state |-> s, mtime |-> m, size |-> SizeOf(disk), old |-> FALSE] \in MigInfo
    BY <1>1 DEF MigInfo
<1>3. [miginfo EXCEPT !.state = s, !.old = FALSE] \in MigInfo
    BY DEF FileType, MigInfo
<1>4. QED
    BY <1>2, <1>3 DEF MigInfoAt

(* The states by name.                                                     *)
LEMMA MigStates ==
    /\ "NONE" \in MigState /\ "RESIDENT" \in MigState /\ "IN_MIGRATION" \in MigState
    /\ "PREMIGRATED" \in MigState /\ "STUBBING" \in MigState
    /\ "MIGRATED" \in MigState /\ "IN_RECALL" \in MigState
BY DEF MigState

(* What a new or a cleared variable holds.                                 *)
LEMMA NoAttrType == NoAttr \in MigInfo /\ NoJob \in JobType /\ NoRecall \in RecType /\ Idle \in AppType
BY DEF NoAttr, MigInfo, MigState, Time, NoJob, JobType, Data, NoRecall, RecType,
   Idle, AppType, Op

(* A job stays one when its state is set.                                  *)
LEMMA JobTypeKept ==
    ASSUME job \in [Tape -> JobType], NEW t \in Tape, NEW p, JobGoes(t, p),
           p \in {"none", "added", "opened", "prepared", "copying", "copied", "checked", "transferred", "change",
                  "stub", "stubbing", "truncated", "done", "failed"}
    PROVE  job' \in [Tape -> JobType]
BY DEF JobGoes, JobType

(* The same for a recall.                                                  *)
LEMMA RecTypeKept ==
    ASSUME rec \in [Recaller -> RecType], NEW x \in Recaller, NEW p, RecallGoes(x, p),
           p \in {"none", "event", "adding", "lost", "job", "recalling", "recalled", "resident", "cleared", "ok", "failed"}
    PROVE  rec' \in [Recaller -> RecType]
BY DEF RecallGoes, RecType

(* The same for an operation.                                              *)
LEMMA AppTypeKept ==
    ASSUME app \in [App -> AppType], NEW a \in App, NEW p, app' = [app EXCEPT ![a].pc = p],
           p \in {"idle", "main", "trec", "remove", "recall", "relock", "io", "reply"}
    PROVE  app' \in [App -> AppType]
BY DEF AppType

(* An operation works with an open file.                                   *)
LEMMA HandleType == \A a \in App : handleOf(a) \in Handle /\ a \in Handle
BY FileAssumption DEF handleOf, Handle

(* At first the file is resident and nobody works with it.                 *)
LEMMA InitTypes == Init => Types
<1> SUFFICES ASSUME Init PROVE Types
    OBVIOUS
<1>1. 0 \in Version
    BY FileAssumption DEF Version
<1>2. FileType
    BY <1>1, NoAttrType DEF Init, FileType, Data, Time
<1>3. TapeType /\ ContentType
    BY <1>1 DEF Init, TapeType, ContentType, Data
<1>4. LockType /\ StaterType /\ BoundType
    BY FileAssumption DEF Init, LockType, StaterType, BoundType, NotRecovering,
       MigState
<1>5. job \in [Tape -> JobType] /\ rec \in [Recaller -> RecType] /\ app \in [App -> AppType]
    BY NoAttrType DEF Init
<1>6. QED
    BY <1>2, <1>3, <1>4, <1>5 DEF Types


(* Operations of applications.                                             *)
LEMMA AppStepTypes ==
    ASSUME Types, NEW a \in App, StartOp(a) \/ AppStep(a) PROVE Types'
<1>1. handleOf(a) \in Handle /\ a \in Handle /\ None \notin Handle
    BY HandleType, FileAssumption
<1>2. UNCHANGED <<tape, synced, job, target, stater, requests, restarts>>
    BY DEF StartOp, AppStep, LockMain, CheckState, RemoveTapeInfo,
       RecallAnswered, RelockMain, ReadReturns,
           ReadData, ChangeData, onTape, bounds
<1>3. TapeType' /\ StaterType' /\ BoundType' /\ job' \in [Tape -> JobType]
    BY <1>2 DEF Types, TapeType, StaterType, BoundType
<1> SUFFICES FileType' /\ ContentType' /\ LockType' /\ rec' \in [Recaller -> RecType] /\ app' \in [App -> AppType]
    BY <1>3 DEF Types
<1>4. FileType /\ ContentType /\ LockType /\ rec \in [Recaller -> RecType] /\ app \in [App -> AppType]
    BY DEF Types
<1>5. [app EXCEPT ![a] = Idle] \in [App -> AppType]
    BY <1>4, NoAttrType
<1>6. ASSUME NEW held \in SUBSET Handle, LeaveScope(a, held) PROVE LockType'
    BY <1>6 DEF LeaveScope, LockType
<1>7. CASE StartOp(a)
    <2>1. PICK op \in AppOps : app' = [app EXCEPT ![a] = [pc |-> "main", op |-> op, expect |-> valid]]
        BY <1>7 DEF StartOp
    <2>2. [pc |-> "main", op |-> op, expect |-> valid] \in AppType
        BY <1>4, FileAssumption DEF AppType, ContentType
    <2>3. app' \in [App -> AppType]
        BY <2>1, <2>2, <1>4
    <2>4. QED
        BY <2>3, <1>7, <1>4 DEF StartOp, file, contents, locks, FileType,
           ContentType, LockType
<1>8. CASE LockMain(a)
    <2>1. app' \in [App -> AppType]
        BY <1>8, <1>4, AppTypeKept DEF LockMain
    <2>2. QED
        BY <2>1, <1>8, <1>4, <1>1 DEF LockMain, file, contents, FileType,
           ContentType, LockType
<1>9. CASE CheckState(a)
    <2>1. UNCHANGED <<disk, mtime, tapeInfo, changes>>
        BY <1>9 DEF CheckState
    <2>2. CASE /\ trec' = handleOf(a) /\ shared' = shared \ {handleOf(a)}
               /\ app' = [app EXCEPT ![a].pc = "recall"]
               /\ rec' = [rec EXCEPT ![a] = [pc |-> "event", tape |-> None,
                                              to |-> IF app[a].op = "read" THEN "PREMIGRATED" ELSE "RESIDENT"]]
               /\ UNCHANGED <<miginfo, valid>>
        <3>1. app' \in [App -> AppType]
            BY <2>2, <1>4, AppTypeKept
        <3>2. rec' \in [Recaller -> RecType]
            BY <2>2, <1>4 DEF RecType
        <3>3. QED
            BY <2>1, <2>2, <3>1, <3>2, <1>4, <1>1 DEF FileType, ContentType,
               LockType
    <2>3. CASE /\ miginfo' = NoAttr
               /\ valid' = IF toZero(app[a].op) THEN valid \cup {disk} ELSE valid
               /\ trec' = handleOf(a)
               /\ app' = [app EXCEPT ![a].pc = "remove"]
               /\ UNCHANGED <<rec, shared>>
        <3>1. app' \in [App -> AppType]
            BY <2>3, <1>4, AppTypeKept
        <3>2. QED
            BY <2>1, <2>3, <3>1, <1>4, <1>1, NoAttrType DEF FileType,
               ContentType, LockType
    <2>4. CASE /\ LeaveScope(a, shared)
               /\ app' = [app EXCEPT ![a].pc = "io"]
               /\ UNCHANGED <<miginfo, valid, rec>>
        <3>1. app' \in [App -> AppType]
            BY <2>4, <1>4, AppTypeKept
        <3>2. LockType'
            BY <2>4, <1>6, <1>4 DEF LockType
        <3>3. QED
            BY <2>1, <2>4, <3>1, <3>2, <1>4 DEF FileType, ContentType
    <2>5. QED
        BY <1>9, <2>2, <2>3, <2>4 DEF CheckState
<1>10. CASE RemoveTapeInfo(a)
    <2>1. tapeInfo' = <<>> /\ UNCHANGED <<disk, mtime, miginfo, valid, changes, rec>>
        BY <1>10 DEF RemoveTapeInfo, contents
    <2>2. FileType' /\ ContentType'
        BY <2>1, <1>4 DEF FileType, ContentType
    <2>3. CASE LeaveScope(a, shared) /\ app' = [app EXCEPT ![a].pc = "io"]
        <3>1. app' \in [App -> AppType]
            BY <2>3, <1>4, AppTypeKept
        <3>2. LockType'
            BY <2>3, <1>6, <1>4 DEF LockType
        <3>3. QED
            BY <2>1, <2>2, <3>1, <3>2, <1>4
    <2>4. CASE trec' = None /\ shared' = shared \ {handleOf(a)} /\ app' = [app EXCEPT ![a] = Idle]
        BY <2>1, <2>2, <2>4, <1>4, <1>5 DEF LockType
    <2>5. QED
        BY <1>10, <2>3, <2>4 DEF RemoveTapeInfo
<1>11. CASE RecallAnswered(a)
    <2>1. /\ UNCHANGED <<disk, mtime, miginfo, tapeInfo, valid, changes, shared>>
          /\ rec' = [rec EXCEPT ![a] = NoRecall]
          /\ trec' \in {trec, None}
          /\ app' = [app EXCEPT ![a].pc = "relock"] \/ app' = [app EXCEPT ![a] = Idle]
        BY <1>11 DEF RecallAnswered, file, contents
    <2>2. app' \in [App -> AppType]
        BY <2>1, <1>4, <1>5, AppTypeKept
    <2>3. QED
        BY <2>1, <2>2, <1>4, NoAttrType DEF FileType, ContentType, LockType
<1>12. CASE RelockMain(a)
    <2>1. app' \in [App -> AppType]
        BY <1>12, <1>4, AppTypeKept DEF RelockMain
    <2>2. LockType'
        BY <1>12, <1>6, <1>4, <1>1 DEF RelockMain, LockType
    <2>3. QED
        BY <2>1, <2>2, <1>12, <1>4 DEF RelockMain, file, contents, FileType,
           ContentType
<1>13. CASE ReadReturns(a)
    <2>1. app' \in [App -> AppType]
        BY <1>13, <1>4, AppTypeKept DEF ReadReturns
    <2>2. QED
        BY <2>1, <1>13, <1>4 DEF ReadReturns, file, contents, FileType,
           ContentType, LockType
<1>14. CASE ReadData(a)
    BY <1>14, <1>4, <1>5 DEF ReadData, file, contents, locks, FileType,
       ContentType, LockType
<1>15. CASE ChangeData(a)
    <2>1. /\ changes < MaxChanges /\ changes' = changes + 1 /\ mtime' = changes + 1
          /\ disk' \in {Empty, Partial, changes + 1} /\ valid' \in {{Empty}, {changes + 1}}
          /\ UNCHANGED <<miginfo, tapeInfo, rec, trec>> /\ shared' = shared \ {handleOf(a)}
          /\ app' = [b \in App |-> IF b = a THEN Idle ELSE [app[b] EXCEPT !.expect = @ \cup valid']]
        BY <1>15 DEF ChangeData
    <2>2. changes + 1 \in Version
        BY <2>1, <1>4, FileAssumption DEF ContentType, Version
    <2>3. FileType' /\ ContentType' /\ LockType'
        BY <2>1, <2>2, <1>4 DEF FileType, ContentType, LockType, Data, Time
    <2>4. app' \in [App -> AppType]
        <3>1. ASSUME NEW b \in App, b # a PROVE [app[b] EXCEPT !.expect = @ \cup valid'] \in AppType
            <4>1. valid' \subseteq Data /\ app[b] \in AppType
                BY <2>3, <1>4 DEF ContentType
            <4>2. QED
                BY <4>1 DEF AppType
        <3>2. QED
            BY <2>1, <3>1, NoAttrType
    <2>5. QED
        BY <2>1, <2>3, <2>4, <1>4
<1>16. QED
    BY <1>7, <1>8, <1>9, <1>10, <1>11, <1>12, <1>13, <1>14, <1>15
       DEF AppStep

(* Recalls.                                                                *)
LEMMA RecallStepTypes ==
    ASSUME Types, SourceType, (\E x \in Recaller : RecallStep(x)) \/ AddSelRecall PROVE Types'
<1>1. FileType /\ TapeType /\ rec \in [Recaller -> RecType]
    BY DEF Types
<1>2. (IF tapeInfo = <<>> THEN None ELSE tapeInfo[1]) \in Tape \cup {None}
    BY <1>1 DEF FileType
<1>3. CASE AddSelRecall
    <2>1. PICK to \in {"PREMIGRATED", "RESIDENT"} :
            rec' = [rec EXCEPT ![Sel] = [pc |-> "job", to |-> to,
                                          tape |-> IF tapeInfo = <<>> THEN None ELSE tapeInfo[1]]]
        BY <1>3 DEF AddSelRecall
    <2>2. rec' \in [Recaller -> RecType]
        BY <2>1, <1>2, <1>1 DEF RecType
    <2>3. QED
        BY <2>2, <1>3 DEF AddSelRecall, Types, FileType, TapeType, ContentType,
           LockType, StaterType, BoundType,
           file, onTape, contents, locks, bounds
<1>4. ASSUME NEW x \in Recaller, RecallStep(x) PROVE Types'
    <2>1. UNCHANGED <<tape, synced, valid, changes, target, job, app, shared, trec, stater, requests, restarts>>
        BY <1>4 DEF RecallStep, RecallEvent, RecallAddJob, RecallStarts,
           RecallCopies, RecallFinishes,
           RecallRemovesTapeInfo, RecallRemovesState, RecallFails, SelRecallEnds,
           onTape, contents, locks, bounds
    <2>2. /\ TapeType' /\ ContentType' /\ LockType' /\ StaterType' /\ BoundType'
          /\ job' \in [Tape -> JobType] /\ app' \in [App -> AppType]
        BY <2>1 DEF Types, TapeType, ContentType, LockType, StaterType, BoundType
    <2> SUFFICES FileType' /\ rec' \in [Recaller -> RecType]
        BY <2>2 DEF Types
    <2>3. miginfo.mtime \in Time /\ mtime \in Time
        BY <1>1 DEF FileType, MigInfo
    <2>4. \A s \in MigState, m \in Time : MigInfoAt(s, m) \in MigInfo
        BY <1>1, MigInfoAtType
    <2>5. CASE RecallEvent(x)
        <3>1. disk' = disk /\ tapeInfo' = tapeInfo
            BY <2>5 DEF RecallEvent
        <3>2. CASE mtime' = miginfo.mtime /\ miginfo' = MigInfoAt("RESIDENT", miginfo.mtime) /\ RecallGoes(x, "ok")
            <4>1. rec' \in [Recaller -> RecType]
                BY <3>2, <1>1, RecTypeKept
            <4>2. QED
                BY <3>1, <3>2, <4>1, <2>3, <2>4, <1>1, MigStates DEF FileType
        <3>3. CASE /\ rec' = [rec EXCEPT ![x] = [rec[x] EXCEPT !.pc = "adding",
                                                  !.tape = IF tapeInfo = <<>> THEN None ELSE tapeInfo[1]]]
                   /\ UNCHANGED <<mtime, miginfo>>
            <4>1. rec' \in [Recaller -> RecType]
                BY <3>3, <1>2, <1>1 DEF RecType
            <4>2. QED
                BY <3>1, <3>3, <4>1, <1>1 DEF FileType
        <3>4. QED
            BY <3>2, <3>3, <2>5 DEF RecallEvent
    <2>6. CASE RecallAddJob(x)
        <3>1. RecallGoes(x, "ok") \/ RecallGoes(x, "lost") \/ RecallGoes(x, "job")
            BY <2>6 DEF RecallAddJob
        <3>2. rec' \in [Recaller -> RecType]
            BY <3>1, <1>1, RecTypeKept
        <3>3. QED
            BY <3>2, <2>6, <1>1 DEF RecallAddJob, file, FileType
    <2>7. ASSUME finishRecall(x) PROVE mtime' \in Time /\ miginfo' \in MigInfo /\ rec' \in [Recaller -> RecType]
        <3>1. RecallGoes(x, "ok") \/ RecallGoes(x, "resident")
            BY <2>7 DEF finishRecall
        <3>2. rec' \in [Recaller -> RecType]
            BY <3>1, <1>1, RecTypeKept
        <3>3. QED
            BY <3>2, <2>7, <2>3, <2>4, MigStates DEF finishRecall, setMigInfoAt
    <2>8. CASE RecallStarts(x)
        <3>1. CASE RecallGoes(x, "ok") /\ UNCHANGED file
            <4>1. rec' \in [Recaller -> RecType]
                BY <3>1, <1>1, RecTypeKept
            <4>2. QED
                BY <3>1, <4>1, <1>1 DEF file, FileType
        <3>2. CASE finishRecall(x) /\ UNCHANGED <<disk, tapeInfo>>
            BY <3>2, <2>7, <1>1 DEF FileType
        <3>3. CASE /\ rec' = [rec EXCEPT ![x] = [rec[x] EXCEPT !.pc = "recalling",
                         !.to = IF SizeOf(OnTape(rec[x].tape)) # miginfo.size THEN "RESIDENT" ELSE rec[x].to]]
                   /\ setMigInfoAt("IN_RECALL")
                   /\ disk' = IF OnTape(rec[x].tape) = Empty THEN disk ELSE Partial
                   /\ mtime' = IF OnTape(rec[x].tape) = Empty THEN mtime ELSE None
                   /\ UNCHANGED tapeInfo
            <4>1. rec' \in [Recaller -> RecType]
                BY <3>3, <1>1 DEF RecType
            <4>2. miginfo' \in MigInfo
                BY <3>3, <2>4, <2>3, MigStates DEF setMigInfoAt
            <4>3. QED
                BY <3>3, <4>1, <4>2, <1>1 DEF FileType, Data, Time
        <3>4. \/ RecallGoes(x, "ok") /\ UNCHANGED file
              \/ finishRecall(x) /\ UNCHANGED <<disk, tapeInfo>>
              \/ /\ rec' = [rec EXCEPT ![x] = [rec[x] EXCEPT !.pc = "recalling",
                         !.to = IF SizeOf(OnTape(rec[x].tape)) # miginfo.size THEN "RESIDENT" ELSE rec[x].to]]
                 /\ setMigInfoAt("IN_RECALL")
                 /\ disk' = IF OnTape(rec[x].tape) = Empty THEN disk ELSE Partial
                 /\ mtime' = IF OnTape(rec[x].tape) = Empty THEN mtime ELSE None
                 /\ UNCHANGED tapeInfo
            BY <2>8, Zenon DEF RecallStarts
        <3>5. QED
            BY <3>1, <3>2, <3>3, <3>4
    <2>9. CASE RecallCopies(x)
        <3>1. rec' \in [Recaller -> RecType]
            BY <2>9, <1>1, RecTypeKept DEF RecallCopies
        <3>2. OnTape(rec[x].tape) \in Data
            BY <2>9 DEF SourceType, RecallCopies
        <3>3. QED
            BY <3>1, <3>2, <2>9, <1>1 DEF RecallCopies, FileType
    <2>10. CASE RecallFinishes(x)
        BY <2>10, <2>7, <1>1 DEF RecallFinishes, FileType
    <2>11. CASE RecallRemovesTapeInfo(x)
        <3>1. rec' \in [Recaller -> RecType]
            BY <2>11, <1>1, RecTypeKept DEF RecallRemovesTapeInfo
        <3>2. QED
            BY <3>1, <2>11, <1>1 DEF RecallRemovesTapeInfo, FileType
    <2>12. CASE RecallRemovesState(x)
        <3>1. rec' \in [Recaller -> RecType]
            BY <2>12, <1>1, RecTypeKept DEF RecallRemovesState
        <3>2. QED
            BY <3>1, <2>12, <1>1, NoAttrType DEF RecallRemovesState, FileType
    <2>13. CASE RecallFails(x)
        <3>1. rec' \in [Recaller -> RecType]
            BY <2>13, <1>1, RecTypeKept DEF RecallFails
        <3>2. QED
            BY <3>1, <2>13, <1>1 DEF RecallFails, file, FileType
    <2>14. CASE SelRecallEnds
        BY <2>14, <1>1, NoAttrType DEF SelRecallEnds, file, FileType
    <2>15. QED
        BY <1>4, <2>5, <2>6, <2>8, <2>9, <2>10, <2>11, <2>12, <2>13, <2>14
           DEF RecallStep
<1>5. QED
    BY <1>3, <1>4

(* Migrations.                                                             *)
LEMMA MigrationTypes ==
    ASSUME Types, (\E t \in Tape : MigrationStep(t)) \/ AddMigration \/ MigrationEnds PROVE Types'
<1>1. FileType /\ TapeType /\ BoundType /\ job \in [Tape -> JobType]
    BY DEF Types
<1>2. statMtime \in Time
    BY <1>1 DEF statMtime, FileType, MigInfo
<1>3. UNCHANGED <<valid, changes, shared, trec, stater, restarts, rec, app>>
    BY DEF MigrationStep, TransferOpens, TransferPrepares, TransferStarts,
       TransferCopies, TransferChecks,
           TransferFails, TransferSuspended, addTapeAttr, Sync, ChangeState,
           StubTruncates, StubFails,
           StubFinishes, AddMigration, MigrationEnds, contents, locks, bounds
<1>4. ContentType' /\ LockType' /\ StaterType' /\ rec' \in [Recaller -> RecType] /\ app' \in [App -> AppType]
    BY <1>3 DEF Types, ContentType, LockType, StaterType
<1> SUFFICES FileType' /\ TapeType' /\ BoundType' /\ job' \in [Tape -> JobType]
    BY <1>4 DEF Types
<1>5. CASE AddMigration
    <2>1. UNCHANGED <<disk, mtime, miginfo, tapeInfo, tape, synced, restarts>> /\ requests' = requests - 1 /\ requests > 0
          /\ target' \in Target
        BY <1>5 DEF AddMigration, file, onTape
    <2>2. \A p \in {"added", "change", "stub"} : [NoJob EXCEPT !.pc = p, !.mtime = statMtime] \in JobType
        BY <1>2 DEF NoJob, JobType, Data
    <2>3. \/ job' = [t \in Tape |-> [NoJob EXCEPT !.pc = "added", !.mtime = statMtime]]
          \/ job' = [t \in Tape |-> [NoJob EXCEPT !.pc = "change", !.mtime = statMtime]]
          \/ \E t \in Tape : job' = [job EXCEPT ![t] = [NoJob EXCEPT !.pc = "stub", !.mtime = statMtime]]
        BY <1>5 DEF AddMigration
    <2>4. job' \in [Tape -> JobType]
        BY <2>2, <2>3, <1>1
    <2>5. QED
        BY <2>1, <2>4, <1>1, FileAssumption DEF FileType, TapeType, BoundType
<1>6. CASE MigrationEnds
    BY <1>6, <1>1, NoAttrType DEF MigrationEnds, file, onTape, bounds, FileType,
       TapeType, BoundType
<1>7. ASSUME NEW t \in Tape, MigrationStep(t) PROVE FileType' /\ TapeType' /\ BoundType' /\ job' \in [Tape -> JobType]
    <2>1. BoundType'
        BY <1>7, <1>1
           DEF MigrationStep, TransferOpens, TransferPrepares, TransferStarts,
               TransferCopies, TransferChecks,
               TransferFails, TransferSuspended, addTapeAttr, Sync, ChangeState,
               StubTruncates, StubFails,
               StubFinishes, bounds, BoundType
    <2>2. job' \in [Tape -> JobType]
        <3>1. CASE TransferStarts(t)
            <4>1. job' = [job EXCEPT ![t] = [job[t] EXCEPT
                             !.seen = IF statSize < SizeOf(disk) THEN Partial ELSE disk,
                             !.pc = IF statSize = 0 THEN "checked" ELSE "copying"]]
                BY <3>1 DEF TransferStarts
            <4>2. (IF statSize < SizeOf(disk) THEN Partial ELSE disk) \in Data
                BY <1>1 DEF FileType, Data
            <4>3. QED
                BY <4>1, <4>2, <1>1 DEF JobType
        <3>2. CASE \E p \in {"added", "opened", "prepared", "copied", "checked", "transferred", "change", "stubbing",
                             "truncated", "done", "failed"} : JobGoes(t, p)
            BY <3>2, <1>1, JobTypeKept
        <3>3. QED
            BY <3>1, <3>2, <1>7
               DEF MigrationStep, TransferOpens, TransferPrepares, TransferCopies,
                   TransferChecks,
                   TransferFails, TransferSuspended, addTapeAttr, Sync, ChangeState,
                   StubTruncates, StubFails, StubFinishes
    <2>3. TapeType'
        <3>1. CASE TransferOpens(t)
            BY <3>1, <1>1 DEF TransferOpens, TapeType, Data
        <3>2. CASE TransferCopies(t)
            <4>1. tape' = [tape EXCEPT ![t] = IF disk = job[t].seen THEN disk ELSE Partial] /\ synced' = synced
                BY <3>2 DEF TransferCopies
            <4>2. (IF disk = job[t].seen THEN disk ELSE Partial) \in Data
                BY <1>1 DEF FileType, Data
            <4>3. QED
                BY <4>1, <4>2, <1>1 DEF TapeType
        <3>3. CASE Sync(t)
            BY <3>3, <1>1 DEF Sync, TapeType
        <3>4. CASE UNCHANGED onTape
            BY <3>4, <1>1 DEF onTape, TapeType
        <3>5. QED
            BY <3>1, <3>2, <3>3, <3>4, <1>7
               DEF MigrationStep, TransferPrepares, TransferStarts, TransferChecks,
                   TransferFails, TransferSuspended, addTapeAttr, ChangeState,
                   StubTruncates, StubFails, StubFinishes
    <2>4. FileType'
        <3>1. CASE miginfo' = miginfo \/ \E s \in MigState : setMigInfoAt(s)
            <4>1. miginfo' \in MigInfo
                BY <3>1, <1>1, MigInfoAtType DEF setMigInfoAt, FileType
            <4>2. (disk' = disk /\ mtime' = mtime) \/ (disk' = Empty /\ mtime' = None)
                BY <1>7
                   DEF MigrationStep, TransferOpens, TransferPrepares, TransferStarts,
                       TransferCopies, TransferChecks,
                       TransferFails, TransferSuspended, addTapeAttr, Sync, ChangeState,
                       StubTruncates, StubFails,
                       StubFinishes, file
            <4>3. tapeInfo' = tapeInfo \/ tapeInfo' = Append(tapeInfo, t)
                BY <1>7
                   DEF MigrationStep, TransferOpens, TransferPrepares, TransferStarts,
                       TransferCopies, TransferChecks,
                       TransferFails, TransferSuspended, addTapeAttr, Sync, ChangeState,
                       StubTruncates, StubFails,
                       StubFinishes, file
            <4>4. tapeInfo' \in Seq(Tape)
                BY <4>3, <1>1, AppendProperties DEF FileType
            <4>5. QED
                BY <4>1, <4>2, <4>4, <1>1 DEF FileType, Data, Time
        <3>2. QED
            BY <3>1, <1>7, MigStates
               DEF MigrationStep, TransferOpens, TransferPrepares, TransferStarts,
                   TransferCopies, TransferChecks,
                   TransferFails, TransferSuspended, addTapeAttr, Sync, ChangeState,
                   StubTruncates, StubFails,
                   StubFinishes, file
    <2>5. QED
        BY <2>1, <2>2, <2>3, <2>4
<1>8. QED
    BY <1>5, <1>6, <1>7

(* The start of a new server, and the recovery of the state.               *)
LEMMA RecoveryTypes ==
    ASSUME Types, (\E s \in Stater : StaterStep(s)) \/ Restart PROVE Types'
<1>1. FileType /\ StaterType /\ BoundType
    BY DEF Types
<1>2. CASE Restart
    <2>1. miginfo' \in MigInfo
        BY <1>2, <1>1 DEF Restart, FileType, MigInfo
    <2>2. FileType' /\ TapeType' /\ ContentType'
        BY <2>1, <1>2 DEF Restart, Types, FileType, TapeType, ContentType,
           onTape, contents
    <2>3. LockType' /\ StaterType'
        BY <1>2 DEF Restart, LockType, StaterType, NotRecovering, MigState
    <2>4. BoundType'
        BY <1>2, <1>1, FileAssumption DEF Restart, BoundType
    <2>5. job' \in [Tape -> JobType] /\ rec' \in [Recaller -> RecType] /\ app' \in [App -> AppType]
        BY <1>2, NoAttrType DEF Restart
    <2>6. QED
        BY <2>2, <2>3, <2>4, <2>5 DEF Types
<1>3. ASSUME NEW s \in Stater, StaterStep(s) PROVE Types'
    <2>1. UNCHANGED <<tape, synced, valid, changes, target, job, rec, app, shared, trec, requests, restarts>>
        BY <1>3 DEF StaterStep, getattr, recoverFirst, recoverSecond, onTape,
           contents, locks, bounds
    <2>2. /\ TapeType' /\ ContentType' /\ LockType' /\ BoundType' /\ job' \in [Tape -> JobType]
          /\ rec' \in [Recaller -> RecType] /\ app' \in [App -> AppType]
        BY <2>1 DEF Types, TapeType, ContentType, LockType, BoundType
    <2>3. FileType'
        <3>1. miginfo' = miginfo \/ miginfo' = NoAttr \/ \E z \in MigState : setMigInfoAt(z)
            BY <1>3, MigStates DEF StaterStep, getattr, recoverFirst,
               recoverSecond, file
        <3>2. miginfo' \in MigInfo
            BY <3>1, <1>1, MigInfoAtType, NoAttrType DEF setMigInfoAt, FileType
        <3>3. /\ (disk' = disk /\ mtime' = mtime) \/ (disk' = Empty /\ mtime' = None)
              /\ tapeInfo' = tapeInfo \/ tapeInfo' = <<>>
            BY <1>3 DEF StaterStep, getattr, recoverFirst, recoverSecond, file
        <3>4. disk' \in Data /\ mtime' \in Time
            BY <3>3, <1>1 DEF FileType, Data, Time
        <3>5. tapeInfo' \in Seq(Tape)
            <4>1. <<>> \in Seq(Tape) /\ tapeInfo \in Seq(Tape)
                BY <1>1 DEF FileType
            <4>2. QED
                BY <3>3, <4>1
        <3>6. QED
            BY <3>2, <3>4, <3>5 DEF FileType
    <2>4. StaterType'
        <3>1. miginfo.state \in MigState
            BY <1>1 DEF FileType, MigInfo
        <3>2. CASE getattr(s)
            BY <3>1, <3>2, <1>1 DEF getattr, StaterType
        <3>3. CASE recoverFirst(s)
            BY <3>3, <1>1 DEF recoverFirst, StaterType
        <3>4. CASE recoverSecond(s)
            BY <3>4, <1>1, MigStates DEF recoverSecond, StaterType, NotRecovering
        <3>5. QED
            BY <3>2, <3>3, <3>4, <1>3 DEF StaterStep
    <2>5. QED
        BY <2>2, <2>3, <2>4 DEF Types
<1>4. QED
    BY <1>2, <1>3

(* Only RecallStarts begins a recall, and a copy on tape stays one.        *)
LEMMA SourceKept == ASSUME Types, SourceType, Next PROVE SourceType'
<1>1. TapeType /\ FileType /\ rec \in [Recaller -> RecType]
    BY DEF Types
<1>2. ASSUME NEW t \in Tape, tape[t] \in Data PROVE tape'[t] \in Data
    <2>1. tape' = tape \/ \E u \in Tape, d \in Data : tape' = [tape EXCEPT ![u] = d]
        <3>1. CASE \E u \in Tape : MigrationStep(u)
            <4>1. PICK u \in Tape : MigrationStep(u)
                BY <3>1
            <4>2. Empty \in Data /\ (IF disk = job[u].seen THEN disk ELSE Partial) \in Data
                BY <1>1 DEF FileType, Data
            <4>3. CASE TransferOpens(u)
                BY <4>2, <4>3 DEF TransferOpens
            <4>4. CASE TransferCopies(u)
                BY <4>2, <4>4 DEF TransferCopies
            <4>5. QED
                BY <4>1, <4>3, <4>4
                   DEF MigrationStep, TransferPrepares, TransferStarts, TransferChecks,
                       TransferFails,
                       TransferSuspended, addTapeAttr, Sync, ChangeState, StubTruncates,
                       StubFails, StubFinishes, onTape
        <3>2. CASE \E a \in App : StartOp(a) \/ AppStep(a)
            BY <3>2 DEF StartOp, AppStep, LockMain, CheckState, RemoveTapeInfo,
               RecallAnswered, RelockMain,
                        ReadReturns, ReadData, ChangeData, onTape
        <3>3. CASE (\E x \in Recaller : RecallStep(x)) \/ AddSelRecall
            BY <3>3 DEF RecallStep, RecallEvent, RecallAddJob, RecallStarts,
               RecallCopies, RecallFinishes,
               RecallRemovesTapeInfo, RecallRemovesState, RecallFails, SelRecallEnds,
               AddSelRecall, onTape
        <3>4. CASE AddMigration \/ MigrationEnds \/ Restart \/ \E s \in Stater : StaterStep(s)
            BY <3>4 DEF AddMigration, MigrationEnds, Restart, StaterStep,
               getattr, recoverFirst, recoverSecond, onTape
        <3>5. QED
            BY <3>1, <3>2, <3>3, <3>4 DEF Next
    <2>2. QED
        BY <2>1, <1>2, <1>1 DEF TapeType
<1>3. ASSUME NEW x \in Recaller, rec'[x].pc = "recalling"
      PROVE  rec'[x].tape = rec[x].tape /\ OnTape(rec[x].tape) \in Data
    <2>1. ASSUME rec'[x] = rec[x] PROVE rec'[x].tape = rec[x].tape /\ OnTape(rec[x].tape) \in Data
        BY <2>1, <1>3 DEF SourceType
    <2>2. ASSUME NEW y \in Recaller, NEW r, r.pc # "recalling", rec' = [rec EXCEPT ![y] = r]
          PROVE  rec'[x] = rec[x]
        BY <2>2, <1>3, <1>1
    <2>3. ASSUME NEW y \in Recaller, NEW p, p # "recalling", RecallGoes(y, p)
          PROVE  rec'[x] = rec[x]
        <3>1. rec' = [rec EXCEPT ![y] = [rec[y] EXCEPT !.pc = p]] /\ [rec[y] EXCEPT !.pc = p].pc = p
            BY <2>3, <1>1 DEF RecallGoes, RecType
        <3>2. QED
            BY <3>1, <2>3, <2>2
    <2>4. CASE \E a \in App : StartOp(a) \/ AppStep(a)
        <3>1. PICK a \in App : StartOp(a) \/ AppStep(a)
            BY <2>4
        <3>2. a \in Recaller /\ NoRecall.pc # "recalling"
            BY DEF Recaller, NoRecall
        <3>3. \/ rec' = rec \/ rec' = [rec EXCEPT ![a] = NoRecall]
              \/ rec' = [rec EXCEPT ![a] = [pc |-> "event", tape |-> None,
                                             to |-> IF app[a].op = "read" THEN "PREMIGRATED" ELSE "RESIDENT"]]
            BY <3>1 DEF StartOp, AppStep, LockMain, CheckState, RemoveTapeInfo,
               RecallAnswered, RelockMain,
                        ReadReturns, ReadData, ChangeData
        <3>4. rec'[x] = rec[x]
            BY <3>2, <3>3, <2>2
        <3>5. QED
            BY <3>4, <2>1
    <2>5. CASE AddSelRecall
        <3>1. PICK to \in {"PREMIGRATED", "RESIDENT"} :
                rec' = [rec EXCEPT ![Sel] = [pc |-> "job", to |-> to,
                                              tape |-> IF tapeInfo = <<>> THEN None ELSE tapeInfo[1]]]
            BY <2>5 DEF AddSelRecall
        <3>2. rec'[x] = rec[x]
            BY <3>1, <2>2 DEF Recaller
        <3>3. QED
            BY <3>2, <2>1
    <2>6. CASE \E y \in Recaller : RecallStep(y)
        <3>1. PICK y \in Recaller : RecallStep(y)
            BY <2>6
        <3>2. CASE RecallStarts(y)
            <4>1. CASE RecallGoes(y, "ok") \/ finishRecall(y)
                <5>1. RecallGoes(y, "ok") \/ RecallGoes(y, "resident")
                    BY <4>1 DEF finishRecall
                <5>2. QED
                    BY <5>1, <2>3, <2>1
            <4>2. CASE /\ OnTape(rec[y].tape) # None
                       /\ rec' = [rec EXCEPT ![y] = [rec[y] EXCEPT !.pc = "recalling",
                            !.to = IF SizeOf(OnTape(rec[y].tape)) # miginfo.size THEN "RESIDENT" ELSE rec[y].to]]
                <5>1. OnTape(rec[y].tape) \in Data
                    BY <4>2, <1>1 DEF OnTape, RecType, TapeType
                <5>2. CASE x = y
                    BY <4>2, <5>1, <5>2, <1>1 DEF RecType
                <5>3. CASE x # y
                    BY <4>2, <5>3, <2>1, <1>1
                <5>4. QED
                    BY <5>2, <5>3
            <4>3. QED
                BY <3>2, <4>1, <4>2, Zenon DEF RecallStarts
        <3>3. CASE RecallEvent(y)
            <4>1. CASE RecallGoes(y, "ok")
                BY <4>1, <2>3, <2>1
            <4>2. CASE rec' = [rec EXCEPT ![y] = [rec[y] EXCEPT !.pc = "adding",
                                                   !.tape = IF tapeInfo = <<>> THEN None ELSE tapeInfo[1]]]
                <5>1. [rec[y] EXCEPT !.pc = "adding", !.tape = IF tapeInfo = <<>> THEN None ELSE tapeInfo[1]].pc = "adding"
                    BY <1>1 DEF RecType
                <5>2. rec'[x] = rec[x]
                    BY <4>2, <5>1, <2>2
                <5>3. QED
                    BY <5>2, <2>1
            <4>3. QED
                BY <3>3, <4>1, <4>2 DEF RecallEvent
        <3>4. CASE \/ SelRecallEnds
                   \/ \E p \in {"recalled", "resident", "ok", "cleared", "failed", "lost", "job"} : RecallGoes(y, p)
            <4>1. CASE SelRecallEnds
                <5>1. rec' = [rec EXCEPT ![Sel] = NoRecall] /\ NoRecall.pc # "recalling" /\ Sel \in Recaller
                    BY <4>1 DEF SelRecallEnds, NoRecall, Recaller
                <5>2. QED
                    BY <5>1, <2>2, <2>1
            <4>2. QED
                BY <3>4, <4>1, <2>3, <2>1
        <3>5. QED
            BY <3>1, <3>2, <3>3, <3>4
               DEF RecallStep, RecallAddJob, RecallCopies, RecallFinishes, finishRecall,
                   RecallRemovesTapeInfo,
                   RecallRemovesState, RecallFails
    <2>7. CASE Restart
        BY <2>7, <1>3 DEF Restart, NoRecall
    <2>8. CASE AddMigration \/ MigrationEnds \/ (\E u \in Tape : MigrationStep(u)) \/ \E s \in Stater : StaterStep(s)
        <3>1. rec' = rec
            BY <2>8
               DEF AddMigration, MigrationEnds, StaterStep, getattr, recoverFirst,
                   recoverSecond,
                   MigrationStep, TransferOpens, TransferPrepares, TransferStarts,
                   TransferCopies, TransferChecks,
                   TransferFails, TransferSuspended, addTapeAttr, Sync, ChangeState,
                   StubTruncates, StubFails, StubFinishes
        <3>2. QED
            BY <3>1, <2>1
    <2>9. QED
        BY <2>4, <2>5, <2>6, <2>7, <2>8 DEF Next
<1>4. QED
    <2>1. SUFFICES ASSUME NEW x \in Recaller, rec'[x].pc = "recalling" PROVE OnTape(rec[x].tape)' \in Data
        BY DEF SourceType
    <2>2. rec'[x].tape = rec[x].tape /\ OnTape(rec[x].tape) \in Data
        BY <2>1, <1>3
    <2>3. CASE rec[x].tape = None
        BY <2>2, <2>3 DEF OnTape
    <2>4. CASE rec[x].tape # None
        <3>1. rec[x].tape \in Tape
            BY <2>4, <1>1 DEF RecType
        <3>2. QED
            BY <2>2, <2>4, <3>1, <1>2 DEF OnTape
    <2>5. QED
        BY <2>3, <2>4

(* Every variable keeps its type: every time and every data an attribute,  *)
(* a job or a tape can have is one of the file.                            *)
THEOREM FileTypeCorrect == Spec => []TypeOK
<1>1. Init => Types /\ SourceType
    BY InitTypes DEF Init, SourceType, NoRecall
<1>2. Types /\ SourceType /\ [Next]_vars => (Types /\ SourceType)'
    <2>1. CASE UNCHANGED vars
        BY <2>1 DEF Types, SourceType, FileType, TapeType, ContentType,
           LockType, StaterType, BoundType, OnTape,
                    vars, file, onTape, contents, locks, bounds
    <2>2. ASSUME Types, SourceType, Next PROVE (Types /\ SourceType)'
        BY <2>2, AppStepTypes, RecallStepTypes, MigrationTypes, RecoveryTypes,
           SourceKept DEF Next
    <2>3. QED
        BY <2>1, <2>2
<1>3. QED
    BY <1>1, <1>2, TypesOK, PTL DEF Spec

------------------------------------------------------------------------------
(* What ContentKept needs.  There is one replica.                          *)
OneReplica == \A t, u \in Tape : t = u

(* No two applications share an open file, and so its flock() locks.       *)
OwnHandles == \A a, b \in App : a # b => AppHandle[a] \notin {b, AppHandle[b]}

(* No two threads recover the state of a file at the same time.            *)
OneLookUp == \A s, z \in Stater : s = z

(* The data is on disk, or it is on tape.                                  *)
OnDisk == {"NONE", "RESIDENT", "IN_MIGRATION"}

Copied == {"PREMIGRATED", "STUBBING", "MIGRATED", "IN_RECALL"}

(* Where the data is in each state of the file.  The size in the attribute *)
(* is right from IN_MIGRATION on.                                          *)
DataInv ==
    /\ miginfo.state \in OnDisk => disk \in valid
    /\ miginfo.state = "IN_MIGRATION" => miginfo.size = SizeOf(disk)
    /\ \A t \in Tape : miginfo.state \in Copied =>
          /\ tapeInfo = <<t>> /\ tape[t] \in valid /\ t \in synced
          /\ miginfo.size = SizeOf(tape[t])
          /\ miginfo.state = "PREMIGRATED" => disk = tape[t]
          /\ miginfo.state = "STUBBING" => disk \in {Empty, tape[t]}
          /\ tape[t] = Empty => disk = Empty

(* What a migration job has done so far.                                   *)
Transfer == {"added", "opened", "prepared", "copying", "copied", "checked", "transferred"}

Stubbing == {"stubbing", "truncated"}

JobOf(t) ==
    /\ job[t].pc \in Transfer => miginfo.state \in OnDisk
    /\ job[t].pc \in {"opened", "prepared", "copying"} => tape[t] = Empty
    /\ job[t].pc = "copying" => job[t].seen = disk
    /\ job[t].pc \in {"copied", "checked", "transferred", "change"} => tape[t] = disk
    /\ job[t].pc = "change" => miginfo.state \in OnDisk \cup {"PREMIGRATED"} /\ t \in synced
    /\ job[t].pc = "stub" => miginfo.state = "PREMIGRATED" /\ rec[Sel].pc = "none"
    /\ job[t].pc \in Stubbing => miginfo.state = "STUBBING"
    /\ job[t].pc = "stubbing" => disk = tape[t]

(* What a recall has done so far.                                          *)
Recalls == {"recalling", "recalled"}

Clears == {"resident", "cleared"}

RecOf(x) ==
    /\ rec[x].pc \in Recalls => miginfo.state = "IN_RECALL" /\ rec[x].tape \in Tape
    /\ rec[x].pc = "recalled" => \A t \in Tape : disk = tape[t]
    /\ rec[x].pc \in Clears => miginfo.state \in {"NONE", "RESIDENT"}

(* What an operation has found out.  A file that is about to be changed is *)
(* not migrated, and has no attributes, or those of a resident file.       *)
Changing(a) ==
    /\ app[a].op # "read"
    /\ app[a].pc \in {"remove", "io", "relock"} \/ (app[a].pc = "recall" /\ rec[a].pc = "ok")

OpOf(a) ==
    /\ rec[a].pc # "none" <=> app[a].pc = "recall"
    /\ rec[a].pc # "none" => rec[a].to = IF app[a].op = "read" THEN "PREMIGRATED" ELSE "RESIDENT"
    /\ app[a].pc \in {"trec", "remove"} => handleOf(a) \in shared
    /\ app[a].pc = "remove" => app[a].op # "read"
    /\ Changing(a) => miginfo.state \in {"NONE", "RESIDENT"}
    /\ app[a].pc # "idle" /\ app[a].op # "read" => ~Migrating /\ miginfo.state # "IN_MIGRATION"

(* The main lock.                                                          *)
LockInv ==
    /\ Locked => shared = {}
    /\ \A x, y \in Recaller : rec[x].pc \in Recalls \cup Clears /\ rec[y].pc \in Recalls \cup Clears => x = y

(* Nobody works with a file whose state has to be recovered.               *)
Unused ==
    /\ \A a \in App : app[a].pc = "idle"
    /\ \A t \in Tape : job[t].pc = "none"
    /\ \A x \in Recaller : rec[x].pc = "none"

LookUpOf(s) ==
    stater[s].pc # "idle" =>
        /\ Unused /\ stater[s].state \in {"IN_MIGRATION", "STUBBING", "IN_RECALL"}
        /\ stater[s].pc = "first" => miginfo.state = stater[s].state
        /\ stater[s].pc = "second" /\ stater[s].state = "IN_MIGRATION" => miginfo.state = "IN_MIGRATION"
        /\ stater[s].pc = "second" /\ stater[s].state # "IN_MIGRATION" => miginfo.state = "MIGRATED"
        /\ stater[s].pc = "second" /\ stater[s].state = "STUBBING" => \A t \in Tape : disk \in {Empty, tape[t]}

RecoverInv ==
    /\ needsRecovery => Unused
    /\ miginfo.state = "STUBBING" => miginfo.old \/ \E t \in Tape : job[t].pc \in Stubbing
    /\ \A s \in Stater : LookUpOf(s)

FileInv ==
    /\ DataInv /\ LockInv /\ RecoverInv
    /\ \A t \in Tape : JobOf(t)
    /\ \A x \in Recaller : RecOf(x)
    /\ \A a \in App : OpOf(a)

(* The states of a recall in which it holds the main lock.                 *)
Held == Recalls \cup Clears

(* The state of one operation is set.                                      *)
LEMMA AppSet ==
    ASSUME app \in [App -> AppType], NEW a \in App, NEW p, app' = [app EXCEPT ![a].pc = p]
    PROVE  app'[a].pc = p /\ app'[a].op = app[a].op /\ \A b \in App : b # a => app'[b] = app[b]
BY DEF AppType

(* RecallGoes sets the state of one recall.                                *)
LEMMA RecSet ==
    ASSUME rec \in [Recaller -> RecType], NEW x \in Recaller, NEW p, RecallGoes(x, p)
    PROVE  /\ rec'[x].pc = p /\ rec'[x].to = rec[x].to /\ rec'[x].tape = rec[x].tape
           /\ \A y \in Recaller : y # x => rec'[y] = rec[y]
BY DEF RecallGoes, RecType

(* JobGoes sets the state of one job.                                      *)
LEMMA JobSet ==
    ASSUME job \in [Tape -> JobType], NEW t \in Tape, NEW p, JobGoes(t, p)
    PROVE  job'[t].pc = p /\ job'[t].seen = job[t].seen
BY DEF JobGoes, JobType

(* What setMigInfoAt writes.                                               *)
LEMMA AttrSet ==
    ASSUME FileType, NEW s, NEW m
    PROVE  /\ MigInfoAt(s, m).state = s /\ ~MigInfoAt(s, m).old
           /\ MigInfoAt(s, m).size = IF miginfo.state \in {"NONE", "RESIDENT"} THEN SizeOf(disk) ELSE miginfo.size
BY DEF FileType, MigInfo, MigInfoAt

(* A file somebody works with needs no recovery, and nobody recovers it.   *)
LEMMA Busy ==
    ASSUME RecoverInv,
           \/ \E a \in App : app[a].pc # "idle"
           \/ \E u \in Tape : job[u].pc # "none"
           \/ \E x \in Recaller : rec[x].pc # "none"
    PROVE  ~needsRecovery /\ \A s \in Stater : stater[s].pc = "idle"
BY DEF RecoverInv, Unused, LookUpOf

(* Then it is STUBBING only while its job holds the lock.                  *)
LEMMA NotStubbing ==
    ASSUME RecoverInv, ~needsRecovery, \A u \in Tape : job[u].pc \notin Stubbing
    PROVE  miginfo.state # "STUBBING"
BY DEF RecoverInv, needsRecovery

(* A state nobody recovers and that needs no recovery.                     *)
LEMMA Calm ==
    ASSUME \A s \in Stater : stater'[s].pc = "idle",
           ~miginfo'.old \/ miginfo'.state \notin {"IN_MIGRATION", "STUBBING", "IN_RECALL"},
           miginfo'.state = "STUBBING" => \E u \in Tape : job'[u].pc \in Stubbing
    PROVE  RecoverInv'
BY DEF RecoverInv, needsRecovery, LookUpOf

(* It stays one while the attributes are left alone.                       *)
LEMMA CalmSame ==
    ASSUME RecoverInv, ~needsRecovery, \A s \in Stater : stater[s].pc = "idle",
           stater' = stater, miginfo' = miginfo,
           \A u \in Tape : job[u].pc \in Stubbing => job'[u].pc \in Stubbing
    PROVE  RecoverInv'
BY DEF RecoverInv, needsRecovery, LookUpOf

(* An operation that another one leaves alone.                             *)
LEMMA OpKept ==
    ASSUME NEW b \in App, OpOf(b), rec'[b] = rec[b], app'[b].pc = app[b].pc, app'[b].op = app[b].op,
           handleOf(b) \in shared => handleOf(b) \in shared',
           miginfo.state \in {"NONE", "RESIDENT"} => miginfo'.state \in {"NONE", "RESIDENT"},
           miginfo'.state = "IN_MIGRATION" => miginfo.state = "IN_MIGRATION",
           Migrating' => Migrating
    PROVE  OpOf(b)'
<1>1. handleOf(b)' = handleOf(b)
    BY DEF handleOf, byPath
<1>2. QED
    BY <1>1 DEF OpOf, Changing

(* Nothing is said of a recall that does not hold the lock.                *)
LEMMA FreeRec == ASSUME NEW x \in Recaller, rec'[x].pc \notin Held PROVE RecOf(x)'
BY DEF RecOf, Held, Recalls, Clears

(* Two applications never have the same lock.                              *)
LEMMA HandlesApart ==
    ASSUME OwnHandles, NEW a \in App, NEW b \in App, a # b
    PROVE  handleOf(a) # handleOf(b) /\ a # handleOf(b)
BY DEF OwnHandles, handleOf

(* Steps that change nothing but the operation of an application, its      *)
(* locks and the recall it asks for.                                       *)
LEMMA AppOnly ==
    ASSUME FileInv, NEW a \in App,
           UNCHANGED <<disk, miginfo, tapeInfo, tape, synced, valid, job, stater>>,
           ~needsRecovery, \A s \in Stater : stater[s].pc = "idle",
           \A x \in Recaller : x # a => rec'[x] = rec[x],
           rec'[a].pc \notin Held, OpOf(a)',
           Locked => shared' \subseteq shared,
           \A b \in App : b # a => app'[b] = app[b] /\ (handleOf(b) \in shared => handleOf(b) \in shared')
    PROVE  FileInv'
<1>1. DataInv /\ LockInv /\ RecoverInv
    BY DEF FileInv
<1>2. DataInv'
    BY <1>1 DEF DataInv
<1>3. LockInv'
    <2>1. ASSUME NEW x \in Recaller, rec'[x].pc \in Held PROVE rec[x].pc \in Held
        BY <2>1
    <2>2. Locked' => Locked
        BY <2>1 DEF Locked, Held, Recalls, Clears
    <2>3. QED
        BY <1>1, <2>1, <2>2 DEF LockInv, Held
<1>4. RecoverInv'
    BY <1>1, CalmSame
<1>5. ASSUME NEW t \in Tape PROVE JobOf(t)'
    <2>1. rec'[Sel] = rec[Sel]
        BY FileAssumption DEF Recaller
    <2>2. QED
        BY <2>1 DEF JobOf, FileInv
<1>6. ASSUME NEW x \in Recaller PROVE RecOf(x)'
    <2>1. CASE x = a
        BY <2>1, FreeRec
    <2>2. CASE x # a
        BY <2>2 DEF RecOf, FileInv
    <2>3. QED
        BY <2>1, <2>2
<1>7. ASSUME NEW b \in App PROVE OpOf(b)'
    <2>1. CASE b # a
        <3>1. rec'[b] = rec[b] /\ OpOf(b) /\ (Migrating' => Migrating)
            BY <2>1 DEF Recaller, FileInv, Migrating
        <3>2. QED
            BY <2>1, <3>1, OpKept
    <2>2. QED
        BY <2>1
<1>8. QED
    BY <1>2, <1>3, <1>4, <1>5, <1>6, <1>7 DEF FileInv

(* Steps that change nothing but a recall that does not hold the lock.     *)
LEMMA RecOnly ==
    ASSUME FileInv, NEW x \in Recaller,
           UNCHANGED <<disk, miginfo, tapeInfo, tape, synced, valid, job, app, shared, stater>>,
           ~needsRecovery, \A s \in Stater : stater[s].pc = "idle",
           \A y \in Recaller : y # x => rec'[y] = rec[y],
           rec'[x].pc \notin Held,
           x \in App => OpOf(x)',
           x = Sel => rec'[x].pc = "none" \/ \A t \in Tape : job[t].pc # "stub"
    PROVE  FileInv'
<1>1. DataInv /\ LockInv /\ RecoverInv
    BY DEF FileInv
<1>2. DataInv'
    BY <1>1 DEF DataInv
<1>3. LockInv'
    <2>1. ASSUME NEW y \in Recaller, rec'[y].pc \in Held PROVE rec[y].pc \in Held
        BY <2>1
    <2>2. Locked' => Locked
        BY <2>1 DEF Locked, Held, Recalls, Clears
    <2>3. QED
        BY <1>1, <2>1, <2>2 DEF LockInv, Held
<1>4. RecoverInv'
    BY <1>1, CalmSame
<1>5. ASSUME NEW t \in Tape PROVE JobOf(t)'
    BY DEF JobOf, FileInv, Recaller
<1>6. ASSUME NEW y \in Recaller PROVE RecOf(y)'
    <2>1. CASE y = x
        BY <2>1, FreeRec
    <2>2. CASE y # x
        BY <2>2 DEF RecOf, FileInv
    <2>3. QED
        BY <2>1, <2>2
<1>7. ASSUME NEW b \in App PROVE OpOf(b)'
    <2>1. CASE b # x
        <3>1. rec'[b] = rec[b] /\ OpOf(b) /\ (Migrating' => Migrating)
            BY <2>1 DEF Recaller, FileInv, Migrating
        <3>2. QED
            BY <2>1, <3>1, OpKept
    <2>2. QED
        BY <2>1
<1>8. QED
    BY <1>2, <1>3, <1>4, <1>5, <1>6, <1>7 DEF FileInv

(* Steps that change nothing but the job, and a copy that does not count   *)
(* yet.                                                                    *)
LEMMA JobOnly ==
    ASSUME FileInv, NEW t \in Tape, Tape = {t},
           UNCHANGED <<disk, miginfo, valid, rec, app, shared, stater>>,
           miginfo.state \in OnDisk \/ UNCHANGED <<tapeInfo, tape, synced>>,
           ~needsRecovery, \A s \in Stater : stater[s].pc = "idle",
           job[t].pc \notin Stubbing, job'[t].pc \notin Stubbing,
           Migrating' => Migrating \/ \A a \in App : app[a].pc # "idle" => app[a].op = "read",
           JobOf(t)'
    PROVE  FileInv'
<1>1. DataInv /\ LockInv /\ RecoverInv
    BY DEF FileInv
<1>2. DataInv'
    BY <1>1 DEF DataInv, OnDisk, Copied
<1>3. LockInv'
    BY <1>1 DEF LockInv, Locked, Stubbing
<1>4. RecoverInv'
    BY <1>1, CalmSame
<1>5. ASSUME NEW x \in Recaller PROVE RecOf(x)'
    BY DEF RecOf, FileInv, OnDisk, Recalls, Clears
<1>6. ASSUME NEW b \in App PROVE OpOf(b)'
    <2>1. CASE Migrating' => Migrating
        BY <2>1, OpKept DEF FileInv
    <2>2. CASE \A a \in App : app[a].pc # "idle" => app[a].op = "read"
        <3>1. OpOf(b) /\ handleOf(b)' = handleOf(b)
            BY DEF FileInv, handleOf, byPath
        <3>2. QED
            BY <2>2, <3>1 DEF OpOf, Changing
    <2>3. QED
        BY <2>1, <2>2
<1>7. QED
    BY <1>2, <1>3, <1>4, <1>5, <1>6 DEF FileInv

(* Operations of applications.                                             *)
LEMMA AppKeeps ==
    ASSUME Types, FileInv, NEW t \in Tape, Tape = {t}, OwnHandles, Overlap = {},
           NEW a \in App, StartOp(a) \/ AppStep(a)
    PROVE  FileInv'
<1>1. FileType /\ TapeType /\ LockType /\ rec \in [Recaller -> RecType] /\ app \in [App -> AppType]
    BY DEF Types
<1>2. DataInv /\ LockInv /\ RecoverInv /\ OpOf(a) /\ JobOf(t)
    BY DEF FileInv
<1>3. a \in Recaller /\ a # Sel
    BY FileAssumption DEF Recaller
<1>4. Idle.pc = "idle" /\ Idle.op = "read" /\ NoRecall.pc = "none" /\ "none" \notin Held /\ "event" \notin Held
    BY DEF Idle, NoRecall, Held, Recalls, Clears
<1>5. ~needsRecovery /\ \A s \in Stater : stater[s].pc = "idle"
    <2>1. CASE StartOp(a)
        BY <2>1 DEF StartOp, LookedUp
    <2>2. CASE AppStep(a)
        <3>1. app[a].pc # "idle"
            BY <2>2 DEF AppStep, LockMain, CheckState, RemoveTapeInfo,
               RecallAnswered, RelockMain, ReadReturns,
                        ReadData, ChangeData
        <3>2. QED
            BY <3>1, <1>2, Busy
    <2>3. QED
        BY <2>1, <2>2
<1>6. ASSUME app[a].pc # "recall" PROVE rec[a].pc = "none" /\ rec[a].pc \notin Held
    BY <1>6, <1>2, <1>4 DEF OpOf
<1>7. \A b \in App : b # a => handleOf(b) # handleOf(a) /\ handleOf(b) # a
    BY HandlesApart
<1>8. ASSUME app[a].pc \in {"trec", "remove"}
      PROVE  /\ ~Locked /\ job[t].pc \notin Stubbing /\ miginfo.state # "STUBBING"
             /\ \A x \in Recaller : rec[x].pc \notin Held
    <2>1. ~Locked
        BY <1>8, <1>2 DEF OpOf, LockInv
    <2>2. job[t].pc \notin Stubbing /\ \A x \in Recaller : rec[x].pc \notin Held
        BY <2>1 DEF Locked, Stubbing, Held, Recalls, Clears
    <2>3. QED
        BY <2>1, <2>2, <1>5, <1>2, NotStubbing
<1>9. CASE StartOp(a)
    <2>1. PICK op \in AppOps : /\ Compatible(op)
                               /\ app' = [app EXCEPT ![a] = [pc |-> "main", op |-> op, expect |-> valid]]
        BY <1>9 DEF StartOp
    <2>2. app'[a].pc = "main" /\ app'[a].op = op /\ \A b \in App : b # a => app'[b] = app[b]
        BY <2>1, <1>1
    <2>3. /\ UNCHANGED <<disk, miginfo, tapeInfo, tape, synced, valid, job, stater, rec, shared>>
          /\ app[a].pc = "idle"
        BY <1>9 DEF StartOp, file, onTape, contents, locks
    <2>4. op # "read" => ~Migrating /\ miginfo.state # "IN_MIGRATION"
        BY <2>1 DEF Compatible
    <2>5. OpOf(a)'
        BY <2>2, <2>3, <2>4, <1>6 DEF OpOf, Changing, Migrating
    <2>6. QED
        BY <2>2, <2>3, <2>5, <1>5, <1>6, AppOnly
<1>10. CASE LockMain(a)
    <2>1. /\ UNCHANGED <<disk, miginfo, tapeInfo, tape, synced, valid, job, stater, rec>>
          /\ app[a].pc = "main" /\ ~Locked /\ shared' = shared \cup {handleOf(a)}
          /\ app' = [app EXCEPT ![a].pc = "trec"]
        BY <1>10 DEF LockMain, file, onTape, contents
    <2>2. app'[a].pc = "trec" /\ app'[a].op = app[a].op /\ \A b \in App : b # a => app'[b] = app[b]
        BY <2>1, <1>1, AppSet
    <2>3. handleOf(a)' = handleOf(a)
        BY <2>2 DEF handleOf, byPath
    <2>4. OpOf(a)'
        BY <2>1, <2>2, <2>3, <1>6, <1>2 DEF OpOf, Changing, Migrating
    <2>5. QED
        BY <2>1, <2>2, <2>4, <1>5, <1>6, AppOnly
<1>11. CASE /\ app[a].pc = "trec"
            /\ shared' = shared \ {handleOf(a)}
            /\ app' = [app EXCEPT ![a].pc = "recall"]
            /\ rec' = [rec EXCEPT ![a] = [pc |-> "event", tape |-> None,
                                           to |-> IF app[a].op = "read" THEN "PREMIGRATED" ELSE "RESIDENT"]]
            /\ UNCHANGED <<disk, miginfo, tapeInfo, tape, synced, valid, job, stater>>
    <2>1. app'[a].pc = "recall" /\ app'[a].op = app[a].op /\ \A b \in App : b # a => app'[b] = app[b]
        BY <1>11, <1>1, AppSet
    <2>2. /\ rec'[a].pc = "event" /\ rec'[a].to = IF app[a].op = "read" THEN "PREMIGRATED" ELSE "RESIDENT"
          /\ \A x \in Recaller : x # a => rec'[x] = rec[x]
        BY <1>11, <1>1, <1>3
    <2>3. OpOf(a)'
        BY <1>11, <2>1, <2>2, <1>2 DEF OpOf, Changing, Migrating
    <2>4. QED
        BY <1>11, <2>1, <2>2, <2>3, <1>5, <1>4, <1>7, AppOnly
<1>12. CASE /\ app[a].pc = "trec" /\ ~NeedsRecall(app[a].op) /\ RemovesAttributes(app[a].op)
            /\ miginfo' = NoAttr
            /\ valid' = IF toZero(app[a].op) THEN valid \cup {disk} ELSE valid
            /\ app' = [app EXCEPT ![a].pc = "remove"]
            /\ UNCHANGED <<disk, tapeInfo, tape, synced, job, stater, rec, shared>>
    <2>1. app'[a].pc = "remove" /\ app'[a].op = app[a].op /\ \A b \in App : b # a => app'[b] = app[b]
        BY <1>12, <1>1, AppSet
    <2>2. app[a].op # "read" /\ ~Migrating /\ miginfo.state # "IN_MIGRATION"
        BY <1>12, <1>2 DEF RemovesAttributes, OpOf
    <2>3. miginfo'.state = "NONE" /\ ~miginfo'.old
        BY <1>12 DEF NoAttr
    <2>4. disk \in valid'
        <3>1. CASE toZero(app[a].op)
            BY <1>12, <3>1
        <3>2. CASE ~toZero(app[a].op)
            <4>1. miginfo.state \in {"NONE", "RESIDENT", "PREMIGRATED"}
                BY <1>12, <3>2, <2>2, <1>8, <1>1 DEF NeedsRecall, FileType,
                   MigInfo, MigState
            <4>2. QED
                BY <1>12, <3>2, <4>1, <1>2 DEF DataInv, OnDisk, Copied
        <3>3. QED
            BY <3>1, <3>2
    <2>5. DataInv'
        BY <1>12, <2>3, <2>4 DEF DataInv, Copied
    <2>6. LockInv'
        BY <1>12, <1>2 DEF LockInv, Locked
    <2>7. RecoverInv'
        BY <1>12, <2>3, <1>5, Calm
    <2>8. JobOf(t)'
        BY <1>12, <2>2 DEF JobOf, Migrating, Transfer, Stubbing
    <2>9. ASSUME NEW x \in Recaller PROVE RecOf(x)'
        BY <1>12, <1>8, FreeRec
    <2>10. ASSUME NEW b \in App PROVE OpOf(b)'
        <3>1. CASE b = a
            <4>1. handleOf(a)' = handleOf(a)
                BY <2>1 DEF handleOf, byPath
            <4>2. QED
                BY <3>1, <4>1, <1>12, <2>1, <2>2, <2>3, <1>2 DEF OpOf, Changing,
                   Migrating
        <3>2. CASE b # a
            BY <3>2, <1>12, <2>1, <2>3, OpKept DEF FileInv, Migrating
        <3>3. QED
            BY <3>1, <3>2
    <2>11. QED
        BY <2>5, <2>6, <2>7, <2>8, <2>9, <2>10 DEF FileInv
<1>13. CASE /\ app[a].pc = "trec" /\ ~NeedsRecall(app[a].op) /\ ~RemovesAttributes(app[a].op)
            /\ LeaveScope(a, shared)
            /\ app' = [app EXCEPT ![a].pc = "io"]
            /\ UNCHANGED <<disk, miginfo, tapeInfo, tape, synced, valid, job, stater, rec>>
    <2>1. app'[a].pc = "io" /\ app'[a].op = app[a].op /\ \A b \in App : b # a => app'[b] = app[b]
        BY <1>13, <1>1, AppSet
    <2>2. shared' \subseteq shared /\ \A b \in App : b # a => (handleOf(b) \in shared => handleOf(b) \in shared')
        BY <1>13, <1>7 DEF LeaveScope
    <2>3. app[a].op # "read" => miginfo.state \in {"NONE", "RESIDENT"}
        BY <1>13, <1>8, <1>2, <1>1
           DEF NeedsRecall, RemovesAttributes, toZero, OpOf, FileType, MigInfo, MigState
    <2>4. OpOf(a)'
        BY <1>13, <2>1, <2>3, <1>6, <1>2 DEF OpOf, Changing, Migrating
    <2>5. QED
        BY <1>13, <2>1, <2>2, <2>4, <1>5, <1>6, AppOnly
<1>14. CASE RemoveTapeInfo(a)
    <2>1. /\ UNCHANGED <<disk, miginfo, tape, synced, valid, job, stater, rec>>
          /\ app[a].pc = "remove"
          /\ \/ LeaveScope(a, shared) /\ app' = [app EXCEPT ![a].pc = "io"]
             \/ shared' = shared \ {handleOf(a)} /\ app' = [app EXCEPT ![a] = Idle]
        BY <1>14 DEF RemoveTapeInfo, onTape, contents
    <2>2. /\ app'[a].pc \in {"io", "idle"} /\ app'[a].op \in {app[a].op, "read"}
          /\ \A b \in App : b # a => app'[b] = app[b]
        BY <2>1, <1>1, <1>4, AppSet
    <2>3. shared' \subseteq shared /\ \A b \in App : b # a => (handleOf(b) \in shared => handleOf(b) \in shared')
        BY <2>1, <1>7 DEF LeaveScope
    <2>4. miginfo.state \in {"NONE", "RESIDENT"}
        BY <2>1, <1>2 DEF OpOf, Changing
    <2>5. DataInv'
        BY <2>1, <2>4, <1>2 DEF DataInv, OnDisk, Copied
    <2>6. LockInv'
        BY <2>1, <2>3, <1>2 DEF LockInv, Locked
    <2>7. RecoverInv'
        BY <2>1, <1>2, <1>5, CalmSame
    <2>8. JobOf(t)'
        BY <2>1, <1>2 DEF JobOf
    <2>9. ASSUME NEW x \in Recaller PROVE RecOf(x)'
        BY <2>1 DEF FileInv, RecOf
    <2>10. ASSUME NEW b \in App PROVE OpOf(b)'
        <3>1. CASE b = a
            BY <3>1, <2>1, <2>2, <2>4, <1>2, <1>6 DEF OpOf, Changing, Migrating
        <3>2. CASE b # a
            BY <3>2, <2>1, <2>2, <2>3, OpKept DEF FileInv, Migrating
        <3>3. QED
            BY <3>1, <3>2
    <2>11. QED
        BY <2>5, <2>6, <2>7, <2>8, <2>9, <2>10 DEF FileInv
<1>15. CASE RecallAnswered(a)
    <2>1. /\ UNCHANGED <<disk, miginfo, tapeInfo, tape, synced, valid, job, stater, shared>>
          /\ app[a].pc = "recall" /\ rec' = [rec EXCEPT ![a] = NoRecall]
          /\ \/ rec[a].pc = "ok" /\ app' = [app EXCEPT ![a].pc = "relock"]
             \/ app' = [app EXCEPT ![a] = Idle]
        BY <1>15 DEF RecallAnswered, file, onTape, contents
    <2>2. /\ \/ rec[a].pc = "ok" /\ app'[a].pc = "relock" /\ app'[a].op = app[a].op
             \/ app'[a].pc = "idle"
          /\ \A b \in App : b # a => app'[b] = app[b]
        BY <2>1, <1>1, <1>4, AppSet
    <2>3. rec'[a].pc = "none" /\ \A x \in Recaller : x # a => rec'[x] = rec[x]
        BY <2>1, <1>1, <1>3, <1>4
    <2>4. OpOf(a)'
        BY <2>1, <2>2, <2>3, <1>2 DEF OpOf, Changing, Migrating
    <2>5. QED
        BY <2>1, <2>2, <2>3, <2>4, <1>5, <1>4, AppOnly
<1>16. CASE RelockMain(a)
    <2>1. /\ UNCHANGED <<disk, miginfo, tapeInfo, tape, synced, valid, job, stater, rec>>
          /\ app[a].pc = "relock" /\ ~Locked /\ LeaveScope(a, shared \cup {handleOf(a)})
          /\ app' = [app EXCEPT ![a].pc = "io"]
        BY <1>16 DEF RelockMain, file, onTape, contents
    <2>2. app'[a].pc = "io" /\ app'[a].op = app[a].op /\ \A b \in App : b # a => app'[b] = app[b]
        BY <2>1, <1>1, AppSet
    <2>3. \A b \in App : b # a => (handleOf(b) \in shared => handleOf(b) \in shared')
        BY <2>1, <1>7 DEF LeaveScope
    <2>4. OpOf(a)'
        BY <2>1, <2>2, <1>6, <1>2 DEF OpOf, Changing, Migrating
    <2>5. QED
        BY <2>1, <2>2, <2>3, <2>4, <1>5, <1>6, AppOnly
<1>17. CASE ReadReturns(a)
    <2>1. /\ UNCHANGED <<disk, miginfo, tapeInfo, tape, synced, valid, job, stater, rec>>
          /\ app[a].pc = "io" /\ app[a].op = "read" /\ shared' = shared \ {handleOf(a)}
          /\ app' = [app EXCEPT ![a].pc = "reply"]
        BY <1>17 DEF ReadReturns, file, onTape, contents
    <2>2. app'[a].pc = "reply" /\ app'[a].op = app[a].op /\ \A b \in App : b # a => app'[b] = app[b]
        BY <2>1, <1>1, AppSet
    <2>3. OpOf(a)'
        BY <2>1, <2>2, <1>6, <1>2 DEF OpOf, Changing, Migrating
    <2>4. QED
        BY <2>1, <2>2, <2>3, <1>5, <1>6, <1>7, AppOnly
<1>18. CASE ReadData(a)
    <2>1. /\ UNCHANGED <<disk, miginfo, tapeInfo, tape, synced, valid, job, stater, rec, shared>>
          /\ app[a].pc = "reply" /\ app' = [app EXCEPT ![a] = Idle]
        BY <1>18 DEF ReadData, file, onTape, contents, locks
    <2>2. app'[a].pc = "idle" /\ \A b \in App : b # a => app'[b] = app[b]
        BY <2>1, <1>1, <1>4
    <2>3. OpOf(a)'
        BY <2>1, <2>2, <1>6 DEF OpOf, Changing, Migrating
    <2>4. QED
        BY <2>1, <2>2, <2>3, <1>5, <1>6, AppOnly
<1>19. CASE ChangeData(a)
    <2>1. /\ UNCHANGED <<miginfo, tapeInfo, tape, synced, job, stater, rec>>
          /\ app[a].pc = "io" /\ app[a].op # "read" /\ shared' = shared \ {handleOf(a)}
          /\ disk' = IF toZero(app[a].op) THEN Empty ELSE IF disk \in valid THEN changes + 1 ELSE Partial
          /\ valid' = IF toZero(app[a].op) THEN {Empty} ELSE {changes + 1}
          /\ app' = [b \in App |-> IF b = a THEN Idle ELSE [app[b] EXCEPT !.expect = @ \cup valid']]
        BY <1>19 DEF ChangeData, onTape
    <2>2. app'[a].pc = "idle" /\ \A b \in App : b # a => app'[b].pc = app[b].pc /\ app'[b].op = app[b].op
        BY <2>1, <1>1, <1>4 DEF AppType
    <2>3. miginfo.state \in {"NONE", "RESIDENT"} /\ ~Migrating
        BY <2>1, <1>2 DEF OpOf, Changing
    <2>4. disk \in valid
        BY <2>3, <1>2 DEF DataInv, OnDisk
    <2>5. DataInv'
        BY <2>1, <2>3, <2>4 DEF DataInv, OnDisk, Copied
    <2>6. LockInv'
        BY <2>1, <1>2 DEF LockInv, Locked
    <2>7. RecoverInv'
        BY <2>1, <1>2, <1>5, CalmSame
    <2>8. JobOf(t)'
        BY <2>1, <2>3 DEF JobOf, Migrating, Transfer, Stubbing
    <2>9. ASSUME NEW x \in Recaller PROVE RecOf(x)'
        BY <2>1, <2>3 DEF FileInv, RecOf, Recalls
    <2>10. ASSUME NEW b \in App PROVE OpOf(b)'
        <3>1. CASE b = a
            BY <3>1, <2>1, <2>2, <1>6 DEF OpOf, Changing
        <3>2. CASE b # a
            BY <3>2, <2>1, <2>2, <1>7, OpKept DEF FileInv, Migrating
        <3>3. QED
            BY <3>1, <3>2
    <2>11. QED
        BY <2>5, <2>6, <2>7, <2>8, <2>9, <2>10 DEF FileInv
<1>20. CASE CheckState(a)
    BY <1>20, <1>11, <1>12, <1>13 DEF CheckState, onTape
<1>21. QED
    BY <1>9, <1>10, <1>20, <1>14, <1>15, <1>16, <1>17, <1>18, <1>19
       DEF AppStep

(* Recalls.                                                                *)
LEMMA RecallKeeps ==
    ASSUME Types, FileInv, NEW t \in Tape, Tape = {t}, Overlap = {},
           (\E x \in Recaller : RecallStep(x)) \/ AddSelRecall
    PROVE  FileInv'
<1>1. FileType /\ TapeType /\ rec \in [Recaller -> RecType] /\ None # t
    BY FileAssumption DEF Types
<1>2. DataInv /\ LockInv /\ RecoverInv /\ JobOf(t)
    BY DEF FileInv
<1>3. Sel \in Recaller /\ Sel \notin App /\ \A x \in Recaller : x # Sel => x \in App
    BY FileAssumption DEF Recaller
<1>4. /\ NoRecall.pc = "none"
      /\ \A p \in {"none", "event", "adding", "lost", "job", "ok", "failed"} : p \notin Held
    BY DEF NoRecall, Held, Recalls, Clears
<1>5. CASE AddSelRecall
    <2>1. /\ UNCHANGED <<disk, miginfo, tapeInfo, tape, synced, valid, job, app, shared, stater>>
          /\ ~needsRecovery /\ (\A s \in Stater : stater[s].pc = "idle") /\ \A u \in Tape : job[u].pc # "stub"
        BY <1>5 DEF AddSelRecall, LookedUp, file, onTape, contents, locks
    <2>2. PICK to \in {"PREMIGRATED", "RESIDENT"} :
            rec' = [rec EXCEPT ![Sel] = [pc |-> "job", to |-> to,
                                          tape |-> IF tapeInfo = <<>> THEN None ELSE tapeInfo[1]]]
        BY <1>5 DEF AddSelRecall
    <2>3. rec'[Sel].pc = "job" /\ \A y \in Recaller : y # Sel => rec'[y] = rec[y]
        BY <2>2, <1>1, <1>3
    <2>4. QED
        BY <2>1, <2>3, <1>3, <1>4, RecOnly
<1>6. ASSUME NEW x \in Recaller, RecallStep(x) PROVE FileInv'
    <2>1. UNCHANGED <<tape, synced, valid, job, app, shared, stater>>
        BY <1>6 DEF RecallStep, RecallEvent, RecallAddJob, RecallStarts,
           RecallCopies, RecallFinishes,
           RecallRemovesTapeInfo, RecallRemovesState, RecallFails, SelRecallEnds,
           onTape, contents, locks
    <2>2. rec[x].pc # "none"
        BY <1>6 DEF RecallStep, RecallEvent, RecallAddJob, RecallStarts,
           RecallCopies, RecallFinishes,
           RecallRemovesTapeInfo, RecallRemovesState, RecallFails, SelRecallEnds
    <2>3. ~needsRecovery /\ \A s \in Stater : stater[s].pc = "idle"
        BY <2>2, <1>2, Busy
    <2>4. x \in App => OpOf(x) /\ app[x].pc = "recall"
        BY <2>2 DEF FileInv, OpOf
    <2>5. ASSUME ~miginfo'.old, miginfo'.state # "STUBBING" PROVE RecoverInv'
        BY <2>5, <2>1, <2>3, Calm
    <2>6. ASSUME CanLock
          PROVE  /\ shared = {} /\ miginfo.state # "STUBBING" /\ job[t].pc \notin Stubbing
                 /\ \A y \in Recaller : rec[y].pc \notin Held
        <3>1. job[t].pc \notin Stubbing /\ \A y \in Recaller : rec[y].pc \notin Held
            BY <2>6 DEF CanLock, Locked, Stubbing, Held, Recalls, Clears
        <3>2. QED
            BY <3>1, <2>6, <2>3, <1>2, NotStubbing DEF CanLock
    <2>7. ASSUME \A y \in Recaller : y # x => rec[y].pc \notin Held /\ rec'[y] = rec[y], shared = {}
          PROVE  LockInv' /\ \A y \in Recaller : y # x => RecOf(y)'
        BY <2>7, <2>1, FreeRec DEF LockInv, Held
    <2>8. ASSUME rec[x].pc \in Held PROVE shared = {} /\ \A y \in Recaller : y # x => rec[y].pc \notin Held
        <3>1. Locked
            BY <2>8 DEF Locked, Held, Recalls, Clears
        <3>2. QED
            BY <3>1, <2>8, <1>2 DEF LockInv, Held
    <2>9. ASSUME \A y \in Recaller : y # x => rec'[y] = rec[y],
                 miginfo.state \in {"NONE", "RESIDENT"} => miginfo'.state \in {"NONE", "RESIDENT"},
                 miginfo'.state # "IN_MIGRATION"
          PROVE  \A b \in App : b # x => OpOf(b)'
        BY <2>9, <2>1, OpKept DEF FileInv, Migrating, handleOf, Recaller
    <2>10. ASSUME rec'[x].pc # "none", rec'[x].to = rec[x].to,
                  app[x].op # "read" /\ rec'[x].pc = "ok" => miginfo'.state \in {"NONE", "RESIDENT"},
                  miginfo'.state = "IN_MIGRATION" => miginfo.state = "IN_MIGRATION"
           PROVE  x \in App => OpOf(x)'
        BY <2>10, <2>1, <2>4 DEF OpOf, Changing, Migrating
    <2>11. ASSUME getMigState = "RESIDENT"
           PROVE  /\ miginfo.state \in OnDisk
                  /\ x \in App /\ app[x].op # "read" => miginfo.state \in {"NONE", "RESIDENT"}
        <3>1. miginfo.state \in OnDisk
            BY <2>11, <1>1 DEF getMigState, OnDisk, FileType, MigInfo, MigState
        <3>2. QED
            BY <3>1, <2>4 DEF OpOf, OnDisk
    <2>12. ASSUME UNCHANGED <<disk, miginfo, tapeInfo>>, NEW p \in {"adding", "lost", "job", "ok", "failed"},
                  rec'[x].pc = p, rec'[x].to = rec[x].to, \A y \in Recaller : y # x => rec'[y] = rec[y],
                  x \in App /\ app[x].op # "read" /\ p = "ok" => miginfo.state \in {"NONE", "RESIDENT"}
           PROVE  FileInv'
        <3>1. x \in App => OpOf(x)'
            BY <2>12, <2>1, <2>4 DEF OpOf, Changing, Migrating
        <3>2. x = Sel => job[t].pc # "stub"
            BY <2>2, <1>2 DEF JobOf
        <3>3. QED
            BY <3>1, <3>2, <2>12, <2>1, <2>3, <1>4, RecOnly
    <2>13. CASE RecallEvent(x)
        <3>1. CASE getMigState = "RESIDENT" /\ miginfo' = MigInfoAt("RESIDENT", miginfo.mtime) /\ RecallGoes(x, "ok")
            <4>1. disk' = disk /\ tapeInfo' = tapeInfo
                BY <2>13 DEF RecallEvent
            <4>2. miginfo'.state = "RESIDENT" /\ ~miginfo'.old /\ miginfo.state \in OnDisk
                BY <3>1, <1>1, <2>11, AttrSet
            <4>3. /\ rec'[x].pc = "ok" /\ rec'[x].to = rec[x].to
                  /\ \A y \in Recaller : y # x => rec'[y] = rec[y]
                BY <3>1, <1>1, RecSet
            <4>4. DataInv'
                BY <4>1, <4>2, <2>1, <1>2 DEF DataInv, OnDisk, Copied
            <4>5. LockInv'
                BY <4>3, <2>1, <1>2, <1>4 DEF LockInv, Locked, Held, Recalls, Clears
            <4>6. RecoverInv'
                BY <4>2, <2>5
            <4>7. JobOf(t)'
                <5>1. x = Sel \/ rec'[Sel] = rec[Sel]
                    BY <4>3, <1>3
                <5>2. QED
                    BY <4>1, <4>2, <5>1, <2>1, <1>2 DEF JobOf, OnDisk
            <4>8. ASSUME NEW y \in Recaller PROVE RecOf(y)'
                <5>1. CASE y = x
                    BY <5>1, <4>3, <1>4, FreeRec
                <5>2. CASE y # x
                    BY <5>2, <4>2, <4>3 DEF FileInv, RecOf, Recalls, Clears, OnDisk
                <5>3. QED
                    BY <5>1, <5>2
            <4>9. ASSUME NEW b \in App PROVE OpOf(b)'
                BY <4>2, <4>3, <2>9, <2>10
            <4>10. QED
                BY <4>4, <4>5, <4>6, <4>7, <4>8, <4>9 DEF FileInv
        <3>2. CASE /\ rec' = [rec EXCEPT ![x] = [rec[x] EXCEPT !.pc = "adding",
                                                  !.tape = IF tapeInfo = <<>> THEN None ELSE tapeInfo[1]]]
                   /\ UNCHANGED <<mtime, miginfo>>
            <4>1. /\ rec'[x].pc = "adding" /\ rec'[x].to = rec[x].to
                  /\ \A y \in Recaller : y # x => rec'[y] = rec[y]
                BY <3>2, <1>1 DEF RecType
            <4>2. UNCHANGED <<disk, tapeInfo>>
                BY <2>13 DEF RecallEvent
            <4>3. QED
                BY <3>2, <4>1, <4>2, <2>12
        <3>3. QED
            BY <3>1, <3>2, <2>13 DEF RecallEvent
    <2>14. CASE RecallAddJob(x)
        <3>1. UNCHANGED <<disk, miginfo, tapeInfo>>
            BY <2>14 DEF RecallAddJob, file
        <3>2. PICK p \in {"lost", "job", "ok"} : RecallGoes(x, p) /\ (p = "ok" => getMigState = "RESIDENT")
            BY <2>14 DEF RecallAddJob
        <3>3. QED
            BY <3>1, <3>2, <1>1, <2>12, <2>11, RecSet
    <2>15. ASSUME finishRecall(x), miginfo.state \in {"PREMIGRATED", "IN_RECALL"}, disk = tape[t],
                  UNCHANGED <<disk, tapeInfo>>, shared = {}, job[t].pc \notin Stubbing,
                  \A y \in Recaller : y # x => rec[y].pc \notin Held
           PROVE  FileInv'
        <3>1. /\ ~miginfo'.old /\ miginfo'.size = miginfo.size
              /\ \/ miginfo'.state = "PREMIGRATED" /\ rec[x].to = "PREMIGRATED" /\ RecallGoes(x, "ok")
                 \/ miginfo'.state = "RESIDENT" /\ rec[x].to = "RESIDENT" /\ RecallGoes(x, "resident")
            BY <2>15, <1>1, AttrSet DEF finishRecall, setMigInfoAt
        <3>2. /\ rec'[x].pc = IF miginfo'.state = "RESIDENT" THEN "resident" ELSE "ok"
              /\ rec'[x].to = rec[x].to /\ \A y \in Recaller : y # x => rec'[y] = rec[y]
            BY <3>1, <1>1, RecSet
        <3>3. DataInv'
            BY <3>1, <2>15, <2>1, <1>2 DEF DataInv, OnDisk, Copied
        <3>4. LockInv' /\ \A y \in Recaller : y # x => RecOf(y)'
            BY <3>2, <2>15, <2>7
        <3>5. RecoverInv'
            BY <3>1, <2>5
        <3>6. RecOf(x)'
            BY <3>1, <3>2 DEF RecOf, Recalls, Clears
        <3>7. ASSUME NEW b \in App PROVE OpOf(b)'
            <4>1. b # x => OpOf(b)'
                BY <3>1, <3>2, <2>15, <2>9
            <4>2. x \in App => OpOf(x)'
                BY <3>1, <3>2, <2>4, <2>2, <2>10 DEF OpOf
            <4>3. QED
                BY <4>1, <4>2
        <3>8. JobOf(t)'
            <4>1. job[t].pc \notin Transfer
                BY <2>15, <1>2 DEF JobOf, OnDisk
            <4>2. CASE miginfo'.state = "PREMIGRATED"
                <5>1. job[t].pc = "stub" => rec'[Sel].pc = "none"
                    BY <3>2, <2>2, <1>2, <1>3 DEF JobOf
                <5>2. QED
                    BY <4>1, <4>2, <5>1, <2>15, <2>1, <1>2 DEF JobOf, Transfer,
                       Stubbing
            <4>3. CASE miginfo'.state = "RESIDENT"
                <5>1. job[t].pc # "stub"
                    <6>1. CASE x = Sel
                        BY <6>1, <2>2, <1>2 DEF JobOf
                    <6>2. CASE x \in App
                        BY <6>2, <3>1, <4>3, <2>4, <2>2 DEF OpOf, Migrating
                    <6>3. QED
                        BY <6>1, <6>2, <1>3
                <5>2. QED
                    BY <4>1, <4>3, <5>1, <2>15, <2>1, <1>2 DEF JobOf, Transfer,
                       Stubbing, OnDisk
            <4>4. QED
                BY <4>2, <4>3, <3>1
        <3>9. QED
            BY <3>3, <3>4, <3>5, <3>6, <3>7, <3>8 DEF FileInv
    <2>16. ASSUME miginfo.state \in {"MIGRATED", "IN_RECALL"}, miginfo'.state = "IN_RECALL",
                  miginfo'.size = miginfo.size, miginfo' = miginfo \/ ~miginfo'.old,
                  tape[t] = Empty => disk' = disk, tapeInfo' = tapeInfo,
                  shared = {}, \A y \in Recaller : y # x => rec[y].pc \notin Held /\ rec'[y] = rec[y],
                  rec'[x].pc \in Recalls, rec'[x].to = rec[x].to, rec'[x].tape \in Tape,
                  rec'[x].pc = "recalled" => disk' = tape[t]
           PROVE  FileInv'
        <3>1. DataInv'
            BY <2>16, <2>1, <1>2 DEF DataInv, OnDisk, Copied
        <3>2. LockInv' /\ \A y \in Recaller : y # x => RecOf(y)'
            BY <2>16, <2>7
        <3>3. ~miginfo'.old
            BY <2>16, <2>3 DEF needsRecovery
        <3>4. RecoverInv'
            BY <3>3, <2>16, <2>5
        <3>5. RecOf(x)'
            BY <2>16, <2>1 DEF RecOf, Recalls, Clears
        <3>6. ASSUME NEW b \in App PROVE OpOf(b)'
            BY <2>16, <2>9, <2>10 DEF Recalls
        <3>7. JobOf(t)'
            <4>1. job[t].pc \notin Transfer \cup Stubbing \cup {"change", "stub"}
                BY <2>16, <1>2 DEF JobOf, OnDisk
            <4>2. QED
                BY <4>1, <2>1 DEF JobOf, Transfer, Stubbing
        <3>8. QED
            BY <3>1, <3>2, <3>4, <3>5, <3>6, <3>7 DEF FileInv
    <2>17. CASE RecallStarts(x)
        <3>1. CanLock
            BY <2>17 DEF RecallStarts
        <3>2. CASE getMigState = "RESIDENT" /\ RecallGoes(x, "ok") /\ UNCHANGED file
            BY <3>2, <1>1, <2>12, <2>11, RecSet DEF file
        <3>3. CASE getMigState = "PREMIGRATED" /\ finishRecall(x) /\ UNCHANGED <<disk, tapeInfo>>
            <4>1. miginfo.state = "PREMIGRATED"
                BY <3>1, <3>3, <2>6, <1>1 DEF getMigState, FileType, MigInfo,
                   MigState
            <4>2. disk = tape[t]
                BY <4>1, <1>2 DEF DataInv, Copied
            <4>3. QED
                BY <3>1, <3>3, <4>1, <4>2, <2>6, <2>15
        <3>4. CASE /\ getMigState = "MIGRATED" /\ OnTape(rec[x].tape) # None
                   /\ rec' = [rec EXCEPT ![x] = [rec[x] EXCEPT !.pc = "recalling",
                         !.to = IF SizeOf(OnTape(rec[x].tape)) # miginfo.size THEN "RESIDENT" ELSE rec[x].to]]
                   /\ setMigInfoAt("IN_RECALL")
                   /\ disk' = IF OnTape(rec[x].tape) = Empty THEN disk ELSE Partial
                   /\ UNCHANGED tapeInfo
            <4>1. rec[x].tape = t /\ OnTape(rec[x].tape) = tape[t]
                BY <3>4, <1>1 DEF OnTape, RecType
            <4>2. miginfo.state \in {"MIGRATED", "IN_RECALL"}
                BY <3>4, <1>1 DEF getMigState, FileType, MigInfo, MigState
            <4>3. SizeOf(tape[t]) = miginfo.size
                BY <4>2, <1>2 DEF DataInv, Copied
            <4>4. /\ rec'[x].pc = "recalling" /\ rec'[x].to = rec[x].to /\ rec'[x].tape = t
                  /\ \A y \in Recaller : y # x => rec'[y] = rec[y]
                BY <3>4, <4>1, <4>3, <1>1 DEF RecType
            <4>5. miginfo'.state = "IN_RECALL" /\ ~miginfo'.old /\ miginfo'.size = miginfo.size
                BY <3>4, <4>2, <1>1, AttrSet DEF setMigInfoAt
            <4>6. "recalling" \in Recalls /\ "recalling" # "recalled" /\ (tape[t] = Empty => disk' = disk)
                BY <3>4, <4>1 DEF Recalls
            <4>7. QED
                BY <3>1, <3>4, <4>2, <4>4, <4>5, <4>6, <2>6, <2>16
        <3>5. QED
            BY <2>17, <3>2, <3>3, <3>4 DEF RecallStarts
    <2>18. CASE RecallCopies(x)
        <3>1. /\ rec[x].pc = "recalling" /\ disk' = IF OnTape(rec[x].tape) = Empty THEN disk ELSE OnTape(rec[x].tape)
              /\ RecallGoes(x, "recalled") /\ UNCHANGED <<miginfo, tapeInfo>>
            BY <2>18 DEF RecallCopies
        <3>2. RecOf(x) /\ rec[x].pc \in Recalls /\ rec[x].pc \in Held
            BY <3>1 DEF FileInv, Held, Recalls
        <3>3. miginfo.state = "IN_RECALL" /\ rec[x].tape = t /\ OnTape(rec[x].tape) = tape[t]
            BY <3>2, <1>1 DEF RecOf, OnTape
        <3>4. tape[t] = Empty => disk = Empty
            BY <3>3, <1>2 DEF DataInv, Copied
        <3>5. disk' = tape[t] /\ (tape[t] = Empty => disk' = disk)
            BY <3>1, <3>3, <3>4
        <3>6. /\ rec'[x].pc = "recalled" /\ rec'[x].to = rec[x].to /\ rec'[x].tape = t
              /\ \A y \in Recaller : y # x => rec'[y] = rec[y]
            BY <3>1, <3>3, <1>1, RecSet
        <3>7. "recalled" \in Recalls
            BY DEF Recalls
        <3>8. QED
            BY <3>1, <3>2, <3>3, <3>5, <3>6, <3>7, <2>8, <2>16
    <2>19. CASE RecallFinishes(x)
        <3>1. rec[x].pc = "recalled" /\ finishRecall(x) /\ UNCHANGED <<disk, tapeInfo>>
            BY <2>19 DEF RecallFinishes
        <3>2. RecOf(x) /\ rec[x].pc \in Recalls /\ rec[x].pc \in Held
            BY <3>1 DEF FileInv, Held, Recalls
        <3>3. miginfo.state = "IN_RECALL" /\ disk = tape[t]
            BY <3>1, <3>2 DEF RecOf
        <3>4. job[t].pc \notin Stubbing
            BY <3>3, <1>2 DEF JobOf
        <3>5. QED
            BY <3>1, <3>2, <3>3, <3>4, <2>8, <2>15
    <2>20. ASSUME miginfo.state \in {"NONE", "RESIDENT"}, miginfo'.state \in {"NONE", "RESIDENT"},
                  rec[x].pc \in Held, disk' = disk, NEW p \in {"cleared", "ok"}, RecallGoes(x, p)
           PROVE  FileInv'
        <3>1. /\ rec'[x].pc = p /\ rec'[x].to = rec[x].to
              /\ \A y \in Recaller : y # x => rec'[y] = rec[y]
            BY <2>20, <1>1, RecSet
        <3>2. DataInv'
            BY <2>20, <2>1, <1>2 DEF DataInv, OnDisk, Copied
        <3>3. LockInv' /\ \A y \in Recaller : y # x => RecOf(y)'
            BY <3>1, <2>20, <2>8, <2>7
        <3>4. RecoverInv'
            BY <2>20, <2>1, <2>3, Calm
        <3>5. RecOf(x)'
            BY <3>1, <2>20 DEF RecOf, Recalls, Clears
        <3>6. ASSUME NEW b \in App PROVE OpOf(b)'
            BY <3>1, <2>20, <2>9, <2>10
        <3>7. JobOf(t)'
            <4>1. job[t].pc \notin Stubbing \cup {"stub"}
                BY <2>20, <1>2 DEF JobOf
            <4>2. QED
                BY <4>1, <2>20, <2>1, <1>2 DEF JobOf, Stubbing, OnDisk
        <3>8. QED
            BY <3>2, <3>3, <3>4, <3>5, <3>6, <3>7 DEF FileInv
    <2>21. CASE RecallRemovesTapeInfo(x)
        <3>1. rec[x].pc = "resident" /\ RecallGoes(x, "cleared") /\ UNCHANGED <<disk, miginfo>>
            BY <2>21 DEF RecallRemovesTapeInfo
        <3>2. miginfo.state \in {"NONE", "RESIDENT"} /\ rec[x].pc \in Held
            BY <3>1 DEF FileInv, RecOf, Clears, Held
        <3>3. QED
            BY <3>1, <3>2, <2>20
    <2>22. CASE RecallRemovesState(x)
        <3>1. rec[x].pc = "cleared" /\ RecallGoes(x, "ok") /\ disk' = disk /\ miginfo'.state = "NONE"
            BY <2>22 DEF RecallRemovesState, NoAttr
        <3>2. miginfo.state \in {"NONE", "RESIDENT"} /\ rec[x].pc \in Held
            BY <3>1 DEF FileInv, RecOf, Clears, Held
        <3>3. QED
            BY <3>1, <3>2, <2>20
    <2>23. CASE RecallFails(x)
        <3>1. UNCHANGED <<disk, miginfo, tapeInfo>> /\ RecallGoes(x, "failed")
            BY <2>23 DEF RecallFails, file
        <3>2. QED
            BY <3>1, <1>1, <2>12, RecSet
    <2>24. CASE x = Sel /\ SelRecallEnds
        <3>1. UNCHANGED <<disk, miginfo, tapeInfo>> /\ rec' = [rec EXCEPT ![Sel] = NoRecall]
            BY <2>24 DEF SelRecallEnds, file
        <3>2. rec'[x].pc = "none" /\ \A y \in Recaller : y # x => rec'[y] = rec[y]
            BY <3>1, <2>24, <1>1, <1>4
        <3>3. QED
            BY <3>1, <3>2, <2>24, <2>1, <2>3, <1>3, <1>4, RecOnly
    <2>25. QED
        BY <1>6, <2>13, <2>14, <2>17, <2>18, <2>19, <2>21, <2>22, <2>23, <2>24
           DEF RecallStep
<1>7. QED
    BY <1>5, <1>6

(* The attribute of one copy.                                              *)
LEMMA OneCopy == ASSUME NEW t \in Tape, Tape = {t}, tapeInfo \in Seq(Tape), Len(tapeInfo) = Cardinality(Tape)
                 PROVE  tapeInfo = <<t>>
<1>1. Cardinality(Tape) = 1
    BY FS_Singleton
<1>2. Len(tapeInfo) = 1 /\ tapeInfo[1] = t
    BY <1>1
<1>3. <<t>> \in Seq(Tape) /\ Len(<<t>>) = 1 /\ <<t>>[1] = t
    OBVIOUS
<1>4. QED
    BY <1>2, <1>3, SeqEqual

(* Only a stub has no data.                                                *)
LEMMA EmptySize == ASSUME NEW d \in Data, SizeOf(d) = 0 PROVE d = Empty
BY FileAssumption DEF SizeOf, Data

(* Migrations.                                                             *)
LEMMA MigrationKeeps ==
    ASSUME Types, FileInv, NEW t \in Tape, Tape = {t}, Overlap = {},
           MigrationStep(t) \/ AddMigration \/ MigrationEnds
    PROVE  FileInv'
<1>1. FileType /\ TapeType /\ job \in [Tape -> JobType]
    BY DEF Types
<1>2. DataInv /\ LockInv /\ RecoverInv /\ JobOf(t)
    BY DEF FileInv
<1>3. Migrating <=> job[t].pc # "none"
    BY DEF Migrating
<1>4. CASE AddMigration
    <2>1. /\ UNCHANGED <<disk, miginfo, tapeInfo, tape, synced, valid, rec, app, shared, stater>>
          /\ job[t].pc = "none" /\ ~needsRecovery /\ (\A s \in Stater : stater[s].pc = "idle")
          /\ \A a \in App : app[a].pc # "idle" => app[a].op = "read"
        BY <1>4 DEF AddMigration, Migrating, LookedUp, file, onTape, contents, locks
    <2>2. miginfo.state # "STUBBING"
        BY <2>1, <1>2, NotStubbing DEF Stubbing
    <2>3. JobOf(t)' /\ job'[t].pc \notin Stubbing
        <3>1. CASE getMigState = "RESIDENT" /\ job' = [u \in Tape |-> [NoJob EXCEPT !.pc = "added", !.mtime = statMtime]]
            <4>1. job'[t].pc = "added" /\ miginfo.state \in OnDisk
                BY <3>1, <1>1 DEF NoJob, getMigState, FileType, MigInfo,
                   MigState, OnDisk
            <4>2. QED
                BY <4>1, <2>1 DEF JobOf, Stubbing
        <3>2. CASE /\ getMigState = "PREMIGRATED"
                   /\ \/ job' = [u \in Tape |-> [NoJob EXCEPT !.pc = "change", !.mtime = statMtime]]
                      \/ /\ rec[Sel].pc = "none"
                         /\ \E u \in Tape : job' = [job EXCEPT ![u] = [NoJob EXCEPT !.pc = "stub", !.mtime = statMtime]]
            <4>1. miginfo.state = "PREMIGRATED"
                BY <3>2, <2>2, <1>1 DEF getMigState, FileType, MigInfo, MigState
            <4>2. disk = tape[t] /\ t \in synced
                BY <4>1, <1>2 DEF DataInv, Copied
            <4>3. job'[t].pc = "change" \/ (job'[t].pc = "stub" /\ rec[Sel].pc = "none")
                BY <3>2, <1>1 DEF NoJob
            <4>4. QED
                BY <4>1, <4>2, <4>3, <2>1 DEF JobOf, Transfer, Stubbing
        <3>3. QED
            BY <3>1, <3>2, <1>4 DEF AddMigration
    <2>4. QED
        BY <2>1, <2>3, JobOnly DEF Stubbing
<1>5. CASE MigrationEnds
    <2>1. /\ UNCHANGED <<disk, miginfo, tapeInfo, tape, synced, valid, rec, app, shared, stater>>
          /\ job[t].pc \in {"done", "failed"} /\ job'[t].pc = "none"
        BY <1>5 DEF MigrationEnds, Migrating, NoJob, file, onTape, contents, locks
    <2>2. ~needsRecovery /\ \A s \in Stater : stater[s].pc = "idle"
        BY <2>1, <1>2, Busy
    <2>3. JobOf(t)' /\ job'[t].pc \notin Stubbing /\ job[t].pc \notin Stubbing
        BY <2>1 DEF JobOf, Transfer, Stubbing
    <2>4. QED
        BY <2>1, <2>2, <2>3, <1>3, JobOnly
<1>6. CASE MigrationStep(t)
    <2>1. UNCHANGED <<valid, rec, app, shared, stater>>
        BY <1>6
           DEF MigrationStep, TransferOpens, TransferPrepares, TransferStarts,
               TransferCopies, TransferChecks,
               TransferFails, TransferSuspended, addTapeAttr, Sync, ChangeState,
               StubTruncates, StubFails,
               StubFinishes, contents, locks
    <2>2. job[t].pc # "none"
        BY <1>6
           DEF MigrationStep, TransferOpens, TransferPrepares, TransferStarts,
               TransferCopies, TransferChecks,
               TransferFails, TransferSuspended, addTapeAttr, Sync, ChangeState,
               StubTruncates, StubFails, StubFinishes
    <2>3. ~needsRecovery /\ \A s \in Stater : stater[s].pc = "idle"
        BY <2>2, <1>2, Busy
    <2>4. ASSUME job[t].pc \in Transfer, UNCHANGED <<disk, miginfo>>, job'[t].pc \notin Stubbing, JobOf(t)'
          PROVE  FileInv'
        <3>1. miginfo.state \in OnDisk /\ job[t].pc \notin Stubbing
            BY <2>4, <1>2 DEF JobOf, Transfer, Stubbing
        <3>2. QED
            BY <3>1, <2>4, <2>1, <2>2, <2>3, <1>3, JobOnly
    <2>5. ASSUME NEW b \in App PROVE OpOf(b)'
        <3>1. OpOf(b) /\ Migrating
            BY <2>2, <1>3 DEF FileInv
        <3>2. app[b].pc # "idle" => app[b].op = "read"
            BY <3>1 DEF OpOf
        <3>3. handleOf(b)' = handleOf(b)
            BY <2>1 DEF handleOf, byPath
        <3>4. QED
            BY <3>1, <3>2, <3>3, <2>1 DEF OpOf, Changing
    <2>6. ASSUME ~miginfo'.old, miginfo'.state = "STUBBING" => job'[t].pc \in Stubbing PROVE RecoverInv'
        BY <2>6, <2>1, <2>3, Calm
    <2>7. ASSUME CanLock PROVE LockInv' /\ (\A x \in Recaller : RecOf(x)') /\ job[t].pc \notin Stubbing
        <3>1. shared = {} /\ (\A x \in Recaller : rec[x].pc \notin Held) /\ job[t].pc \notin Stubbing
            BY <2>7 DEF CanLock, Locked, Held, Recalls, Clears, Stubbing
        <3>2. QED
            BY <3>1, <2>1, FreeRec DEF LockInv, Held
    <2>8. ASSUME job[t].pc \in Stubbing PROVE LockInv' /\ \A x \in Recaller : RecOf(x)'
        <3>1. shared = {} /\ miginfo.state = "STUBBING"
            BY <2>8, <1>2 DEF LockInv, Locked, Stubbing, JobOf
        <3>2. \A x \in Recaller : rec[x].pc \notin Held
            BY <3>1 DEF FileInv, RecOf, Held
        <3>3. QED
            BY <3>1, <3>2, <2>1, FreeRec DEF LockInv, Held
    <2>9. CASE TransferOpens(t)
        <3>1. /\ job[t].pc = "added" /\ tape' = [tape EXCEPT ![t] = Empty] /\ JobGoes(t, "opened")
              /\ UNCHANGED <<disk, miginfo>>
            BY <2>9 DEF TransferOpens, file
        <3>2. tape'[t] = Empty /\ job'[t].pc = "opened"
            BY <3>1, <1>1, JobSet DEF TapeType
        <3>3. JobOf(t)' /\ job[t].pc \in Transfer /\ job'[t].pc \notin Stubbing
            BY <3>1, <3>2, <1>2 DEF JobOf, Transfer, Stubbing
        <3>4. QED
            BY <3>1, <3>3, <2>4
    <2>10. CASE TransferPrepares(t)
        <3>1. /\ job[t].pc = "opened" /\ CanLock /\ setMigInfoAt("IN_MIGRATION") /\ JobGoes(t, "prepared")
              /\ UNCHANGED <<disk, tapeInfo, tape, synced>>
            BY <2>10 DEF TransferPrepares, onTape
        <3>2. miginfo.state \in OnDisk /\ job'[t].pc = "prepared"
            BY <3>1, <1>2, <1>1, JobSet DEF JobOf, Transfer
        <3>3. /\ miginfo'.state = "IN_MIGRATION" /\ ~miginfo'.old
              /\ miginfo'.size = IF miginfo.state \in {"NONE", "RESIDENT"} THEN SizeOf(disk) ELSE miginfo.size
            BY <3>1, <1>1, AttrSet DEF setMigInfoAt
        <3>4. DataInv'
            BY <3>1, <3>2, <3>3, <2>1, <1>2 DEF DataInv, OnDisk, Copied
        <3>5. JobOf(t)'
            BY <3>1, <3>2, <3>3, <1>2 DEF JobOf, Transfer, Stubbing, OnDisk
        <3>6. RecoverInv'
            BY <3>3, <2>6
        <3>7. QED
            BY <3>1, <3>4, <3>5, <3>6, <2>5, <2>7 DEF FileInv
    <2>11. CASE TransferStarts(t)
        <3>1. /\ job[t].pc = "prepared" /\ UNCHANGED <<disk, miginfo, tape>>
              /\ job' = [job EXCEPT ![t] = [job[t] EXCEPT
                             !.seen = IF statSize < SizeOf(disk) THEN Partial ELSE disk,
                             !.pc = IF statSize = 0 THEN "checked" ELSE "copying"]]
            BY <2>11 DEF TransferStarts, file, onTape
        <3>2. miginfo.state \in OnDisk /\ tape[t] = Empty
            BY <3>1, <1>2 DEF JobOf, Transfer
        <3>3. SizeOf(disk) \in Nat /\ disk \in Data
            BY <1>1, SizeType DEF FileType
        <3>4. statSize = SizeOf(disk)
            BY <3>2, <1>2 DEF statSize, DataInv, OnDisk
        <3>5. job'[t].seen = disk /\ job'[t].pc = IF statSize = 0 THEN "checked" ELSE "copying"
            BY <3>1, <3>3, <3>4, <1>1 DEF JobType
        <3>6. job'[t].pc = "checked" => tape[t] = disk
            BY <3>2, <3>3, <3>4, <3>5, EmptySize
        <3>7. JobOf(t)' /\ job[t].pc \in Transfer /\ job'[t].pc \notin Stubbing
            BY <3>1, <3>2, <3>5, <3>6 DEF JobOf, Transfer, Stubbing
        <3>8. QED
            BY <3>1, <3>7, <2>4
    <2>12. CASE TransferCopies(t)
        <3>1. /\ job[t].pc = "copying" /\ JobGoes(t, "copied") /\ UNCHANGED <<disk, miginfo>>
              /\ tape' = [tape EXCEPT ![t] = IF disk = job[t].seen THEN disk ELSE Partial]
            BY <2>12 DEF TransferCopies, file
        <3>2. miginfo.state \in OnDisk /\ job[t].seen = disk
            BY <3>1, <1>2 DEF JobOf, Transfer
        <3>3. tape'[t] = disk /\ job'[t].pc = "copied"
            BY <3>1, <3>2, <1>1, JobSet DEF TapeType
        <3>4. JobOf(t)' /\ job[t].pc \in Transfer /\ job'[t].pc \notin Stubbing
            BY <3>1, <3>2, <3>3 DEF JobOf, Transfer, Stubbing
        <3>5. QED
            BY <3>1, <3>4, <2>4
    <2>13. CASE TransferChecks(t) \/ TransferFails(t) \/ TransferSuspended(t) \/ addTapeAttr(t)
        <3>1. /\ UNCHANGED <<disk, miginfo, tape>>
              /\ \/ job[t].pc = "copied" /\ JobGoes(t, "checked")
                 \/ job[t].pc \in Transfer /\ JobGoes(t, "failed")
                 \/ job[t].pc = "prepared" /\ JobGoes(t, "added")
                 \/ job[t].pc = "checked" /\ JobGoes(t, "transferred")
            BY <2>13 DEF TransferChecks, TransferFails, TransferSuspended,
               addTapeAttr, file, onTape, Transfer
        <3>2. \/ job[t].pc = "copied" /\ job'[t].pc = "checked"
              \/ job[t].pc \in Transfer /\ job'[t].pc = "failed"
              \/ job[t].pc = "prepared" /\ job'[t].pc = "added"
              \/ job[t].pc = "checked" /\ job'[t].pc = "transferred"
            BY <3>1, <1>1, JobSet
        <3>3. JobOf(t)' /\ job[t].pc \in Transfer /\ job'[t].pc \notin Stubbing
            BY <3>1, <3>2, <1>2 DEF JobOf, Transfer, Stubbing
        <3>4. QED
            BY <3>1, <3>3, <2>4
    <2>14. CASE Sync(t)
        <3>1. /\ job[t].pc = "transferred" /\ UNCHANGED <<disk, miginfo, tape>>
              /\ \/ synced' = synced \cup {t} /\ JobGoes(t, "change")
                 \/ JobGoes(t, "failed")
            BY <2>14 DEF Sync, file
        <3>2. (job'[t].pc = "change" /\ t \in synced') \/ job'[t].pc = "failed"
            BY <3>1, <1>1, JobSet
        <3>3. JobOf(t)' /\ job[t].pc \in Transfer /\ job'[t].pc \notin Stubbing
            BY <3>1, <3>2, <1>2 DEF JobOf, Transfer, Stubbing
        <3>4. QED
            BY <3>1, <3>3, <2>4
    <2>15. CASE ChangeState(t)
        <3>1. job[t].pc \in {"change", "stub"} /\ CanLock /\ UNCHANGED <<disk, tapeInfo, tape, synced>>
            BY <2>15 DEF ChangeState, onTape
        <3>2. CASE NothingToChange(t) /\ JobGoes(t, "done") /\ UNCHANGED miginfo
            <4>1. job'[t].pc = "done"
                BY <3>2, <1>1, JobSet
            <4>2. JobOf(t)' /\ job'[t].pc \notin Stubbing /\ job[t].pc \notin Stubbing
                BY <3>1, <4>1 DEF JobOf, Transfer, Stubbing
            <4>3. QED
                BY <3>1, <3>2, <4>2, <2>1, <2>2, <2>3, <1>3, JobOnly
        <3>3. CASE /\ ~NothingToChange(t)
                   /\ \/ target = "PREMIGRATED" /\ setMigInfoAt("PREMIGRATED") /\ JobGoes(t, "done")
                      \/ target = "MIGRATED" /\ setMigInfoAt("STUBBING") /\ JobGoes(t, "stubbing")
            <4>1. miginfo.state \in OnDisk \cup {"PREMIGRATED"}
                BY <3>1, <1>2 DEF JobOf
            <4>2. tapeInfo = <<t>> /\ disk = tape[t] /\ tape[t] \in valid /\ t \in synced
                <5>1. CASE miginfo.state = "PREMIGRATED"
                    BY <5>1, <1>2 DEF DataInv, Copied
                <5>2. CASE miginfo.state \in OnDisk
                    <6>1. job[t].pc = "change"
                        BY <3>1, <5>2, <1>2 DEF JobOf, OnDisk
                    <6>2. Len(tapeInfo) = Cardinality(Tape)
                        BY <6>1, <3>3 DEF NothingToChange
                    <6>3. tapeInfo = <<t>>
                        BY <6>2, <1>1, OneCopy DEF FileType
                    <6>4. QED
                        BY <6>1, <6>3, <5>2, <1>2 DEF JobOf, DataInv
                <5>3. QED
                    BY <4>1, <5>1, <5>2
            <4>3. /\ ~miginfo'.old /\ miginfo'.state \in {"PREMIGRATED", "STUBBING"}
                  /\ miginfo'.size = IF miginfo.state \in {"NONE", "RESIDENT"} THEN SizeOf(disk) ELSE miginfo.size
                  /\ miginfo'.state = "STUBBING" => JobGoes(t, "stubbing")
                  /\ miginfo'.state = "PREMIGRATED" => JobGoes(t, "done")
                BY <3>3, <1>1, AttrSet DEF setMigInfoAt
            <4>4. job'[t].pc = IF miginfo'.state = "STUBBING" THEN "stubbing" ELSE "done"
                BY <4>3, <1>1, JobSet
            <4>5. miginfo'.size = SizeOf(tape[t])
                BY <4>1, <4>2, <4>3, <1>2 DEF DataInv, OnDisk, Copied
            <4>6. DataInv'
                BY <3>1, <4>2, <4>3, <4>5, <2>1 DEF DataInv, OnDisk, Copied
            <4>7. JobOf(t)'
                BY <3>1, <4>2, <4>3, <4>4 DEF JobOf, Transfer, Stubbing
            <4>8. RecoverInv'
                BY <4>3, <4>4, <2>6 DEF Stubbing
            <4>9. QED
                BY <3>1, <4>6, <4>7, <4>8, <2>5, <2>7 DEF FileInv
        <3>4. QED
            BY <3>2, <3>3, <2>15 DEF ChangeState
    <2>16. CASE StubTruncates(t)
        <3>1. /\ job[t].pc = "stubbing" /\ disk' = Empty /\ JobGoes(t, "truncated")
              /\ UNCHANGED <<miginfo, tapeInfo, tape, synced>>
            BY <2>16 DEF StubTruncates, onTape
        <3>2. miginfo.state = "STUBBING" /\ job[t].pc \in Stubbing /\ job'[t].pc = "truncated"
            BY <3>1, <1>2, <1>1, JobSet DEF JobOf, Stubbing
        <3>3. DataInv'
            BY <3>1, <3>2, <2>1, <1>2 DEF DataInv, OnDisk, Copied
        <3>4. JobOf(t)'
            BY <3>1, <3>2 DEF JobOf, Transfer, Stubbing
        <3>5. RecoverInv'
            BY <3>1, <3>2, <2>1, <2>3, <1>2, CalmSame DEF Stubbing
        <3>6. QED
            BY <3>2, <3>3, <3>4, <3>5, <2>5, <2>8 DEF FileInv
    <2>17. ASSUME job[t].pc \in Stubbing, NEW p \in {"done", "failed"}, JobGoes(t, p),
                  UNCHANGED <<disk, tapeInfo, tape, synced>>,
                  \/ setMigInfoAt("MIGRATED")
                  \/ setMigInfoAt("PREMIGRATED") /\ disk = tape[t]
           PROVE  FileInv'
        <3>1. miginfo.state = "STUBBING" /\ job'[t].pc = p
            BY <2>17, <1>2, <1>1, JobSet DEF JobOf
        <3>2. /\ ~miginfo'.old /\ miginfo'.size = miginfo.size
              /\ miginfo'.state = "MIGRATED" \/ (miginfo'.state = "PREMIGRATED" /\ disk = tape[t])
            BY <3>1, <2>17, <1>1, AttrSet DEF setMigInfoAt
        <3>3. DataInv'
            BY <3>1, <3>2, <2>17, <2>1, <1>2 DEF DataInv, OnDisk, Copied
        <3>4. JobOf(t)'
            BY <3>1 DEF JobOf, Transfer, Stubbing
        <3>5. RecoverInv'
            BY <3>2, <2>6
        <3>6. QED
            BY <3>3, <3>4, <3>5, <2>17, <2>5, <2>8 DEF FileInv
    <2>18. CASE StubFails(t)
        <3>1. /\ job[t].pc = "stubbing" /\ setMigInfoAt("PREMIGRATED") /\ JobGoes(t, "failed")
              /\ UNCHANGED <<disk, tapeInfo, tape, synced>>
            BY <2>18 DEF StubFails, onTape
        <3>2. disk = tape[t] /\ job[t].pc \in Stubbing
            BY <3>1, <1>2 DEF JobOf, Stubbing
        <3>3. QED
            BY <3>1, <3>2, <2>17
    <2>19. CASE StubFinishes(t)
        <3>1. /\ job[t].pc \in Stubbing /\ setMigInfoAt("MIGRATED") /\ JobGoes(t, "done")
              /\ UNCHANGED <<disk, tapeInfo, tape, synced>>
            BY <2>19 DEF StubFinishes, onTape, Stubbing
        <3>2. QED
            BY <3>1, <2>17
    <2>20. QED
        BY <1>6, <2>9, <2>10, <2>11, <2>12, <2>13, <2>14, <2>15,
           <2>16, <2>18, <2>19 DEF MigrationStep
<1>7. QED
    BY <1>4, <1>5, <1>6

(* The start of a new server, and the recovery of the state.               *)
LEMMA RecoveryKeeps ==
    ASSUME Types, FileInv, NEW t \in Tape, Tape = {t}, OneLookUp,
           (\E s \in Stater : StaterStep(s)) \/ Restart
    PROVE  FileInv'
<1>1. FileType /\ StaterType
    BY DEF Types
<1>2. DataInv /\ LockInv /\ RecoverInv
    BY DEF FileInv
<1>3. NoJob.pc = "none" /\ NoRecall.pc = "none" /\ Idle.pc = "idle" /\ NotRecovering.pc = "idle"
    BY DEF NoJob, NoRecall, Idle, NotRecovering
<1>4. ASSUME Unused'
      PROVE  JobOf(t)' /\ (\A x \in Recaller : RecOf(x)') /\ (\A a \in App : OpOf(a)') /\ LockInv'
    <2>1. /\ job'[t].pc = "none" /\ (\A x \in Recaller : rec'[x].pc = "none")
          /\ \A a \in App : app'[a].pc = "idle" /\ rec'[a].pc = "none"
        BY <1>4 DEF Unused, Recaller
    <2>2. JobOf(t)'
        BY <2>1 DEF JobOf, Transfer, Stubbing
    <2>3. \A x \in Recaller : RecOf(x)'
        BY <2>1 DEF RecOf, Recalls, Clears
    <2>4. \A a \in App : OpOf(a)'
        BY <2>1 DEF OpOf, Changing
    <2>5. LockInv'
        BY <2>1 DEF LockInv, Locked, Recalls, Clears
    <2>6. QED
        BY <2>2, <2>3, <2>4, <2>5
<1>5. CASE Restart
    <2>1. /\ UNCHANGED <<disk, tapeInfo, tape, synced, valid>>
          /\ miginfo' = [miginfo EXCEPT !.old = (miginfo.state # "NONE")]
          /\ \A s \in Stater : stater'[s].pc = "idle"
        BY <1>5, <1>3 DEF Restart, onTape, contents
    <2>2. Unused'
        BY <1>5, <1>3 DEF Restart, Unused
    <2>3. miginfo'.state = miginfo.state /\ miginfo'.size = miginfo.size /\ (miginfo'.old <=> miginfo.state # "NONE")
        BY <2>1, <1>1 DEF FileType, MigInfo
    <2>4. DataInv'
        BY <2>1, <2>3, <1>2 DEF DataInv
    <2>5. RecoverInv'
        BY <2>1, <2>2, <2>3 DEF RecoverInv, LookUpOf
    <2>6. QED
        BY <2>2, <2>4, <2>5, <1>4 DEF FileInv
<1>6. ASSUME NEW s \in Stater, StaterStep(s) PROVE FileInv'
    <2>1. UNCHANGED <<tape, synced, valid, job, rec, app>>
        BY <1>6 DEF StaterStep, getattr, recoverFirst, recoverSecond, onTape,
           contents, locks
    <2>2. Unused /\ Unused' /\ \A z \in Stater : z = s
        <3>1. Unused
            BY <1>6, <1>2 DEF StaterStep, getattr, recoverFirst, recoverSecond,
               RecoverInv, LookUpOf
        <3>2. QED
            BY <3>1, <2>1 DEF Unused, OneLookUp
    <2>3. LookUpOf(s)
        BY <1>2 DEF RecoverInv
    <2>4. \A u \in Tape : job[u].pc \notin Stubbing
        BY <2>2 DEF Unused, Stubbing
    <2>5. ASSUME DataInv', LookUpOf(s)', miginfo'.state = "STUBBING" => miginfo'.old PROVE FileInv'
        <3>1. RecoverInv'
            BY <2>5, <2>2 DEF RecoverInv
        <3>2. QED
            BY <3>1, <2>5, <2>2, <1>4 DEF FileInv
    <2>6. CASE getattr(s)
        <3>1. /\ UNCHANGED <<disk, miginfo, tapeInfo>> /\ needsRecovery
              /\ stater' = [stater EXCEPT ![s] = [pc |-> "first", state |-> miginfo.state]]
            BY <2>6 DEF getattr, file
        <3>2. stater'[s].pc = "first" /\ stater'[s].state = miginfo.state
            BY <3>1, <1>1 DEF StaterType
        <3>3. LookUpOf(s)'
            BY <3>1, <3>2, <2>2 DEF LookUpOf, needsRecovery
        <3>4. DataInv'
            BY <3>1, <2>1, <1>2 DEF DataInv
        <3>5. QED
            BY <3>1, <3>3, <3>4, <2>5 DEF needsRecovery
    <2>7. CASE recoverFirst(s)
        <3>1. /\ stater[s].pc = "first" /\ disk' = disk
              /\ stater' = [stater EXCEPT ![s].pc = "second"]
            BY <2>7 DEF recoverFirst
        <3>2. stater'[s].pc = "second" /\ stater'[s].state = stater[s].state
            BY <3>1, <1>1 DEF StaterType
        <3>3. miginfo.state = stater[s].state /\ miginfo.state \in {"IN_MIGRATION", "STUBBING", "IN_RECALL"}
            BY <3>1, <2>3 DEF LookUpOf
        <3>4. CASE miginfo.state = "IN_MIGRATION"
            <4>1. miginfo' = miginfo
                BY <3>3, <3>4, <2>7 DEF recoverFirst
            <4>2. DataInv'
                BY <3>1, <3>4, <4>1, <2>1, <1>2 DEF DataInv, OnDisk, Copied
            <4>3. LookUpOf(s)'
                BY <3>2, <3>3, <3>4, <4>1, <2>2 DEF LookUpOf
            <4>4. QED
                BY <3>4, <4>1, <4>2, <4>3, <2>5
        <3>5. CASE miginfo.state \in {"STUBBING", "IN_RECALL"}
            <4>1. setMigInfoAt("MIGRATED") /\ tapeInfo' = tapeInfo
                BY <3>3, <3>5, <2>7 DEF recoverFirst
            <4>2. miginfo'.state = "MIGRATED" /\ miginfo'.size = miginfo.size
                BY <3>5, <4>1, <1>1, AttrSet DEF setMigInfoAt
            <4>3. DataInv'
                BY <3>1, <3>5, <4>1, <4>2, <2>1, <1>2 DEF DataInv, OnDisk, Copied
            <4>4. miginfo.state = "STUBBING" => disk \in {Empty, tape[t]}
                BY <1>2 DEF DataInv, Copied
            <4>5. LookUpOf(s)'
                BY <3>1, <3>2, <3>3, <3>5, <4>2, <4>4, <2>2, <2>1 DEF LookUpOf
            <4>6. QED
                BY <4>2, <4>3, <4>5, <2>5
        <3>6. QED
            BY <3>3, <3>4, <3>5
    <2>8. CASE recoverSecond(s)
        <3>1. /\ stater[s].pc = "second" /\ tapeInfo' = tapeInfo
              /\ stater' = [stater EXCEPT ![s] = NotRecovering]
            BY <2>8 DEF recoverSecond
        <3>2. LookUpOf(s)'
            BY <3>1, <1>1, <1>3 DEF LookUpOf, StaterType
        <3>3. CASE stater[s].state = "IN_MIGRATION"
            <4>1. miginfo'.state = "NONE" /\ disk' = disk
                BY <3>3, <2>8 DEF recoverSecond, NoAttr
            <4>2. miginfo.state = "IN_MIGRATION"
                BY <3>1, <3>3, <2>3 DEF LookUpOf
            <4>3. DataInv'
                BY <4>1, <4>2, <2>1, <1>2 DEF DataInv, OnDisk, Copied
            <4>4. QED
                BY <3>2, <4>1, <4>3, <2>5
        <3>4. CASE stater[s].state # "IN_MIGRATION"
            <4>1. miginfo.state = "MIGRATED" /\ (stater[s].state = "STUBBING" => disk \in {Empty, tape[t]})
                BY <3>1, <3>4, <2>3 DEF LookUpOf
            <4>2. CASE disk' \in {Empty, disk} /\ miginfo' = miginfo
                <5>1. DataInv'
                    BY <3>1, <4>1, <4>2, <2>1, <1>2 DEF DataInv, OnDisk, Copied
                <5>2. QED
                    BY <3>2, <4>1, <4>2, <5>1, <2>5
            <4>3. CASE stater[s].state = "STUBBING" /\ disk # Empty /\ setMigInfoAt("PREMIGRATED") /\ disk' = disk
                <5>1. miginfo'.state = "PREMIGRATED" /\ miginfo'.size = miginfo.size
                    BY <4>1, <4>3, <1>1, AttrSet DEF setMigInfoAt
                <5>2. DataInv'
                    BY <3>1, <4>1, <4>3, <5>1, <2>1, <1>2 DEF DataInv, OnDisk,
                       Copied
                <5>3. QED
                    BY <3>2, <5>1, <5>2, <2>5
            <4>4. QED
                BY <3>4, <4>2, <4>3, <2>8 DEF recoverSecond
        <3>5. QED
            BY <3>3, <3>4
    <2>9. QED
        BY <1>6, <2>6, <2>7, <2>8 DEF StaterStep
<1>7. QED
    BY <1>5, <1>6

(* FileInv is an inductive invariant, given the types.                     *)
LEMMA InitFile == Init => FileInv
<1> SUFFICES ASSUME Init PROVE FileInv
    OBVIOUS
<1>1. DataInv
    BY DEF Init, NoAttr, DataInv, Copied
<1>2. LockInv
    BY DEF Init, LockInv, NoRecall, Recalls, Clears
<1>3. RecoverInv
    BY DEF Init, RecoverInv, LookUpOf, needsRecovery, NoAttr, NotRecovering
<1>4. ASSUME NEW t \in Tape PROVE JobOf(t)
    BY DEF Init, JobOf, NoJob, Transfer, Stubbing
<1>5. ASSUME NEW x \in Recaller PROVE RecOf(x)
    BY DEF Init, RecOf, NoRecall, Recalls, Clears
<1>6. ASSUME NEW a \in App PROVE OpOf(a)
    <2>1. app[a].pc = "idle" /\ rec[a].pc = "none"
        BY DEF Init, Idle, NoRecall, Recaller
    <2>2. QED
        BY <2>1 DEF OpOf, Changing
<1>7. QED
    BY <1>1, <1>2, <1>3, <1>4, <1>5, <1>6 DEF FileInv

(* Every step preserves FileInv.                                           *)
LEMMA NextFile ==
    ASSUME OneReplica, OwnHandles, OneLookUp, Overlap = {}, Types, FileInv, [Next]_vars
    PROVE  FileInv'
<1>1. PICK t \in Tape : Tape = {t}
    <2>1. Tape # {}
        BY FileAssumption, FS_EmptySet
    <2>2. QED
        BY <2>1 DEF OneReplica
<1>2. CASE UNCHANGED vars
    BY <1>2 DEF FileInv, DataInv, LockInv, Locked, RecoverInv, needsRecovery,
       Unused, LookUpOf, JobOf, RecOf, OpOf,
                Changing, Migrating, handleOf, vars, file, onTape, contents, locks
<1>3. CASE Next
    BY <1>1, <1>3, AppKeeps, RecallKeeps, MigrationKeeps, RecoveryKeeps DEF Next
<1>4. QED
    BY <1>2, <1>3

(* It holds in every state.                                                *)
LEMMA FileInvAlways ==
    ASSUME OneReplica, OwnHandles, OneLookUp, Overlap = {}
    PROVE  Spec => []FileInv
<1>1. Init => FileInv
    BY InitFile
<1>2. TypeOK /\ FileInv /\ [Next]_vars => FileInv'
    BY NextFile, TypesOK
<1>3. QED
    BY <1>1, <1>2, FileTypeCorrect, PTL DEF Spec

(* What an application wrote last is where the state of the file says it   *)
(* is, through all that migrates, recalls, stubs and changes the file, and *)
(* through a death of the server at any point.                             *)
THEOREM ContentKeptAlone ==
    ASSUME OneReplica, OwnHandles, OneLookUp, Overlap = {}
    PROVE  Spec => []ContentKept
<1>1. TypeOK /\ FileInv => ContentKept
    <2>1. SUFFICES ASSUME TypeOK, FileInv PROVE ContentKept
        OBVIOUS
    <2>2. DataInv /\ Types
        BY <2>1, TypesOK DEF FileInv
    <2>3. PICK t \in Tape : TRUE
        BY FileAssumption, FS_EmptySet
    <2>4. ASSUME miginfo.state \in OnDisk \cup {"PREMIGRATED"} PROVE disk \in valid
        BY <2>2, <2>3, <2>4 DEF DataInv, Copied
    <2>5. ASSUME miginfo.state \in Copied PROVE tapeInfo # <<>> /\ tape[tapeInfo[1]] \in valid
        <3>1. tapeInfo = <<t>> /\ tape[t] \in valid
            BY <2>2, <2>3, <2>5 DEF DataInv
        <3>2. QED
            BY <3>1
    <2>6. QED
        BY <2>4, <2>5 DEF ContentKept, OnDisk, Copied
<1>2. QED
    BY <1>1, FileInvAlways, FileTypeCorrect, PTL

(* The data leaves the disk only after the index of the tape with the copy *)
(* has been written.                                                       *)
THEOREM SyncedBeforeStubAlone ==
    ASSUME OneReplica, OwnHandles, OneLookUp, Overlap = {}
    PROVE  Spec => []SyncedBeforeStub
<1>1. FileInv => SyncedBeforeStub
    <2>1. SUFFICES ASSUME FileInv, miginfo.state \in {"STUBBING", "MIGRATED", "IN_RECALL"}, NEW i \in DOMAIN tapeInfo
                   PROVE  tapeInfo[i] \in synced
        BY DEF SyncedBeforeStub
    <2>2. PICK t \in Tape : TRUE
        BY FileAssumption, FS_EmptySet
    <2>3. tapeInfo = <<t>> /\ t \in synced
        BY <2>1, <2>2 DEF FileInv, DataInv, Copied
    <2>4. i = 1
        BY <2>1, <2>3
    <2>5. QED
        BY <2>3, <2>4
<1>2. QED
    BY <1>1, FileInvAlways, PTL

------------------------------------------------------------------------------
(* Reads.  An application that truncates the file to zero removes its      *)
(* attributes first: if it is migrated, another one that reads then sees   *)
(* the stub.                                                               *)
NoEmptying == (\A a, b \in App : a = b) \/ AppOps \cap {"ftruncate0", "truncate0"} = {}

(* The states in which the data is on disk.                                *)
Readable == OnDisk \cup {"PREMIGRATED"}

(* A read that has found the data on disk, or has been told that it is.    *)
Served(a) ==
    /\ app[a].op = "read"
    /\ app[a].pc \in {"relock", "io", "reply"} \/ (app[a].pc = "recall" /\ rec[a].pc = "ok")

(* What a read knows.                                                      *)
ReadOf(a) ==
    /\ app[a].pc = "reply" => app[a].op = "read"
    /\ app[a].pc # "idle" => app[a].op \in AppOps
    /\ app[a].pc # "idle" /\ app[a].op = "read" => valid \subseteq app[a].expect
    /\ app[a].pc = "io" /\ app[a].op = "read" => AppHandle[a] \in shared
    /\ Served(a) => miginfo.state \in Readable

ReadInv == \A a \in App : ReadOf(a)

(* A recall makes the data readable before it answers, and a readable file *)
(* stays readable.                                                         *)
LEMMA RecallServes ==
    ASSUME Types, FileInv, NEW x \in Recaller, RecallStep(x),
           miginfo.state \in Readable \/ rec'[x].pc = "ok"
    PROVE  miginfo'.state \in Readable \/ rec[x].pc = "ok"
<1>1. FileType /\ rec \in [Recaller -> RecType]
    BY DEF Types
<1>2. ASSUME getMigState = "RESIDENT" PROVE miginfo.state \in Readable
    BY <1>2, <1>1 DEF getMigState, Readable, OnDisk, FileType, MigInfo, MigState
<1>3. ASSUME getMigState = "MIGRATED" PROVE miginfo.state \notin Readable
    BY <1>3, <1>1 DEF getMigState, Readable, OnDisk, FileType, MigInfo, MigState
<1>4. ASSUME finishRecall(x) PROVE miginfo'.state \in Readable
    BY <1>4, <1>1, AttrSet DEF finishRecall, setMigInfoAt, Readable, OnDisk
<1>5. ASSUME NEW p, p # "ok", RecallGoes(x, p), miginfo' = miginfo PROVE miginfo'.state \in Readable
    BY <1>5, <1>1, RecSet
<1>6. CASE RecallEvent(x)
    <2>1. CASE miginfo' = MigInfoAt("RESIDENT", miginfo.mtime)
        BY <2>1, <1>1, AttrSet DEF Readable, OnDisk
    <2>2. CASE /\ rec' = [rec EXCEPT ![x] = [rec[x] EXCEPT !.pc = "adding",
                                              !.tape = IF tapeInfo = <<>> THEN None ELSE tapeInfo[1]]]
               /\ UNCHANGED <<mtime, miginfo>>
        <3>1. rec'[x].pc = "adding"
            BY <2>2, <1>1 DEF RecType
        <3>2. QED
            BY <2>2, <3>1
    <2>3. QED
        BY <1>6, <2>1, <2>2 DEF RecallEvent
<1>7. CASE RecallAddJob(x)
    <2>1. UNCHANGED miginfo
        BY <1>7 DEF RecallAddJob, file
    <2>2. getMigState = "RESIDENT" \/ RecallGoes(x, "lost") \/ RecallGoes(x, "job")
        BY <1>7 DEF RecallAddJob
    <2>3. QED
        BY <2>1, <2>2, <1>2, <1>5
<1>8. CASE RecallStarts(x)
    <2>1. CASE getMigState = "RESIDENT" /\ UNCHANGED file
        BY <2>1, <1>2 DEF file
    <2>2. CASE finishRecall(x)
        BY <2>2, <1>4
    <2>3. CASE /\ getMigState = "MIGRATED"
               /\ rec' = [rec EXCEPT ![x] = [rec[x] EXCEPT !.pc = "recalling",
                     !.to = IF SizeOf(OnTape(rec[x].tape)) # miginfo.size THEN "RESIDENT" ELSE rec[x].to]]
        <3>1. rec'[x].pc = "recalling"
            BY <2>3, <1>1 DEF RecType
        <3>2. QED
            BY <2>3, <3>1, <1>3
    <2>4. QED
        BY <1>8, <2>1, <2>2, <2>3 DEF RecallStarts
<1>9. CASE RecallCopies(x)
    BY <1>9, <1>5 DEF RecallCopies
<1>10. CASE RecallFinishes(x)
    BY <1>10, <1>4 DEF RecallFinishes
<1>11. CASE RecallRemovesTapeInfo(x)
    BY <1>11, <1>5 DEF RecallRemovesTapeInfo
<1>12. CASE RecallRemovesState(x)
    BY <1>12 DEF RecallRemovesState, NoAttr, Readable, OnDisk
<1>13. CASE RecallFails(x)
    BY <1>13, <1>5 DEF RecallFails, file
<1>14. CASE x = Sel /\ SelRecallEnds
    BY <1>14, <1>1 DEF SelRecallEnds, NoRecall, file
<1>15. QED
    BY <1>6, <1>7, <1>8, <1>9, <1>10, <1>11, <1>12, <1>13, <1>14 DEF RecallStep

(* No step but those of applications takes the data away from a read.      *)
LEMMA OthersServe ==
    ASSUME Types, FileInv, ReadInv, NEW t \in Tape, Tape = {t}, Overlap = {},
           \/ (\E x \in Recaller : RecallStep(x)) \/ AddSelRecall
           \/ MigrationStep(t) \/ AddMigration \/ MigrationEnds
           \/ (\E s \in Stater : StaterStep(s)) \/ Restart
    PROVE  ReadInv'
<1>1. FileType /\ job \in [Tape -> JobType] /\ rec \in [Recaller -> RecType]
    BY DEF Types
<1>2. RecoverInv /\ JobOf(t)
    BY DEF FileInv
<1>3. CASE Restart
    BY <1>3 DEF Restart, ReadInv, ReadOf, Served, Idle
<1> SUFFICES ASSUME ~Restart PROVE ReadInv'
    BY <1>3
<1>4. UNCHANGED <<app, shared, valid>>
    BY DEF RecallStep, RecallEvent, RecallAddJob, RecallStarts, RecallCopies,
       RecallFinishes,
           RecallRemovesTapeInfo, RecallRemovesState, RecallFails, SelRecallEnds, AddSelRecall,
           MigrationStep, TransferOpens, TransferPrepares, TransferStarts,
           TransferCopies, TransferChecks,
           TransferFails, TransferSuspended, addTapeAttr, Sync, ChangeState,
           StubTruncates, StubFails,
           StubFinishes, AddMigration, MigrationEnds, StaterStep, getattr, recoverFirst,
           recoverSecond, contents, locks
<1> SUFFICES ASSUME NEW a \in App, Served(a)' PROVE miginfo'.state \in Readable
    BY <1>4 DEF ReadInv, ReadOf
<1>5. a \in Recaller /\ a # Sel /\ ReadOf(a)
    BY FileAssumption DEF Recaller, ReadInv
<1>6. ASSUME rec'[a] = rec[a] PROVE Served(a) /\ miginfo.state \in Readable
    BY <1>6, <1>4, <1>5 DEF Served, ReadOf
<1>7. ASSUME NEW x \in Recaller, RecallStep(x) PROVE miginfo'.state \in Readable
    <2>1. \A y \in Recaller : y # x => rec'[y] = rec[y]
        <3>1. CASE RecallStarts(x)
            BY <3>1, <1>1 DEF RecallStarts, finishRecall, RecallGoes
        <3>2. CASE x \in App /\ RecallEvent(x)
            BY <3>2, <1>1 DEF RecallEvent, RecallGoes
        <3>3. CASE x \in App /\ RecallAddJob(x)
            BY <3>3, <1>1 DEF RecallAddJob, RecallGoes
        <3>4. CASE RecallFinishes(x)
            BY <3>4, <1>1 DEF RecallFinishes, finishRecall, RecallGoes
        <3>5. CASE x = Sel /\ SelRecallEnds
            BY <3>5, <1>1 DEF SelRecallEnds
        <3>6. CASE RecallCopies(x) \/ RecallRemovesTapeInfo(x) \/ RecallRemovesState(x) \/ RecallFails(x)
            BY <3>6, <1>1 DEF RecallCopies, RecallRemovesTapeInfo,
               RecallRemovesState, RecallFails, RecallGoes
        <3>7. QED
            BY <1>7, <3>1, <3>2, <3>3, <3>4, <3>5, <3>6 DEF RecallStep
    <2>2. CASE x # a
        <3>1. miginfo.state \in Readable
            BY <2>1, <2>2, <1>6, <1>5
        <3>2. miginfo'.state \in Readable \/ rec[x].pc = "ok"
            BY <3>1, <1>7, RecallServes
        <3>3. CASE rec[x].pc = "ok"
            <4>1. miginfo' = miginfo
                BY <3>3, <1>7 DEF RecallStep, RecallEvent, RecallAddJob,
                   RecallStarts, RecallCopies,
                   RecallFinishes, RecallRemovesTapeInfo, RecallRemovesState,
                   RecallFails, SelRecallEnds, file
            <4>2. QED
                BY <3>1, <4>1
        <3>4. QED
            BY <3>2, <3>3
    <2>3. CASE x = a
        <3>1. rec[a].pc # "ok"
            BY <2>3, <1>7, <1>5 DEF RecallStep, RecallEvent, RecallAddJob,
               RecallStarts, RecallCopies,
               RecallFinishes, RecallRemovesTapeInfo, RecallRemovesState, RecallFails
        <3>2. rec[a].pc # "none"
            BY <2>3, <1>7, <1>5 DEF RecallStep, RecallEvent, RecallAddJob,
               RecallStarts, RecallCopies,
               RecallFinishes, RecallRemovesTapeInfo, RecallRemovesState, RecallFails
        <3>3. app[a].pc = "recall"
            BY <3>2 DEF FileInv, OpOf
        <3>4. rec'[a].pc = "ok"
            BY <3>3, <1>4 DEF Served
        <3>5. QED
            BY <2>3, <3>1, <3>4, <1>7, RecallServes
    <2>4. QED
        BY <2>2, <2>3
<1>8. CASE AddSelRecall
    <2>1. rec'[a] = rec[a] /\ miginfo' = miginfo
        BY <1>8, <1>1, <1>5 DEF AddSelRecall, file
    <2>2. QED
        BY <2>1, <1>6
<1>9. CASE MigrationStep(t) \/ AddMigration \/ MigrationEnds
    <2>1. rec' = rec
        BY <1>9
           DEF MigrationStep, TransferOpens, TransferPrepares, TransferStarts,
               TransferCopies, TransferChecks,
               TransferFails, TransferSuspended, addTapeAttr, Sync, ChangeState,
               StubTruncates, StubFails,
               StubFinishes, AddMigration, MigrationEnds
    <2>2. Served(a) /\ miginfo.state \in Readable
        BY <2>1, <1>6
    <2>3. miginfo' = miginfo \/ \E s \in {"IN_MIGRATION", "PREMIGRATED"} : setMigInfoAt(s)
        <3>1. CASE ChangeState(t)
            <4>1. shared = {} /\ ~ReadInFlight
                BY <3>1 DEF ChangeState, CanLock
            <4>2. QED
                BY <4>1, <2>2, <1>5 DEF ReadInFlight, Served, ReadOf
        <3>2. CASE StubFinishes(t)
            BY <3>2, <2>2, <1>2 DEF StubFinishes, JobOf, Stubbing, Readable, OnDisk
        <3>3. QED
            BY <1>9, <3>1, <3>2
               DEF MigrationStep, TransferOpens, TransferPrepares, TransferStarts,
                   TransferCopies, TransferChecks,
                   TransferFails, TransferSuspended, addTapeAttr, Sync, StubTruncates,
                   StubFails,
                   AddMigration, MigrationEnds, file
    <2>4. QED
        BY <2>2, <2>3, <1>1, AttrSet DEF setMigInfoAt, Readable, OnDisk
<1>10. ASSUME NEW s \in Stater, StaterStep(s) PROVE miginfo'.state \in Readable
    <2>1. Unused /\ rec' = rec
        BY <1>10, <1>2 DEF StaterStep, getattr, recoverFirst, recoverSecond,
           RecoverInv, LookUpOf
    <2>2. QED
        BY <2>1, <1>6 DEF Unused, Served
<1>11. QED
    BY <1>7, <1>8, <1>9, <1>10

(* Steps of applications.                                                  *)
LEMMA AppServes ==
    ASSUME Types, FileInv, ReadInv, OwnHandles, Overlap = {}, NoEmptying, NEW t \in Tape, Tape = {t},
           NEW a \in App, StartOp(a) \/ AppStep(a)
    PROVE  ReadInv'
<1>1. FileType /\ rec \in [Recaller -> RecType] /\ app \in [App -> AppType]
    BY DEF Types
<1>2. LockInv /\ RecoverInv /\ OpOf(a) /\ ReadOf(a)
    BY DEF FileInv, ReadInv
<1>3. a \in Recaller /\ \A b \in App : b # a => b \in Recaller /\ AppHandle[b] # handleOf(a) /\ AppHandle[b] # a
    BY DEF Recaller, OwnHandles, handleOf
<1>4. Idle.pc = "idle" /\ NoRecall.pc = "none"
    BY DEF Idle, NoRecall
<1>5. ASSUME miginfo' = miginfo \/ miginfo'.state = "NONE",
             valid' = valid, \A b \in App : b # a => app'[b] = app[b] /\ rec'[b] = rec[b],
             \A b \in App : b # a => (AppHandle[b] \in shared => AppHandle[b] \in shared'),
             ReadOf(a)'
      PROVE  ReadInv'
    <2>1. ASSUME NEW b \in App, b # a PROVE ReadOf(b)'
        BY <2>1, <1>5 DEF ReadInv, ReadOf, Served, Readable, OnDisk
    <2>2. QED
        BY <2>1, <1>5 DEF ReadInv
<1>6. ASSUME app'[a].pc = "idle" PROVE ReadOf(a)'
    BY <1>6 DEF ReadOf, Served
<1>7. CASE StartOp(a)
    <2>1. PICK op \in AppOps : app' = [app EXCEPT ![a] = [pc |-> "main", op |-> op, expect |-> valid]]
        BY <1>7 DEF StartOp
    <2>2. /\ app'[a].pc = "main" /\ app'[a].op = op /\ app'[a].expect = valid
          /\ \A b \in App : b # a => app'[b] = app[b]
        BY <2>1, <1>1
    <2>3. UNCHANGED <<miginfo, valid, rec, shared>>
        BY <1>7 DEF StartOp, file, contents, locks
    <2>4. ReadOf(a)'
        BY <2>2, <2>3 DEF ReadOf, Served
    <2>5. QED
        BY <2>2, <2>3, <2>4, <1>5
<1>8. ASSUME NEW p \in {"trec", "recall", "remove", "io", "relock", "reply"}, app' = [app EXCEPT ![a].pc = p]
      PROVE  /\ app'[a].pc = p /\ app'[a].op = app[a].op /\ app'[a].expect = app[a].expect
             /\ \A b \in App : b # a => app'[b] = app[b]
    BY <1>8, <1>1 DEF AppType
<1>9. CASE LockMain(a)
    <2>1. /\ UNCHANGED <<miginfo, valid, rec>> /\ app[a].pc = "main"
          /\ shared \subseteq shared' /\ app' = [app EXCEPT ![a].pc = "trec"]
        BY <1>9 DEF LockMain, file, contents
    <2>2. ReadOf(a)'
        BY <2>1, <1>8, <1>2 DEF ReadOf, Served
    <2>3. QED
        BY <2>1, <2>2, <1>8, <1>5
<1>10. CASE /\ app[a].pc = "trec"
            /\ shared' = shared \ {handleOf(a)}
            /\ app' = [app EXCEPT ![a].pc = "recall"]
            /\ rec' = [rec EXCEPT ![a] = [pc |-> "event", tape |-> None,
                                           to |-> IF app[a].op = "read" THEN "PREMIGRATED" ELSE "RESIDENT"]]
            /\ UNCHANGED <<miginfo, valid>>
    <2>1. rec'[a].pc = "event" /\ \A x \in Recaller : x # a => rec'[x] = rec[x]
        BY <1>10, <1>1, <1>3
    <2>2. ReadOf(a)'
        BY <1>10, <2>1, <1>8, <1>2 DEF ReadOf, Served
    <2>3. QED
        BY <1>10, <2>1, <2>2, <1>3, <1>8, <1>5
<1>11. CASE /\ app[a].pc = "trec" /\ RemovesAttributes(app[a].op)
            /\ miginfo' = NoAttr
            /\ valid' = IF toZero(app[a].op) THEN valid \cup {disk} ELSE valid
            /\ app' = [app EXCEPT ![a].pc = "remove"]
            /\ UNCHANGED <<rec, shared>>
    <2>1. app[a].op # "read" /\ app[a].op \in AppOps
        BY <1>11, <1>2 DEF RemovesAttributes, ReadOf
    <2>2. ReadOf(a)'
        BY <1>11, <2>1, <1>8 DEF ReadOf, Served
    <2>3. CASE toZero(app[a].op)
        <3>1. \A b \in App : b = a
            BY <2>1, <2>3 DEF NoEmptying, toZero
        <3>2. QED
            BY <2>2, <3>1 DEF ReadInv
    <2>4. CASE ~toZero(app[a].op)
        BY <1>11, <2>2, <2>4, <1>8, <1>5 DEF NoAttr
    <2>5. QED
        BY <2>3, <2>4
<1>12. CASE /\ app[a].pc = "trec" /\ ~NeedsRecall(app[a].op)
            /\ LeaveScope(a, shared)
            /\ app' = [app EXCEPT ![a].pc = "io"]
            /\ UNCHANGED <<miginfo, valid, rec>>
    <2>1. ~Locked /\ ~needsRecovery
        BY <1>12, <1>2, Busy DEF OpOf, LockInv
    <2>2. miginfo.state # "STUBBING"
        BY <2>1, <1>2, NotStubbing DEF Locked, Stubbing
    <2>3. app[a].op = "read" => miginfo.state \in Readable
        BY <1>12, <2>2, <1>1 DEF NeedsRecall, toZero, Readable, OnDisk,
           FileType, MigInfo, MigState
    <2>4. app[a].op = "read" => AppHandle[a] \in shared'
        BY <1>12, <1>2 DEF OpOf, handleOf, byPath, LeaveScope
    <2>5. ReadOf(a)'
        BY <1>12, <2>3, <2>4, <1>8, <1>2 DEF ReadOf, Served
    <2>6. \A b \in App : b # a => (AppHandle[b] \in shared => AppHandle[b] \in shared')
        BY <1>12, <1>3 DEF LeaveScope
    <2>7. QED
        BY <1>12, <2>5, <2>6, <1>8, <1>5
<1>13. CASE CheckState(a)
    BY <1>13, <1>10, <1>11, <1>12 DEF CheckState
<1>14. CASE RemoveTapeInfo(a)
    <2>1. /\ UNCHANGED <<miginfo, valid, rec>> /\ app[a].pc = "remove"
          /\ \/ LeaveScope(a, shared) /\ app' = [app EXCEPT ![a].pc = "io"]
             \/ shared' = shared \ {handleOf(a)} /\ app' = [app EXCEPT ![a] = Idle]
        BY <1>14 DEF RemoveTapeInfo, contents
    <2>2. app[a].op # "read"
        BY <2>1, <1>2 DEF OpOf
    <2>3. \A b \in App : b # a => (AppHandle[b] \in shared => AppHandle[b] \in shared')
        BY <2>1, <1>3 DEF LeaveScope
    <2>4. CASE app' = [app EXCEPT ![a].pc = "io"]
        <3>1. ReadOf(a)'
            BY <2>1, <2>2, <2>4, <1>8, <1>2 DEF ReadOf, Served
        <3>2. QED
            BY <2>1, <2>3, <2>4, <3>1, <1>8, <1>5
    <2>5. CASE app' = [app EXCEPT ![a] = Idle]
        <3>1. app'[a].pc = "idle" /\ \A b \in App : b # a => app'[b] = app[b]
            BY <2>5, <1>1, <1>4
        <3>2. QED
            BY <2>1, <2>3, <3>1, <1>6, <1>5
    <2>6. QED
        BY <2>1, <2>4, <2>5
<1>15. CASE RecallAnswered(a)
    <2>1. /\ UNCHANGED <<miginfo, valid, shared>>
          /\ app[a].pc = "recall" /\ rec' = [rec EXCEPT ![a] = NoRecall]
          /\ \/ rec[a].pc = "ok" /\ app' = [app EXCEPT ![a].pc = "relock"]
             \/ app' = [app EXCEPT ![a] = Idle]
        BY <1>15 DEF RecallAnswered, file, contents
    <2>2. \A x \in Recaller : x # a => rec'[x] = rec[x]
        BY <2>1, <1>1
    <2>3. CASE rec[a].pc = "ok" /\ app' = [app EXCEPT ![a].pc = "relock"]
        <3>1. ReadOf(a)'
            BY <2>1, <2>3, <1>8, <1>2 DEF ReadOf, Served
        <3>2. QED
            BY <2>1, <2>2, <2>3, <3>1, <1>3, <1>8, <1>5
    <2>4. CASE app' = [app EXCEPT ![a] = Idle]
        <3>1. app'[a].pc = "idle" /\ \A b \in App : b # a => app'[b] = app[b]
            BY <2>4, <1>1, <1>4
        <3>2. QED
            BY <2>1, <2>2, <3>1, <1>3, <1>6, <1>5
    <2>5. QED
        BY <2>1, <2>3, <2>4
<1>16. CASE RelockMain(a)
    <2>1. /\ UNCHANGED <<miginfo, valid, rec>> /\ app[a].pc = "relock"
          /\ LeaveScope(a, shared \cup {handleOf(a)}) /\ app' = [app EXCEPT ![a].pc = "io"]
        BY <1>16 DEF RelockMain, file, contents
    <2>2. app[a].op = "read" => AppHandle[a] \in shared'
        BY <2>1 DEF LeaveScope, handleOf, byPath
    <2>3. \A b \in App : b # a => (AppHandle[b] \in shared => AppHandle[b] \in shared')
        BY <2>1, <1>3 DEF LeaveScope
    <2>4. ReadOf(a)'
        BY <2>1, <2>2, <1>8, <1>2 DEF ReadOf, Served
    <2>5. QED
        BY <2>1, <2>3, <2>4, <1>8, <1>5
<1>17. CASE ReadReturns(a)
    <2>1. /\ UNCHANGED <<miginfo, valid, rec>> /\ app[a].pc = "io" /\ app[a].op = "read"
          /\ shared' = shared \ {handleOf(a)} /\ app' = [app EXCEPT ![a].pc = "reply"]
        BY <1>17 DEF ReadReturns, file, contents
    <2>2. ReadOf(a)'
        BY <2>1, <1>8, <1>2 DEF ReadOf, Served
    <2>3. QED
        BY <2>1, <2>2, <1>3, <1>8, <1>5
<1>18. CASE ReadData(a)
    <2>1. UNCHANGED <<miginfo, valid, rec, shared>> /\ app' = [app EXCEPT ![a] = Idle]
        BY <1>18 DEF ReadData, file, contents, locks
    <2>2. app'[a].pc = "idle" /\ \A b \in App : b # a => app'[b] = app[b]
        BY <2>1, <1>1, <1>4
    <2>3. QED
        BY <2>1, <2>2, <1>6, <1>5
<1>19. CASE ChangeData(a)
    <2>1. /\ UNCHANGED <<miginfo, rec>> /\ shared' = shared \ {handleOf(a)}
          /\ app' = [b \in App |-> IF b = a THEN Idle ELSE [app[b] EXCEPT !.expect = @ \cup valid']]
        BY <1>19 DEF ChangeData
    <2>2. /\ app'[a].pc = "idle"
          /\ \A b \in App : b # a => /\ app'[b].pc = app[b].pc /\ app'[b].op = app[b].op
                                     /\ app'[b].expect = app[b].expect \cup valid'
        BY <2>1, <1>1, <1>4 DEF AppType
    <2>3. ASSUME NEW b \in App, b # a PROVE ReadOf(b)'
        BY <2>1, <2>2, <2>3, <1>3 DEF ReadInv, ReadOf, Served
    <2>4. QED
        BY <2>2, <2>3, <1>6 DEF ReadInv
<1>20. QED
    BY <1>7, <1>9, <1>13, <1>14, <1>15, <1>16, <1>17, <1>18, <1>19
       DEF AppStep

(* Every step preserves ReadInv.                                           *)
LEMMA NextReads ==
    ASSUME OneReplica, OwnHandles, OneLookUp, Overlap = {}, NoEmptying, Types, FileInv, ReadInv, [Next]_vars
    PROVE  ReadInv'
<1>1. PICK t \in Tape : Tape = {t}
    <2>1. Tape # {}
        BY FileAssumption, FS_EmptySet
    <2>2. QED
        BY <2>1 DEF OneReplica
<1>2. CASE UNCHANGED vars
    BY <1>2 DEF ReadInv, ReadOf, Served, vars, file, contents, locks
<1>3. CASE Next
    BY <1>1, <1>3, AppServes, OthersServe DEF Next
<1>4. QED
    BY <1>2, <1>3

(* A read returns data that was the content of the file during the read,   *)
(* although ltfsdm_read_buf has given back its locks before the data is    *)
(* read.                                                                   *)
THEOREM ReadsSeeContentAlone ==
    ASSUME OneReplica, OwnHandles, OneLookUp, Overlap = {}, NoEmptying
    PROVE  Spec => ReadsSeeContent
<1>1. Init => ReadInv
    BY DEF Init, ReadInv, ReadOf, Served, Idle
<1>2. TypeOK /\ FileInv /\ ReadInv /\ [Next]_vars => ReadInv'
    BY NextReads, TypesOK
<1>3. FileInv /\ ReadInv => [ReadStep]_vars
    <2>1. SUFFICES ASSUME FileInv, ReadInv, NEW a \in App, app[a].pc = "reply" PROVE disk \in app[a].expect
        BY DEF ReadStep
    <2>2. miginfo.state \in Readable /\ valid \subseteq app[a].expect
        BY <2>1 DEF ReadInv, ReadOf, Served
    <2>3. PICK t \in Tape : TRUE
        BY FileAssumption, FS_EmptySet
    <2>4. disk \in valid
        BY <2>1, <2>2, <2>3 DEF FileInv, DataInv, Readable, OnDisk, Copied
    <2>5. QED
        BY <2>2, <2>4
<1>4. QED
    BY <1>1, <1>2, <1>3, FileInvAlways, FileTypeCorrect, PTL DEF Spec,
       ReadsSeeContent
=============================================================================
