------------------------------ MODULE FileState ------------------------------
(***************************************************************************)
(* One file under LTFS Data Management: its data on disk and on tape, its  *)
(* two extended attributes, the two locks of the Fuse overlay file system, *)
(* and everybody who changes them: the operations of applications          *)
(* (connector/fuse/FuseFS.cc), migration (server/Migration.cc), selective  *)
(* and transparent recall (server/SelRecall.cc, server/TransRecall.cc) and *)
(* the recovery of a state that a dead server has left behind.             *)
(*                                                                         *)
(* The data of a file is a version: the k-th change an application makes   *)
(* gives version k.  A change is a step, copying is two steps.  Tapes and  *)
(* drives are granted by the scheduler and are always there here.          *)
(***************************************************************************)
EXTENDS Integers, Sequences, FiniteSets

CONSTANTS Tape,        (* one tape per replica                              *)
          App,         (* threads of applications                           *)
          AppHandle,   (* application -> the open file it works with        *)
          AppOps,      (* operations the applications use                   *)
          Stater,      (* threads that look up the file (getattr)           *)
          Sel,         (* the selective recall                              *)
          Size,        (* version -> its size                               *)
          Empty,       (* no data: a stub, or a file truncated to zero      *)
          Partial,     (* data no application has written                   *)
          None,
          Target,      (* target states of the migration requests           *)
          Overlap,     (* what may happen at the same time, see Compatible  *)
          MaxChanges,  (* bound on changes by applications                  *)
          MaxRequests, (* bound on migration requests                       *)
          MaxRestarts  (* bound on restarts of the server                   *)

Op == {"read", "write", "ftruncate", "ftruncate0", "truncate", "truncate0"}

Handle == App \cup {AppHandle[a] : a \in App}

Version == 0 .. MaxChanges

Data == Version \cup {Empty, Partial}

(* Modification times: an application's change has the time of its         *)
(* version, changes by the server have none that a job could know.         *)
Time == Version \cup {None}

Recaller == App \cup {Sel}

(* The size of the array in the tape attribute.  A copy beyond it would be *)
(* written outside of the array: the bounds keep clear of that.            *)
maxReplica == 3

ASSUME FileAssumption ==
    /\ AppHandle \in [App -> Handle]
    /\ AppOps \subseteq Op
    /\ Sel \notin App
    /\ MaxChanges \in Nat /\ MaxRequests \in Nat /\ MaxRestarts \in Nat
    /\ Size \in [Version -> Nat \ {0}]
    /\ {Empty, Partial, None} \cap Version = {}
    /\ Empty # Partial /\ None \notin Tape \cup Handle
    /\ Target \subseteq {"PREMIGRATED", "MIGRATED"}
    /\ Overlap \subseteq {"read", "update", "recall", "recovery"}
    /\ IsFiniteSet(Tape) /\ Cardinality(Tape) \in 1 .. maxReplica
    /\ MaxRequests * Cardinality(Tape) <= maxReplica

VARIABLES disk,      (* the data of the file in the file system             *)
          mtime,     (* its modification time there                         *)
          miginfo,   (* attribute LTFSDM_EA_MIGSTATE                        *)
          tapeInfo,  (* attribute LTFSDM_EA_MIGINFO: the tapes with a copy  *)
          tape,      (* tape -> data of the copy, None if there is no file  *)
          synced,    (* tapes whose index has been written since            *)
          valid,     (* the contents an application may expect              *)
          changes,   (* number of changes by applications                   *)
          target,    (* target state of the migration request               *)
          job,       (* tape -> migration job of that replica               *)
          rec,       (* recaller -> its recall job                          *)
          app,       (* application -> its operation                        *)
          shared,    (* open files that hold the main lock, shared          *)
          trec,      (* the open file that holds the recall lock            *)
          stater,    (* thread -> the state it is recovering                *)
          requests,  (* migration requests that may still come              *)
          restarts   (* restarts that may still happen                      *)

file == <<disk, mtime, miginfo, tapeInfo>>
onTape == <<tape, synced>>
contents == <<valid, changes>>
bounds == <<requests, restarts>>
locks == <<shared, trec>>
vars == <<file, onTape, contents, target, job, rec, app, locks, stater, bounds>>

MigState == {"NONE", "RESIDENT", "IN_MIGRATION", "PREMIGRATED", "STUBBING",
             "MIGRATED", "IN_RECALL"}

(* old: written before the server was started.                             *)
MigInfo == [state: MigState, mtime: Time, size: Nat, old: BOOLEAN]

JobType == [pc: {"none", "added", "opened", "prepared", "copying", "copied",
                 "checked", "transferred", "change", "stub", "stubbing",
                 "truncated", "done", "failed"},
            mtime: Time, seen: Data]

RecType == [pc: {"none", "event", "adding", "lost", "job", "recalling",
                 "recalled", "resident", "cleared", "ok", "failed"},
            to: {"PREMIGRATED", "RESIDENT"}, tape: Tape \cup {None}]

AppType == [pc: {"idle", "main", "trec", "remove", "recall", "relock", "io", "reply"},
            op: Op, expect: SUBSET Data]

TypeOK ==
    /\ disk \in Data /\ mtime \in Time
    /\ miginfo \in MigInfo
    /\ tapeInfo \in Seq(Tape)
    /\ tape \in [Tape -> Data \cup {None}] /\ synced \in SUBSET Tape
    /\ valid \in SUBSET Data /\ changes \in Version
    /\ target \in {"PREMIGRATED", "MIGRATED"}
    /\ job \in [Tape -> JobType]
    /\ rec \in [Recaller -> RecType]
    /\ app \in [App -> AppType]
    /\ shared \in SUBSET Handle /\ trec \in Handle \cup {None}
    /\ stater \in [Stater -> [pc: {"idle", "first", "second"}, state: MigState]]
    /\ requests \in 0 .. MaxRequests /\ restarts \in 0 .. MaxRestarts

NoAttr == [state |-> "NONE", mtime |-> None, size |-> 0, old |-> FALSE]
NoJob == [pc |-> "none", mtime |-> None, seen |-> Empty]
NoRecall == [pc |-> "none", to |-> "PREMIGRATED", tape |-> None]
Idle == [pc |-> "idle", op |-> "read", expect |-> {}]
NotRecovering == [pc |-> "idle", state |-> "NONE"]

(* A resident file that the server has never seen.                         *)
Init ==
    /\ disk = 0 /\ mtime = 0
    /\ miginfo = NoAttr /\ tapeInfo = <<>>
    /\ tape = [t \in Tape |-> None] /\ synced = {}
    /\ valid = {0} /\ changes = 0
    /\ target = "MIGRATED"
    /\ job = [t \in Tape |-> NoJob]
    /\ rec = [x \in Recaller |-> NoRecall]
    /\ app = [a \in App |-> Idle]
    /\ shared = {} /\ trec = None
    /\ stater = [s \in Stater |-> NotRecovering]
    /\ requests = MaxRequests /\ restarts = MaxRestarts

------------------------------------------------------------------------------
(* Attributes and locks.                                                   *)

SizeOf(d) == IF d = Empty THEN 0 ELSE IF d = Partial THEN 1 ELSE Size[d]

(* Mutant of MigInfoAt: the size of a resident file is left UNSET.         *)
MigInfoAtUnset(state, modified) ==
    IF miginfo.state \in {"NONE", "RESIDENT"}
    THEN [state |-> state, mtime |-> modified, size |-> -1, old |-> FALSE]
    ELSE [miginfo EXCEPT !.state = state, !.old = FALSE]

(* FuseFS::setMigInfoAt keeps time and size of a file that has left the    *)
(* resident state; modified is the time of the file on disk.               *)
MigInfoAt(state, modified) ==
    IF miginfo.state \in {"NONE", "RESIDENT"}
    THEN [state |-> state, mtime |-> modified, size |-> SizeOf(disk), old |-> FALSE]
    ELSE [miginfo EXCEPT !.state = state, !.old = FALSE]

setMigInfoAt(state) == miginfo' = MigInfoAt(state, mtime)

getMigState ==
    CASE miginfo.state \in {"NONE", "RESIDENT", "IN_MIGRATION"} -> "RESIDENT"
      [] miginfo.state \in {"MIGRATED", "IN_RECALL"} -> "MIGRATED"
      [] miginfo.state \in {"PREMIGRATED", "STUBBING"} -> "PREMIGRATED"

(* What stat() on the overlay file system reports (ltfsdm_getattr).        *)
statMtime == IF miginfo.state \in {"NONE", "RESIDENT"} THEN mtime ELSE miginfo.mtime

statSize == IF miginfo.state \in {"NONE", "RESIDENT"} THEN SizeOf(disk) ELSE miginfo.size

(* The main lock is held exclusively by threads of the server while they   *)
(* are here.                                                               *)
Locked ==
    \/ \E t \in Tape : job[t].pc \in {"stubbing", "truncated"}
    \/ \E x \in Recaller : rec[x].pc \in {"recalling", "recalled", "resident", "cleared"}

CanLock == shared = {} /\ ~Locked

needsRecovery == miginfo.old /\ miginfo.state \in {"IN_MIGRATION", "STUBBING", "IN_RECALL"}

(* Every operation on the path starts with a getattr, which recovers the   *)
(* state; unless "recovery" is in Overlap nobody else is in the middle of  *)
(* it then.                                                                *)
LookedUp ==
    /\ ~needsRecovery
    /\ "recovery" \in Overlap \/ \A s \in Stater : stater[s].pc = "idle"

Migrating == \E t \in Tape : job[t].pc # "none"

(* Unless "update" is in Overlap, no file is changed while it is migrated, *)
(* or after a migration has failed and has left it IN_MIGRATION.           *)
Compatible(op) ==
    op = "read" \/ "update" \in Overlap \/ (~Migrating /\ miginfo.state # "IN_MIGRATION")

(* A read that relies on data on disk and does not hold the main lock:     *)
(* the recall has been answered, or the data is about to be read.  Unless  *)
(* "read" is in Overlap the file is not stubbed then.                      *)
ReadInFlight ==
    \E a \in App : /\ app[a].op = "read"
                  /\ \/ app[a].pc \in {"relock", "reply"}
                     \/ app[a].pc = "recall" /\ rec[a].pc = "ok"

------------------------------------------------------------------------------
(* Operations of applications: ltfsdm_read_buf, ltfsdm_write_buf,          *)
(* ltfsdm_ftruncate, ltfsdm_truncate.  The locks are flock() locks of the  *)
(* open file: threads with the same open file share them.                  *)

byPath(op) == op \in {"truncate", "truncate0"}

handleOf(a) == IF byPath(app[a].op) THEN a ELSE AppHandle[a]

toZero(op) == op \in {"ftruncate0", "truncate0"}

Updating == {a \in App : app[a].pc # "idle" /\ app[a].op # "read"}

StartOp(a) ==
    /\ app[a].pc = "idle" /\ LookedUp
    /\ \E op \in AppOps :
        /\ Compatible(op)
        /\ op = "read" \/ changes + Cardinality(Updating) < MaxChanges
        /\ app' = [app EXCEPT ![a] = [pc |-> "main", op |-> op, expect |-> valid]]
    /\ UNCHANGED <<file, onTape, contents, target, job, rec, locks, stater, bounds>>

LockMain(a) ==
    /\ app[a].pc = "main" /\ ~Locked
    /\ shared' = shared \cup {handleOf(a)}
    /\ app' = [app EXCEPT ![a].pc = "trec"]
    /\ UNCHANGED <<file, onTape, contents, target, job, rec, trec, stater, bounds>>

(* Mutant of NeedsRecall: a recall that failed half way is forgotten.      *)
NeedsRecallMigratedOnly(op) == ~toZero(op) /\ miginfo.state = "MIGRATED"

NeedsRecall(op) == ~toZero(op) /\ miginfo.state \in {"MIGRATED", "IN_RECALL"}

RemovesAttributes(op) ==
    \/ op = "write" /\ miginfo.state = "PREMIGRATED"
    \/ op \notin {"read", "write"} /\ miginfo.state # "NONE"

(* The end of the scope of the recall lock; ltfsdm_truncate also gives the *)
(* main lock back here, before it truncates.                               *)
LeaveScope(a, held) ==
    /\ trec' = None
    /\ shared' = IF byPath(app[a].op) THEN held \ {a} ELSE held

(* Mutant of CheckState: the main lock is kept during the recall.          *)
CheckStateKeepsMain(a) ==
    LET op == app[a].op
        h == handleOf(a)
    IN  /\ app[a].pc = "trec" /\ trec \in {None, h}
        /\ \/ /\ NeedsRecall(op)
              /\ trec' = h /\ shared' = shared
              /\ app' = [app EXCEPT ![a].pc = "recall"]
              /\ rec' = [rec EXCEPT ![a] =
                           [pc |-> "event", tape |-> None,
                            to |-> IF op = "read" THEN "PREMIGRATED" ELSE "RESIDENT"]]
              /\ UNCHANGED <<miginfo, valid>>
           \/ /\ ~NeedsRecall(op) /\ RemovesAttributes(op)
              /\ miginfo' = NoAttr
              /\ valid' = IF toZero(op) THEN valid \cup {disk} ELSE valid
              /\ trec' = h
              /\ app' = [app EXCEPT ![a].pc = "remove"]
              /\ UNCHANGED <<rec, shared>>
           \/ /\ ~NeedsRecall(op) /\ ~RemovesAttributes(op)
              /\ LeaveScope(a, shared)
              /\ app' = [app EXCEPT ![a].pc = "io"]
              /\ UNCHANGED <<miginfo, valid, rec>>
        /\ UNCHANGED <<disk, mtime, tapeInfo, onTape, changes, target, job, stater, bounds>>

(* The recall lock is taken and the state is read.  A truncation to zero   *)
(* that dies half way leaves what is on disk, a stub perhaps.              *)
CheckState(a) ==
    LET op == app[a].op
        h == handleOf(a)
    IN  /\ app[a].pc = "trec" /\ trec \in {None, h}
        /\ \/ /\ NeedsRecall(op)
              /\ trec' = h /\ shared' = shared \ {h}
              /\ app' = [app EXCEPT ![a].pc = "recall"]
              /\ rec' = [rec EXCEPT ![a] =
                           [pc |-> "event", tape |-> None,
                            to |-> IF op = "read" THEN "PREMIGRATED" ELSE "RESIDENT"]]
              /\ UNCHANGED <<miginfo, valid>>
           \/ /\ ~NeedsRecall(op) /\ RemovesAttributes(op)
              /\ miginfo' = NoAttr
              /\ valid' = IF toZero(op) THEN valid \cup {disk} ELSE valid
              /\ trec' = h
              /\ app' = [app EXCEPT ![a].pc = "remove"]
              /\ UNCHANGED <<rec, shared>>
           \/ /\ ~NeedsRecall(op) /\ ~RemovesAttributes(op)
              /\ LeaveScope(a, shared)
              /\ app' = [app EXCEPT ![a].pc = "io"]
              /\ UNCHANGED <<miginfo, valid, rec>>
        /\ UNCHANGED <<disk, mtime, tapeInfo, onTape, changes, target, job, stater, bounds>>

(* The tape attribute is removed; if there is none the operation fails.    *)
RemoveTapeInfo(a) ==
    /\ app[a].pc = "remove"
    /\ \/ /\ tapeInfo # <<>>
          /\ LeaveScope(a, shared)
          /\ app' = [app EXCEPT ![a].pc = "io"]
       \/ /\ tapeInfo = <<>>
          /\ trec' = None /\ shared' = shared \ {handleOf(a)}
          /\ app' = [app EXCEPT ![a] = Idle]
    /\ tapeInfo' = <<>>
    /\ UNCHANGED <<disk, mtime, miginfo, onTape, contents, target, job, rec, stater, bounds>>

(* recall_file returns; the operation fails if the recall has failed.      *)
RecallAnswered(a) ==
    /\ app[a].pc = "recall" /\ rec[a].pc \in {"ok", "failed"}
    /\ \/ /\ rec[a].pc = "ok"
          /\ app' = [app EXCEPT ![a].pc = "relock"]
          /\ UNCHANGED trec
       \/ /\ rec[a].pc = "failed"
          /\ app' = [app EXCEPT ![a] = Idle]
          /\ trec' = None
    /\ rec' = [rec EXCEPT ![a] = NoRecall]
    /\ UNCHANGED <<file, onTape, contents, target, job, shared, stater, bounds>>

(* The main lock is taken again; the state is not read again.              *)
RelockMain(a) ==
    /\ app[a].pc = "relock" /\ ~Locked
    /\ LeaveScope(a, shared \cup {handleOf(a)})
    /\ app' = [app EXCEPT ![a].pc = "io"]
    /\ UNCHANGED <<file, onTape, contents, target, job, rec, stater, bounds>>

(* ltfsdm_read_buf returns a reference to the file; libfuse reads the data *)
(* after the locks have been released.                                     *)
ReadReturns(a) ==
    /\ app[a].pc = "io" /\ app[a].op = "read"
    /\ shared' = shared \ {handleOf(a)}
    /\ app' = [app EXCEPT ![a].pc = "reply"]
    /\ UNCHANGED <<file, onTape, contents, target, job, rec, trec, stater, bounds>>

ReadData(a) ==
    /\ app[a].pc = "reply"
    /\ app' = [app EXCEPT ![a] = Idle]
    /\ UNCHANGED <<file, onTape, contents, target, job, rec, locks, stater, bounds>>

(* A write or a truncation changes a part of the data: what results is     *)
(* what the application wants only if the rest was there.                  *)
ChangeData(a) ==
    LET new == changes + 1 IN
    /\ app[a].pc = "io" /\ app[a].op # "read" /\ changes < MaxChanges
    /\ disk' = IF toZero(app[a].op) THEN Empty ELSE IF disk \in valid THEN new ELSE Partial
    /\ valid' = IF toZero(app[a].op) THEN {Empty} ELSE {new}
    /\ mtime' = new /\ changes' = new
    /\ shared' = shared \ {handleOf(a)}
    /\ app' = [b \in App |-> IF b = a THEN Idle
                             ELSE [app[b] EXCEPT !.expect = @ \cup valid']]
    /\ UNCHANGED <<miginfo, tapeInfo, onTape, target, job, rec, trec, stater, bounds>>

AppStep(a) ==
    \/ LockMain(a)
    \/ CheckState(a)
    \/ RemoveTapeInfo(a)
    \/ RecallAnswered(a)
    \/ RelockMain(a)
    \/ ReadReturns(a)
    \/ ReadData(a)
    \/ ChangeData(a)

------------------------------------------------------------------------------
(* Recalls.  A transparent recall is asked for by an operation that waits  *)
(* for the answer, a selective one by a client.                            *)

RecallGoes(x, pc) == rec' = [rec EXCEPT ![x].pc = pc]

(* The event in TransRecall::run.  A file that is resident by now has its  *)
(* state set again, without a lock.                                        *)
RecallEvent(a) ==
    /\ rec[a].pc = "event"
    /\ \/ /\ getMigState = "RESIDENT"
          /\ mtime' = miginfo.mtime
          /\ miginfo' = MigInfoAt("RESIDENT", miginfo.mtime)
          /\ RecallGoes(a, "ok")
       \/ /\ getMigState # "RESIDENT"
          /\ rec' = [rec EXCEPT ![a] =
                       [@ EXCEPT !.pc = "adding",
                                 !.tape = IF tapeInfo = <<>> THEN None ELSE tapeInfo[1]]]
          /\ UNCHANGED <<mtime, miginfo>>
    /\ UNCHANGED <<disk, tapeInfo, onTape, contents, target, job, app, locks, stater, bounds>>

InJobQueue(a) == rec[a].pc \in {"job", "recalling", "recalled", "resident", "cleared"}

(* TransRecall::addJob.  JOB_QUEUE has at most one job of a file: if there *)
(* is one already the INSERT fails, its exception ends in the discarded    *)
(* future of the thread pool and the event has no answer.                  *)
RecallAddJob(a) ==
    /\ rec[a].pc = "adding"
    /\ \/ getMigState = "RESIDENT" /\ RecallGoes(a, "ok")
       \/ /\ getMigState # "RESIDENT"
          /\ RecallGoes(a, IF \E b \in App : InJobQueue(b) THEN "lost" ELSE "job")
    /\ UNCHANGED <<file, onTape, contents, target, job, app, locks, stater, bounds>>

(* SelRecall::addJob and processFiles up to the call of recall; unless     *)
(* "recall" is in Overlap, not while a file is stubbed without a pool.     *)
AddSelRecall ==
    /\ rec[Sel].pc = "none" /\ LookedUp
    /\ "recall" \in Overlap \/ \A t \in Tape : job[t].pc # "stub"
    /\ getMigState # "RESIDENT"
    /\ \E to \in {"PREMIGRATED", "RESIDENT"} :
        /\ to # getMigState
        /\ rec' = [rec EXCEPT ![Sel] =
                     [pc |-> "job", to |-> to,
                      tape |-> IF tapeInfo = <<>> THEN None ELSE tapeInfo[1]]]
    /\ UNCHANGED <<file, onTape, contents, target, job, app, locks, stater, bounds>>

OnTape(t) == IF t = None THEN None ELSE tape[t]

(* FsObj::finishRecall, under the lock.                                    *)
finishRecall(x) ==
    \/ /\ rec[x].to = "PREMIGRATED"
       /\ setMigInfoAt("PREMIGRATED")
       /\ RecallGoes(x, "ok")
       /\ UNCHANGED mtime
    \/ /\ rec[x].to = "RESIDENT"
       /\ mtime' = miginfo.mtime
       /\ miginfo' = MigInfoAt("RESIDENT", miginfo.mtime)
       /\ RecallGoes(x, "resident")

(* SelRecall::recall and TransRecall::recall take the lock, look at the    *)
(* state again and start to overwrite the stub.                            *)
RecallStarts(x) ==
    LET data == OnTape(rec[x].tape) IN
    /\ rec[x].pc = "job" /\ CanLock
    /\ \/ /\ getMigState = "RESIDENT"
          /\ RecallGoes(x, "ok")
          /\ UNCHANGED file
       \/ /\ getMigState = "PREMIGRATED"
          /\ finishRecall(x)
          /\ UNCHANGED <<disk, tapeInfo>>
       \/ /\ getMigState = "MIGRATED" /\ data # None
          /\ rec' = [rec EXCEPT ![x] =
                       [@ EXCEPT !.pc = "recalling",
                                 !.to = IF SizeOf(data) # miginfo.size THEN "RESIDENT" ELSE rec[x].to]]
          /\ setMigInfoAt("IN_RECALL")
          /\ disk' = IF data = Empty THEN disk ELSE Partial
          /\ mtime' = IF data = Empty THEN mtime ELSE None
          /\ UNCHANGED tapeInfo
    /\ UNCHANGED <<onTape, contents, target, job, app, locks, stater, bounds>>

RecallCopies(x) ==
    LET data == OnTape(rec[x].tape) IN
    /\ rec[x].pc = "recalling"
    /\ disk' = IF data = Empty THEN disk ELSE data
    /\ RecallGoes(x, "recalled")
    /\ UNCHANGED <<mtime, miginfo, tapeInfo, onTape, contents, target, job, app, locks, stater, bounds>>

RecallFinishes(x) ==
    /\ rec[x].pc = "recalled"
    /\ finishRecall(x)
    /\ UNCHANGED <<disk, tapeInfo, onTape, contents, target, job, app, locks, stater, bounds>>

(* FsObj::remAttribute removes two attributes.                             *)
RecallRemovesTapeInfo(x) ==
    /\ rec[x].pc = "resident"
    /\ tapeInfo' = <<>>
    /\ RecallGoes(x, "cleared")
    /\ UNCHANGED <<disk, mtime, miginfo, onTape, contents, target, job, app, locks, stater, bounds>>

RecallRemovesState(x) ==
    /\ rec[x].pc = "cleared"
    /\ miginfo' = NoAttr
    /\ RecallGoes(x, "ok")
    /\ UNCHANGED <<disk, mtime, tapeInfo, onTape, contents, target, job, app, locks, stater, bounds>>

(* The tape cannot be read, at once or in the middle of the data.          *)
RecallFails(x) ==
    /\ \/ rec[x].pc = "job" /\ CanLock /\ getMigState = "MIGRATED"
       \/ rec[x].pc = "recalling"
    /\ RecallGoes(x, "failed")
    /\ UNCHANGED <<file, onTape, contents, target, job, app, locks, stater, bounds>>

SelRecallEnds ==
    /\ rec[Sel].pc \in {"ok", "failed"}
    /\ rec' = [rec EXCEPT ![Sel] = NoRecall]
    /\ UNCHANGED <<file, onTape, contents, target, job, app, locks, stater, bounds>>

RecallStep(x) ==
    \/ x \in App /\ RecallEvent(x)
    \/ x \in App /\ RecallAddJob(x)
    \/ RecallStarts(x)
    \/ RecallCopies(x)
    \/ RecallFinishes(x)
    \/ RecallRemovesTapeInfo(x)
    \/ RecallRemovesState(x)
    \/ RecallFails(x)
    \/ x = Sel /\ SelRecallEnds

------------------------------------------------------------------------------
(* Migration.                                                              *)

JobGoes(t, pc) == job' = [job EXCEPT ![t].pc = pc]

(* Migration::addJob and addRequest: one job per replica.  A file that is  *)
(* premigrated needs no tape, and no pool either: then there is one job    *)
(* that does not count the copies.  A migrated file is left alone.         *)
AddMigration ==
    /\ ~Migrating /\ LookedUp
    /\ requests > 0 /\ requests' = requests - 1
    /\ "update" \in Overlap \/ \A a \in App : app[a].pc # "idle" => app[a].op = "read"
    /\ target' \in Target
    /\ \/ /\ getMigState = "RESIDENT"
          /\ job' = [t \in Tape |-> [NoJob EXCEPT !.pc = "added", !.mtime = statMtime]]
       \/ /\ getMigState = "PREMIGRATED" /\ target' = "MIGRATED"
          /\ \/ /\ tapeInfo # <<>>
                /\ job' = [t \in Tape |-> [NoJob EXCEPT !.pc = "change", !.mtime = statMtime]]
             \/ /\ "recall" \in Overlap \/ rec[Sel].pc = "none"
                /\ \E t \in Tape :
                    job' = [job EXCEPT ![t] = [NoJob EXCEPT !.pc = "stub", !.mtime = statMtime]]
    /\ UNCHANGED <<file, onTape, contents, rec, app, locks, stater, restarts>>

(* Migration::transferData opens the file on tape with O_TRUNC.            *)
TransferOpens(t) ==
    /\ job[t].pc = "added"
    /\ tape' = [tape EXCEPT ![t] = Empty]
    /\ synced' = synced \ {t}
    /\ JobGoes(t, "opened")
    /\ UNCHANGED <<file, contents, target, rec, app, locks, stater, bounds>>

TransferPrepares(t) ==
    /\ job[t].pc = "opened" /\ CanLock
    /\ setMigInfoAt("IN_MIGRATION")
    /\ JobGoes(t, "prepared")
    /\ UNCHANGED <<disk, mtime, tapeInfo, onTape, contents, target, rec, app, locks, stater, bounds>>

(* The time of the file is compared, then the copy starts; it is done at   *)
(* once if there is nothing to copy.  As many bytes are copied as stat()   *)
(* says there are: of a file that is longer only a part, a file that is    *)
(* shorter is read for ever.                                               *)
TransferStarts(t) ==
    /\ job[t].pc = "prepared"
    /\ statMtime = job[t].mtime
    /\ statSize = 0 \/ disk # Empty
    /\ job' = [job EXCEPT ![t] = [@ EXCEPT !.seen = IF statSize < SizeOf(disk) THEN Partial ELSE disk,
                                           !.pc = IF statSize = 0 THEN "checked" ELSE "copying"]]
    /\ UNCHANGED <<file, onTape, contents, target, rec, app, locks, stater, bounds>>

TransferCopies(t) ==
    /\ job[t].pc = "copying"
    /\ tape' = [tape EXCEPT ![t] = IF disk = job[t].seen THEN disk ELSE Partial]
    /\ JobGoes(t, "copied")
    /\ UNCHANGED <<file, synced, contents, target, rec, app, locks, stater, bounds>>

TransferChecks(t) ==
    /\ job[t].pc = "copied"
    /\ statMtime = job[t].mtime
    /\ JobGoes(t, "checked")
    /\ UNCHANGED <<file, onTape, contents, target, rec, app, locks, stater, bounds>>

(* The file has changed, or the tape cannot be written.                    *)
TransferFails(t) ==
    /\ job[t].pc \in {"opened", "prepared", "copying", "copied", "checked"}
    /\ JobGoes(t, "failed")
    /\ UNCHANGED <<file, onTape, contents, target, rec, app, locks, stater, bounds>>

(* The drive is wanted for a recall: the job is RESIDENT again.            *)
TransferSuspended(t) ==
    /\ job[t].pc = "prepared"
    /\ statMtime = job[t].mtime
    /\ JobGoes(t, "added")
    /\ UNCHANGED <<file, onTape, contents, target, rec, app, locks, stater, bounds>>

addTapeAttr(t) ==
    /\ job[t].pc = "checked" /\ CanLock
    /\ tapeInfo' = Append(tapeInfo, t)
    /\ JobGoes(t, "transferred")
    /\ UNCHANGED <<disk, mtime, miginfo, onTape, contents, target, rec, app, locks, stater, bounds>>

(* Mutant of Sync: the files are stubbed although Sync has failed.         *)
SyncIgnored(t) ==
    /\ job[t].pc = "transferred"
    /\ synced' \in {synced, synced \cup {t}}
    /\ JobGoes(t, "change")
    /\ UNCHANGED <<file, tape, contents, target, rec, app, locks, stater, bounds>>

(* The tape's index is written (Migration::execRequest); if that fails the *)
(* request goes no further, and the file stays as it is.                   *)
Sync(t) ==
    /\ job[t].pc = "transferred"
    /\ \/ synced' = synced \cup {t} /\ JobGoes(t, "change")
       \/ synced' = synced /\ JobGoes(t, "failed")
    /\ UNCHANGED <<file, tape, contents, target, rec, app, locks, stater, bounds>>

(* Mutant of NothingToChange: the copies are not counted.                  *)
NothingToChangeUncounted(t) ==
    \/ getMigState = "MIGRATED"
    \/ getMigState = "PREMIGRATED" /\ target = "PREMIGRATED"

(* changeFileState returns early: the file is in its target state already, *)
(* or a copy is missing.                                                   *)
NothingToChange(t) ==
    \/ getMigState = "MIGRATED"
    \/ getMigState = "PREMIGRATED" /\ target = "PREMIGRATED"
    \/ job[t].pc = "change" /\ Len(tapeInfo) # Cardinality(Tape)

ChangeState(t) ==
    /\ job[t].pc \in {"change", "stub"} /\ CanLock
    /\ "read" \in Overlap \/ ~ReadInFlight
    /\ \/ NothingToChange(t) /\ JobGoes(t, "done") /\ UNCHANGED miginfo
       \/ /\ ~NothingToChange(t) /\ target = "PREMIGRATED"
          /\ setMigInfoAt("PREMIGRATED")
          /\ JobGoes(t, "done")
       \/ /\ ~NothingToChange(t) /\ target = "MIGRATED"
          /\ setMigInfoAt("STUBBING")
          /\ JobGoes(t, "stubbing")
    /\ UNCHANGED <<disk, mtime, tapeInfo, onTape, contents, target, rec, app, locks, stater, bounds>>

(* FsObj::stub: truncate, then MIGRATED; PREMIGRATED if that fails.        *)
StubTruncates(t) ==
    /\ job[t].pc = "stubbing"
    /\ disk' = Empty /\ mtime' = None
    /\ JobGoes(t, "truncated")
    /\ UNCHANGED <<miginfo, tapeInfo, onTape, contents, target, rec, app, locks, stater, bounds>>

StubFails(t) ==
    /\ job[t].pc = "stubbing"
    /\ setMigInfoAt("PREMIGRATED")
    /\ JobGoes(t, "failed")
    /\ UNCHANGED <<disk, mtime, tapeInfo, onTape, contents, target, rec, app, locks, stater, bounds>>

StubFinishes(t) ==
    /\ job[t].pc = "truncated"
    /\ setMigInfoAt("MIGRATED")
    /\ JobGoes(t, "done")
    /\ UNCHANGED <<disk, mtime, tapeInfo, onTape, contents, target, rec, app, locks, stater, bounds>>

(* The request is over and its jobs are deleted.                           *)
MigrationEnds ==
    /\ Migrating
    /\ \A t \in Tape : job[t].pc \in {"none", "done", "failed"}
    /\ job' = [t \in Tape |-> NoJob]
    /\ UNCHANGED <<file, onTape, contents, target, rec, app, locks, stater, bounds>>

MigrationStep(t) ==
    \/ TransferOpens(t)
    \/ TransferPrepares(t)
    \/ TransferStarts(t)
    \/ TransferCopies(t)
    \/ TransferChecks(t)
    \/ TransferFails(t)
    \/ TransferSuspended(t)
    \/ addTapeAttr(t)
    \/ Sync(t)
    \/ ChangeState(t)
    \/ StubTruncates(t)
    \/ StubFails(t)
    \/ StubFinishes(t)

------------------------------------------------------------------------------
(* The server dies and is started again; ltfsdm_getattr recovers the state *)
(* of a file when somebody looks it up, without a lock.                    *)

Restart ==
    /\ restarts > 0
    /\ restarts' = restarts - 1
    /\ miginfo' = [miginfo EXCEPT !.old = (miginfo.state # "NONE")]
    /\ job' = [t \in Tape |-> NoJob]
    /\ rec' = [x \in Recaller |-> NoRecall]
    /\ app' = [a \in App |-> Idle]
    /\ shared' = {} /\ trec' = None
    /\ stater' = [s \in Stater |-> NotRecovering]
    /\ UNCHANGED <<disk, mtime, tapeInfo, onTape, contents, target, requests>>

getattr(s) ==
    /\ stater[s].pc = "idle" /\ needsRecovery
    /\ stater' = [stater EXCEPT ![s] = [pc |-> "first", state |-> miginfo.state]]
    /\ UNCHANGED <<file, onTape, contents, target, job, rec, app, locks, bounds>>

(* FuseFS::recoverState makes two changes.  The truncation may fail, but   *)
(* not on a file that is empty already.                                    *)
recoverFirst(s) ==
    /\ stater[s].pc = "first"
    /\ \/ /\ stater[s].state = "IN_MIGRATION"
          /\ tapeInfo' = <<>>
          /\ UNCHANGED miginfo
       \/ /\ stater[s].state # "IN_MIGRATION"
          /\ setMigInfoAt("MIGRATED")
          /\ UNCHANGED tapeInfo
    /\ stater' = [stater EXCEPT ![s].pc = "second"]
    /\ UNCHANGED <<disk, mtime, onTape, contents, target, job, rec, app, locks, bounds>>

recoverSecond(s) ==
    /\ stater[s].pc = "second"
    /\ \/ /\ stater[s].state = "IN_MIGRATION"
          /\ miginfo' = NoAttr
          /\ UNCHANGED <<disk, mtime>>
       \/ /\ stater[s].state # "IN_MIGRATION"
          /\ disk' = Empty /\ mtime' = None
          /\ UNCHANGED miginfo
       \/ /\ stater[s].state = "STUBBING" /\ disk # Empty
          /\ setMigInfoAt("PREMIGRATED")
          /\ UNCHANGED <<disk, mtime>>
       \/ /\ stater[s].state = "IN_RECALL" /\ disk # Empty
          /\ UNCHANGED <<disk, mtime, miginfo>>
    /\ stater' = [stater EXCEPT ![s] = NotRecovering]
    /\ UNCHANGED <<tapeInfo, onTape, contents, target, job, rec, app, locks, bounds>>

StaterStep(s) == getattr(s) \/ recoverFirst(s) \/ recoverSecond(s)

Next ==
    \/ \E a \in App : StartOp(a) \/ AppStep(a)
    \/ \E x \in Recaller : RecallStep(x)
    \/ AddSelRecall
    \/ AddMigration
    \/ \E t \in Tape : MigrationStep(t)
    \/ MigrationEnds
    \/ \E s \in Stater : StaterStep(s)
    \/ Restart

Spec == Init /\ [][Next]_vars

(* Threads run on; a lock is granted to whoever can have it again and      *)
(* again.                                                                  *)
Fairness ==
    /\ \A a \in App : SF_vars(AppStep(a))
    /\ \A x \in Recaller : SF_vars(RecallStep(x))
    /\ \A t \in Tape : SF_vars(MigrationStep(t))
    /\ WF_vars(MigrationEnds)
    /\ \A s \in Stater : WF_vars(StaterStep(s))

FairSpec == Spec /\ Fairness

------------------------------------------------------------------------------
(* Correctness.                                                            *)

(* The data an application wrote last is where the state of the file says  *)
(* it is: on disk unless the file is migrated, and on the tape it would be *)
(* recalled from if it is migrated, about to be, or premigrated.           *)
ContentKept ==
    /\ miginfo.state \in {"NONE", "RESIDENT", "IN_MIGRATION", "PREMIGRATED"} => disk \in valid
    /\ miginfo.state \in {"PREMIGRATED", "STUBBING", "MIGRATED", "IN_RECALL"} =>
          tapeInfo # <<>> /\ tape[tapeInfo[1]] \in valid

(* A read returns data that was the content of the file at some time       *)
(* during the read, whatever happens to the data meanwhile.                *)
ReadStep ==
    \A a \in App : app[a].pc = "reply" /\ ReadData(a) => disk \in app[a].expect

ReadsSeeContent == [][ReadStep]_vars

(* Data leaves the disk only when the index of every tape that has a copy  *)
(* has been written (rows 9 to 11 of the table in Migration.cc).           *)
SyncedBeforeStub ==
    miginfo.state \in {"STUBBING", "MIGRATED", "IN_RECALL"} =>
        \A i \in DOMAIN tapeInfo : tapeInfo[i] \in synced

(* A read, write or truncate call is blocked as long as it takes to recall *)
(* the data, and then returns.                                             *)
OpsReturn == \A a \in App : app[a].pc # "idle" ~> app[a].pc = "idle"
==============================================================================
