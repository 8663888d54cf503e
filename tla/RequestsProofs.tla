---------------------------- MODULE RequestsProofs ---------------------------
(***************************************************************************)
(* Proofs about migration and recall requests, for any number of clients   *)
(* and files, any number of clients that end early and any stop.           *)
(***************************************************************************)
EXTENDS Requests, FiniteSetTheorems, TLAPS

Places == {"none", "objects", "add", "adding", "status", "wait", "clean", "delete",
           "done", "refused", "dead"}

(* The types, but for the bounds of the counters.                          *)
TypeInv ==
    /\ sess \in [Client -> Places]
    /\ conn \in [Client -> BOOLEAN] /\ left \in [Client -> SUBSET File]
    /\ fstate \in [File -> FileStates]
    /\ job \in [File -> [req: Client \cup {None}, state: JobState]]
    /\ row \in [Client -> {"none", "new", "inprogress", "completed"}]
    /\ exec \in [Client -> {"none", "tape", "notape"}]
    /\ updReq \in [Client -> {"none", "no", "yes"}]
    /\ status \in [Client -> [JobState -> Int]]
    /\ stop \in {"no", "terminate", "finish"} /\ broken \in BOOLEAN
    /\ faults \in 0 .. MaxFaults

(* What a session has done so far: before addRequest there is neither row  *)
(* nor executor nor status, and there are jobs only from the first object  *)
(* until they are deleted.                                                 *)
SessOf(c) ==
    /\ sess[c] \in {"none", "objects", "add", "refused"} =>
          row[c] = "none" /\ exec[c] = "none" /\ status[c] = NoStatus
    /\ sess[c] \in {"none", "refused", "done"} => JobsOf(c) = {}
    /\ sess[c] = "dead" => ~conn[c]

(* A session that is told of the end of its request tidies up after its    *)
(* executor, unless finishTerminate makes it go earlier.                   *)
ExecOf(c) ==
    stop # "finish" =>
       /\ exec[c] # "none" => /\ row[c] = "inprogress" /\ status[c] # NoStatus
                              /\ sess[c] \in {"adding", "status", "wait", "dead"}
       /\ sess[c] \in {"clean", "delete", "done"} => row[c] \in {"none", "completed"}
       /\ sess[c] \in {"delete", "done"} => status[c] = NoStatus

(* Bounds of the counters, also those of an entry that updateFailed has    *)
(* made anew while the server stops.                                       *)
Count(r, s) == Cardinality(JobsIn(r, s))

Between(r) ==
    /\ \A s \in JobState : status[r][s] >= Count(r, s) - Cardinality(File) - 1
    /\ \A s \in JobState \ {"transferred"} : status[r][s] <= Count(r, s)
    /\ status[r]["transferred"] <= Count(r, "transferred") + Count(r, "failed")

Bounded(r) == \A s \in JobState : status[r][s] \in -(Cardinality(File) + 1) .. Cardinality(File)

BoundOf(r) == \/ Between(r)
              \/ sess[r] \in {"done", "dead"} /\ JobsOf(r) = {} /\ Bounded(r)

(* The part of StatusAgrees that is about one request.                     *)
AgreeOf(r) ==
    status[r] # NoStatus /\ stop # "finish" =>
       /\ \A s \in {"source", "premigrated", "final", "failed"} : status[r][s] = Count(r, s)
       /\ status[r]["transferred"] >= Count(r, "transferred")

RequestInv(c) == SessOf(c) /\ ExecOf(c) /\ AgreeOf(c) /\ BoundOf(c)

(* The inductive invariant.                                                *)
RequestsInv == TypeInv /\ (\A c \in Client : RequestInv(c)) /\ EntriesThere

-----------------------------------------------------------------------------
(* The initial state satisfies the inductive invariant.                    *)

(* Numbers of jobs are natural and at most the number of files.            *)
LEMMA Counts ==
    ASSUME NEW r, NEW s
    PROVE  /\ IsFiniteSet(JobsIn(r, s)) /\ Count(r, s) \in Nat
           /\ Cardinality(File) \in Nat /\ Count(r, s) <= Cardinality(File)
<1>1. IsFiniteSet(File)
    BY RequestsAssumption
<1>2. JobsIn(r, s) \subseteq File
    BY DEF JobsIn, JobsOf
<1>3. QED
    BY <1>1, <1>2, FS_Subset, FS_CardinalityType DEF Count

(* The same in the next state.                                             *)
LEMMA CountsNext ==
    ASSUME NEW r, NEW s
    PROVE  /\ Count(r, s)' \in Nat /\ Count(r, s)' <= Cardinality(File)
<1>1. IsFiniteSet(File)
    BY RequestsAssumption
<1>2. JobsIn(r, s)' \subseteq File
    BY DEF JobsIn, JobsOf
<1>3. QED
    BY <1>1, <1>2, FS_Subset, FS_CardinalityType DEF Count

(* An entry that was removed, or never made, is within the bounds.         *)
LEMMA NoStatusBetween ==
    ASSUME NEW r \in Client, status[r] = NoStatus
    PROVE  Between(r)
<1>1. \A s \in JobState : status[r][s] = -1
    BY DEF NoStatus
<1>2. "transferred" \in JobState
    BY DEF JobState
<1>3. QED
    BY <1>1, <1>2, Counts DEF Between

(* The same in the next state.                                             *)
LEMMA NoStatusBetweenNext ==
    ASSUME NEW r \in Client, status'[r] = NoStatus
    PROVE  Between(r)'
<1>1. \A s \in JobState : status'[r][s] = -1
    BY DEF NoStatus
<1>2. "transferred" \in JobState
    BY DEF JobState
<1>3. QED
    BY <1>1, <1>2, Counts, CountsNext DEF Between

(* An entry that agrees with the jobs is within the bounds.                *)
LEMMA CountedBetweenNext ==
    ASSUME NEW r \in Client, \A s \in JobState : status'[r][s] = Count(r, s)'
    PROVE  Between(r)'
<1>1. "transferred" \in JobState
    BY DEF JobState
<1>2. QED
    BY <1>1, Counts, CountsNext DEF Between

(* The bounds imply those of the type invariant: a job is not both         *)
(* transferred and failed.                                                 *)
LEMMA BetweenBounded ==
    ASSUME TypeInv, NEW r \in Client, Between(r)
    PROVE  Bounded(r)
<1> DEFINE T == JobsIn(r, "transferred")
           F == JobsIn(r, "failed")
<1>1. IsFiniteSet(File) /\ IsFiniteSet(T) /\ IsFiniteSet(F)
    BY RequestsAssumption, Counts
<1>2. T \cap F = {}
    BY DEF JobsIn
<1>3. IsFiniteSet(T \cup F) /\ Cardinality(T \cup F) = Cardinality(T) + Cardinality(F) - Cardinality(T \cap F)
    BY <1>1, FS_Union
<1>4. Cardinality(T \cap F) = 0
    BY <1>2, FS_EmptySet
<1>5. T \cup F \subseteq File
    BY DEF JobsIn, JobsOf
<1>6. Cardinality(T \cup F) <= Cardinality(File)
    BY <1>1, <1>5, FS_Subset
<1>7. Count(r, "transferred") + Count(r, "failed") <= Cardinality(File)
    BY <1>3, <1>4, <1>6, Counts DEF Count
<1>8. \A s \in JobState : status[r][s] \in Int
    BY DEF TypeInv
<1>9. "transferred" \in JobState
    BY DEF JobState
<1>10. status[r]["transferred"] \in -(Cardinality(File) + 1) .. Cardinality(File)
    BY <1>7, <1>8, <1>9, Counts DEF Between
<1>11. ASSUME NEW s \in JobState \ {"transferred"}
       PROVE  status[r][s] \in -(Cardinality(File) + 1) .. Cardinality(File)
    BY <1>8, Counts DEF Between
<1>12. QED
    BY <1>10, <1>11 DEF Bounded

(* No session, row, executor, job or status at first.                      *)
LEMMA InitRequestsInv == Init => RequestsInv
<1> SUFFICES ASSUME Init PROVE RequestsInv
    OBVIOUS
<1>1. NoStatus \in [JobState -> Int]
    BY DEF NoStatus
<1>2. NoJob \in [req: Client \cup {None}, state: JobState]
    BY DEF NoJob, JobState
<1>3. left \in [Client -> SUBSET File] /\ faults \in 0 .. MaxFaults
    BY RequestsAssumption DEF Init
<1>4. /\ conn \in [Client -> BOOLEAN] /\ fstate \in [File -> FileStates]
      /\ row \in [Client -> {"none", "new", "inprogress", "completed"}]
      /\ exec \in [Client -> {"none", "tape", "notape"}]
      /\ updReq \in [Client -> {"none", "no", "yes"}]
      /\ sess \in [Client -> Places]
    BY DEF Init, Places
<1>5. TypeInv
    BY <1>1, <1>2, <1>3, <1>4 DEF Init, TypeInv
<1>6. \A c \in Client : JobsOf(c) = {}
    BY RequestsAssumption DEF Init, JobsOf, NoJob
<1>7. \A c \in Client : status[c] = NoStatus /\ sess[c] = "none" /\ row[c] = "none" /\ exec[c] = "none"
    BY DEF Init
<1>8. ASSUME NEW c \in Client PROVE RequestInv(c)
    <2>1. SessOf(c)
        BY <1>6, <1>7 DEF SessOf
    <2>2. ExecOf(c)
        BY <1>7 DEF ExecOf
    <2>3. AgreeOf(c)
        BY <1>7 DEF AgreeOf
    <2>4. BoundOf(c)
        BY <1>7, NoStatusBetween DEF BoundOf
    <2>5. QED
        BY <2>1, <2>2, <2>3, <2>4 DEF RequestInv
<1>9. EntriesThere
    BY DEF Init, EntriesThere
<1>10. QED
    BY <1>5, <1>8, <1>9 DEF RequestsInv

-----------------------------------------------------------------------------
(* What a step does to the jobs and their numbers.                         *)

Moved(c, from, to) ==
    /\ \A s : s \notin {from, to} => Count(c, s)' = Count(c, s)
    /\ Count(c, from)' = Count(c, from) - 1 /\ Count(c, to)' = Count(c, to) + 1

(* A job of c that goes from one state to another.                         *)
LEMMA MoveJob ==
    ASSUME TypeInv, NEW c \in Client, NEW f \in JobsOf(c), NEW from, job[f].state = from,
           NEW to \in JobState, to # from, job' = [job EXCEPT ![f].state = to]
    PROVE  /\ \A r : JobsOf(r)' = JobsOf(r)
           /\ \A r : r # c => \A s : Count(r, s)' = Count(r, s)
           /\ Moved(c, from, to)
<1>1. f \in File /\ job[f].req = c
    BY DEF JobsOf
<1>2. \A g \in File : /\ job'[g].req = job[g].req
                      /\ job'[g].state = IF g = f THEN to ELSE job[g].state
    BY <1>1 DEF TypeInv
<1>3. \A r : JobsOf(r)' = JobsOf(r)
    BY <1>2 DEF JobsOf
<1>4. \A r, s : r # c => JobsIn(r, s)' = JobsIn(r, s)
    BY <1>2, <1>1 DEF JobsIn, JobsOf
<1>5. \A s : s \notin {from, to} => JobsIn(c, s)' = JobsIn(c, s)
    BY <1>2, <1>1 DEF JobsIn, JobsOf
<1>6. JobsIn(c, from)' = JobsIn(c, from) \ {f} /\ f \in JobsIn(c, from)
    BY <1>2, <1>1 DEF JobsIn, JobsOf
<1>7. JobsIn(c, to)' = JobsIn(c, to) \cup {f} /\ f \notin JobsIn(c, to)
    BY <1>2, <1>1 DEF JobsIn, JobsOf
<1>8. IsFiniteSet(JobsIn(c, from)) /\ IsFiniteSet(JobsIn(c, to))
    BY Counts
<1>9. Cardinality(JobsIn(c, from) \ {f}) = Cardinality(JobsIn(c, from)) - 1
    BY <1>6, <1>8, FS_RemoveElement
<1>10. Cardinality(JobsIn(c, from)') = Cardinality(JobsIn(c, from)) - 1
    BY <1>6, <1>9
<1>11. Cardinality(JobsIn(c, to)') = Cardinality(JobsIn(c, to)) + 1
    BY <1>7, Counts, FS_AddElement
<1>12. QED
    BY <1>3, <1>4, <1>5, <1>10, <1>11 DEF Count, Moved

(* A new job of c changes the numbers of c only.                           *)
LEMMA NewJob ==
    ASSUME TypeInv, NEW c \in Client, NEW f \in File, NEW s \in JobState, job[f] = NoJob,
           job' = [job EXCEPT ![f] = [req |-> c, state |-> s]]
    PROVE  \A r \in Client : r # c => /\ JobsOf(r)' = JobsOf(r)
                                      /\ \A t : JobsIn(r, t)' = JobsIn(r, t)
<1>1. job[f].req = None
    BY DEF NoJob
<1>2. \A g \in File : /\ g # f => job'[g] = job[g]
                      /\ job'[f].req = c
    BY DEF TypeInv
<1>3. QED
    BY <1>1, <1>2, RequestsAssumption DEF JobsIn, JobsOf

(* Nor does the deletion of the jobs of c.                                 *)
LEMMA DeletedJobs ==
    ASSUME TypeInv, NEW c \in Client, DeleteJobs(c)
    PROVE  /\ JobsOf(c)' = {}
           /\ \A r \in Client : r # c => /\ JobsOf(r)' = JobsOf(r)
                                         /\ \A t : JobsIn(r, t)' = JobsIn(r, t)
<1>1. NoJob.req = None
    BY DEF NoJob
<1>2. \A g \in File : job'[g] = IF job[g].req = c THEN NoJob ELSE job[g]
    BY DEF DeleteJobs
<1>3. c # None /\ \A r \in Client : r # None
    BY RequestsAssumption
<1>4. JobsOf(c)' = {}
    BY <1>1, <1>2, <1>3 DEF JobsOf
<1>5. ASSUME NEW r \in Client, r # c
      PROVE  JobsOf(r)' = JobsOf(r) /\ \A t : JobsIn(r, t)' = JobsIn(r, t)
    BY <1>1, <1>2, <1>3, <1>5 DEF JobsIn, JobsOf
<1>6. QED
    BY <1>4, <1>5

(* An executor takes one job from a state it handles to another, and has   *)
(* the status follow.                                                      *)
LEMMA ProcessEffect ==
    ASSUME TypeInv, NEW c \in Client, Process(c)
    PROVE  \E f \in JobsOf(c), from, to \in JobState :
              /\ job[f].state = from /\ to # from /\ from # "failed"
              /\ job' = [job EXCEPT ![f].state = to]
              /\ \/ to # "failed" /\ UpdateSuccess(c, from, to)
                 \/ to = "failed" /\ UpdateFailed(c, from)
<1> DEFINE Success(f) == \E to \in JobState : /\ <<job[f].state, to>> \in Moves(c)
                                              /\ job' = [job EXCEPT ![f].state = to]
                                              /\ UpdateSuccess(c, job[f].state, to)
           Failure(f) == /\ job[f].state \in Handled(c)
                         /\ job' = [job EXCEPT ![f].state = "failed"]
                         /\ UpdateFailed(c, job[f].state)
<1>1. PICK f \in JobsOf(c) : Success(f) \/ Failure(f)
    BY DEF Process
<1>2. job[f].state \in JobState
    BY DEF TypeInv, JobsOf
<1>3. \A m \in Moves(c) : m[1] # "failed" /\ m[2] # "failed" /\ m[1] # m[2]
    BY DEF Moves
<1>4. "failed" \notin Handled(c)
    BY <1>3 DEF Handled
<1>5. "failed" \in JobState
    BY DEF JobState
<1>6. ASSUME NEW to \in JobState, <<job[f].state, to>> \in Moves(c)
      PROVE  job[f].state # "failed" /\ to # "failed" /\ to # job[f].state
    BY <1>6, <1>3
<1>7. CASE Success(f)
    <2>1. PICK to \in JobState : /\ <<job[f].state, to>> \in Moves(c)
                                 /\ job' = [job EXCEPT ![f].state = to]
                                 /\ UpdateSuccess(c, job[f].state, to)
        BY <1>7
    <2>2. QED
        BY <2>1, <1>2, <1>6
<1>8. CASE Failure(f)
    BY <1>8, <1>2, <1>4, <1>5
<1>9. QED
    BY <1>1, <1>7, <1>8

(* Status::updateSuccess, when there is an entry.                          *)
LEMMA SuccessEffect ==
    ASSUME TypeInv, NEW c \in Client, NEW from \in JobState, NEW to \in JobState, from # to,
           status[c] # NoStatus, UpdateSuccess(c, from, to)
    PROVE  /\ status' \in [Client -> [JobState -> Int]] /\ broken' = broken
           /\ \A r \in Client : r # c => status'[r] = status[r]
           /\ \A s \in JobState : s \notin {from, to} => status'[c][s] = status[c][s]
           /\ status'[c][to] = status[c][to] + 1 /\ status'[c][from] = status[c][from] - 1
<1>1. status \in [Client -> [JobState -> Int]]
    BY DEF TypeInv
<1>2. /\ status' = [status EXCEPT ![c][from] = @ - 1, ![c][to] = @ + 1]
      /\ broken' = broken
    BY DEF UpdateSuccess
<1>3. QED
    BY <1>1, <1>2

(* Status::updateFailed, when there is an entry.                           *)
LEMMA FailedEffect ==
    ASSUME TypeInv, NEW c \in Client, NEW from \in JobState, from # "failed",
           status[c] # NoStatus, UpdateFailed(c, from)
    PROVE  /\ status' \in [Client -> [JobState -> Int]] /\ broken' = broken
           /\ \A r \in Client : r # c => status'[r] = status[r]
           /\ \A s \in JobState : s \notin {from, "failed"} => status'[c][s] = status[c][s]
           /\ status'[c]["failed"] = status[c]["failed"] + 1
           /\ status'[c][from] = IF from = "transferred" THEN status[c][from] ELSE status[c][from] - 1
<1>1. "failed" \in JobState
    BY DEF JobState
<1>2. status \in [Client -> [JobState -> Int]]
    BY DEF TypeInv
<1>3. /\ Lowered(status[c], from) \in [JobState -> Int]
      /\ \A s \in JobState : s # from => Lowered(status[c], from)[s] = status[c][s]
      /\ Lowered(status[c], from)[from] =
            IF from = "transferred" THEN status[c][from] ELSE status[c][from] - 1
    BY <1>2 DEF Lowered
<1>4. /\ status' = [status EXCEPT ![c] = [Lowered(status[c], from) EXCEPT !["failed"] = @ + 1]]
      /\ broken' = broken
    BY DEF UpdateFailed
<1>5. QED
    BY <1>1, <1>2, <1>3, <1>4

(* Status::updateFailed, when it has to make an entry.                     *)
LEMMA FailedAnew ==
    ASSUME TypeInv, NEW c \in Client, NEW from \in JobState, from # "failed",
           status[c] = NoStatus, UpdateFailed(c, from)
    PROVE  /\ status' \in [Client -> [JobState -> Int]] /\ broken' = broken
           /\ \A r \in Client : r # c => status'[r] = status[r]
           /\ \A s \in JobState : s # "failed" => status'[c][s] \in -1 .. 0
           /\ status'[c]["failed"] = 1
<1> DEFINE Zero == [s \in JobState |-> 0]
<1>1. "failed" \in JobState
    BY DEF JobState
<1>2. status \in [Client -> [JobState -> Int]]
    BY DEF TypeInv
<1>3. /\ Lowered(Zero, from) \in [JobState -> Int]
      /\ \A s \in JobState : Lowered(Zero, from)[s] \in -1 .. 0
      /\ Lowered(Zero, from)["failed"] = 0
    BY <1>1 DEF Lowered
<1>4. /\ status' = [status EXCEPT ![c] = [Lowered(Zero, from) EXCEPT !["failed"] = @ + 1]]
      /\ broken' = broken
    BY DEF UpdateFailed
<1> HIDE DEF Zero
<1>5. QED
    BY <1>1, <1>2, <1>3, <1>4

(* The same three cases as one: what an executor does to a job and to the  *)
(* entry of its request in the status.                                     *)
LEMMA ProcessStatus ==
    ASSUME TypeInv, NEW c \in Client, Process(c)
    PROVE  /\ status' \in [Client -> [JobState -> Int]]
           /\ \A r \in Client : r # c => status'[r] = status[r]
           /\ status[c] # NoStatus => broken' = broken
           /\ broken' \in BOOLEAN
<1>1. PICK f \in JobsOf(c), from, to \in JobState :
          /\ job[f].state = from /\ to # from /\ from # "failed"
          /\ job' = [job EXCEPT ![f].state = to]
          /\ \/ to # "failed" /\ UpdateSuccess(c, from, to)
             \/ to = "failed" /\ UpdateFailed(c, from)
    BY ProcessEffect
<1>2. from \in JobState
    BY <1>1 DEF JobsOf, TypeInv
<1>3. broken \in BOOLEAN /\ status \in [Client -> [JobState -> Int]]
    BY DEF TypeInv
<1>4. QED
    <2>1. CASE UpdateFailed(c, from)
        BY <2>1, <1>1, <1>2, <1>3, FailedEffect, FailedAnew
    <2>2. CASE UpdateSuccess(c, from, to) /\ status[c] # NoStatus
        BY <2>2, <1>1, <1>2, <1>3, SuccessEffect
    <2>3. CASE UpdateSuccess(c, from, to) /\ status[c] = NoStatus
        BY <2>3, <1>3 DEF UpdateSuccess
    <2>4. QED
        BY <2>1, <2>2, <2>3, <1>1

-----------------------------------------------------------------------------
(* Every step keeps the types.                                             *)
LEMMA NextTypeInv == TypeInv /\ [Next]_vars => TypeInv'
<1> SUFFICES ASSUME TypeInv, [Next]_vars PROVE TypeInv'
    OBVIOUS
<1> USE DEF server
<1>1. {"none", "objects", "add", "adding", "status", "wait", "clean", "delete",
       "done", "refused", "dead"} \subseteq Places
    BY DEF Places
<1>2. NoJob \in [req: Client \cup {None}, state: JobState]
    BY DEF NoJob, JobState
<1>3. NoStatus \in [JobState -> Int]
    BY DEF NoStatus
<1>4. ASSUME NEW c \in Client PROVE StatusAdd(c) \in [Client -> [JobState -> Int]]
    <2> DEFINE New == [s \in JobState |-> Cardinality(JobsIn(c, s))]
    <2>1. New \in [JobState -> Int]
        BY Counts DEF Count
    <2>2. status \in [Client -> [JobState -> Int]]
        BY DEF TypeInv
    <2> HIDE DEF New
    <2>3. [status EXCEPT ![c] = New] \in [Client -> [JobState -> Int]]
        BY <2>1, <2>2
    <2>4. QED
        BY <2>2, <2>3 DEF StatusAdd, New
<1>5. ASSUME NEW c \in Client, DeleteJobs(c)
      PROVE  job' \in [File -> [req: Client \cup {None}, state: JobState]]
    BY <1>5, <1>2 DEF DeleteJobs, TypeInv
<1>6. ASSUME NEW c \in Client, NEW s \in {"none", "new", "inprogress", "completed"}, SetRow(c, s)
      PROVE  row' \in [Client -> {"none", "new", "inprogress", "completed"}]
    BY <1>6 DEF SetRow, TypeInv
<1>7. ASSUME NEW c \in Client, Request(c) PROVE TypeInv'
    BY <1>7, <1>1 DEF Request, Go, Query, TypeInv
<1>8. ASSUME NEW c \in Client, SendEnd(c) PROVE TypeInv'
    BY <1>8, <1>1 DEF SendEnd, Go, Query, TypeInv
<1>9. ASSUME NEW c \in Client, ObjectsStopped(c) PROVE TypeInv'
    BY <1>9, <1>1 DEF ObjectsStopped, Go, Query, TypeInv
<1>10. ASSUME NEW c \in Client, Status(c) PROVE TypeInv'
    BY <1>10, <1>1 DEF Status, Go, Query, TypeInv
<1>11. ASSUME NEW c \in Client, Wake(c) PROVE TypeInv'
    BY <1>11, <1>1 DEF Wake, Go, Query, TypeInv
<1>12. ASSUME NEW c \in Client, Notify(c) PROVE TypeInv'
    BY <1>12, <1>1 DEF Notify, Go, Query, TypeInv
<1>13. ASSUME NEW c \in Client, Dies(c) PROVE TypeInv'
    <2>1. MaxFaults \in Nat
        BY RequestsAssumption
    <2>2. faults' \in 0 .. MaxFaults
        BY <1>13, <2>1 DEF Dies, TypeInv
    <2>3. QED
        BY <1>13, <2>2 DEF Dies, TypeInv
<1>14. ASSUME NEW c \in Client, SendObject(c) PROVE TypeInv'
    <2>1. left' \in [Client -> SUBSET File]
        BY <1>14 DEF SendObject, TypeInv
    <2>2. \A f \in File : JobStates(c, f) \subseteq JobState
        BY DEF JobStates, JobState
    <2>3. PICK f \in left[c] :
             \/ \E s \in JobStates(c, f) : job' = [job EXCEPT ![f] = [req |-> c, state |-> s]]
             \/ UNCHANGED job
        BY <1>14 DEF SendObject
    <2>5. f \in File
        BY <2>3 DEF TypeInv
    <2>6. job' \in [File -> [req: Client \cup {None}, state: JobState]]
        BY <2>2, <2>3, <2>5 DEF TypeInv
    <2>4. QED
        BY <1>14, <2>1, <2>6 DEF SendObject, TypeInv
<1>15. ASSUME NEW c \in Client, ObjectsFail(c) PROVE TypeInv'
    BY <1>15, <1>5, <1>1 DEF ObjectsFail, Go, TypeInv
<1>16. ASSUME NEW c \in Client, AddRequest(c) PROVE TypeInv'
    <2>1. updReq' \in [Client -> {"none", "no", "yes"}]
        BY <1>16 DEF AddRequest, TypeInv
    <2>5. \E p \in {"status", "adding"} : sess' = [sess EXCEPT ![c] = p]
        BY <1>16 DEF AddRequest, Go
    <2>6. sess' \in [Client -> Places]
        BY <2>5, <1>1 DEF TypeInv
    <2>2. /\ row' \in [Client -> {"none", "new", "inprogress", "completed"}]
          /\ exec' \in [Client -> {"none", "tape", "notape"}]
        BY <1>16 DEF AddRequest, TypeInv
    <2>3. status' \in [Client -> [JobState -> Int]]
        BY <1>16, <1>4 DEF AddRequest, TypeInv
    <2>4. QED
        BY <1>16, <2>1, <2>2, <2>3, <2>6 DEF AddRequest, TypeInv
<1>17. ASSUME NEW c \in Client, Dispatch(c) PROVE TypeInv'
    BY <1>17, <1>4, <1>6 DEF Dispatch, ExecStatus, TypeInv
<1>18. ASSUME NEW c \in Client, Process(c) PROVE TypeInv'
    <2>1. \A to \in JobState : FileState(c, to) \in FileStates
        BY DEF FileState, FileStates
    <2>2. fstate' \in [File -> FileStates]
        BY <1>18, <2>1 DEF Process, TypeInv
    <2>3. PICK f \in JobsOf(c), to \in JobState : job' = [job EXCEPT ![f].state = to]
        BY <1>18, ProcessEffect
    <2>4. job' \in [File -> [req: Client \cup {None}, state: JobState]]
        BY <2>3 DEF TypeInv
    <2>5. QED
        BY <1>18, <2>2, <2>4, ProcessStatus DEF Process, TypeInv
<1>19. ASSUME NEW c \in Client, ExecEnd(c) PROVE TypeInv'
    <2>1. row' \in [Client -> {"none", "new", "inprogress", "completed"}]
        BY <1>19, <1>6 DEF ExecEnd, RowAfter
    <2>2. sess' \in [Client -> Places]
        BY <1>19, <1>1 DEF ExecEnd, TypeInv
    <2>3. MaxFaults \in Nat
        BY RequestsAssumption
    <2>7. faults' = faults \/ (faults > 0 /\ faults' = faults - 1)
        BY <1>19 DEF ExecEnd
    <2>4. faults' \in 0 .. MaxFaults
        BY <2>7, <2>3 DEF TypeInv
    <2>5. /\ exec' \in [Client -> {"none", "tape", "notape"}]
          /\ updReq' \in [Client -> {"none", "no", "yes"}]
        BY <1>19 DEF ExecEnd, Woken, TypeInv
    <2>6. QED
        BY <1>19, <2>1, <2>2, <2>4, <2>5 DEF ExecEnd, TypeInv
<1>20. ASSUME NEW c \in Client, Clean(c) PROVE TypeInv'
    BY <1>20, <1>1, <1>3 DEF Clean, Go, TypeInv
<1>21. ASSUME NEW c \in Client, Delete(c) PROVE TypeInv'
    BY <1>21, <1>1, <1>5, <1>6 DEF Delete, Deleted, Go, TypeInv
<1>22. CASE Terminate
    BY <1>22 DEF Terminate, TypeInv
<1>23. CASE Finish
    BY <1>23 DEF Finish, TypeInv
<1>24. CASE UNCHANGED vars
    BY <1>24 DEF vars, TypeInv
<1>25. QED
    BY <1>1, <1>2, <1>3, <1>4, <1>5, <1>6, <1>7, <1>8, <1>9, <1>10, <1>11,
       <1>12, <1>13, <1>14, <1>15, <1>16, <1>17, <1>18, <1>19, <1>20, <1>21,
       <1>22, <1>23, <1>24 DEF Next, SessionNext, ExecNext

-----------------------------------------------------------------------------
(* What a step for one client leaves alone.                                *)

Step(c) == Request(c) \/ Dies(c) \/ SessionNext(c) \/ Dispatch(c) \/ ExecNext(c) \/ Notify(c)

Same(d) == /\ sess'[d] = sess[d] /\ conn'[d] = conn[d] /\ row'[d] = row[d]
           /\ exec'[d] = exec[d] /\ status'[d] = status[d]

SameJobs(d) == JobsOf(d)' = JobsOf(d) /\ \A s : Count(d, s)' = Count(d, s)

(* As long as no job changes, nor does any number of jobs.                 *)
LEMMA JobsUnchanged ==
    ASSUME NEW d, job' = job
    PROVE  SameJobs(d)
BY DEF SameJobs, Count, JobsIn, JobsOf

(* A step for one client leaves the requests of others alone.              *)
LEMMA Others ==
    ASSUME TypeInv, NEW c \in Client, Step(c), NEW d \in Client, d # c
    PROVE  Same(d) /\ SameJobs(d) /\ stop' = stop
<1> USE DEF server
<1>1. StatusAdd(c)[d] = status[d]
    BY DEF StatusAdd, TypeInv
<1>2. \A s : SetRow(c, s) => row'[d] = row[d]
    BY DEF SetRow, TypeInv
<1> DEFINE G == Same(d) /\ SameJobs(d) /\ stop' = stop
<1> SUFFICES G
    OBVIOUS
<1>3. job' = job => SameJobs(d)
    BY JobsUnchanged
<1> HIDE DEF SameJobs
<1>4. CASE Request(c) \/ Dies(c) \/ SendEnd(c) \/ ObjectsStopped(c) \/ Status(c) \/ Wake(c) \/ Clean(c) \/ Notify(c)
    BY <1>4, <1>3 DEF Request, Dies, SendEnd, ObjectsStopped, Status, Wake,
       Clean, Notify, Go, Same, TypeInv
<1>5. CASE SendObject(c)
    <2>1. PICK f \in left[c] :
             \/ job[f] = NoJob /\ \E s \in JobStates(c, f) : job' = [job EXCEPT ![f] = [req |-> c, state |-> s]]
             \/ UNCHANGED job
        BY <1>5 DEF SendObject
    <2>2. f \in File /\ JobStates(c, f) \subseteq JobState
        BY <2>1 DEF TypeInv, JobStates, JobState
    <2>3. SameJobs(d)
        BY <2>1, <2>2, <1>3, NewJob DEF SameJobs, Count
    <2>4. QED
        BY <2>3, <1>5 DEF SendObject, Same
<1>6. CASE ObjectsFail(c)
    <2>1. SameJobs(d)
        BY <1>6, DeletedJobs DEF ObjectsFail, SameJobs, Count
    <2>2. QED
        BY <2>1, <1>6 DEF ObjectsFail, Go, Same, TypeInv
<1>7. CASE AddRequest(c)
    <2>1. sess'[d] = sess[d]
        BY <1>7 DEF AddRequest, Go, TypeInv
    <2>2. row'[d] = row[d] /\ exec'[d] = exec[d]
        BY <1>7 DEF AddRequest, TypeInv
    <2>3. status'[d] = status[d] /\ conn' = conn /\ job' = job /\ stop' = stop
        BY <1>7, <1>1 DEF AddRequest
    <2>4. QED
        BY <2>1, <2>2, <2>3, <1>3 DEF Same
<1>8. CASE Dispatch(c)
    BY <1>8, <1>1, <1>2, <1>3 DEF Dispatch, ExecStatus, Same, TypeInv
<1>9. CASE Process(c)
    <2>1. SameJobs(d)
        BY <1>9, ProcessEffect, MoveJob DEF SameJobs
    <2>2. QED
        BY <2>1, <1>9, ProcessStatus DEF Process, Same
<1>10. CASE ExecEnd(c)
    <2>1. row'[d] = row[d]
        BY <1>10, <1>2 DEF ExecEnd
    <2>2. sess'[d] = sess[d] /\ exec'[d] = exec[d]
        BY <1>10 DEF ExecEnd, TypeInv
    <2>3. QED
        BY <2>1, <2>2, <1>10, <1>3 DEF ExecEnd, Same
<1>11. CASE Delete(c)
    <2>1. SameJobs(d)
        BY <1>11, DeletedJobs DEF Delete, Deleted, SameJobs, Count
    <2>2. QED
        BY <2>1, <1>11, <1>2 DEF Delete, Go, Same, TypeInv
<1>12. QED
    BY <1>1, <1>2, <1>3, <1>4, <1>5, <1>6, <1>7, <1>8, <1>9, <1>10,
       <1>11 DEF Step, SessionNext, ExecNext

(* What is left alone, by a step or by a stop of the server, stays right.  *)
LEMMA Kept ==
    ASSUME NEW d \in Client, RequestInv(d), Same(d), SameJobs(d),
           stop' = stop \/ stop' = "finish" \/ stop = "no"
    PROVE  RequestInv(d)'
<1>1. SessOf(d)'
    BY DEF RequestInv, SessOf, Same, SameJobs
<1>2. ExecOf(d)'
    BY DEF RequestInv, ExecOf, Same
<1>3. AgreeOf(d)'
    BY DEF RequestInv, AgreeOf, Same, SameJobs
<1>4. Between(d) => Between(d)'
    BY DEF Between, Same, SameJobs
<1>5. BoundOf(d)'
    BY <1>4 DEF RequestInv, BoundOf, Bounded, Same, SameJobs
<1>6. QED
    BY <1>1, <1>2, <1>3, <1>5 DEF RequestInv

-----------------------------------------------------------------------------
(* A step for one client keeps what is said of its request.                *)

(* An entry of the status that was counted is one that was made.           *)
LEMMA CountedIsThere ==
    ASSUME NEW r \in Client, NEW s \in JobState, status'[r][s] >= 0
    PROVE  status'[r] # NoStatus
BY DEF NoStatus

(* Steps of the session that change neither jobs nor status.               *)
LEMMA SessionKeeps ==
    ASSUME TypeInv, NEW c \in Client, RequestInv(c),
           job' = job, status'[c] = status[c], stop' = stop,
           sess'[c] = sess[c] \/ sess[c] \notin {"done", "dead"}
    PROVE  AgreeOf(c)' /\ BoundOf(c)'
<1>1. SameJobs(c)
    BY JobsUnchanged
<1>2. AgreeOf(c)'
    BY <1>1 DEF RequestInv, AgreeOf, SameJobs
<1>3. Between(c) => Between(c)'
    BY <1>1 DEF Between, SameJobs
<1>4. BoundOf(c)'
    BY <1>3, <1>1 DEF RequestInv, BoundOf, Bounded, SameJobs
<1>5. QED
    BY <1>2, <1>4

(* Requests, objects, status queries and the end of the client.            *)
LEMMA SessionStep ==
    ASSUME TypeInv, NEW c \in Client, RequestInv(c),
           \/ Request(c) \/ Dies(c) \/ SendEnd(c) \/ ObjectsStopped(c)
           \/ Status(c) \/ Wake(c) \/ Notify(c)
    PROVE  RequestInv(c)'
<1> USE DEF server
<1>1. /\ job' = job /\ status' = status /\ stop' = stop
      /\ row' = row /\ exec' = exec
    BY DEF Request, Dies, SendEnd, ObjectsStopped, Status, Wake, Notify
<1>2. JobsOf(c)' = JobsOf(c)
    BY <1>1 DEF JobsOf
<1>3. \/ sess' = sess
      \/ sess[c] = "none" /\ sess'[c] \in {"objects", "refused"}
      \/ sess[c] = "objects" /\ sess'[c] = "add"
      \/ sess[c] \in {"status", "wait"} /\ sess'[c] = "clean" /\ Done(c)
      \/ sess[c] \in {"status", "wait"} /\ sess'[c] \in {"status", "wait"}
      \/ sess[c] = "status" /\ sess'[c] = "dead" /\ ~conn'[c]
    <2>1. CASE Request(c)
        BY <2>1 DEF Request, Go, TypeInv
    <2>2. CASE Status(c) /\ ~conn[c]
        BY <2>2 DEF Status, Go, TypeInv
    <2>5. CASE Status(c) /\ conn[c]
        <3>1. sess[c] = "status" /\ sess'[c] = Query(c)
            BY <2>5 DEF Status, Go, TypeInv
        <3>2. QED
            BY <3>1 DEF Query
    <2>3. CASE Wake(c)
        <3>1. sess[c] = "wait" /\ (sess'[c] = Query(c) \/ sess'[c] = "status")
            BY <2>3 DEF Wake, Go, TypeInv
        <3>2. QED
            BY <3>1 DEF Query
    <2>4. CASE Dies(c) \/ SendEnd(c) \/ ObjectsStopped(c) \/ Notify(c)
        BY <2>4 DEF Dies, SendEnd, ObjectsStopped, Notify, Go, TypeInv
    <2>6. QED
        BY <2>1, <2>2, <2>3, <2>4, <2>5
<1>4. conn'[c] = conn[c] \/ ~conn'[c]
    BY DEF Request, Dies, SendEnd, ObjectsStopped, Status, Wake, Notify, TypeInv
<1>5. SessOf(c)'
    BY <1>1, <1>2, <1>3, <1>4 DEF RequestInv, SessOf
<1>6. ExecOf(c)'
    BY <1>1, <1>3 DEF RequestInv, ExecOf, SessOf, Done
<1>7. AgreeOf(c)' /\ BoundOf(c)'
    BY <1>1, <1>3, SessionKeeps
<1>8. QED
    BY <1>5, <1>6, <1>7 DEF RequestInv

(* New jobs, and jobs deleted since the client is gone.                    *)
LEMMA ObjectsStep ==
    ASSUME TypeInv, NEW c \in Client, RequestInv(c), SendObject(c) \/ ObjectsFail(c)
    PROVE  RequestInv(c)'
<1> USE DEF server
<1>1. /\ status' = status /\ stop' = stop /\ conn' = conn /\ sess[c] = "objects"
      /\ row' = row /\ exec' = exec
    BY DEF SendObject, ObjectsFail, Go
<1>2. sess'[c] = "objects" \/ (sess'[c] = "dead" /\ ~conn[c])
    BY DEF SendObject, ObjectsFail, Go, TypeInv
<1>3. row[c] = "none" /\ exec[c] = "none" /\ status[c] = NoStatus
    BY <1>1 DEF RequestInv, SessOf
<1>4. SessOf(c)'
    BY <1>1, <1>2, <1>3 DEF SessOf
<1>5. ExecOf(c)'
    BY <1>1, <1>2, <1>3 DEF ExecOf
<1>6. AgreeOf(c)'
    BY <1>1, <1>3 DEF AgreeOf
<1>7. BoundOf(c)'
    BY <1>1, <1>3, NoStatusBetweenNext DEF BoundOf
<1>8. QED
    BY <1>4, <1>5, <1>6, <1>7 DEF RequestInv

(* Status::add counts the jobs of a request that has no entry.             *)
LEMMA AddedStatus ==
    ASSUME TypeInv, NEW c \in Client, RequestInv(c), status' = StatusAdd(c), job' = job,
           stop' = stop, sess'[c] = sess[c] \/ sess[c] \notin {"done", "dead"}
    PROVE  AgreeOf(c)' /\ BoundOf(c)' /\ status'[c] # NoStatus
<1>1. CASE status[c] # NoStatus
    BY <1>1, SessionKeeps DEF StatusAdd
<1>2. CASE status[c] = NoStatus
    <2>1. status'[c] = [s \in JobState |-> Cardinality(JobsIn(c, s))]
        BY <1>2 DEF StatusAdd, TypeInv
    <2>2. \A s \in JobState : status'[c][s] = Count(c, s)
        BY <2>1 DEF Count
    <2>3. \A s \in JobState : status'[c][s] = Count(c, s)'
        BY <2>2, JobsUnchanged DEF SameJobs
    <2>4. {"source", "premigrated", "transferred", "final", "failed"} \subseteq JobState
        BY DEF JobState
    <2>5. AgreeOf(c)'
        BY <2>3, <2>4, CountsNext DEF AgreeOf
    <2>6. BoundOf(c)'
        BY <2>3, CountedBetweenNext DEF BoundOf
    <2>7. status'[c]["failed"] >= 0
        BY <2>3, <2>4, CountsNext
    <2>8. QED
        BY <2>4, <2>5, <2>6, <2>7, CountedIsThere
<1>3. QED
    BY <1>1, <1>2

(* addRequest: the session has a row now, and perhaps an executor.         *)
LEMMA AddRequestStep ==
    ASSUME TypeInv, NEW c \in Client, RequestInv(c), AddRequest(c)
    PROVE  RequestInv(c)'
<1> USE DEF server
<1>1. job' = job /\ stop' = stop /\ sess[c] = "add"
    BY DEF AddRequest, Go
<1>2. row[c] = "none" /\ exec[c] = "none" /\ status[c] = NoStatus
    BY <1>1 DEF RequestInv, SessOf
<1>3. \/ sess'[c] = "status" /\ exec' = exec /\ status' = status
      \/ /\ sess'[c] = "adding" /\ row'[c] = "inprogress" /\ status' = StatusAdd(c)
    BY DEF AddRequest, Go, TypeInv
<1>4. SessOf(c)'
    BY <1>3 DEF SessOf
<1>5. CASE sess'[c] = "status" /\ exec' = exec /\ status' = status
    <2>1. ExecOf(c)'
        BY <1>5, <1>2 DEF ExecOf
    <2>2. AgreeOf(c)' /\ BoundOf(c)'
        BY <1>5, <1>1, SessionKeeps
    <2>3. QED
        BY <1>4, <2>1, <2>2 DEF RequestInv
<1>6. CASE sess'[c] = "adding" /\ row'[c] = "inprogress" /\ status' = StatusAdd(c)
    <2>1. AgreeOf(c)' /\ BoundOf(c)' /\ status'[c] # NoStatus
        BY <1>6, <1>1, AddedStatus
    <2>2. ExecOf(c)'
        BY <1>6, <2>1 DEF ExecOf
    <2>3. QED
        BY <1>4, <2>1, <2>2 DEF RequestInv
<1>7. QED
    BY <1>3, <1>5, <1>6

(* The scheduler starts the executor: its session does not tidy up yet.    *)
LEMMA DispatchStep ==
    ASSUME TypeInv, NEW c \in Client, RequestInv(c), Dispatch(c)
    PROVE  RequestInv(c)'
<1> USE DEF server
<1>1. /\ job' = job /\ stop' = stop /\ sess' = sess /\ conn' = conn
      /\ row[c] = "new" /\ stop # "finish" /\ status' = StatusAdd(c)
    BY DEF Dispatch, ExecStatus
<1>2. row'[c] = "inprogress"
    BY <1>1 DEF Dispatch, SetRow, TypeInv
<1>3. sess[c] \in {"adding", "status", "wait", "dead"}
    BY <1>1 DEF RequestInv, SessOf, ExecOf, TypeInv, Places
<1>4. AgreeOf(c)' /\ BoundOf(c)' /\ status'[c] # NoStatus
    BY <1>1, AddedStatus
<1>5. ExecOf(c)'
    BY <1>1, <1>2, <1>3, <1>4 DEF ExecOf
<1>6. SessOf(c)'
    BY <1>1, <1>3 DEF RequestInv, SessOf
<1>7. QED
    BY <1>6, <1>5, <1>4 DEF RequestInv

(* The end of an executor.                                                 *)
LEMMA ExecEndStep ==
    ASSUME TypeInv, NEW c \in Client, RequestInv(c), ExecEnd(c)
    PROVE  RequestInv(c)'
<1> USE DEF server
<1>1. job' = job /\ stop' = stop /\ status' = status /\ conn' = conn /\ exec[c] # "none"
    BY DEF ExecEnd
<1>2. exec'[c] = "none"
    BY DEF ExecEnd, TypeInv
<1>3. sess'[c] = sess[c] \/ (sess[c] = "adding" /\ sess'[c] = "status")
    BY DEF ExecEnd, TypeInv
<1>4. SessOf(c)'
    <2>1. JobsOf(c)' = JobsOf(c)
        BY <1>1 DEF JobsOf
    <2>2. QED
        BY <1>1, <1>3, <2>1 DEF RequestInv, SessOf
<1>5. ExecOf(c)'
    BY <1>1, <1>2, <1>3 DEF RequestInv, ExecOf
<1>6. AgreeOf(c)' /\ BoundOf(c)'
    BY <1>1, <1>3, SessionKeeps
<1>7. QED
    BY <1>4, <1>5, <1>6 DEF RequestInv

(* The session tidies up: the executor has ended, or the server stops.     *)
LEMMA CleanStep ==
    ASSUME TypeInv, NEW c \in Client, RequestInv(c), Clean(c) \/ Delete(c)
    PROVE  RequestInv(c)'
<1> USE DEF server
<1>1. CASE Clean(c)
    <2>1. /\ job' = job /\ stop' = stop /\ sess[c] = "clean" /\ sess'[c] = "delete"
          /\ status'[c] = NoStatus /\ row' = row /\ exec' = exec
        BY <1>1 DEF Clean, Go, TypeInv
    <2>2. SessOf(c)' /\ ExecOf(c)'
        BY <2>1 DEF RequestInv, SessOf, ExecOf
    <2>3. AgreeOf(c)'
        BY <2>1 DEF AgreeOf
    <2>4. BoundOf(c)'
        BY <2>1, NoStatusBetweenNext DEF BoundOf
    <2>5. QED
        BY <2>2, <2>3, <2>4 DEF RequestInv
<1>2. CASE Delete(c)
    <2>1. /\ stop' = stop /\ sess[c] = "delete" /\ status' = status /\ exec' = exec
          /\ conn' = conn /\ sess'[c] = IF conn[c] THEN "done" ELSE "dead"
        BY <1>2 DEF Delete, Go, TypeInv
    <2>2. JobsOf(c)' = {}
        BY <1>2, DeletedJobs DEF Delete, Deleted
    <2>3. row'[c] = "none"
        BY <1>2 DEF Delete, SetRow, TypeInv
    <2>4. SessOf(c)' /\ ExecOf(c)'
        BY <2>1, <2>2, <2>3 DEF RequestInv, SessOf, ExecOf
    <2>5. AgreeOf(c)'
        BY <2>1 DEF RequestInv, ExecOf, AgreeOf
    <2>6. Bounded(c)
        BY <2>1, BetweenBounded DEF RequestInv, BoundOf
    <2>7. BoundOf(c)'
        BY <2>1, <2>2, <2>6 DEF BoundOf, Bounded
    <2>8. QED
        BY <2>4, <2>5, <2>7 DEF RequestInv
<1>3. QED
    BY <1>1, <1>2

(* An executor has processed a job: the counters follow, and before        *)
(* finishTerminate there is an entry to follow.                            *)
LEMMA ProcessStep ==
    ASSUME TypeInv, NEW c \in Client, RequestInv(c), Process(c)
    PROVE  RequestInv(c)'
<1> USE DEF server
<1>1. /\ stop' = stop /\ sess' = sess /\ conn' = conn /\ row' = row /\ exec' = exec
      /\ exec[c] # "none"
    BY DEF Process
<1>2. PICK f \in JobsOf(c), from, to \in JobState :
          /\ job[f].state = from /\ to # from /\ from # "failed"
          /\ job' = [job EXCEPT ![f].state = to]
          /\ \/ to # "failed" /\ UpdateSuccess(c, from, to)
             \/ to = "failed" /\ UpdateFailed(c, from)
    BY ProcessEffect
<1>3. {"source", "premigrated", "transferred", "final", "failed"} \subseteq JobState
    BY DEF JobState
<1>4. JobsOf(c)' = JobsOf(c)
    BY <1>2, MoveJob
<1>5. job[f].state = from /\ to # from /\ job' = [job EXCEPT ![f].state = to]
    BY <1>2
<1>6. Moved(c, from, to)
    BY <1>5, MoveJob
<1>7. /\ \A s : s \notin {from, to} => Count(c, s)' = Count(c, s)
      /\ Count(c, from)' = Count(c, from) - 1 /\ Count(c, to)' = Count(c, to) + 1
    BY <1>6 DEF Moved
<1>8. \A s : /\ Count(c, s) \in Nat /\ Count(c, s)' \in Nat
             /\ Count(c, s)' <= Cardinality(File) /\ Cardinality(File) \in Nat
    BY Counts, CountsNext
<1>9. \A s \in JobState : status[c][s] \in Int
    BY DEF TypeInv
<1>10. Between(c)
    BY <1>2 DEF RequestInv, BoundOf
<1>11. SessOf(c)'
    BY <1>1, <1>4, <1>2 DEF RequestInv, SessOf
<1>12. ASSUME status[c] # NoStatus
       PROVE  AgreeOf(c)' /\ BoundOf(c)' /\ (stop # "finish" => status'[c] # NoStatus)
    <2>1. \A s \in JobState : s \notin {from, to} => status'[c][s] = status[c][s]
        BY <1>12, <1>2, SuccessEffect, FailedEffect
    <2>2. status'[c][to] = status[c][to] + 1
        BY <1>12, <1>2, SuccessEffect, FailedEffect
    <2>3. status'[c][from] = IF to = "failed" /\ from = "transferred"
                             THEN status[c][from] ELSE status[c][from] - 1
        BY <1>12, <1>2, SuccessEffect, FailedEffect
    <2>4. \A s \in JobState : status'[c][s] >= Count(c, s)' - Cardinality(File) - 1
        BY <2>1, <2>2, <2>3, <1>10, <1>7, <1>8, <1>9 DEF Between
    <2>5. \A s \in JobState \ {"transferred"} : status'[c][s] <= Count(c, s)'
        BY <2>1, <2>2, <2>3, <1>10, <1>7, <1>8, <1>9 DEF Between
    <2>6. status'[c]["transferred"] <= Count(c, "transferred")' + Count(c, "failed")'
        BY <2>1, <2>2, <2>3, <1>10, <1>7, <1>8, <1>9, <1>3, <1>2 DEF Between
    <2>7. BoundOf(c)'
        BY <2>4, <2>5, <2>6 DEF BoundOf, Between
    <2>8. CASE stop # "finish"
        <3>1. /\ \A s \in {"source", "premigrated", "final", "failed"} : status[c][s] = Count(c, s)
              /\ status[c]["transferred"] >= Count(c, "transferred")
            BY <1>12, <2>8 DEF RequestInv, AgreeOf
        <3>2. \A s \in {"source", "premigrated", "final", "failed"} : status'[c][s] = Count(c, s)'
            BY <3>1, <2>1, <2>2, <2>3, <1>7, <1>8, <1>9, <1>3
        <3>3. status'[c]["transferred"] >= Count(c, "transferred")'
            BY <3>1, <2>1, <2>2, <2>3, <1>7, <1>8, <1>9, <1>3
        <3>4. status'[c] # NoStatus
            BY <3>2, <1>8, <1>3, CountedIsThere
        <3>5. QED
            BY <3>2, <3>3, <3>4, <2>7 DEF AgreeOf
    <2>9. CASE stop = "finish"
        BY <2>9, <2>7, <1>1 DEF AgreeOf
    <2>10. QED
        BY <2>8, <2>9
<1>13. ASSUME status[c] = NoStatus PROVE stop = "finish" /\ BoundOf(c)'
    <2>1. stop = "finish"
        BY <1>13, <1>1 DEF RequestInv, ExecOf
    <2>2. CASE UpdateFailed(c, from) /\ to = "failed"
        <3>1. /\ \A s \in JobState : s # "failed" => status'[c][s] \in -1 .. 0
              /\ status'[c]["failed"] = 1
            BY <1>13, <1>2, <2>2, FailedAnew
        <3>2. Count(c, "failed")' >= 1
            BY <2>2, <1>7, <1>8
        <3>3. Between(c)'
            BY <3>1, <3>2, <1>8, <1>3 DEF Between
        <3>4. QED
            BY <2>1, <3>3 DEF BoundOf
    <2>3. CASE UpdateSuccess(c, from, to)
        <3>1. status'[c] = NoStatus
            BY <1>13, <2>3 DEF UpdateSuccess
        <3>2. QED
            BY <2>1, <3>1, NoStatusBetweenNext DEF BoundOf
    <2>4. QED
        BY <2>2, <2>3, <1>2
<1>14. AgreeOf(c)' /\ BoundOf(c)'
    BY <1>12, <1>13, <1>1 DEF AgreeOf
<1>15. ExecOf(c)'
    BY <1>12, <1>13, <1>1 DEF RequestInv, ExecOf
<1>16. QED
    BY <1>11, <1>15, <1>14 DEF RequestInv

-----------------------------------------------------------------------------
(* The inductive invariant is kept by every step.                          *)
LEMMA NextRequestsInv == RequestsInv /\ [Next]_vars => RequestsInv'
<1> SUFFICES ASSUME RequestsInv, [Next]_vars PROVE RequestsInv'
    OBVIOUS
<1>1. TypeInv /\ TypeInv'
    BY NextTypeInv DEF RequestsInv
<1>2. \A c \in Client : RequestInv(c)
    BY DEF RequestsInv
<1>3. ASSUME NEW c \in Client, Step(c), ~broken PROVE RequestsInv'
    <2>1. RequestInv(c)'
        BY <1>3, <1>1, <1>2, SessionStep, ObjectsStep, AddRequestStep, DispatchStep,
           ProcessStep, ExecEndStep, CleanStep DEF Step, SessionNext, ExecNext
    <2>2. \A d \in Client : d # c => RequestInv(d)'
        BY <1>3, <1>1, <1>2, Others, Kept
    <2>3. CASE Process(c)
        <3>1. status[c] = NoStatus => stop = "finish"
            BY <2>3, <1>2 DEF RequestInv, ExecOf, Process
        <3>2. stop' = stop /\ (status[c] # NoStatus => broken' = broken)
            BY <2>3, <1>1, ProcessStatus DEF Process
        <3>3. QED
            BY <3>1, <3>2, <1>3, <1>1, <2>1, <2>2 DEF RequestsInv, EntriesThere
    <2>4. CASE ~Process(c)
        <3>1. broken' = broken
            BY <2>4, <1>3 DEF Step, SessionNext, ExecNext, Request, Dies,
               SendObject, SendEnd,
               ObjectsStopped, ObjectsFail, AddRequest, Status, Wake, Clean, Delete, Dispatch,
               ExecEnd, Notify, server
        <3>2. QED
            BY <3>1, <1>3, <1>1, <2>1, <2>2 DEF RequestsInv, EntriesThere
    <2>5. QED
        BY <2>3, <2>4
<1>4. CASE Terminate \/ Finish \/ UNCHANGED vars
    <2>1. /\ \A d \in Client : Same(d)
          /\ job' = job /\ (stop' = stop \/ stop' = "finish" \/ stop = "no")
          /\ broken' = broken /\ (stop' = stop \/ stop # "finish")
        BY <1>4 DEF Terminate, Finish, vars, server, Same
    <2>2. \A d \in Client : RequestInv(d)'
        BY <2>1, <1>2, JobsUnchanged, Kept
    <2>3. EntriesThere'
        BY <2>1 DEF RequestsInv, EntriesThere
    <2>4. QED
        BY <1>1, <2>2, <2>3 DEF RequestsInv
<1>5. QED
    BY <1>3, <1>4 DEF Next, Step

(* The inductive invariant holds in every state.                           *)
LEMMA RequestsInvAlways == Spec => []RequestsInv
BY InitRequestsInv, NextRequestsInv, PTL DEF Spec

(* Sessions, jobs, rows and executors keep their types, and the counters   *)
(* of the status, which are lowered one at a time and made anew by         *)
(* updateFailed, never leave -(n + 1) .. n for n files.                    *)
THEOREM RequestsTypeCorrect == Spec => []TypeOK
<1>1. RequestsInv => TypeOK
    <2> SUFFICES ASSUME RequestsInv PROVE TypeOK
        OBVIOUS
    <2>1. TypeInv /\ \A c \in Client : Bounded(c)
        BY BetweenBounded DEF RequestsInv, RequestInv, BoundOf
    <2>2. status \in [Client -> [JobState -> -(Cardinality(File) + 1) .. Cardinality(File)]]
        BY <2>1 DEF TypeInv, Bounded
    <2>3. QED
        BY <2>1, <2>2 DEF TypeInv, Places, TypeOK
<1>2. QED
    BY <1>1, RequestsInvAlways, PTL

(* A job that a session has left in the queue belongs to a client that was *)
(* gone before it was told: getObjects and DELETE_JOBS leave no other.     *)
THEOREM NoJobLeftOverAlways == Spec => []NoJobLeftOver
<1>1. RequestsInv => NoJobLeftOver
    <2> SUFFICES ASSUME RequestsInv, NEW f \in File, job[f].req # None,
                        sess[job[f].req] \in {"done", "refused", "dead"}
                 PROVE  ~conn[job[f].req]
        BY DEF NoJobLeftOver
    <2>1. job[f].req \in Client
        BY DEF RequestsInv, TypeInv
    <2>2. f \in JobsOf(job[f].req)
        BY DEF JobsOf
    <2>3. QED
        BY <2>1, <2>2 DEF RequestsInv, RequestInv, SessOf
<1>2. QED
    BY <1>1, RequestsInvAlways, PTL

(* Status::add, updateSuccess and updateFailed keep the counters that a    *)
(* client is shown equal to the jobs of its request, whatever executors    *)
(* and sessions do in between, until the server is made to finish.         *)
THEOREM StatusAgreesAlways == Spec => []StatusAgrees
<1>1. RequestsInv => StatusAgrees
    BY DEF RequestsInv, RequestInv, AgreeOf, StatusAgrees, Count
<1>2. QED
    BY <1>1, RequestsInvAlways, PTL

(* The assertion of Status::updateSuccess does not fail before             *)
(* finishTerminate: a session removes the entry of its request only after  *)
(* the executor has ended.                                                 *)
THEOREM EntriesThereAlways == Spec => []EntriesThere
<1>1. RequestsInv => EntriesThere
    BY DEF RequestsInv
<1>2. QED
    BY <1>1, RequestsInvAlways, PTL

=============================================================================
