------------------------------ MODULE Requests ------------------------------
(***************************************************************************)
(* Migration and selective recall as a dialogue: the commands              *)
(* (client/LTFSDMCommand.cc, MigrateCommand.cc, RecallCommand.cc), the     *)
(* sessions that answer them (server/MessageParser.cc), the result they    *)
(* wait for (FileOperation::queryResult) and the status shown meanwhile    *)
(* (server/Status.cc).                                                     *)
(*                                                                         *)
(* Client and session take turns, so one pc stands for both; the client    *)
(* may be gone (conn) before the session sees it.  A request has one row,  *)
(* and its number is the client itself: clients that attach to a request   *)
(* with the option -n are left out.  Scheduling is in module Scheduler;    *)
(* here a row that is new is started some time.                            *)
(***************************************************************************)
EXTENDS Integers, FiniteSets

CONSTANTS Client, File,
          Kind,        (* client -> "mig" or "rec"                          *)
          FilesOf,     (* client -> the files it names                      *)
          InitStates,  (* file -> migration states it may be in at first    *)
          MaxFaults,   (* bound on clients that end early, executors that   *)
                       (* are suspended and failures to sync a tape         *)
          MayStop,     (* the server may be stopped                         *)
          None

ASSUME RequestsAssumption ==
    /\ IsFiniteSet(File) /\ None \notin Client
    /\ Kind \in [Client -> {"mig", "rec"}]
    /\ FilesOf \in [Client -> SUBSET File]
    /\ InitStates \in [File -> SUBSET {"resident", "premigrated", "migrated"}]
    /\ MaxFaults \in Nat /\ MayStop \in BOOLEAN

VARIABLES sess,      (* client -> where its session is                      *)
          conn,      (* client -> it still listens                          *)
          left,      (* client -> files it has still to send                *)
          fstate,    (* file -> its migration state                         *)
          job,       (* file -> its entry in JOB_QUEUE                      *)
          row,       (* client -> the row its session has added             *)
          exec,      (* client -> the executor of that row                  *)
          updReq,    (* request -> "none" if there is no entry, else yes/no *)
          status,    (* request -> its entry in mrStatus                    *)
          stop,      (* Server::terminate and Server::finishTerminate       *)
          broken,    (* the assertion of Status::updateSuccess has failed   *)
          faults

server == <<stop, broken>>
vars == <<sess, conn, left, fstate, job, row, exec, updReq, status, server, faults>>

(* "source" is resident for a migration and migrated for a recall, "final" *)
(* the target state.                                                       *)
FileStates == {"resident", "premigrated", "migrated"}
JobState == {"source", "premigrated", "transferred", "final", "failed"}

NoJob == [req |-> None, state |-> "source"]
NoStatus == [s \in JobState |-> -1]

TypeOK ==
    /\ sess \in [Client -> {"none", "objects", "add", "adding", "status",
                            "wait", "clean", "delete", "done", "refused", "dead"}]
    /\ conn \in [Client -> BOOLEAN] /\ left \in [Client -> SUBSET File]
    /\ fstate \in [File -> FileStates]
    /\ job \in [File -> [req: Client \cup {None}, state: JobState]]
    /\ row \in [Client -> {"none", "new", "inprogress", "completed"}]
    /\ exec \in [Client -> {"none", "tape", "notape"}]
    /\ updReq \in [Client -> {"none", "no", "yes"}]
    /\ status \in [Client -> [JobState -> -(Cardinality(File) + 1) .. Cardinality(File)]]
    /\ stop \in {"no", "terminate", "finish"} /\ broken \in BOOLEAN
    /\ faults \in 0 .. MaxFaults

Init ==
    /\ sess = [c \in Client |-> "none"] /\ conn = [c \in Client |-> TRUE]
    /\ left = FilesOf /\ fstate \in {g \in [File -> FileStates] : \A f \in File : g[f] \in InitStates[f]}
    /\ job = [f \in File |-> NoJob]
    /\ row = [c \in Client |-> "none"] /\ exec = [c \in Client |-> "none"]
    /\ updReq = [c \in Client |-> "none"] /\ status = [c \in Client |-> NoStatus]
    /\ stop = "no" /\ broken = FALSE
    /\ faults = MaxFaults

Go(c, from, to) == sess[c] = from /\ sess' = [sess EXCEPT ![c] = to]

JobsOf(r) == {f \in File : job[f].req = r}
JobsIn(r, s) == {f \in JobsOf(r) : job[f].state = s}

-----------------------------------------------------------------------------
(* migrationMessage, selRecallMessage and getObjects.                      *)

(* The server may be about to stop; pools may not exist or be too many.    *)
Request(c) ==
    /\ \/ stop = "no" /\ Go(c, "none", "objects")
       \/ /\ stop # "no" \/ Kind[c] = "mig"
          /\ Go(c, "none", "refused")
    /\ UNCHANGED <<conn, left, fstate, job, row, exec, updReq, status, server, faults>>

(* Mutant of JobStates: the state of the file is taken as it is.           *)
JobStatesRaw(c, f) == {fstate[f]}

(* The state of the job that addJob makes of a file: it may fail, and      *)
(* there is none for a recall of a resident file.                          *)
JobStates(c, f) ==
    {"failed"} \cup
    CASE fstate[f] = "premigrated" -> {"premigrated"}
      [] fstate[f] = "resident" -> IF Kind[c] = "mig" THEN {"source"} ELSE {}
      [] OTHER -> IF Kind[c] = "mig" THEN {"final"} ELSE {"source"}

(* A file that is in the queue already is left out (UNIQUE).               *)
SendObject(c) ==
    /\ sess[c] = "objects" /\ conn[c] /\ stop = "no"
    /\ \E f \in left[c] :
          /\ left' = [left EXCEPT ![c] = @ \ {f}]
          /\ \/ /\ job[f] = NoJob
                /\ \E s \in JobStates(c, f) :
                      job' = [job EXCEPT ![f] = [req |-> c, state |-> s]]
             \/ /\ job[f] # NoJob \/ (Kind[c] = "rec" /\ fstate[f] = "resident")
                /\ UNCHANGED job
    /\ UNCHANGED <<sess, conn, fstate, row, exec, updReq, status, server, faults>>

(* The end marker.                                                         *)
SendEnd(c) ==
    /\ conn[c] /\ left[c] = {} /\ Go(c, "objects", "add")
    /\ UNCHANGED <<conn, left, fstate, job, row, exec, updReq, status, server, faults>>

(* The server is about to stop: the session closes the connection and goes *)
(* on with what it has.                                                    *)
ObjectsStopped(c) ==
    /\ stop # "no" /\ conn[c] /\ Go(c, "objects", "add")
    /\ conn' = [conn EXCEPT ![c] = FALSE]
    /\ UNCHANGED <<left, fstate, job, row, exec, updReq, status, server, faults>>

DeleteJobs(r) == job' = [f \in File |-> IF job[f].req = r THEN NoJob ELSE job[f]]

(* The client is gone: the jobs of the request are deleted.                *)
ObjectsFail(c) ==
    /\ ~conn[c] /\ Go(c, "objects", "dead")
    /\ DeleteJobs(c)
    /\ UNCHANGED <<conn, left, fstate, row, exec, updReq, status, server, faults>>

(* The client ends early.                                                  *)
Dies(c) ==
    /\ faults > 0 /\ conn[c] /\ sess[c] \notin {"none", "done", "refused", "dead"}
    /\ conn' = [conn EXCEPT ![c] = FALSE]
    /\ faults' = faults - 1
    /\ UNCHANGED <<sess, left, fstate, job, row, exec, updReq, status, server>>

-----------------------------------------------------------------------------
(* addRequest and the executors.                                           *)

(* Status::add, unless there is an entry.                                  *)
StatusAdd(r) ==
    IF status[r] # NoStatus THEN status
    ELSE [status EXCEPT ![r] = [s \in JobState |-> Cardinality(JobsIn(r, s))]]

(* needsTape: addJob has seen a file whose data has to be moved.           *)
NeedsTape(c) ==
    \E f \in FilesOf[c] \ left[c] :
       fstate[f] = IF Kind[c] = "mig" THEN "resident" ELSE "migrated"

(* A migration adds a row for its pool, a recall one for the tape of its   *)
(* jobs: new if a tape is needed, else in progress, and the session runs   *)
(* its executor.  Jobs of a recall that failed in addJob need no executor, *)
(* and without jobs it has no row.                                         *)
AddRequest(c) ==
    LET Needed == Kind[c] = "mig" \/ JobsOf(c) # {}
        Failed == Kind[c] = "rec" /\ JobsOf(c) = JobsIn(c, "failed")
    IN /\ updReq' = [updReq EXCEPT ![c] = "no"]
       /\ \/ /\ Needed /\ ~Failed /\ NeedsTape(c)
             /\ Go(c, "add", "status")
             /\ row' = [row EXCEPT ![c] = "new"]
             /\ UNCHANGED <<exec, status>>
          \/ /\ Needed /\ ~Failed /\ ~NeedsTape(c)
             /\ Go(c, "add", "adding")
             /\ row' = [row EXCEPT ![c] = "inprogress"]
             /\ exec' = [exec EXCEPT ![c] = "notape"]
             /\ status' = StatusAdd(c)
          \/ /\ ~Needed \/ Failed
             /\ Go(c, "add", "status")
             /\ row' = [row EXCEPT ![c] = IF Needed THEN "completed" ELSE "none"]
             /\ UNCHANGED <<exec, status>>
       /\ UNCHANGED <<conn, left, fstate, job, server, faults>>

(* An UPDATE or DELETE, it finds no row when that was deleted before. *)
SetRow(r, s) == row' = [row EXCEPT ![r] = IF @ = "none" THEN @ ELSE s]

(* Mutant of ExecStatus: no entry is added.                                *)
ExecStatusNone(r) == status

ExecStatus(r) == StatusAdd(r)

(* The scheduler starts execRequest of Migration or SelRecall.             *)
Dispatch(c) ==
    /\ row[c] = "new" /\ exec[c] = "none" /\ stop # "finish"
    /\ SetRow(c, "inprogress")
    /\ exec' = [exec EXCEPT ![c] = "tape"]
    /\ status' = ExecStatus(c)
    /\ UNCHANGED <<sess, conn, left, fstate, job, updReq, server, faults>>

(* Status::updateSuccess and Status::updateFailed.  The former asserts     *)
(* that there is an entry, the latter makes one.  A failure of a file that *)
(* was transferred does not lower the number of transferred ones.          *)
UpdateSuccess(r, from, to) ==
    IF status[r] = NoStatus
    THEN broken' = TRUE /\ UNCHANGED status
    ELSE status' = [status EXCEPT ![r][from] = @ - 1, ![r][to] = @ + 1] /\ UNCHANGED broken

(* Mutant of Lowered: the file is still counted as it was.                 *)
LoweredNever(st, from) == st

Lowered(st, from) == IF from # "transferred" THEN [st EXCEPT ![from] = @ - 1] ELSE st

UpdateFailed(r, from) ==
    LET old == IF status[r] = NoStatus THEN [s \in JobState |-> 0] ELSE status[r]
    IN /\ status' = [status EXCEPT ![r] = [Lowered(old, from) EXCEPT !["failed"] = @ + 1]]
       /\ UNCHANGED broken

(* What an executor does to a job.  A migration with tape handles resident *)
(* and transferred files only, one without tape only premigrated ones.     *)
Moves(c) ==
    CASE Kind[c] = "mig" /\ exec[c] = "tape" ->
            {<<"source", "transferred">>, <<"transferred", "final">>}
      [] Kind[c] = "rec" /\ exec[c] = "tape" ->
            {<<"source", "final">>, <<"premigrated", "final">>}
      [] OTHER -> {<<"premigrated", "final">>}

Handled(c) == {m[1] : m \in Moves(c)} \cup
              IF Kind[c] = "rec" THEN {"source"} ELSE {}

(* The state of a file that was processed.                                 *)
FileState(c, to) ==
    CASE to = "transferred" -> "resident"
      [] OTHER -> IF Kind[c] = "mig" THEN "migrated" ELSE "resident"

(* transferData, changeFileState and recall.  A recall without a tape      *)
(* fails for a migrated file.                                              *)
Process(c) ==
    /\ exec[c] # "none"
    /\ \E f \in JobsOf(c) :
          LET from == job[f].state
          IN \/ \E to \in JobState :
                   /\ <<from, to>> \in Moves(c)
                   /\ job' = [job EXCEPT ![f].state = to]
                   /\ fstate' = [fstate EXCEPT ![f] = FileState(c, to)]
                   /\ UpdateSuccess(c, from, to)
             \/ /\ from \in Handled(c)
                /\ job' = [job EXCEPT ![f].state = "failed"]
                /\ UpdateFailed(c, from)
                /\ UNCHANGED fstate
    /\ UNCHANGED <<sess, conn, left, row, exec, updReq, stop, faults>>

(* updReq is set while files are processed, so that progress is shown.     *)
Notify(c) ==
    /\ exec[c] # "none"
    /\ updReq' = [updReq EXCEPT ![c] = "yes"]
    /\ UNCHANGED <<sess, conn, left, fstate, job, row, exec, status, server, faults>>

Processed(c) == \A s \in Handled(c) : JobsIn(c, s) = {}

(* Mutant of RowAfter: a suspension is not passed on.                      *)
RowAfterSuspend(suspended) == "completed"

RowAfter(suspended) == IF suspended THEN "new" ELSE "completed"

(* Mutant of Woken: nobody is told.                                        *)
WokenNever(r) == updReq

Woken(r) == [updReq EXCEPT ![r] = "yes"]

(* The end of execRequest, under updmtx.  An executor with a tape also     *)
(* stops when a recall wants its drive, or when the tape is full: what has *)
(* been transferred is changed, the row is new again.  When the server is  *)
(* to stop the row is completed all the same; and when the tape index      *)
(* could not be written: the files stay transferred, since                 *)
(* FAIL_PREMIGRATED looks for premigrated ones.                            *)
ExecEnd(c) ==
    /\ exec[c] # "none"
    /\ \/ /\ Processed(c) \/ stop # "no"
          /\ SetRow(c, RowAfter(FALSE))
          /\ UNCHANGED faults
       \/ /\ exec[c] = "tape" /\ ~Processed(c) /\ faults > 0
          /\ JobsIn(c, "transferred") = {}
          /\ SetRow(c, RowAfter(TRUE))
          /\ faults' = faults - 1
       \/ /\ faults > 0 /\ Kind[c] = "mig" /\ exec[c] = "tape"
          /\ JobsIn(c, "source") = {} /\ JobsIn(c, "transferred") # {}
          /\ SetRow(c, RowAfter(FALSE))
          /\ faults' = faults - 1
    /\ exec' = [exec EXCEPT ![c] = "none"]
    /\ updReq' = Woken(c)
    /\ sess' = IF sess[c] = "adding" THEN [sess EXCEPT ![c] = "status"] ELSE sess
    /\ UNCHANGED <<conn, left, fstate, job, status, server>>

-----------------------------------------------------------------------------
(* reqStatusMessage and FileOperation::queryResult.                        *)

Done(r) == stop = "finish" \/ row[r] \in {"none", "completed"}

Query(c) == IF Done(c) THEN "clean" ELSE "wait"

Status(c) ==
    /\ Go(c, "status", IF conn[c] THEN Query(c) ELSE "dead")
    /\ UNCHANGED <<conn, left, fstate, job, row, exec, updReq, status, server, faults>>

(* The flag is taken by the first session that sees it.  After ten seconds *)
(* the client gets an answer and asks again.                               *)
Wake(c) ==
    /\ stop = "finish" \/ updReq[c] = "yes"
    /\ Go(c, "wait", Query(c)) \/ Go(c, "wait", "status")
    /\ updReq' = [updReq EXCEPT ![c] = "no"]
    /\ UNCHANGED <<conn, left, fstate, job, row, exec, status, server, faults>>

(* mrStatus.remove and updReq.erase.                                       *)
Clean(c) ==
    /\ Go(c, "clean", "delete")
    /\ status' = [status EXCEPT ![c] = NoStatus]
    /\ updReq' = [updReq EXCEPT ![c] = "none"]
    /\ UNCHANGED <<conn, left, fstate, job, row, exec, server, faults>>

(* Mutant of Deleted: the rows are deleted, the jobs are not.              *)
DeletedRows(r) == UNCHANGED job

Deleted(r) == DeleteJobs(r)

(* DELETE_JOBS and DELETE_REQUESTS, and the client is told.                *)
Delete(c) ==
    /\ Go(c, "delete", IF conn[c] THEN "done" ELSE "dead")
    /\ Deleted(c)
    /\ SetRow(c, "none")
    /\ UNCHANGED <<conn, left, fstate, exec, updReq, status, server, faults>>

-----------------------------------------------------------------------------
(* The server is told to stop (see module Server).                       *)

Terminate ==
    /\ MayStop /\ stop = "no" /\ stop' = "terminate"
    /\ UNCHANGED <<sess, conn, left, fstate, job, row, exec, updReq, status,
                   broken, faults>>

(* The signal handler or a forced stop sets finishTerminate.               *)
Finish ==
    /\ stop = "terminate" /\ stop' = "finish"
    /\ UNCHANGED <<sess, conn, left, fstate, job, row, exec, updReq, status,
                   broken, faults>>

-----------------------------------------------------------------------------
SessionNext(c) ==
    \/ SendObject(c) \/ SendEnd(c) \/ ObjectsStopped(c) \/ ObjectsFail(c)
    \/ AddRequest(c) \/ Status(c) \/ Wake(c) \/ Clean(c) \/ Delete(c)

ExecNext(c) == Process(c) \/ ExecEnd(c)

Next ==
    /\ ~broken
    /\ \/ \E c \in Client : \/ Request(c) \/ Dies(c) \/ SessionNext(c)
                            \/ Dispatch(c) \/ ExecNext(c) \/ Notify(c)
       \/ Terminate \/ Finish

Spec == Init /\ [][Next]_vars

(* Sessions and executors go on, the scheduler serves every row, a server  *)
(* that is to stop finishes.                                               *)
Fairness ==
    /\ \A c \in Client : /\ WF_vars(~broken /\ SessionNext(c))
                         /\ WF_vars(~broken /\ (Dispatch(c) \/ ExecNext(c)))
    /\ WF_vars(~broken /\ Finish)

FairSpec == Spec /\ Fairness

-----------------------------------------------------------------------------
(* A job leaves the queue only when its file has been processed, unless    *)
(* the client ended before its request was complete, the server stops or   *)
(* the tape index could not be written:                                    *)
(* who is told that the request is done is told so of every file.          *)
JobsProcessed ==
    [][\A f \in File :
          LET r == job[f].req
          IN r # None /\ job'[f].req = None
             => \/ job[f].state \in {"final", "failed"}
                \/ job[f].state = "transferred" /\ faults < MaxFaults
                \/ stop # "no"
                \/ sess[r] = "objects" /\ ~conn[r]]_vars

(* What is left in the queue belongs to a session that will delete it.  If *)
(* not, its client has gone before it was told, and the file cannot be     *)
(* queued again.                                                           *)
NoJobLeftOver ==
    \A f \in File : LET r == job[f].req
                    IN r # None /\ sess[r] \in {"done", "refused", "dead"} => ~conn[r]

(* The counters shown to the client agree with the jobs, but for files     *)
(* that failed after their transfer: they are still shown as transferred.  *)
StatusAgrees ==
    \A r \in Client :
       status[r] # NoStatus /\ stop # "finish" =>
          /\ \A s \in {"source", "premigrated", "final", "failed"} : status[r][s] = Cardinality(JobsIn(r, s))
          /\ status[r]["transferred"] >= Cardinality(JobsIn(r, "transferred"))

(* Before finishTerminate no executor meets a status that a session has    *)
(* removed: Status::updateSuccess would abort the server.                  *)
EntriesThere == broken => stop = "finish"

(* Every client that is listened to is told a result: the last update of a *)
(* row is not missed by the session that waits for it.                     *)
SessionsEnd ==
    \A c \in Client :
       sess[c] \in {"add", "status", "wait"} ~>
          (sess[c] \in {"done", "dead"} \/ broken)
=============================================================================
