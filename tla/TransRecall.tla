----------------------------- MODULE TransRecall -----------------------------
(***************************************************************************)
(* The way of a recall event through the server: the thread RecallD takes  *)
(* it from the socket (TransRecall::run, Connector::getEvents), a thread   *)
(* of the pool wqr turns it into a job and, where there is none yet, a     *)
(* request (TransRecall::addJob), an executor recalls the files of a tape  *)
(* (TransRecall::execRequest), and somebody answers the event              *)
(* (Connector::respondRecallEvent), which frees its connection.            *)
(*                                                                         *)
(* Every SQL statement is a step; the statements that only mark jobs and   *)
(* select them are one step, as a job that comes in between waits for the  *)
(* next round anyway.  A tape has one request number, kept in reqmap.      *)
(***************************************************************************)
EXTENDS Integers, FiniteSets

CONSTANTS Event,       (* recall events of the overlay file systems         *)
          Tape,
          FileOf,      (* event -> file                                     *)
          TapeOf,      (* event -> first tape in the attribute of the file  *)
          ToResident,  (* events that ask for the resident state            *)
          MaxExecs,    (* bound on executors at the same time               *)
          Stops,       (* how the server may be stopped                     *)
          MaxFaults,   (* bound on failures and irregular files             *)
          None

Executor == 1 .. MaxExecs

File == {FileOf[e] : e \in Event}

(* Threads of wqr: an event has one, and one for each time it is handled   *)
(* again.  A job and a row carry the name of the thread that added them.   *)
Adder == Event \X (0 .. MaxFaults)

ASSUME TransRecallAssumption ==
    /\ IsFiniteSet(Event) /\ MaxFaults \in Nat /\ MaxExecs \in Nat
    /\ TapeOf \in [Event -> Tape] /\ DOMAIN FileOf = Event
    /\ \A e, f \in Event : FileOf[e] = FileOf[f] => TapeOf[e] = TapeOf[f]
    /\ ToResident \subseteq Event
    /\ Stops \subseteq {"graceful", "forced"}
    /\ None \notin Event \cup Tape

VARIABLES seen,      (* events that have been taken from the socket         *)
          resident,  (* files that are resident                             *)
          recalld,   (* where RecallD is                                    *)
          recinfo,   (* its variable recinfo: an event, None for a null     *)
                     (* connection, "unset" before the first event          *)
          adder,     (* thread of wqr -> where it is in addJob              *)
          job,       (* thread -> the job it has added                      *)
          row,       (* thread -> the request it has added                  *)
          exec,      (* executor -> its execution of a request              *)
          answers,   (* event -> number of answers                          *)
          again,     (* events handled twice, see Handle and CleanupEvents  *)
          stop,      (* terminate, connectorTerminate, end of the scheduler *)
          faults     (* failures that may still happen                      *)

vars == <<seen, resident, recalld, recinfo, adder, job, row, exec, answers,
          again, stop, faults>>

JobState == {"none", "waiting", "bad", "recalling"}

Idle == [pc |-> "idle", tape |-> None, jobs |-> {}, remaining |-> FALSE]

NoRow == [state |-> "none", tape |-> None]

Init ==
    /\ seen = {} /\ resident = {}
    /\ recalld = "accept" /\ recinfo = "unset"
    /\ adder = [a \in Adder |-> "idle"]
    /\ job = [a \in Adder |-> "none"]
    /\ row = [a \in Adder |-> NoRow]
    /\ exec = [x \in Executor |-> Idle]
    /\ answers = [e \in Event |-> 0] /\ again = {}
    /\ stop = [how |-> "no", connector |-> FALSE, scheduler |-> FALSE]
    /\ faults = MaxFaults

-----------------------------------------------------------------------------
(* TransRecall::run and Connector::getEvents.                              *)

Answer(events) ==
    answers' = [e \in Event |-> IF e \in events THEN answers[e] + 1 ELSE answers[e]]

(* The events that have come: an application needs the data of a file, its *)
(* overlay file system sends the event and waits.                          *)
Sent == {e \in Event \ seen : FileOf[e] \notin resident}

GetEvents ==
    /\ recalld = "accept"
    /\ recalld' = "got"
    /\ \E e \in Sent : seen' = seen \cup {e} /\ recinfo' = e
    /\ UNCHANGED <<resident, adder, job, row, exec, answers, again, stop, faults>>

(* The event that terminate() sends has inode number 0.  It only makes the *)
(* loop look at connectorTerminate again.                                  *)
GetTermination ==
    /\ recalld = "accept" /\ stop.connector
    /\ recalld' = "ended"
    /\ UNCHANGED <<seen, resident, recinfo, adder, job, row, exec, answers,
                   again, stop, faults>>

(* The sender ends before its message is complete: getEvents throws, and   *)
(* recinfo still is what it was.  Before the first event it is whatever    *)
(* was on the stack.                                                       *)
GetEventsFails ==
    /\ recalld = "accept" /\ faults > 0
    /\ \E e \in Sent : seen' = seen \cup {e}
    /\ \/ recinfo # "unset" /\ recalld' = "got" /\ UNCHANGED recinfo
       \/ recinfo = "unset" /\ recalld' = "got" /\ recinfo' = None
       \/ recinfo = "unset" /\ recalld' = "crashed" /\ UNCHANGED recinfo
    /\ faults' = faults - 1
    /\ again' = IF recinfo \in Event THEN again \cup {recinfo} ELSE again
    /\ UNCHANGED <<resident, adder, job, row, exec, answers, stop>>

(* A message with another key.                                             *)
GetEventsWrongKey ==
    /\ recalld = "accept" /\ faults > 0
    /\ recalld' = "got" /\ recinfo' = None
    /\ faults' = faults - 1
    /\ UNCHANGED <<seen, resident, adder, job, row, exec, answers, again, stop>>

(* A thread of wqr is given the event, if it is not answered at once: when *)
(* the server is about to stop, when the file is resident or when it       *)
(* cannot be read.                                                         *)
Handle ==
    /\ recalld = "got"
    /\ recalld' = IF stop.connector THEN "ended" ELSE "accept"
    /\ \/ /\ recinfo \notin Event
          /\ UNCHANGED <<adder, answers, faults>>
       \/ /\ recinfo \in Event
          /\ stop.how # "no" \/ FileOf[recinfo] \in resident
          /\ Answer({recinfo})
          /\ UNCHANGED <<adder, faults>>
       \/ /\ recinfo \in Event /\ stop.how = "no" /\ faults > 0
          /\ Answer({recinfo})
          /\ faults' = faults - 1
          /\ UNCHANGED adder
       \/ /\ recinfo \in Event /\ stop.how = "no" /\ FileOf[recinfo] \notin resident
          /\ \E i \in 0 .. MaxFaults :
                /\ adder[<<recinfo, i>>] = "idle"
                /\ \A k \in 0 .. MaxFaults : adder[<<recinfo, k>>] = "idle" => i <= k
                /\ adder' = [adder EXCEPT ![<<recinfo, i>>] = "add"]
          /\ UNCHANGED <<answers, faults>>
    /\ UNCHANGED <<seen, resident, recinfo, job, row, exec, again, stop>>

(* A job that is or may still be given to an executor.                     *)
Recallable(a) ==
    /\ job[a] # "none"
    /\ ~stop.scheduler \/ \E x \in Executor : exec[x].tape = TapeOf[a[1]] /\ exec[x].pc # "idle"

(* Mutant of WaitCompletion: the pool is not waited for.                   *)
WaitCompletionNot == TRUE

WaitCompletion == \A a \in Adder : adder[a] \in {"idle", "dropped", "end"}

(* cleanupEvents answers for every job of a transparent recall that is in  *)
(* the queue and leaves the job there, also one that an executor has       *)
(* selected.                                                               *)
CleanupEvents ==
    /\ recalld = "ended" /\ WaitCompletion
    /\ recalld' = "over"
    /\ LET left == {a \in Adder : job[a] # "none"}
       IN /\ Answer({a[1] : a \in left})
          /\ again' = again \cup {a[1] : a \in {b \in left : Recallable(b)}}
    /\ UNCHANGED <<seen, resident, recinfo, adder, job, row, exec, stop, faults>>

-----------------------------------------------------------------------------
(* TransRecall::addJob.                                                    *)

(* JOB_QUEUE_UNIQUE_UID: the replica number of a recall is always -1.      *)
Unique(f) == \A a \in Adder : FileOf[a[1]] = f => job[a] = "none"

(* The thread ends without an answer if the file is not regular, and by    *)
(* the exception of the INSERT if there is a job for the file already.  If *)
(* the file cannot be read it goes on with what it has: the attribute has  *)
(* not been set, and neither has, perhaps, the state.                      *)
AddJob(a) ==
    /\ adder[a] = "add"
    /\ LET f == FileOf[a[1]]
           Added(s, pc) ==
                       /\ adder' = [adder EXCEPT ![a] = IF Unique(f) THEN pc ELSE "dropped"]
                       /\ job' = [job EXCEPT ![a] = IF Unique(f) THEN s ELSE @]
                       /\ UNCHANGED answers
       IN \/ /\ f \in resident
             /\ Answer({a[1]})
             /\ adder' = [adder EXCEPT ![a] = "end"]
             /\ UNCHANGED <<job, faults>>
          \/ /\ faults > 0
             /\ adder' = [adder EXCEPT ![a] = "dropped"]
             /\ faults' = faults - 1
             /\ UNCHANGED <<job, answers>>
          \/ /\ f \notin resident
             /\ Added("waiting", "check")
             /\ UNCHANGED faults
          \/ /\ faults > 0
             /\ \E s \in {"waiting", "bad"} : Added(s, "check unset")
             /\ faults' = faults - 1
    /\ UNCHANGED <<seen, resident, recalld, recinfo, row, exec, again, stop>>

(* Rows with the request number of a tape, whatever tape they name.        *)
RowsOf(t) == {a \in Adder : TapeOf[a[1]] = t /\ row[a].state # "none"}

CheckRequestExists(a) ==
    /\ adder[a] \in {"check", "check unset"}
    /\ adder' = [adder EXCEPT ![a] = IF RowsOf(TapeOf[a[1]]) # {} THEN "update"
                                     ELSE IF @ = "check" THEN "insert" ELSE "insert unset"]
    /\ UNCHANGED <<seen, resident, recalld, recinfo, job, row, exec, answers,
                   again, stop, faults>>

SetRows(t, s) ==
    row' = [a \in Adder |-> IF a \in RowsOf(t) /\ row[a].tape = t
                            THEN [row[a] EXCEPT !.state = s] ELSE row[a]]

ChangeRequestToNew(a) ==
    /\ adder[a] = "update"
    /\ adder' = [adder EXCEPT ![a] = "end"]
    /\ SetRows(TapeOf[a[1]], "new")
    /\ UNCHANGED <<seen, resident, recalld, recinfo, job, exec, answers, again,
                   stop, faults>>

(* REQUEST_QUEUE_UNIQUE does not keep a second row out, two of its columns *)
(* are NULL.  The tape is taken from the attribute, not from the argument. *)
AddRequest(a) ==
    /\ adder[a] \in {"insert", "insert unset"}
    /\ adder' = [adder EXCEPT ![a] = "end"]
    /\ row' = [row EXCEPT ![a] =
                 [state |-> "new", tape |-> IF adder[a] = "insert" THEN TapeOf[a[1]] ELSE None]]
    /\ UNCHANGED <<seen, resident, recalld, recinfo, job, exec, answers, again,
                   stop, faults>>

-----------------------------------------------------------------------------
(* The scheduler starts an executor when the tape is not in use.           *)

InUse(t) == \E x \in Executor : /\ exec[x].tape = t
                                /\ exec[x].pc \notin {"idle", "count", "finish"}

Dispatch(t) ==
    /\ ~stop.scheduler /\ ~InUse(t)
    /\ \E a \in RowsOf(t) : row[a] = [state |-> "new", tape |-> t]
    /\ \E x \in Executor : /\ exec[x].pc = "idle"
                           /\ \A y \in Executor : exec[y].pc = "idle" => x <= y
                           /\ exec' = [exec EXCEPT ![x] = [Idle EXCEPT !.pc = "select", !.tape = t]]
    /\ SetRows(t, "inprogress")
    /\ UNCHANGED <<seen, resident, recalld, recinfo, adder, job, answers, again,
                   stop, faults>>

Exec(x, from, to) == exec[x].pc = from /\ exec' = [exec EXCEPT ![x].pc = to]

(* TransRecall::processFiles.                                              *)
SelectJobs(x) ==
    /\ exec[x].pc = "select"
    /\ LET mine == {a \in Adder : TapeOf[a[1]] = exec[x].tape
                                  /\ job[a] \in {"waiting", "recalling"}}
       IN /\ job' = [a \in Adder |-> IF a \in mine THEN "recalling" ELSE job[a]]
          /\ exec' = [exec EXCEPT ![x].pc = "recall", ![x].jobs = mine]
    /\ UNCHANGED <<seen, resident, recalld, recinfo, adder, row, answers, again,
                   stop, faults>>

(* Mutants of RecalledJobs: the state is not part of the condition; no     *)
(* state is like the one in the condition.                                 *)
RecalledJobsAll(t) == {a \in Adder : TapeOf[a[1]] = t}

RecalledJobsNone(t) == {}

RecalledJobs(t) == {a \in Adder : TapeOf[a[1]] = t /\ job[a] = "recalling"}

(* The files are recalled one after the other; one that fails stays as it  *)
(* was.  Then their jobs are deleted.                                      *)
RecallFiles(x) ==
    /\ Exec(x, "recall", "answer")
    /\ \/ /\ resident' = resident \cup {FileOf[a[1]] : a \in {b \in exec[x].jobs : b[1] \in ToResident}}
          /\ UNCHANGED faults
       \/ /\ faults > 0 /\ exec[x].jobs # {}
          /\ faults' = faults - 1
          /\ UNCHANGED resident
    /\ job' = [a \in Adder |-> IF a \in RecalledJobs(exec[x].tape) THEN "none" ELSE job[a]]
    /\ UNCHANGED <<seen, recalld, recinfo, adder, row, answers, again, stop>>

(* The answers, and then tape and drive are given back.                    *)
RespondEvents(x) ==
    /\ Exec(x, "answer", "count")
    /\ Answer({a[1] : a \in exec[x].jobs})
    /\ UNCHANGED <<seen, resident, recalld, recinfo, adder, job, row, again,
                   stop, faults>>

(* TransRecall::execRequest, after processFiles.                           *)
Remaining(t) == \E a \in Adder : TapeOf[a[1]] = t /\ job[a] # "none"

CountRemainingJobs(x) ==
    /\ exec[x].pc = "count"
    /\ exec' = [exec EXCEPT ![x].pc = "finish", ![x].remaining = Remaining(exec[x].tape)]
    /\ UNCHANGED <<seen, resident, recalld, recinfo, adder, job, row, answers,
                   again, stop, faults>>

FinishRequest(x) ==
    /\ exec[x].pc = "finish"
    /\ exec' = [exec EXCEPT ![x] = Idle]
    /\ IF exec[x].remaining
       THEN SetRows(exec[x].tape, "new")
       ELSE row' = [a \in Adder |-> IF a \in RowsOf(exec[x].tape) /\ row[a].tape = exec[x].tape
                                    THEN NoRow ELSE row[a]]
    /\ UNCHANGED <<seen, resident, recalld, recinfo, adder, job, answers, again,
                   stop, faults>>

-----------------------------------------------------------------------------
(* The server is told to stop (see module Server).                       *)

Terminate ==
    /\ stop.how = "no"
    /\ \E how \in Stops : stop' = [stop EXCEPT !.how = how]
    /\ UNCHANGED <<seen, resident, recalld, recinfo, adder, job, row, exec,
                   answers, again, faults>>

(* The scheduler sees terminate the next time it wakes up.                 *)
SchedulerEnds ==
    /\ stop.how # "no" /\ ~stop.scheduler
    /\ stop' = [stop EXCEPT !.scheduler = TRUE]
    /\ UNCHANGED <<seen, resident, recalld, recinfo, adder, job, row, exec,
                   answers, again, faults>>

(* Connector::terminate, after no request is in progress, or at once if    *)
(* the stop is forced.                                                     *)
TerminateConnector ==
    /\ stop.how # "no" /\ ~stop.connector
    /\ stop.how = "graceful" => \A a \in Adder : row[a].state # "inprogress"
    /\ stop' = [stop EXCEPT !.connector = TRUE]
    /\ UNCHANGED <<seen, resident, recalld, recinfo, adder, job, row, exec,
                   answers, again, faults>>

-----------------------------------------------------------------------------
RecallDNext ==
    \/ GetEvents \/ GetTermination \/ GetEventsFails \/ GetEventsWrongKey
    \/ Handle \/ CleanupEvents

AdderNext(a) ==
    AddJob(a) \/ CheckRequestExists(a) \/ ChangeRequestToNew(a) \/ AddRequest(a)

ExecNext(x) ==
    \/ SelectJobs(x) \/ RecallFiles(x) \/ RespondEvents(x)
    \/ CountRemainingJobs(x) \/ FinishRequest(x)

(* When RecallD crashes, so does the server.                               *)
Next ==
    /\ recalld # "crashed"
    /\ \/ RecallDNext
       \/ \E a \in Adder : AdderNext(a)
       \/ \E t \in Tape : Dispatch(t)
       \/ \E x \in Executor : ExecNext(x)
       \/ Terminate \/ SchedulerEnds \/ TerminateConnector

Spec == Init /\ [][Next]_vars

(* Threads that can run do, the scheduler serves every row it can, and the *)
(* message that stops the server is worked off.                            *)
Fairness ==
    /\ WF_vars(RecallDNext)
    /\ \A a \in Adder : WF_vars(AdderNext(a) /\ recalld # "crashed")
    /\ \A t \in Tape : WF_vars(Dispatch(t) /\ recalld # "crashed")
    /\ \A x \in Executor : WF_vars(ExecNext(x) /\ recalld # "crashed")
    /\ WF_vars(TerminateConnector /\ recalld # "crashed")

FairSpec == Spec /\ Fairness
-----------------------------------------------------------------------------
(* An event is answered once: the answer frees its connection, a second    *)
(* one would use it after that.  That holds whatever executors, threads of *)
(* the pool and a stop do, except for an event that RecallD has handled    *)
(* again because getEvents threw, or whose job cleanupEvents found while   *)
(* the scheduler or an executor was still at work.                         *)
AnsweredOnce == \A e \in Event : answers[e] > 1 => e \in again

(* When RecallD has ended there is no job left whose event has never been  *)
(* answered: nobody would do it any more.                                  *)
NoEventLeftBehind ==
    recalld = "over" => \A a \in Adder : job[a] # "none" => answers[a[1]] > 0

(* An event that got lost in addJob: it has neither a job nor an answer.   *)
Dropped(e) == \E a \in Adder : a[1] = e /\ adder[a] = "dropped"

(* A job that no row leads to, or whose state lets nobody select it.       *)
Orphaned(e) ==
    \E a \in Adder :
       /\ a[1] = e /\ adder[a] = "end"
       /\ \/ job[a] = "bad"
          \/ job[a] = "waiting" /\ ~\E b \in RowsOf(TapeOf[e]) : row[b].tape = TapeOf[e]

(* Every event RecallD takes is answered in the end, unless it is dropped  *)
(* or orphaned.  In particular a job that is added while an executor works *)
(* on its tape is not forgotten as long as the row is there, and a stop    *)
(* answers what is left.                                                   *)
EventsAnswered ==
    \A e \in Event :
       (recinfo = e /\ recalld = "got") ~>
          (answers[e] > 0 \/ Dropped(e) \/ Orphaned(e) \/ recalld = "crashed")
=============================================================================
