-------------------------- MODULE TransRecallProofs --------------------------
(***************************************************************************)
(* Proofs about transparent recall, for any number of events, tapes and    *)
(* executors, any stop and any number of failures.                         *)
(***************************************************************************)
EXTENDS TransRecall, TLAPS

AddPC == {"idle", "add", "check", "check unset", "update", "insert", "insert unset",
          "dropped", "end"}

ExecPC == {"idle", "select", "recall", "answer", "count", "finish"}

TypeInv ==
    /\ seen \subseteq Event /\ again \subseteq Event
    /\ adder \in [Adder -> AddPC]
    /\ job \in [Adder -> JobState]
    /\ exec \in [Executor -> [pc: ExecPC, tape: Tape \cup {None}, jobs: SUBSET Adder,
                              remaining: BOOLEAN]]
    /\ answers \in [Event -> Nat]
    /\ stop \in [how: {"no", "graceful", "forced"}, connector: BOOLEAN, scheduler: BOOLEAN]

(* A tape has one executor that has not given it back.  The jobs it has    *)
(* selected are of its tape; they are in the queue until the files are     *)
(* recalled, and then no more.                                             *)
Busy(x) == exec[x].pc \in {"select", "recall", "answer"}

(* Threads that have added no job.                                         *)
Jobless(a) == adder[a] \in {"idle", "add", "dropped"}

ExecInv ==
    /\ \A x, y \in Executor : Busy(x) /\ Busy(y) /\ exec[x].tape = exec[y].tape => x = y
    /\ \A x \in Executor :
          /\ exec[x].pc \in {"recall", "answer"} =>
                \A a \in exec[x].jobs : TapeOf[a[1]] = exec[x].tape /\ ~Jobless(a)
          /\ exec[x].pc = "recall" => \A a \in exec[x].jobs : job[a] = "recalling"
          /\ exec[x].pc = "answer" => \A a \in exec[x].jobs : job[a] = "none"

(* When RecallD is over no thread of the pool is still at work.            *)
AddInv ==
    /\ \A a \in Adder : Jobless(a) => job[a] = "none"
    /\ recalld = "over" => \A a \in Adder : adder[a] \in {"idle", "dropped", "end"}

(* Nobody will answer for a any more.                                      *)
Settled(a) ==
    /\ adder[a] # "add"
    /\ \A x \in Executor : exec[x].pc = "answer" => a \notin exec[x].jobs
    /\ job[a] = "none" \/ (recalld = "over" /\ ~Recallable(a))

(* An event that is new to the server has no thread and no answer; later   *)
(* it has at most one thread, and after its answer nothing is left to be   *)
(* answered.                                                               *)
New(e) == e \notin seen \/ (recalld = "got" /\ recinfo = e)

EventInv(e) ==
    /\ recalld = "got" /\ recinfo = e => e \in seen
    /\ New(e) => answers[e] = 0 /\ \A a \in Adder : a[1] = e => adder[a] = "idle"
    /\ \A a, b \in Adder : a[1] = e /\ b[1] = e /\ adder[a] # "idle" /\ adder[b] # "idle" => a = b
    /\ answers[e] \in 0 .. 1
    /\ answers[e] = 1 => \A a \in Adder : a[1] = e => Settled(a)

(* The inductive invariant.                                                *)
RecallInv ==
    /\ TypeInv /\ ExecInv /\ AddInv /\ NoEventLeftBehind
    /\ \A e \in Event \ again : EventInv(e)

-----------------------------------------------------------------------------
(* Nothing has happened at first.                                          *)
LEMMA InitRecallInv == Init => RecallInv
<1> SUFFICES ASSUME Init PROVE RecallInv
    OBVIOUS
<1>1. Idle \in [pc: ExecPC, tape: Tape \cup {None}, jobs: SUBSET Adder, remaining: BOOLEAN]
    BY DEF Idle, ExecPC
<1>2. adder \in [Adder -> AddPC] /\ job \in [Adder -> JobState]
    BY DEF Init, AddPC, JobState
<1>3. TypeInv
    BY <1>1, <1>2 DEF Init, TypeInv
<1>4. \A x \in Executor : exec[x].pc = "idle"
    BY DEF Init, Idle
<1>5. ExecInv
    BY <1>4 DEF ExecInv, Busy
<1>6. AddInv
    BY DEF Init, AddInv
<1>7. NoEventLeftBehind
    BY DEF Init, NoEventLeftBehind
<1>8. ASSUME NEW e \in Event PROVE EventInv(e)
    BY DEF Init, EventInv, New
<1>9. QED
    BY <1>3, <1>5, <1>6, <1>7, <1>8 DEF RecallInv

-----------------------------------------------------------------------------
(* Every step keeps the types.                                             *)

(* The number of answers of each event.                                    *)
LEMMA AnswerType ==
    ASSUME TypeInv, NEW S, Answer(S)
    PROVE  /\ answers' \in [Event -> Nat]
           /\ \A e \in Event : answers'[e] = IF e \in S THEN answers[e] + 1 ELSE answers[e]
BY DEF TypeInv, Answer

(* Threads, jobs, executors and answers keep their types.                  *)
LEMMA NextTypeInv == TypeInv /\ [Next]_vars => TypeInv'
<1> SUFFICES ASSUME TypeInv, [Next]_vars PROVE TypeInv'
    OBVIOUS
<1>1. /\ {"idle", "add", "check", "check unset", "update", "insert", "insert unset",
          "dropped", "end"} \subseteq AddPC
      /\ {"idle", "select", "recall", "answer", "count", "finish"} \subseteq ExecPC
      /\ {"none", "waiting", "bad", "recalling"} \subseteq JobState
    BY DEF AddPC, ExecPC, JobState
<1>2. CASE GetEvents \/ GetTermination \/ GetEventsFails \/ GetEventsWrongKey
    BY <1>2 DEF GetEvents, GetTermination, GetEventsFails, GetEventsWrongKey,
       Sent, TypeInv
<1>3. CASE Handle
    <2>1. answers' \in [Event -> Nat]
        BY <1>3, AnswerType DEF Handle, TypeInv
    <2>2. adder' \in [Adder -> AddPC]
        BY <1>3, <1>1 DEF Handle, TypeInv
    <2>3. QED
        BY <1>3, <2>1, <2>2 DEF Handle, TypeInv
<1>4. CASE CleanupEvents
    <2>1. answers' \in [Event -> Nat]
        BY <1>4, AnswerType DEF CleanupEvents
    <2>2. again' \subseteq Event
        BY <1>4 DEF CleanupEvents, TypeInv, Adder
    <2>3. QED
        BY <1>4, <2>1, <2>2 DEF CleanupEvents, TypeInv
<1>5. ASSUME NEW a \in Adder, AddJob(a) PROVE TypeInv'
    <2>1. answers' \in [Event -> Nat]
        BY <1>5, AnswerType DEF AddJob, TypeInv
    <2>2. \E pc \in {"end", "dropped", "check", "check unset"} : adder' = [adder EXCEPT ![a] = pc]
        BY <1>5 DEF AddJob
    <2>3. job' = job \/ \E s \in {"waiting", "bad", job[a]} : job' = [job EXCEPT ![a] = s]
        BY <1>5 DEF AddJob
    <2>4. adder' \in [Adder -> AddPC]
        BY <2>2, <1>1 DEF TypeInv
    <2>5. job[a] \in JobState
        BY DEF TypeInv
    <2>6. job' \in [Adder -> JobState]
        BY <2>3, <2>5, <1>1 DEF TypeInv
    <2>7. QED
        BY <1>5, <2>1, <2>4, <2>6 DEF AddJob, TypeInv
<1>6. ASSUME NEW a \in Adder, CheckRequestExists(a) PROVE TypeInv'
    BY <1>6, <1>1 DEF CheckRequestExists, TypeInv
<1>7. ASSUME NEW a \in Adder, ChangeRequestToNew(a) PROVE TypeInv'
    BY <1>7, <1>1 DEF ChangeRequestToNew, TypeInv
<1>8. ASSUME NEW a \in Adder, AddRequest(a) PROVE TypeInv'
    BY <1>8, <1>1 DEF AddRequest, TypeInv
<1>9. ASSUME NEW t \in Tape, Dispatch(t) PROVE TypeInv'
    <2>1. [Idle EXCEPT !.pc = "select", !.tape = t] \in
             [pc: ExecPC, tape: Tape \cup {None}, jobs: SUBSET Adder, remaining: BOOLEAN]
        BY <1>1 DEF Idle
    <2>2. QED
        BY <1>9, <2>1 DEF Dispatch, TypeInv
<1>10. ASSUME NEW x \in Executor, SelectJobs(x) PROVE TypeInv'
    BY <1>10, <1>1 DEF SelectJobs, TypeInv
<1>11. ASSUME NEW x \in Executor, RecallFiles(x) PROVE TypeInv'
    BY <1>11, <1>1 DEF RecallFiles, Exec, TypeInv
<1>12. ASSUME NEW x \in Executor, RespondEvents(x) PROVE TypeInv'
    <2>1. answers' \in [Event -> Nat]
        BY <1>12, AnswerType DEF RespondEvents
    <2>2. QED
        BY <1>12, <1>1, <2>1 DEF RespondEvents, Exec, TypeInv
<1>13. ASSUME NEW x \in Executor, CountRemainingJobs(x) PROVE TypeInv'
    <2>1. \A t : Remaining(t) \in BOOLEAN
        BY DEF Remaining
    <2>2. QED
        BY <1>13, <1>1, <2>1 DEF CountRemainingJobs, TypeInv
<1>14. ASSUME NEW x \in Executor, FinishRequest(x) PROVE TypeInv'
    <2>1. Idle \in [pc: ExecPC, tape: Tape \cup {None}, jobs: SUBSET Adder, remaining: BOOLEAN]
        BY <1>1 DEF Idle
    <2>2. QED
        BY <1>14, <2>1 DEF FinishRequest, TypeInv
<1>15. CASE Terminate \/ SchedulerEnds \/ TerminateConnector
    <2>1. stop' \in [how: {"no", "graceful", "forced"}, connector: BOOLEAN, scheduler: BOOLEAN]
        BY <1>15, TransRecallAssumption DEF Terminate, SchedulerEnds,
           TerminateConnector, TypeInv
    <2>2. QED
        BY <1>15, <2>1 DEF Terminate, SchedulerEnds, TerminateConnector, TypeInv
<1>16. CASE UNCHANGED vars
    BY <1>16 DEF vars, TypeInv
<1>17. QED
    BY <1>1, <1>2, <1>3, <1>4, <1>5, <1>6, <1>7, <1>8, <1>9, <1>10, <1>11,
       <1>12, <1>13, <1>14, <1>15, <1>16 DEF Next, RecallDNext, AdderNext,
       ExecNext

-----------------------------------------------------------------------------
(* Steps as they look to executors and threads: pointwise facts.           *)

(* What TransRecall::addJob does to the queue: a job of its own, if any.   *)
LEMMA AddJobEffect ==
    ASSUME TypeInv, AddInv, NEW a \in Adder, AddJob(a)
    PROVE  /\ exec' = exec /\ recalld' = recalld /\ adder[a] = "add" /\ job[a] = "none"
           /\ adder'[a] \in {"end", "dropped", "check", "check unset"}
           /\ \A b \in Adder : b # a => adder'[b] = adder[b] /\ job'[b] = job[b]
           /\ adder'[a] \in {"end", "dropped"} => job'[a] = "none"
           /\ \/ answers' = answers
              \/ Answer({a[1]}) /\ adder'[a] = "end"
<1>1. exec' = exec /\ recalld' = recalld /\ adder[a] = "add"
    BY DEF AddJob
<1>2. job[a] = "none"
    BY <1>1 DEF AddInv, Jobless
<1>3. \E pc \in {"end", "dropped", "check", "check unset"} :
         /\ adder' = [adder EXCEPT ![a] = pc]
         /\ pc \in {"end", "dropped"} => job' = job \/ job' = [job EXCEPT ![a] = job[a]]
    BY DEF AddJob
<1>4. job' = job \/ \E s : job' = [job EXCEPT ![a] = s]
    BY DEF AddJob
<1>5. answers' = answers \/ (Answer({a[1]}) /\ adder' = [adder EXCEPT ![a] = "end"])
    BY DEF AddJob
<1>6. /\ adder'[a] \in {"end", "dropped", "check", "check unset"}
      /\ \A b \in Adder : b # a => adder'[b] = adder[b]
      /\ adder'[a] \in {"end", "dropped"} => job'[a] = "none"
    BY <1>3, <1>2 DEF TypeInv
<1>7. \A b \in Adder : b # a => job'[b] = job[b]
    BY <1>4 DEF TypeInv
<1>8. answers' = answers \/ (Answer({a[1]}) /\ adder'[a] = "end")
    BY <1>5 DEF TypeInv
<1>9. QED
    BY <1>1, <1>2, <1>6, <1>7, <1>8

(* The later steps of a thread: it goes on, and that is all there is to    *)
(* it for answers, jobs and executors.                                     *)
LEMMA AdderGoes ==
    ASSUME TypeInv, NEW a \in Adder,
           CheckRequestExists(a) \/ ChangeRequestToNew(a) \/ AddRequest(a)
    PROVE  /\ exec' = exec /\ job' = job /\ answers' = answers /\ recalld' = recalld
           /\ recinfo' = recinfo /\ seen' = seen /\ again' = again /\ stop' = stop
           /\ ~Jobless(a) /\ ~Jobless(a)' /\ adder[a] \notin {"idle", "dropped", "end"}
           /\ \A b \in Adder : b # a => adder'[b] = adder[b]
<1>1. /\ exec' = exec /\ job' = job /\ answers' = answers /\ recalld' = recalld
      /\ recinfo' = recinfo /\ seen' = seen /\ again' = again /\ stop' = stop
      /\ adder[a] \in {"check", "check unset", "update", "insert", "insert unset"}
    BY DEF CheckRequestExists, ChangeRequestToNew, AddRequest
<1>2. \E pc \in {"update", "insert", "insert unset", "end"} : adder' = [adder EXCEPT ![a] = pc]
    BY DEF CheckRequestExists, ChangeRequestToNew, AddRequest
<1>3. /\ adder'[a] \in {"update", "insert", "insert unset", "end"}
      /\ \A b \in Adder : b # a => adder'[b] = adder[b]
    BY <1>2 DEF TypeInv
<1>4. QED
    BY <1>1, <1>3 DEF Jobless

(* RecallD either gives the event to one idle thread, or answers it, or    *)
(* finds none.                                                             *)
LEMMA HandleEffect ==
    ASSUME TypeInv, Handle
    PROVE  /\ recalld = "got" /\ recalld' \in {"ended", "accept"}
           /\ exec' = exec /\ job' = job /\ again' = again /\ seen' = seen /\ stop' = stop
           /\ recinfo' = recinfo
           /\ \/ adder' = adder /\ answers' = answers
              \/ recinfo \in Event /\ adder' = adder /\ Answer({recinfo})
              \/ /\ recinfo \in Event /\ answers' = answers
                 /\ \E i \in 0 .. MaxFaults : /\ adder[<<recinfo, i>>] = "idle"
                                              /\ adder'[<<recinfo, i>>] = "add"
                                              /\ \A b \in Adder : b # <<recinfo, i>> => adder'[b] = adder[b]
<1>1. /\ recalld = "got" /\ recalld' \in {"ended", "accept"}
      /\ exec' = exec /\ job' = job /\ again' = again /\ seen' = seen /\ stop' = stop
      /\ recinfo' = recinfo
    BY DEF Handle
<1>2. \/ adder' = adder /\ answers' = answers
      \/ recinfo \in Event /\ adder' = adder /\ Answer({recinfo})
      \/ /\ recinfo \in Event /\ answers' = answers
         /\ \E i \in 0 .. MaxFaults : /\ adder[<<recinfo, i>>] = "idle"
                                      /\ adder' = [adder EXCEPT ![<<recinfo, i>>] = "add"]
    BY DEF Handle
<1>3. ASSUME NEW i \in 0 .. MaxFaults, recinfo \in Event PROVE <<recinfo, i>> \in Adder
    BY <1>3 DEF Adder
<1>4. QED
    BY <1>1, <1>2, <1>3 DEF TypeInv

-----------------------------------------------------------------------------
(* Every step keeps what is said of executors and threads.                 *)
LEMMA NextExecInv ==
    ASSUME TypeInv, ExecInv, AddInv, [Next]_vars
    PROVE  ExecInv'
<1>1. ASSUME exec' = exec, job' = job, \A a \in Adder : Jobless(a)' => Jobless(a)
      PROVE  ExecInv'
    <2>1. \A x \in Executor : exec[x].jobs \subseteq Adder
        BY DEF TypeInv
    <2>2. QED
        BY <1>1, <2>1 DEF ExecInv, Busy
<1>2. CASE \/ GetEvents \/ GetTermination \/ GetEventsFails \/ GetEventsWrongKey \/ CleanupEvents
           \/ Terminate \/ SchedulerEnds \/ TerminateConnector \/ UNCHANGED vars
    <2>1. exec' = exec /\ job' = job /\ adder' = adder
        BY <1>2 DEF GetEvents, GetTermination, GetEventsFails,
           GetEventsWrongKey, CleanupEvents,
           Terminate, SchedulerEnds, TerminateConnector, vars
    <2>2. QED
        BY <2>1, <1>1 DEF Jobless
<1>3. CASE Handle
    BY <1>3, <1>1, HandleEffect DEF Jobless
<1>4. ASSUME NEW a \in Adder, CheckRequestExists(a) \/ ChangeRequestToNew(a) \/ AddRequest(a)
      PROVE  ExecInv'
    <2>1. \A b \in Adder : Jobless(b)' => Jobless(b)
        BY <1>4, AdderGoes DEF Jobless
    <2>2. QED
        BY <1>4, <1>1, <2>1, AdderGoes
<1>5. ASSUME NEW a \in Adder, AddJob(a) PROVE ExecInv'
    <2>1. /\ exec' = exec /\ Jobless(a)
          /\ \A b \in Adder : b # a => adder'[b] = adder[b] /\ job'[b] = job[b]
        BY <1>5, AddJobEffect DEF Jobless
    <2>2. \A x \in Executor : exec[x].jobs \subseteq Adder
        BY DEF TypeInv
    <2>3. \A x \in Executor : exec[x].pc \in {"recall", "answer"} => a \notin exec[x].jobs
        BY <2>1 DEF ExecInv
    <2>4. QED
        BY <2>1, <2>2, <2>3 DEF ExecInv, Busy, Jobless
<1>6. ASSUME NEW t \in Tape, Dispatch(t) PROVE ExecInv'
    <2>1. PICK x \in Executor : exec' = [exec EXCEPT ![x] = [Idle EXCEPT !.pc = "select", !.tape = t]]
        BY <1>6 DEF Dispatch
    <2>2. /\ exec'[x].pc = "select" /\ exec'[x].tape = t
          /\ \A y \in Executor : y # x => exec'[y] = exec[y]
        BY <2>1 DEF TypeInv, Idle
    <2>3. \A y \in Executor : Busy(y) => exec[y].tape # t
        BY <1>6 DEF Dispatch, InUse, Busy
    <2>4. job' = job /\ adder' = adder
        BY <1>6 DEF Dispatch
    <2>5. QED
        BY <2>2, <2>3, <2>4 DEF ExecInv, Busy, Jobless
<1>7. ASSUME NEW x \in Executor, SelectJobs(x) PROVE ExecInv'
    <2> DEFINE mine == {a \in Adder : TapeOf[a[1]] = exec[x].tape /\ job[a] \in {"waiting", "recalling"}}
    <2>1. /\ exec[x].pc = "select" /\ adder' = adder
          /\ exec'[x].pc = "recall" /\ exec'[x].jobs = mine /\ exec'[x].tape = exec[x].tape
          /\ \A y \in Executor : y # x => exec'[y] = exec[y]
        BY <1>7 DEF SelectJobs, TypeInv
    <2>2. \A a \in Adder : job'[a] = IF a \in mine THEN "recalling" ELSE job[a]
        BY <1>7 DEF SelectJobs
    <2>3. \A a \in mine : ~Jobless(a) /\ TapeOf[a[1]] = exec[x].tape /\ a \in Adder
        BY DEF AddInv
    <2>4. \A y \in Executor : y # x /\ exec[y].pc \in {"recall", "answer"} =>
                                 exec[y].tape # exec[x].tape /\ exec[y].jobs \subseteq Adder
        BY <2>1 DEF ExecInv, Busy, TypeInv
    <2> HIDE DEF mine
    <2>5. \A y \in Executor : y # x /\ exec[y].pc \in {"recall", "answer"} =>
                                 \A a \in exec[y].jobs : job'[a] = job[a]
        BY <2>2, <2>3, <2>4 DEF ExecInv
    <2>6. QED
        BY <2>1, <2>2, <2>3, <2>5 DEF ExecInv, Busy, Jobless
<1>8. ASSUME NEW x \in Executor, RecallFiles(x) PROVE ExecInv'
    <2>1. /\ exec[x].pc = "recall" /\ adder' = adder
          /\ exec'[x].pc = "answer" /\ exec'[x].jobs = exec[x].jobs /\ exec'[x].tape = exec[x].tape
          /\ \A y \in Executor : y # x => exec'[y] = exec[y]
        BY <1>8 DEF RecallFiles, Exec, TypeInv
    <2>2. \A a \in Adder : job'[a] = IF TapeOf[a[1]] = exec[x].tape /\ job[a] = "recalling"
                                     THEN "none" ELSE job[a]
        BY <1>8 DEF RecallFiles, RecalledJobs
    <2>3. \A a \in exec[x].jobs : a \in Adder /\ job'[a] = "none"
        BY <2>1, <2>2 DEF ExecInv, TypeInv
    <2>4. \A y \in Executor : y # x /\ exec[y].pc \in {"recall", "answer"} =>
                                 exec[y].tape # exec[x].tape /\ exec[y].jobs \subseteq Adder
        BY <2>1 DEF ExecInv, Busy, TypeInv
    <2>5. \A y \in Executor : y # x /\ exec[y].pc \in {"recall", "answer"} =>
                                 \A a \in exec[y].jobs : job'[a] = job[a]
        BY <2>2, <2>4 DEF ExecInv
    <2>6. QED
        BY <2>1, <2>3, <2>5 DEF ExecInv, Busy, Jobless
<1>9. ASSUME NEW x \in Executor, RespondEvents(x) \/ CountRemainingJobs(x) \/ FinishRequest(x)
      PROVE  ExecInv'
    <2>1. /\ job' = job /\ adder' = adder /\ exec'[x].pc \in {"count", "finish", "idle"}
          /\ \A y \in Executor : y # x => exec'[y] = exec[y]
        BY <1>9 DEF RespondEvents, CountRemainingJobs, FinishRequest, Exec,
           Idle, TypeInv
    <2>2. QED
        BY <2>1 DEF ExecInv, Busy, Jobless
<1>10. QED
    BY <1>1, <1>2, <1>3, <1>4, <1>5, <1>6, <1>7, <1>8, <1>9 DEF Next,
       RecallDNext, AdderNext, ExecNext

(* Jobs are made by threads that are at work, answers are never taken      *)
(* back, and RecallD ends when the threads have ended.                     *)
LEMMA NextAddInv ==
    ASSUME TypeInv, AddInv, NoEventLeftBehind, [Next]_vars
    PROVE  AddInv' /\ NoEventLeftBehind'
<1>1. \A a \in Adder : a[1] \in Event
    BY DEF Adder
<1>2. \A e \in Event : answers[e] \in Nat
    BY DEF TypeInv
<1>3. \A S : Answer(S) => \A e \in Event : answers'[e] >= answers[e]
    BY <1>2, AnswerType
<1>4. ASSUME recalld' = "over" => recalld = "over", adder' = adder,
             \A e \in Event : answers'[e] >= answers[e],
             \A a \in Adder : job[a] = "none" => job'[a] = "none"
      PROVE  AddInv' /\ NoEventLeftBehind'
    <2>1. AddInv'
        BY <1>4 DEF AddInv, Jobless
    <2>2. ASSUME NEW a \in Adder, recalld' = "over", job'[a] # "none" PROVE answers'[a[1]] > 0
        <3>1. answers[a[1]] > 0
            BY <1>4, <2>2 DEF NoEventLeftBehind
        <3>2. a[1] \in Event
            BY <1>1
        <3>3. answers[a[1]] \in Nat /\ answers'[a[1]] >= answers[a[1]] /\ answers'[a[1]] \in Nat
            BY <3>2, <1>4, <1>2, NextTypeInv DEF TypeInv
        <3>4. QED
            BY <3>1, <3>3
    <2>3. QED
        BY <2>1, <2>2 DEF NoEventLeftBehind
<1>5. answers' = answers => \A e \in Event : answers'[e] >= answers[e]
    BY <1>2
<1>6. CASE \/ GetEvents \/ GetTermination \/ GetEventsFails \/ GetEventsWrongKey
           \/ Terminate \/ SchedulerEnds \/ TerminateConnector \/ UNCHANGED vars
    <2>1. job' = job /\ adder' = adder /\ answers' = answers /\ (recalld' = "over" => recalld = "over")
        BY <1>6 DEF GetEvents, GetTermination, GetEventsFails, GetEventsWrongKey,
           Terminate, SchedulerEnds, TerminateConnector, vars
    <2>2. QED
        BY <2>1, <1>4, <1>5
<1>7. ASSUME NEW x \in Executor, ExecNext(x) PROVE AddInv' /\ NoEventLeftBehind'
    <2>1. recalld' = recalld /\ adder' = adder
        BY <1>7 DEF ExecNext, SelectJobs, RecallFiles, RespondEvents,
           CountRemainingJobs, FinishRequest
    <2>2. answers' = answers \/ \E S : Answer(S)
        BY <1>7 DEF ExecNext, SelectJobs, RecallFiles, RespondEvents,
           CountRemainingJobs, FinishRequest
    <2>3. \A a \in Adder : job[a] = "none" => job'[a] = "none"
        BY <1>7 DEF ExecNext, SelectJobs, RecallFiles, RespondEvents,
           CountRemainingJobs,
           FinishRequest
    <2>4. QED
        BY <2>1, <2>2, <2>3, <1>4, <1>5, <1>3
<1>8. ASSUME NEW t \in Tape, Dispatch(t) PROVE AddInv' /\ NoEventLeftBehind'
    BY <1>8, <1>4, <1>5 DEF Dispatch
<1>9. CASE Handle
    <2>1. recalld' # "over" /\ job' = job
        BY <1>9, HandleEffect
    <2>2. \A a \in Adder : adder'[a] = adder[a] \/ adder[a] = "idle"
        BY <1>9, HandleEffect
    <2>3. QED
        BY <2>1, <2>2 DEF AddInv, Jobless, NoEventLeftBehind
<1>10. CASE CleanupEvents
    <2> DEFINE left == {a \in Adder : job[a] # "none"}
    <2>1. adder' = adder /\ job' = job /\ WaitCompletion /\ Answer({a[1] : a \in left})
        BY <1>10 DEF CleanupEvents
    <2>2. AddInv'
        BY <2>1 DEF AddInv, Jobless, WaitCompletion
    <2>3. ASSUME NEW a \in Adder, job[a] # "none" PROVE answers'[a[1]] > 0
        <3>1. a[1] \in {b[1] : b \in left} /\ a[1] \in Event
            BY <2>3, <1>1
        <3>2. answers'[a[1]] = answers[a[1]] + 1
            BY <3>1, <2>1, AnswerType
        <3>3. QED
            BY <3>1, <3>2, <1>2
    <2>4. QED
        BY <2>1, <2>2, <2>3 DEF NoEventLeftBehind
<1>11. ASSUME NEW a \in Adder, AddJob(a) PROVE AddInv' /\ NoEventLeftBehind'
    <2>1. /\ recalld' = recalld /\ adder[a] = "add"
          /\ adder'[a] \in {"end", "dropped", "check", "check unset"}
          /\ \A b \in Adder : b # a => adder'[b] = adder[b] /\ job'[b] = job[b]
          /\ adder'[a] \in {"end", "dropped"} => job'[a] = "none"
        BY <1>11, AddJobEffect
    <2>2. recalld # "over"
        BY <2>1 DEF AddInv
    <2>3. QED
        BY <2>1, <2>2 DEF AddInv, Jobless, NoEventLeftBehind
<1>12. ASSUME NEW a \in Adder, CheckRequestExists(a) \/ ChangeRequestToNew(a) \/ AddRequest(a)
       PROVE  AddInv' /\ NoEventLeftBehind'
    <2>1. /\ recalld' = recalld /\ job' = job /\ adder[a] \notin {"idle", "dropped", "end"}
          /\ ~Jobless(a)' /\ \A b \in Adder : b # a => adder'[b] = adder[b]
        BY <1>12, AdderGoes
    <2>2. recalld # "over"
        BY <2>1 DEF AddInv
    <2>3. QED
        BY <2>1, <2>2 DEF AddInv, Jobless, NoEventLeftBehind
<1>13. QED
    BY <1>1, <1>2, <1>3, <1>4, <1>5, <1>6, <1>7, <1>8, <1>9, <1>10, <1>11,
       <1>12 DEF Next, RecallDNext, AdderNext

-----------------------------------------------------------------------------
(* Every step keeps what is said of an event that is not handled twice.    *)
LEMMA NextEventInv ==
    ASSUME RecallInv, [Next]_vars, NEW e \in Event, e \notin again'
    PROVE  EventInv(e)'
<1>1. TypeInv /\ ExecInv /\ AddInv /\ TypeInv'
    BY NextTypeInv DEF RecallInv
<1>2. e \notin again
    BY DEF Next, RecallDNext, AdderNext, ExecNext, GetEvents, GetTermination,
       GetEventsFails,
       GetEventsWrongKey, Handle, CleanupEvents, AddJob, CheckRequestExists, ChangeRequestToNew,
       AddRequest, Dispatch, SelectJobs, RecallFiles, RespondEvents, CountRemainingJobs,
       FinishRequest, Terminate, SchedulerEnds, TerminateConnector, vars
<1>3. EventInv(e)
    BY <1>2 DEF RecallInv
<1>4. answers[e] \in Nat
    BY <1>1 DEF TypeInv
(* What keeps a settled thread settled.                                    *)
<1>5. ASSUME NEW a \in Adder, Settled(a), adder'[a] # "add",
             recalld = "over" => recalld' = "over", stop.scheduler => stop'.scheduler,
             job[a] = "none" => job'[a] = "none",
             \A x \in Executor : exec'[x].pc = "answer" /\ a \in exec'[x].jobs => a \in exec[x].jobs /\ exec[x].pc = "answer",
             stop.scheduler => \A x \in Executor : exec'[x].pc # "idle" => exec'[x].tape = exec[x].tape /\ exec[x].pc # "idle"
      PROVE  Settled(a)'
    BY <1>5 DEF Settled, Recallable
<1>6. CASE \/ GetEvents \/ GetTermination \/ GetEventsFails \/ GetEventsWrongKey
           \/ Terminate \/ SchedulerEnds \/ TerminateConnector \/ UNCHANGED vars
    <2>1. /\ adder' = adder /\ job' = job /\ exec' = exec /\ answers' = answers
          /\ recalld = "over" => recalld' = "over"
        BY <1>6 DEF GetEvents, GetTermination, GetEventsFails, GetEventsWrongKey,
           Terminate, SchedulerEnds, TerminateConnector, vars
    <2>2. stop.scheduler => stop'.scheduler
        BY <1>6, <1>1 DEF GetEvents, GetTermination, GetEventsFails,
           GetEventsWrongKey,
           Terminate, SchedulerEnds, TerminateConnector, vars, TypeInv
    <2>3. e # None
        BY TransRecallAssumption
    <2>4. New(e)' => New(e)
        <3>1. CASE GetEvents
            BY <3>1 DEF GetEvents, Sent, New
        <3>2. CASE GetEventsFails
            BY <3>2, <2>3 DEF GetEventsFails, New
        <3>3. CASE GetTermination \/ GetEventsWrongKey
            BY <3>3, <2>3 DEF GetTermination, GetEventsWrongKey, New
        <3>4. CASE Terminate \/ SchedulerEnds \/ TerminateConnector \/ UNCHANGED vars
            BY <3>4 DEF Terminate, SchedulerEnds, TerminateConnector, vars, New
        <3>5. QED
            BY <3>1, <3>2, <3>3, <3>4, <1>6
    <2>5. recalld' = "got" /\ recinfo' = e => e \in seen'
        BY <1>6, <1>3, <2>3 DEF GetEvents, GetTermination, GetEventsFails,
           GetEventsWrongKey,
           Terminate, SchedulerEnds, TerminateConnector, vars, EventInv
    <2>6. \A a \in Adder : Settled(a) => Settled(a)'
        BY <2>1, <2>2 DEF Settled, Recallable
    <2>7. QED
        BY <2>1, <2>4, <2>5, <2>6, <1>3 DEF EventInv
<1>7. ASSUME recalld' = recalld, recinfo' = recinfo, seen' = seen
      PROVE  /\ New(e)' <=> New(e)
             /\ recalld' = "got" /\ recinfo' = e => e \in seen'
    BY <1>7, <1>3 DEF New, EventInv
<1>8. ASSUME NEW t \in Tape, Dispatch(t) PROVE EventInv(e)'
    <2>1. /\ adder' = adder /\ job' = job /\ answers' = answers /\ recalld' = recalld
          /\ recinfo' = recinfo /\ seen' = seen /\ stop' = stop /\ ~stop.scheduler
        BY <1>8 DEF Dispatch
    <2>2. \A x \in Executor : exec'[x] = exec[x] \/ exec'[x].pc = "select"
        BY <1>8, <1>1 DEF Dispatch, Idle, TypeInv
    <2>3. \A a \in Adder : Settled(a) => Settled(a)'
        BY <2>1, <2>2 DEF Settled, Recallable
    <2>4. QED
        BY <2>1, <2>3, <1>7, <1>3 DEF EventInv
<1>9. ASSUME NEW x \in Executor, SelectJobs(x) \/ RecallFiles(x) \/ CountRemainingJobs(x) \/ FinishRequest(x)
      PROVE  EventInv(e)'
    <2>1. /\ adder' = adder /\ answers' = answers /\ recalld' = recalld
          /\ recinfo' = recinfo /\ seen' = seen /\ stop' = stop
        BY <1>9 DEF SelectJobs, RecallFiles, CountRemainingJobs, FinishRequest
    <2>2. /\ \A y \in Executor : y # x => exec'[y] = exec[y]
          /\ exec'[x].pc # "idle" => exec'[x].tape = exec[x].tape /\ exec[x].pc # "idle"
          /\ exec'[x].pc = "answer" => exec[x].pc = "recall" /\ exec'[x].jobs = exec[x].jobs
        BY <1>9, <1>1 DEF SelectJobs, RecallFiles, CountRemainingJobs,
           FinishRequest, Exec, Idle, TypeInv
    <2>3. \A a \in Adder : job[a] = "none" => job'[a] = "none"
        BY <1>9 DEF SelectJobs, RecallFiles, CountRemainingJobs, FinishRequest
    <2>4. ASSUME NEW a \in Adder, Settled(a), exec[x].pc = "recall" PROVE a \notin exec[x].jobs
        BY <2>4, <1>1 DEF Settled, Recallable, ExecInv
    <2>5. \A a \in Adder : Settled(a) => Settled(a)'
        BY <2>1, <2>2, <2>3, <2>4, <1>5 DEF Settled
    <2>6. QED
        BY <2>1, <2>5, <1>7, <1>3 DEF EventInv
<1>10. ASSUME NEW x \in Executor, RespondEvents(x) PROVE EventInv(e)'
    <2>1. /\ adder' = adder /\ job' = job /\ recalld' = recalld
          /\ recinfo' = recinfo /\ seen' = seen /\ stop' = stop
          /\ exec[x].pc = "answer" /\ Answer({a[1] : a \in exec[x].jobs})
        BY <1>10 DEF RespondEvents, Exec
    <2>2. /\ \A y \in Executor : y # x => exec'[y] = exec[y]
          /\ exec'[x].pc = "count" /\ exec'[x].tape = exec[x].tape
        BY <1>10, <1>1 DEF RespondEvents, Exec, TypeInv
    <2>3. \A a \in Adder : Settled(a) => Settled(a)'
        BY <2>1, <2>2, <1>5 DEF Settled
    <2>4. CASE \A a \in exec[x].jobs : a[1] # e
        <3>1. answers'[e] = answers[e]
            BY <2>1, <2>4, <1>1, AnswerType
        <3>2. QED
            BY <3>1, <2>1, <2>3, <1>7, <1>3 DEF EventInv
    <2>5. CASE \E a \in exec[x].jobs : a[1] = e
        <3>1. PICK a \in exec[x].jobs : a[1] = e
            BY <2>5
        <3>2. a \in Adder
            BY <1>1 DEF TypeInv
        <3>3. adder[a] # "idle" /\ adder[a] # "add" /\ job[a] = "none"
            BY <2>1, <1>1 DEF ExecInv, Jobless
        <3>4. ~Settled(a)
            BY <2>1 DEF Settled
        <3>5. answers[e] = 0 /\ ~New(e)
            BY <3>1, <3>2, <3>3, <3>4, <1>3 DEF EventInv
        <3>6. answers'[e] = 1
            BY <2>1, <3>1, <3>5, <1>1, AnswerType
        <3>7. ASSUME NEW b \in Adder, b[1] = e, b # a PROVE adder[b] = "idle"
            BY <3>1, <3>2, <3>3, <3>7, <1>3 DEF EventInv
        <3>8. ASSUME NEW b \in Adder, b[1] = e PROVE adder'[b] # "add" /\ job'[b] = "none"
            BY <2>1, <3>3, <3>7, <3>8, <1>1 DEF AddInv, Jobless
        <3>9. ASSUME NEW b \in Adder, b[1] = e, NEW y \in Executor, exec'[y].pc = "answer", b \in exec'[y].jobs
              PROVE  FALSE
            <4>1. y # x /\ exec[y].pc = "answer" /\ b \in exec[y].jobs
                BY <2>2, <3>9
            <4>2. ~Jobless(b)
                BY <4>1, <1>1 DEF ExecInv
            <4>3. b = a
                BY <4>2, <3>7, <3>9 DEF Jobless
            <4>4. exec[y].tape = exec[x].tape
                BY <4>1, <4>3, <3>1, <2>1, <1>1 DEF ExecInv
            <4>5. QED
                BY <4>1, <4>4, <2>1, <1>1 DEF ExecInv, Busy
        <3>10. \A b \in Adder : b[1] = e => Settled(b)'
            BY <3>8, <3>9 DEF Settled
        <3>11. QED
            BY <3>5, <3>6, <3>10, <2>1, <1>7, <1>3 DEF EventInv
    <2>6. QED
        BY <2>4, <2>5
<1>11. ASSUME NEW a \in Adder, CheckRequestExists(a) \/ ChangeRequestToNew(a) \/ AddRequest(a)
       PROVE  EventInv(e)'
    <2>1. /\ exec' = exec /\ job' = job /\ answers' = answers /\ recalld' = recalld
          /\ recinfo' = recinfo /\ seen' = seen /\ stop' = stop
          /\ ~Jobless(a) /\ ~Jobless(a)'
          /\ \A b \in Adder : b # a => adder'[b] = adder[b]
        BY <1>11, <1>1, AdderGoes
    <2>2. \A b \in Adder : /\ adder'[b] = "idle" <=> adder[b] = "idle"
                           /\ adder'[b] = "add" <=> adder[b] = "add"
        BY <2>1 DEF Jobless
    <2>3. \A b \in Adder : Settled(b) => Settled(b)'
        BY <2>1, <2>2 DEF Settled, Recallable
    <2>4. QED
        BY <2>1, <2>2, <2>3, <1>7, <1>3 DEF EventInv
<1>12. ASSUME NEW a \in Adder, AddJob(a) PROVE EventInv(e)'
    <2>1. /\ exec' = exec /\ recalld' = recalld /\ adder[a] = "add" /\ job[a] = "none"
          /\ adder'[a] \in {"end", "dropped", "check", "check unset"}
          /\ \A b \in Adder : b # a => adder'[b] = adder[b] /\ job'[b] = job[b]
          /\ adder'[a] \in {"end", "dropped"} => job'[a] = "none"
          /\ \/ answers' = answers
             \/ Answer({a[1]}) /\ adder'[a] = "end"
        BY <1>12, <1>1, AddJobEffect
    <2>2. recinfo' = recinfo /\ seen' = seen /\ stop' = stop
        BY <1>12 DEF AddJob
    <2>3. \A b \in Adder : b # a /\ Settled(b) => Settled(b)'
        BY <2>1, <2>2 DEF Settled, Recallable
    <2>4. CASE a[1] # e
        <3>3. Answer({a[1]}) => answers'[e] = answers[e]
            BY <2>4, <1>1, AnswerType
        <3>1. answers'[e] = answers[e]
            BY <2>1, <3>3
        <3>2. QED
            BY <3>1, <2>1, <2>2, <2>3, <2>4, <1>7, <1>3 DEF EventInv
    <2>5. CASE a[1] = e
        <3>6. ~New(e)
            BY <2>1, <2>5, <1>3 DEF EventInv
        <3>7. ~Settled(a)
            BY <2>1 DEF Settled
        <3>1. answers[e] = 0 /\ ~New(e)
            BY <2>5, <3>6, <3>7, <1>3 DEF EventInv
        <3>8. ~New(e)' /\ (recalld' = "got" /\ recinfo' = e => e \in seen')
            BY <3>6, <2>1, <2>2, <1>7
        <3>2. ASSUME NEW b \in Adder, b[1] = e, b # a PROVE adder'[b] = "idle" /\ job'[b] = "none"
            <4>1. adder[b] = "idle"
                BY <2>1, <2>5, <3>2, <1>3 DEF EventInv
            <4>2. job[b] = "none"
                BY <4>1, <1>1 DEF AddInv, Jobless
            <4>3. QED
                BY <4>1, <4>2, <2>1, <3>2
        <3>3. CASE answers' = answers
            BY <3>1, <3>2, <3>3, <3>8 DEF EventInv
        <3>4. CASE Answer({a[1]}) /\ adder'[a] = "end"
            <4>1. answers'[e] = 1
                BY <3>1, <3>4, <2>5, <1>1, AnswerType
            <4>2. \A b \in Adder : b[1] = e => adder'[b] # "add" /\ job'[b] = "none"
                BY <3>2, <3>4, <2>1
            <4>3. \A b \in Adder, y \in Executor : b[1] = e /\ exec[y].pc = "answer" => b \notin exec[y].jobs
                <5>1. \A b \in Adder : b[1] = e => Jobless(b)
                    BY <3>2, <2>1 DEF Jobless
                <5>2. QED
                    BY <5>1, <1>1 DEF ExecInv
            <4>4. \A b \in Adder : b[1] = e => Settled(b)'
                BY <4>2, <4>3, <2>1 DEF Settled
            <4>5. QED
                BY <4>1, <4>4, <3>2, <3>8 DEF EventInv
        <3>5. QED
            BY <3>3, <3>4, <2>1
    <2>6. QED
        BY <2>4, <2>5
<1>13. CASE Handle
    <2>1. /\ recalld = "got" /\ recalld' \in {"ended", "accept"}
          /\ exec' = exec /\ job' = job /\ seen' = seen /\ stop' = stop
        BY <1>13, <1>1, HandleEffect
    <2>2. CASE recinfo # e
        <3>1. answers'[e] = answers[e]
            BY <1>13, <2>2, <1>1, AnswerType, HandleEffect
        <3>2. \A b \in Adder : b[1] = e => adder'[b] = adder[b]
            <4>1. \/ adder' = adder
                  \/ \E i \in 0 .. MaxFaults : \A b \in Adder : b # <<recinfo, i>> => adder'[b] = adder[b]
                BY <1>13, <1>1, HandleEffect
            <4>2. QED
                BY <4>1, <2>2
        <3>3. \A b \in Adder : b[1] = e /\ Settled(b) => Settled(b)'
            BY <2>1, <3>2 DEF Settled
        <3>4. QED
            BY <3>1, <3>2, <3>3, <2>1, <1>3 DEF EventInv, New
    <2>3. CASE recinfo = e
        <3>1. e \in seen /\ answers[e] = 0 /\ \A b \in Adder : b[1] = e => adder[b] = "idle"
            BY <2>1, <2>3, <1>3 DEF EventInv, New
        <3>2. \A b \in Adder : b[1] = e => job[b] = "none" /\ Jobless(b)
            BY <3>1, <1>1 DEF AddInv, Jobless
        <3>3. ASSUME adder' = adder PROVE \A b \in Adder : b[1] = e => Settled(b)'
            BY <2>1, <3>1, <3>2, <3>3, <1>1 DEF Settled, ExecInv
        <3>4. CASE adder' = adder
            <4>1. answers'[e] \in 0 .. 1
                BY <1>13, <3>1, <1>1, AnswerType, HandleEffect
            <4>2. QED
                BY <4>1, <3>1, <3>3, <3>4, <2>1 DEF EventInv, New
        <3>5. CASE answers' = answers /\ \E i \in 0 .. MaxFaults :
                                            \A b \in Adder : b # <<recinfo, i>> => adder'[b] = adder[b]
            BY <3>1, <3>5, <2>1 DEF EventInv, New
        <3>6. QED
            BY <3>4, <3>5, <1>13, <1>1, HandleEffect
    <2>4. QED
        BY <2>2, <2>3
<1>14. CASE CleanupEvents
    <2> DEFINE left == {a \in Adder : job[a] # "none"}
    <2>1. /\ adder' = adder /\ job' = job /\ exec' = exec /\ stop' = stop /\ seen' = seen
          /\ recalld = "ended" /\ recalld' = "over"
          /\ WaitCompletion /\ Answer({a[1] : a \in left})
        BY <1>14 DEF CleanupEvents
    <2>2. \A a \in left : a[1] = e => ~Recallable(a)
        BY <1>14 DEF CleanupEvents
    <2>3. CASE \A a \in left : a[1] # e
        <3>1. answers'[e] = answers[e]
            BY <2>1, <2>3, <1>1, AnswerType
        <3>2. \A b \in Adder : Settled(b) => Settled(b)'
            BY <2>1 DEF Settled
        <3>3. QED
            BY <3>1, <3>2, <2>1, <1>3 DEF EventInv, New
    <2>4. CASE \E a \in left : a[1] = e
        <3>1. PICK a \in Adder : a[1] = e /\ job[a] # "none"
            BY <2>4
        <3>2. adder[a] # "idle"
            BY <3>1, <1>1 DEF AddInv, Jobless
        <3>3. answers[e] = 0 /\ ~New(e)
            BY <2>1, <3>1, <3>2, <1>3 DEF EventInv, Settled
        <3>4. answers'[e] = 1
            BY <2>1, <2>4, <3>3, <1>1, AnswerType
        <3>5. ASSUME NEW b \in Adder, b[1] = e, b # a PROVE adder[b] = "idle"
            BY <3>1, <3>2, <3>5, <1>3 DEF EventInv
        <3>6. ASSUME NEW b \in Adder, b[1] = e PROVE Settled(b)'
            <4>1. adder'[b] # "add"
                BY <2>1 DEF WaitCompletion
            <4>2. job[b] = "none" \/ ~Recallable(b)
                BY <2>2, <3>6
            <4>3. ~Recallable(b) => ~Recallable(b)'
                BY <2>1 DEF Recallable
            <4>4. \A x \in Executor : exec[x].pc = "answer" => b \notin exec[x].jobs
                BY <3>1, <3>5, <3>6, <1>1 DEF ExecInv, Jobless
            <4>5. QED
                BY <4>1, <4>2, <4>3, <4>4, <2>1 DEF Settled
        <3>7. QED
            BY <3>3, <3>4, <3>6, <2>1, <1>3 DEF EventInv, New
    <2>5. QED
        BY <2>3, <2>4
<1>15. QED
    BY <1>1, <1>2, <1>3, <1>4, <1>5, <1>6, <1>7, <1>8, <1>9, <1>10, <1>11,
       <1>12, <1>13, <1>14 DEF Next, RecallDNext, AdderNext, ExecNext

-----------------------------------------------------------------------------
(* The inductive invariant holds in every state.                           *)
LEMMA RecallInvAlways == Spec => []RecallInv
<1>1. RecallInv /\ [Next]_vars => RecallInv'
    BY NextTypeInv, NextExecInv, NextAddInv, NextEventInv DEF RecallInv
<1>2. QED
    BY <1>1, InitRecallInv, PTL DEF Spec

(* respondRecallEvent frees the connection of an event once, whatever      *)
(* RecallD, the pool, the executors and a stop of the server do, unless    *)
(* getEvents has thrown after it or cleanupEvents overtook an executor.    *)
THEOREM AnsweredOnceAlways == Spec => []AnsweredOnce
<1>1. RecallInv => AnsweredOnce
    BY DEF RecallInv, EventInv, AnsweredOnce
<1>2. QED
    BY <1>1, RecallInvAlways, PTL

(* After cleanupEvents no job is in the queue whose event has not been     *)
(* answered: RecallD has waited for the threads that could add one.        *)
THEOREM NoEventLeftBehindAlways == Spec => []NoEventLeftBehind
<1>1. RecallInv => NoEventLeftBehind
    BY DEF RecallInv
<1>2. QED
    BY <1>1, RecallInvAlways, PTL

=============================================================================
