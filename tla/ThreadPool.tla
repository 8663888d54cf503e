----------------------------- MODULE ThreadPool -----------------------------
(***************************************************************************)
(* server/ThreadPool.h: threads that are made when they are needed, reused *)
(* and ended after ten idle seconds.  What happens under mtx_main between  *)
(* two waits is one step; what an exiting thread does after it has given   *)
(* mtx_main back is not.                                                   *)
(*                                                                         *)
(* Thread k is the k-th one made.  It keeps a pointer to thread k - 1,     *)
(* which was last_thread when it began, and joins that one when it ends.   *)
(***************************************************************************)
EXTENDS Integers, FiniteSets

CONSTANTS Request,   (* users of the pool, one request number each          *)
          MaxTasks,  (* bound on the tasks each of them enqueues            *)
          NumThrds,  (* num_thrds                                           *)
          None

ASSUME PoolAssumption ==
    /\ IsFiniteSet(Request) /\ None \notin Request \cup (Request \X (1 .. MaxTasks))
    /\ MaxTasks \in Nat /\ NumThrds \in Nat \ {0}

Task == Request \X (1 .. MaxTasks)

(* Each enqueue makes at most one thread.                                  *)
Thread == 1 .. Cardinality(Request) * MaxTasks

VARIABLES enq,       (* who holds enqueue_mtx                               *)
          user,      (* request -> where its user is in enqueue             *)
          given,     (* request -> number of calls of enqueue               *)
          task,      (* the task that lies ready, or None if moved away     *)
          newWork,   (* new_work                                            *)
          occupied,  (* number of threads that work on a task               *)
          numJobs,   (* request -> its tasks that have been taken           *)
          started,   (* num_thrds_started                                   *)
          made,      (* number of threads made so far, the last last_thread *)
          thread,    (* thread -> where it is in threadfunc                 *)
          work,      (* thread -> the task it works on                      *)
          dtor,      (* where the destructor is                             *)
          aborted    (* an empty task was run: std::terminate               *)

vars == <<enq, user, given, task, newWork, occupied, numJobs, started, made,
          thread, work, dtor, aborted>>

Init ==
    /\ enq = None /\ user = [r \in Request |-> "ready"]
    /\ given = [r \in Request |-> 0]
    /\ task = None /\ newWork = FALSE
    /\ occupied = 0 /\ numJobs = [r \in Request |-> 0]
    /\ started = 0 /\ made = 0
    /\ thread = [w \in Thread |-> "none"] /\ work = [w \in Thread |-> None]
    /\ dtor = "none" /\ aborted = FALSE

(* The destructor keeps mtx_main from its check until it waits, and while  *)
(* it joins.                                                               *)
MainFree == dtor \notin {"block", "join"}

-----------------------------------------------------------------------------
(* enqueue.                                                                *)

(* cond_main.notify_one: one of the waiting threads, if there is one.      *)
NotifyOne ==
    IF \A w \in Thread : thread[w] # "waiting"
    THEN UNCHANGED thread
    ELSE \E w \in Thread : /\ thread[w] = "waiting"
                           /\ thread' = [thread EXCEPT ![w] = "notified"]

(* The task is put down, a thread is notified and the answer awaited.      *)
Hand(r) ==
    /\ task' = <<r, given'[r]>>
    /\ user' = [user EXCEPT ![r] = "resp"]
    /\ NotifyOne
    /\ UNCHANGED <<started, made>>

MakeThread == made' = made + 1 /\ started' = started + 1

(* A thread is made if all that are counted are occupied.                  *)
GetThread(r) ==
    IF started = occupied
    THEN /\ MakeThread
         /\ thread' = [thread EXCEPT ![made + 1] = "starting"]
         /\ user' = [user EXCEPT ![r] = "init"]
         /\ UNCHANGED task
    ELSE Hand(r)

PoolFull == occupied = NumThrds

Enqueue(r) ==
    /\ enq = None /\ MainFree
    /\ user[r] = "ready" /\ given[r] < MaxTasks
    /\ enq' = r
    /\ given' = [given EXCEPT ![r] = @ + 1]
    /\ newWork' = TRUE
    /\ IF PoolFull
       THEN /\ user' = [user EXCEPT ![r] = "cont"]
            /\ UNCHANGED <<task, started, made, thread>>
       ELSE GetThread(r)
    /\ UNCHANGED <<occupied, numJobs, work, dtor, aborted>>

(* After cond_cont.                                                        *)
Continue(r) ==
    /\ user[r] = "continue" /\ MainFree
    /\ UNCHANGED <<enq, given, newWork, occupied, numJobs, work, dtor, aborted>>
    /\ GetThread(r)

(* After cond_init.                                                        *)
Inited(r) ==
    /\ user[r] = "inited" /\ MainFree
    /\ UNCHANGED <<enq, given, newWork, occupied, numJobs, work, dtor, aborted>>
    /\ Hand(r)

(* Mutant of Completed: another request has nothing to do.                 *)
CompletedOther(r) == \E q \in Request : numJobs[q] = 0

Completed(r) == numJobs[r] = 0

(* waitCompletion.                                                         *)
WaitCompletion(r) ==
    /\ user[r] = "ready" /\ MainFree
    /\ Completed(r)
    /\ user' = [user EXCEPT ![r] = "over"]
    /\ UNCHANGED <<enq, given, task, newWork, occupied, numJobs, started, made,
                   thread, work, dtor, aborted>>

-----------------------------------------------------------------------------
(* threadfunc.                                                             *)

Step(w, from, to) == thread[w] = from /\ thread' = [thread EXCEPT ![w] = to]

ThreadStart(w) ==
    /\ MainFree
    /\ Step(w, "starting", "waiting")
    /\ user' = [user EXCEPT ![enq] = "inited"]
    /\ UNCHANGED <<enq, given, task, newWork, occupied, numJobs, started, made,
                   work, dtor, aborted>>

TimeOut(w) ==
    /\ Step(w, "waiting", "notified")
    /\ UNCHANGED <<enq, user, given, task, newWork, occupied, numJobs, started,
                   made, work, dtor, aborted>>

(* Awake with mtx_main, and there is work.  The task is moved away; if     *)
(* enqueue has not put one down yet the empty one throws when it is run.   *)
Take(w) ==
    /\ MainFree /\ newWork
    /\ Step(w, "notified", "taken")
    /\ newWork' = FALSE
    /\ occupied' = occupied + 1
    /\ work' = [work EXCEPT ![w] = task]
    /\ task' = None
    /\ IF task = None
       THEN aborted' = TRUE /\ UNCHANGED numJobs
       ELSE numJobs' = [numJobs EXCEPT ![task[1]] = @ + 1] /\ UNCHANGED aborted
    /\ UNCHANGED <<enq, user, given, started, made, dtor>>

(* cond_resp: enqueue returns.                                             *)
Respond(w) ==
    /\ Step(w, "taken", "running")
    /\ user' = [user EXCEPT ![enq] = "ready"]
    /\ enq' = None
    /\ UNCHANGED <<given, task, newWork, occupied, numJobs, started, made, work,
                   dtor, aborted>>

(* Mutant of HasRoom: off by one.                                          *)
HasRoomFull == occupied' = NumThrds

(* cond_cont is notified only on the step from full to not full.           *)
HasRoom == occupied' = NumThrds - 1

(* What the task throws stays in its future, which nobody looks at.        *)
Finish(w) ==
    /\ MainFree
    /\ Step(w, "running", "waiting")
    /\ occupied' = occupied - 1
    /\ numJobs' = [numJobs EXCEPT ![work[w][1]] = @ - 1]
    /\ work' = [work EXCEPT ![w] = None]
    /\ user' = [r \in Request |->
                  IF user[r] = "cont" /\ HasRoom THEN "continue" ELSE user[r]]
    /\ UNCHANGED <<enq, given, task, newWork, started, made, dtor, aborted>>

(* Awake and there is no work: the thread ends.  From here on it does not  *)
(* hold mtx_main, also not when it is taken off the count.                 *)
Exit(w) ==
    /\ MainFree /\ ~newWork
    /\ Step(w, "notified", "exiting")
    /\ UNCHANGED <<enq, user, given, task, newWork, occupied, numJobs, started,
                   made, work, dtor, aborted>>

Leave(w) ==
    /\ Step(w, "exiting", "leaving")
    /\ started' = started - 1
    /\ UNCHANGED <<enq, user, given, task, newWork, occupied, numJobs, made,
                   work, dtor, aborted>>

(* Mutant of WakeDtor: only idle threads are woken.                        *)
WakeDtorNever == dtor

WakeDtor == IF dtor = "wait" THEN "check" ELSE dtor

(* cond_main.notify_all wakes idle threads as well as the destructor.      *)
NotifyAll(w) ==
    /\ thread[w] = "leaving"
    /\ thread' = [x \in Thread |-> IF x = w THEN "joining"
                                   ELSE IF thread[x] = "waiting" THEN "notified"
                                   ELSE thread[x]]
    /\ dtor' = WakeDtor
    /\ UNCHANGED <<enq, user, given, task, newWork, occupied, numJobs, started,
                   made, work, aborted>>

(* Mutant of Joined: the thread before is detached.                        *)
JoinedNever(w) == TRUE

Joined(w) == \A t \in Thread : t = w - 1 => thread[t] = "ended"

Join(w) ==
    /\ Joined(w)
    /\ Step(w, "joining", "ended")
    /\ UNCHANGED <<enq, user, given, task, newWork, occupied, numJobs, started,
                   made, work, dtor, aborted>>

-----------------------------------------------------------------------------
(* The destructor.                                                         *)

DtorStep(from, to) ==
    /\ dtor = from /\ dtor' = to
    /\ UNCHANGED <<enq, user, given, task, newWork, occupied, numJobs, started,
                   made, thread, work, aborted>>

Destroy ==
    /\ \A r \in Request : user[r] = "over"
    /\ DtorStep("none", IF made = 0 THEN "gone" ELSE "check")

DtorCheck == DtorStep("check", IF started = 0 THEN "join" ELSE "block")

DtorWait == DtorStep("block", "wait")

DtorJoin == DtorStep("join", "gone") /\ thread[made] = "ended"

-----------------------------------------------------------------------------
UserNext(r) == Continue(r) \/ Inited(r)

ThreadNext(w) ==
    \/ ThreadStart(w) \/ TimeOut(w) \/ Take(w) \/ Respond(w) \/ Finish(w)
    \/ Exit(w) \/ Leave(w) \/ NotifyAll(w) \/ Join(w)

DtorNext == DtorCheck \/ DtorWait \/ DtorJoin

Next ==
    /\ ~aborted
    /\ \/ \E r \in Request : Enqueue(r) \/ UserNext(r) \/ WaitCompletion(r)
       \/ \E w \in Thread : ThreadNext(w)
       \/ Destroy
       \/ DtorNext

Spec == Init /\ [][Next]_vars

(* Every thread that can go on does, tasks end, ten seconds pass.          *)
Fairness ==
    /\ \A r \in Request : WF_vars(~aborted /\ UserNext(r))
    /\ \A r \in Request : WF_vars(~aborted /\ WaitCompletion(r))
    /\ \A w \in Thread : WF_vars(~aborted /\ ThreadNext(w))
    /\ WF_vars(~aborted /\ DtorNext)

FairSpec == Spec /\ Fairness
-----------------------------------------------------------------------------
(* The pool as its users see it: TaskPool under this mapping.              *)

TaskState(t) ==
    IF t[2] > given[t[1]] THEN "new"
    ELSE IF \E w \in Thread : work[w] = t THEN "running"
    ELSE IF task = t \/ (/\ t[2] = given[t[1]]
                         /\ user[t[1]] \in {"cont", "continue", "init", "inited"})
    THEN "given" ELSE "done"

Users == INSTANCE TaskPool WITH
    state    <- [t \in Task |-> TaskState(t)],
    returned <- {t \in Task : t[2] <= given[t[1]] /\ ~(t[1] = enq /\ t[2] = given[enq])},
    over     <- {r \in Request : user[r] = "over"}

(* Whatever the order in which users, workers and exiting threads come to  *)
(* mtx_main: no task is lost by being overwritten or run twice, not more   *)
(* than num_thrds tasks run together, enqueue does not return before its   *)
(* task is counted, and waitCompletion not before all of them are done.    *)
Abstract == Users!Spec

(* The chain of joins: when the destructor has returned no thread of the   *)
(* pool is left that could still touch its members.                        *)
NoThreadOutlivesPool ==
    dtor = "gone" => \A w \in Thread : thread[w] \in {"none", "ended"}

(* All threads that enqueue counted on had already decided to end: nobody  *)
(* will take the task, and enqueue_mtx is never given back.                *)
Stranded ==
    /\ task # None
    /\ \A w \in Thread : thread[w] \in {"none", "exiting", "leaving", "joining", "ended"}

(* A thread took the empty task while enqueue was about to go on.          *)
Overtaken == aborted /\ enq # None /\ user[enq] # "cont"

(* Being stranded or overtaken is all that can keep enqueue from           *)
(* returning.  A user that waits for room in a full pool is let in, and as *)
(* long as one thread is left the notification it has missed is made up    *)
(* for by its time-out.                                                    *)
EnqueueReturns ==
    \A r \in Request : enq = r ~> (enq # r \/ Stranded \/ Overtaken)

(* A destructor that waits while a thread is still counted is woken, and   *)
(* its join of the last thread ends: only a thread that leaves between the *)
(* check and the wait can be missed.                                       *)
DestructorReturns ==
    /\ (dtor = "wait" /\ started > 0) ~> dtor # "wait"
    /\ dtor = "join" ~> dtor = "gone"
=============================================================================
