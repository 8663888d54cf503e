-------------------------- MODULE ThreadPoolProofs --------------------------
(***************************************************************************)
(* Proofs about the thread pool, for any number of users, tasks and        *)
(* threads: it implements TaskPool, and no thread is left when its         *)
(* destructor has returned.                                                *)
(*                                                                         *)
(* A thread that takes an empty task ends the server: what relates users,  *)
(* task and threads is claimed, and needed, only as long as that has not   *)
(* happened.                                                               *)
(***************************************************************************)
EXTENDS ThreadPool, FiniteSetTheorems, TLAPS

(* Where a user is that holds enqueue_mtx.                                 *)
Waits == {"cont", "continue", "init", "inited"}
Inside == Waits \cup {"resp"}

(* Threads that have a task, and those that have one of a request.         *)
Occupied == {w \in Thread : thread[w] \in {"taken", "running"}}
WorksFor(r) == {w \in Thread : work[w] # None /\ work[w][1] = r}

(* The tasks whose enqueue has been called.                                *)
Given == {t \in Task : t[2] <= given[t[1]]}

(* Where a thread is.                                                      *)
Place == {"none", "starting", "waiting", "notified", "taken", "running", "exiting",
          "leaving", "joining", "ended"}

TypeInv ==
    /\ enq \in Request \cup {None} /\ user \in [Request -> Inside \cup {"ready", "over"}]
    /\ given \in [Request -> 0 .. MaxTasks] /\ task \in Task \cup {None}
    /\ occupied \in Int /\ numJobs \in [Request -> Int] /\ started \in Int
    /\ thread \in [Thread -> Place] /\ work \in [Thread -> Task \cup {None}]

(* One user at a time is inside enqueue, which it has called.              *)
UserInv == \A r \in Request : /\ r = enq <=> user[r] \in Inside
                              /\ user[r] \in Inside => given[r] > 0

(* No more threads than calls of enqueue.                                  *)
MadeInv ==
    /\ made \in Nat /\ made <= Cardinality(Given)
    /\ \A r \in Request : user[r] \in {"cont", "continue"} => made < Cardinality(Given)

(* Threads are made in order and joined in order; only the last one can be *)
(* on its way to its loop, and then enqueue waits for it.                  *)
ThreadInv ==
    /\ \A w \in Thread : thread[w] = "none" <=> w > made
    /\ \A w \in Thread : thread[w] = "ended" =>
                            \A v \in Thread : v < w => thread[v] = "ended"
    /\ \A w \in Thread : thread[w] = "starting" =>
                            w = made /\ enq \in Request /\ user[enq] = "init"

DtorInv ==
    /\ dtor # "none" => \A r \in Request : user[r] = "over"
    /\ dtor \in {"check", "block", "wait", "join"} => made > 0
    /\ NoThreadOutlivesPool

(* The task that lies ready is that of the user in enqueue, who has set    *)
(* new_work and found room.                                                *)
HandInv ==
    /\ newWork => enq # None
    /\ occupied <= NumThrds
    /\ task # None => /\ enq \in Request /\ user[enq] = "resp"
                      /\ task = <<enq, given[enq]>>
                      /\ newWork /\ occupied < NumThrds
    /\ \A r \in Request :
          /\ user[r] \in Waits => newWork
          /\ user[r] \in Waits \ {"cont"} => occupied < NumThrds

(* A thread has a task from when it takes it until it has run it; the task *)
(* of the call that has not returned is that of the thread that answers.   *)
WorkInv ==
    /\ \A w \in Thread : work[w] # None <=> w \in Occupied
    /\ \A w \in Thread : work[w] # None => work[w][2] <= given[work[w][1]]
    /\ \A w \in Thread : thread[w] = "running" =>
                            ~(work[w][1] = enq /\ work[w][2] = given[enq])
    /\ \A w \in Thread : thread[w] = "taken" =>
                            /\ ~newWork /\ enq \in Request /\ user[enq] = "resp"
                            /\ work[w] = <<enq, given[enq]>>
    /\ \A v, w \in Thread : work[v] = work[w] /\ work[v] # None => v = w

(* The counters count.                                                     *)
CountInv ==
    /\ occupied = Cardinality(Occupied)
    /\ \A r \in Request : numJobs[r] = Cardinality(WorksFor(r))

PoolInv ==
    /\ TypeInv /\ UserInv /\ MadeInv /\ ThreadInv /\ DtorInv
    /\ ~aborted => HandInv /\ WorkInv /\ CountInv
-----------------------------------------------------------------------------
(* Sets of threads and tasks are finite, and there are enough threads.     *)

(* Tasks and threads are finite in number.                                 *)
LEMMA Finite ==
    /\ IsFiniteSet(Thread) /\ IsFiniteSet(Task)
    /\ Cardinality(Task) = Cardinality(Request) * MaxTasks
    /\ Cardinality(Task) \in Nat /\ Thread = 1 .. Cardinality(Task)
<1>1. IsFiniteSet(1 .. MaxTasks) /\ Cardinality(1 .. MaxTasks) = MaxTasks
    BY FS_Interval, PoolAssumption
<1>2. IsFiniteSet(Task) /\ Cardinality(Task) = Cardinality(Request) * MaxTasks
    BY <1>1, FS_Product, PoolAssumption DEF Task
<1>3. Cardinality(Task) \in Nat
    BY <1>2, FS_CardinalityType
<1>4. Thread = 1 .. Cardinality(Task)
    BY <1>2 DEF Thread
<1>5. IsFiniteSet(Thread)
    BY <1>3, <1>4, FS_Interval
<1>6. QED
    BY <1>2, <1>3, <1>4, <1>5

(* Sets of threads that work are finite.                                   *)
LEMMA FiniteSubsets ==
    /\ IsFiniteSet(Occupied) /\ Cardinality(Occupied) \in Nat
    /\ \A r : IsFiniteSet(WorksFor(r)) /\ Cardinality(WorksFor(r)) \in Nat
    /\ IsFiniteSet(Given) /\ Cardinality(Given) \in 0 .. Cardinality(Task)
<1>1. Occupied \in SUBSET Thread /\ Given \in SUBSET Task
      /\ \A r : WorksFor(r) \in SUBSET Thread
    BY DEF Occupied, Given, WorksFor
<1>2. IsFiniteSet(Occupied) /\ IsFiniteSet(Given) /\ \A r : IsFiniteSet(WorksFor(r))
    BY <1>1, Finite, FS_Subset
<1>3. Cardinality(Given) <= Cardinality(Task)
    BY <1>1, Finite, FS_Subset
<1>4. /\ Cardinality(Occupied) \in Nat /\ Cardinality(Given) \in Nat
      /\ \A r : Cardinality(WorksFor(r)) \in Nat
    BY <1>2, FS_CardinalityType
<1>5. QED
    BY <1>2, <1>3, <1>4, Finite

(* A pair is not None.                                                     *)
LEMMA TaskNotNone == None \notin Task /\ None \notin Request
BY PoolAssumption DEF Task

(* A step of enqueue ends in one of three waits: for room, for a thread it *)
(* has made, or for the answer of a thread it has handed its task to.      *)
Woken ==
    /\ thread' \in [Thread -> Place]
    /\ \A w \in Thread : \/ thread'[w] = thread[w]
                         \/ thread[w] = "waiting" /\ thread'[w] = "notified"

AwaitRoom(r) == /\ PoolFull /\ Enqueue(r) /\ user' = [user EXCEPT ![r] = "cont"]
                /\ UNCHANGED <<task, started, made, thread>>

AwaitThread(r) == /\ made' = made + 1 /\ thread' = [thread EXCEPT ![made + 1] = "starting"]
                  /\ user' = [user EXCEPT ![r] = "init"] /\ started' = started + 1
                  /\ UNCHANGED task
                  /\ (Enqueue(r) /\ ~PoolFull) \/ Continue(r)

AwaitAnswer(r) == /\ task' = <<r, given'[r]>> /\ user' = [user EXCEPT ![r] = "resp"]
                  /\ Woken /\ UNCHANGED <<started, made>>
                  /\ (Enqueue(r) /\ ~PoolFull) \/ Continue(r) \/ Inited(r)

(* Where a call of enqueue comes to wait, or that it returns.              *)
LEMMA WaitsOfEnqueue ==
    ASSUME TypeInv, NEW r \in Request, Enqueue(r) \/ UserNext(r)
    PROVE  AwaitRoom(r) \/ AwaitThread(r) \/ AwaitAnswer(r)
<1>1. NotifyOne => Woken
    <2>1. "notified" \in Place
        BY DEF Place
    <2>2. QED
        BY <2>1 DEF NotifyOne, Woken, TypeInv
<1>2. ASSUME Hand(r), (Enqueue(r) /\ ~PoolFull) \/ Continue(r) \/ Inited(r)
      PROVE  AwaitAnswer(r)
    BY <1>1, <1>2 DEF Hand, AwaitAnswer
<1>3. ASSUME GetThread(r), (Enqueue(r) /\ ~PoolFull) \/ Continue(r)
      PROVE  AwaitThread(r) \/ AwaitAnswer(r)
    BY <1>2, <1>3 DEF GetThread, AwaitThread, MakeThread
<1>4. CASE Enqueue(r) /\ PoolFull
    BY <1>4 DEF Enqueue, AwaitRoom
<1>5. CASE Enqueue(r) /\ ~PoolFull
    BY <1>3, <1>5 DEF Enqueue
<1>6. CASE Continue(r)
    BY <1>3, <1>6 DEF Continue
<1>7. CASE Inited(r)
    BY <1>2, <1>7 DEF Inited
<1>8. QED
    BY <1>4, <1>5, <1>6, <1>7 DEF UserNext

(* What the calls of enqueue have in common: either a call begins, or it   *)
(* goes on.                                                                *)
LEMMA CallsOfEnqueue ==
    ASSUME TypeInv, UserInv, NEW r \in Request, Enqueue(r) \/ UserNext(r)
    PROVE  /\ UNCHANGED <<occupied, numJobs, work, dtor, aborted>> /\ enq' = r
           /\ \/ /\ enq = None /\ user[r] = "ready" /\ newWork'
                 /\ given[r] < MaxTasks /\ given' = [given EXCEPT ![r] = @ + 1]
              \/ /\ enq = r /\ user[r] \in {"continue", "inited"}
                 /\ UNCHANGED <<enq, given, newWork>>
<1>1. CASE Enqueue(r)
    BY <1>1 DEF Enqueue
<1>2. CASE UserNext(r)
    <2>1. /\ UNCHANGED <<enq, given, newWork, occupied, numJobs, work, dtor, aborted>>
          /\ user[r] \in {"continue", "inited"}
        BY <1>2 DEF UserNext, Continue, Inited
    <2>2. user[r] \in Inside
        BY <2>1 DEF Inside, Waits
    <2>3. enq = r
        BY <2>2 DEF UserInv
    <2>4. QED
        BY <2>1, <2>3
<1>3. QED
    BY <1>1, <1>2
-----------------------------------------------------------------------------
(* The first state.                                                        *)
LEMMA InitPoolInv == Init => PoolInv
<1> SUFFICES ASSUME Init PROVE PoolInv
    OBVIOUS
<1>1. TypeInv /\ UserInv
    <2>1. "none" \in Place
        BY DEF Place
    <2>2. TypeInv
        BY <2>1, PoolAssumption DEF Init, TypeInv
    <2>3. UserInv
        BY TaskNotNone DEF Init, UserInv, Inside, Waits
    <2>4. QED
        BY <2>2, <2>3
<1>2. MadeInv
    BY FiniteSubsets DEF Init, MadeInv
<1>3. ThreadInv /\ DtorInv
    BY Finite DEF Init, ThreadInv, DtorInv, NoThreadOutlivesPool
<1>4. Occupied = {} /\ \A r : WorksFor(r) = {}
    BY DEF Init, Occupied, WorksFor
<1>5. HandInv /\ WorkInv
    BY <1>4, PoolAssumption DEF Init, HandInv, WorkInv, Waits
<1>6. CountInv
    BY <1>4, FS_EmptySet DEF Init, CountInv
<1>7. QED
    BY <1>1, <1>2, <1>3, <1>5, <1>6 DEF PoolInv

(* The steps of Next.                                                      *)
LEMMA Steps ==
    ASSUME Next
    PROVE  /\ ~aborted
           /\ \/ \E r \in Request : Enqueue(r) \/ UserNext(r)
              \/ \E r \in Request : WaitCompletion(r)
              \/ \E w \in Thread : ThreadNext(w)
              \/ Destroy \/ DtorCheck \/ DtorWait \/ DtorJoin
BY DEF Next, DtorNext

(* A thread that works has a task.                                         *)
LEMMA WorkerHasTask ==
    ASSUME PoolInv, ~aborted, NEW w \in Thread, thread[w] \in {"taken", "running"}
    PROVE  /\ work[w] # None /\ work[w] \in Task /\ work[w][1] \in Request
           /\ work[w][2] \in 1 .. MaxTasks /\ work[w] = <<work[w][1], work[w][2]>>
<1>1. work[w] # None
    BY DEF PoolInv, WorkInv, Occupied
<1>2. work[w] \in Task
    BY <1>1 DEF PoolInv, TypeInv
<1>3. QED
    BY <1>1, <1>2 DEF Task

(* Types.                                                                  *)
LEMMA NextTypeInv == ASSUME PoolInv, Next PROVE TypeInv'
<1> USE DEF PoolInv
<1>1. {"starting", "waiting", "notified", "taken", "running", "exiting",
       "leaving", "joining", "ended"} \subseteq Place
    BY DEF Place
<1>2. {"cont", "init", "inited", "resp", "continue"} \subseteq Inside
    BY DEF Inside, Waits
<1>3. ASSUME NEW r \in Request, Enqueue(r) \/ UserNext(r) PROVE TypeInv'
    <2>1. UNCHANGED <<occupied, numJobs, work>> /\ enq' = r
        BY <1>3, CallsOfEnqueue
    <2>2. given' \in [Request -> 0 .. MaxTasks] /\ given'[r] \in 1 .. MaxTasks
        <3>1. CASE given[r] < MaxTasks /\ given' = [given EXCEPT ![r] = @ + 1]
            BY <3>1, PoolAssumption DEF TypeInv
        <3>2. CASE enq = r /\ given' = given
            <4>1. given[r] \in 0 .. MaxTasks /\ given[r] > 0
                BY <3>2 DEF TypeInv, UserInv
            <4>2. QED
                BY <3>2, <4>1 DEF TypeInv
        <3>3. QED
            BY <3>1, <3>2, <1>3, CallsOfEnqueue
    <2>3. CASE AwaitRoom(r)
        BY <2>1, <2>2, <2>3, <1>2 DEF AwaitRoom, TypeInv
    <2>4. CASE AwaitThread(r)
        <3>1. thread' \in [Thread -> Place] /\ user' \in [Request -> Inside \cup {"ready", "over"}]
            BY <2>4, <1>2, <1>1 DEF AwaitThread, TypeInv
        <3>2. QED
            BY <2>1, <2>2, <2>4, <3>1 DEF AwaitThread, TypeInv
    <2>5. CASE AwaitAnswer(r)
        <3>1. task' \in Task
            BY <2>5, <2>2 DEF AwaitAnswer, Task
        <3>2. thread' \in [Thread -> Place]
            BY <2>5 DEF AwaitAnswer, Woken
        <3>3. user' \in [Request -> Inside \cup {"ready", "over"}]
            BY <2>5, <1>2 DEF AwaitAnswer, TypeInv
        <3>4. QED
            BY <2>1, <2>2, <2>5, <3>1, <3>2, <3>3 DEF AwaitAnswer, TypeInv
    <2>6. QED
        BY <1>3, <2>3, <2>4, <2>5, WaitsOfEnqueue
<1>4. ASSUME NEW r \in Request, WaitCompletion(r) PROVE TypeInv'
    BY <1>4 DEF WaitCompletion, TypeInv
<1>5. ASSUME NEW w \in Thread, ThreadStart(w) PROVE TypeInv'
    BY <1>5, <1>1, <1>2 DEF ThreadStart, Step, TypeInv
<1>6. ASSUME NEW w \in Thread, TimeOut(w) PROVE TypeInv'
    BY <1>6, <1>1, <1>2 DEF TimeOut, Step, TypeInv
<1>7. ASSUME NEW w \in Thread, Respond(w) PROVE TypeInv'
    BY <1>7, <1>1, <1>2 DEF Respond, Step, TypeInv
<1>8. ASSUME NEW w \in Thread, Exit(w) PROVE TypeInv'
    BY <1>8, <1>1, <1>2 DEF Exit, Step, TypeInv
<1>9. ASSUME NEW w \in Thread, Leave(w) PROVE TypeInv'
    BY <1>9, <1>1, <1>2 DEF Leave, Step, TypeInv
<1>10. ASSUME NEW w \in Thread, NotifyAll(w) PROVE TypeInv'
    BY <1>10, <1>1, <1>2 DEF NotifyAll, Step, TypeInv
<1>11. ASSUME NEW w \in Thread, Join(w) PROVE TypeInv'
    BY <1>11, <1>1, <1>2 DEF Join, Step, TypeInv
<1>12. ASSUME NEW w \in Thread, Take(w) PROVE TypeInv'
    <2>1. numJobs' \in [Request -> Int]
        <3>1. CASE task = None
            BY <1>12, <3>1 DEF Take, TypeInv
        <3>2. CASE task # None
            <4>1. task[1] \in Request
                BY <3>2 DEF TypeInv, Task
            <4>2. numJobs' = [numJobs EXCEPT ![task[1]] = @ + 1]
                BY <1>12, <3>2 DEF Take
            <4>3. QED
                BY <4>1, <4>2 DEF TypeInv
        <3>3. QED
            BY <3>1, <3>2
    <2>2. thread' \in [Thread -> Place] /\ work' \in [Thread -> Task \cup {None}]
        BY <1>12, <1>1 DEF Take, Step, TypeInv
    <2>3. QED
        BY <1>12, <2>1, <2>2 DEF Take, TypeInv
<1>13. ASSUME NEW w \in Thread, Finish(w) PROVE TypeInv'
    <2>1. numJobs' \in [Request -> Int]
        <3>1. work[w][1] \in Request
            BY <1>13, Steps, WorkerHasTask DEF Finish, Step
        <3>2. numJobs' = [numJobs EXCEPT ![work[w][1]] = @ - 1]
            BY <1>13 DEF Finish
        <3>3. QED
            BY <3>1, <3>2 DEF TypeInv
    <2>2. thread' \in [Thread -> Place] /\ work' \in [Thread -> Task \cup {None}]
        BY <1>13, <1>1 DEF Finish, Step, TypeInv
    <2>3. user' \in [Request -> Inside \cup {"ready", "over"}]
        BY <1>13, <1>2 DEF Finish, TypeInv
    <2>4. QED
        BY <1>13, <2>1, <2>2, <2>3 DEF Finish, TypeInv
<1>14. CASE Destroy \/ DtorCheck \/ DtorWait \/ DtorJoin
    BY <1>14 DEF Destroy, DtorCheck, DtorWait, DtorJoin, DtorStep, TypeInv
<1>15. QED
    BY Steps, <1>1, <1>2, <1>3, <1>4, <1>5, <1>6, <1>7, <1>8, <1>9, <1>10,
       <1>11, <1>12, <1>13, <1>14 DEF ThreadNext
-----------------------------------------------------------------------------
(* enqueue_mtx: one user inside enqueue.                                   *)
LEMMA NextUserInv == ASSUME PoolInv, Next PROVE UserInv'
<1> USE DEF PoolInv
<1>1. /\ {"cont", "continue", "init", "inited", "resp"} \subseteq Inside
      /\ "ready" \notin Inside /\ "over" \notin Inside
    BY DEF Inside, Waits
<1>2. ASSUME NEW r \in Request, Enqueue(r) \/ UserNext(r) PROVE UserInv'
    <2>1. PICK p \in Inside : user' = [user EXCEPT ![r] = p]
        BY <1>2, <1>1, WaitsOfEnqueue DEF AwaitRoom, AwaitThread, AwaitAnswer
    <2>2. enq' = r /\ enq \in {r, None}
        BY <1>2, CallsOfEnqueue
    <2>3. given'[r] > 0 /\ \A q \in Request \ {r} : given'[q] = given[q]
        <3>1. CASE given' = [given EXCEPT ![r] = @ + 1]
            BY <3>1 DEF TypeInv
        <3>2. CASE enq = r /\ given' = given
            BY <3>2 DEF UserInv
        <3>3. QED
            BY <1>2, <3>1, <3>2, CallsOfEnqueue
    <2>4. \A q \in Request : user'[q] = IF q = r THEN p ELSE user[q]
        BY <2>1 DEF TypeInv
    <2>5. QED
        BY <2>2, <2>3, <2>4, TaskNotNone DEF UserInv
<1>3. ASSUME NEW r \in Request, WaitCompletion(r) PROVE UserInv'
    BY <1>3, <1>1 DEF WaitCompletion, UserInv, TypeInv
<1>4. ASSUME NEW w \in Thread, ThreadStart(w) PROVE UserInv'
    <2>1. enq \in Request /\ user[enq] = "init"
        BY <1>4 DEF ThreadStart, Step, ThreadInv
    <2>2. QED
        BY <1>4, <1>1, <2>1 DEF ThreadStart, UserInv, TypeInv
<1>5. ASSUME NEW w \in Thread, Respond(w) PROVE UserInv'
    BY <1>5, <1>1, TaskNotNone DEF Respond, UserInv, TypeInv
<1>6. ASSUME NEW w \in Thread, Finish(w) PROVE UserInv'
    BY <1>6, <1>1 DEF Finish, UserInv, TypeInv
<1>7. ASSUME NEW w \in Thread, TimeOut(w) PROVE UserInv'
    BY <1>7 DEF TimeOut, UserInv
<1>8. ASSUME NEW w \in Thread, Take(w) PROVE UserInv'
    BY <1>8 DEF Take, UserInv
<1>9. ASSUME NEW w \in Thread, Exit(w) PROVE UserInv'
    BY <1>9 DEF Exit, UserInv
<1>10. ASSUME NEW w \in Thread, Leave(w) PROVE UserInv'
    BY <1>10 DEF Leave, UserInv
<1>11. ASSUME NEW w \in Thread, NotifyAll(w) PROVE UserInv'
    BY <1>11 DEF NotifyAll, UserInv
<1>12. ASSUME NEW w \in Thread, Join(w) PROVE UserInv'
    BY <1>12 DEF Join, UserInv
<1>13. CASE Destroy \/ DtorCheck \/ DtorWait \/ DtorJoin
    BY <1>13 DEF Destroy, DtorCheck, DtorWait, DtorJoin, DtorStep, UserInv
<1>14. QED
    BY Steps, <1>1, <1>2, <1>3, <1>4, <1>5, <1>6, <1>7, <1>8, <1>9, <1>10,
       <1>11, <1>12, <1>13 DEF ThreadNext

(* A call of enqueue adds one task to those given.                         *)
LEMMA GivenGrows ==
    ASSUME TypeInv, NEW r \in Request, given[r] < MaxTasks,
           given' = [given EXCEPT ![r] = @ + 1]
    PROVE  /\ <<r, given[r] + 1>> \in Task /\ <<r, given[r] + 1>> \notin Given
           /\ Given' = Given \cup {<<r, given[r] + 1>>}
           /\ Cardinality(Given') = Cardinality(Given) + 1
<1>1. given[r] \in 0 .. MaxTasks /\ given[r] + 1 \in 1 .. MaxTasks
    BY PoolAssumption DEF TypeInv
<1>2. <<r, given[r] + 1>> \in Task /\ <<r, given[r] + 1>> \notin Given
    BY <1>1 DEF Task, Given
<1>3. ASSUME NEW t \in Task
      PROVE  t[2] <= given'[t[1]] <=> (t[2] <= given[t[1]] \/ t = <<r, given[r] + 1>>)
    <2>1. /\ t[1] \in Request /\ t[2] \in 1 .. MaxTasks /\ t = <<t[1], t[2]>>
          /\ given[t[1]] \in 0 .. MaxTasks
        BY DEF Task, TypeInv
    <2>2. CASE t[1] = r
        <3>1. given'[t[1]] = given[r] + 1
            BY <2>1, <2>2 DEF TypeInv
        <3>2. QED
            BY <1>1, <2>1, <2>2, <3>1
    <2>3. CASE t[1] # r
        <3>1. given'[t[1]] = given[t[1]]
            BY <2>1, <2>3 DEF TypeInv
        <3>2. QED
            BY <2>1, <2>3, <3>1
    <2>4. QED
        BY <2>2, <2>3
<1>4. Given' = Given \cup {<<r, given[r] + 1>>}
    BY <1>2, <1>3 DEF Given
<1>5. QED
    BY <1>2, <1>4, FS_AddElement, FiniteSubsets

(* No more threads than calls, so every thread that is made has its place. *)
LEMMA NextMadeInv ==
    ASSUME PoolInv, Next PROVE MadeInv'
<1> USE DEF PoolInv
<1>1. Cardinality(Given) \in Nat
    BY FiniteSubsets, Finite
<1>2. ASSUME UNCHANGED <<made, given>>,
             \A r \in Request : user'[r] \in {"cont", "continue"} =>
                                   user[r] \in {"cont", "continue"}
      PROVE  MadeInv'
    <2>1. Given' = Given
        BY <1>2 DEF Given
    <2>2. QED
        BY <1>2, <2>1 DEF MadeInv
<1>3. ASSUME NEW r \in Request, NEW q \in Request \ {r}, Enqueue(r) \/ UserNext(r)
      PROVE  user[q] \notin {"cont", "continue"}
    <2>1. enq \in {r, None}
        BY <1>3, CallsOfEnqueue
    <2>2. user[q] \notin Inside
        BY <2>1, TaskNotNone DEF UserInv
    <2>3. QED
        BY <2>2 DEF Inside, Waits
<1>4. ASSUME NEW r \in Request, Enqueue(r) \/ UserNext(r) PROVE MadeInv'
    <2>1. CASE given[r] < MaxTasks /\ given' = [given EXCEPT ![r] = @ + 1]
        <3>1. Cardinality(Given)' = Cardinality(Given) + 1
            BY <2>1, GivenGrows
        <3>2. made' \in {made, made + 1} /\ (user'[r] \in {"cont", "continue"} => made' = made)
            BY <1>4, WaitsOfEnqueue DEF AwaitRoom, AwaitThread, AwaitAnswer, TypeInv
        <3>3. \A q \in Request \ {r} : user'[q] = user[q]
            BY <1>4, WaitsOfEnqueue DEF AwaitRoom, AwaitThread, AwaitAnswer, TypeInv
        <3>4. QED
            BY <1>1, <1>4, <1>3, <3>1, <3>2, <3>3 DEF MadeInv
    <2>2. CASE enq = r /\ given' = given
        <3>1. Given' = Given
            BY <2>2 DEF Given
        <3>2. UserNext(r)
            BY <1>4, <2>2, TaskNotNone DEF Enqueue
        <3>3. CASE AwaitThread(r)
            <4>1. user[r] = "continue" /\ made' = made + 1
                BY <2>2, <3>3, TaskNotNone DEF AwaitThread, Enqueue, Continue
            <4>2. made < Cardinality(Given)
                BY <4>1 DEF MadeInv
            <4>3. \A q \in Request : user'[q] \notin {"cont", "continue"}
                BY <1>4, <1>3, <3>3 DEF AwaitThread, TypeInv
            <4>4. QED
                BY <1>1, <3>1, <4>1, <4>2, <4>3 DEF MadeInv
        <3>4. CASE AwaitAnswer(r)
            <4>1. made' = made /\ \A q \in Request : user'[q] = IF q = r THEN "resp" ELSE user[q]
                BY <3>4 DEF AwaitAnswer, TypeInv
            <4>2. QED
                BY <2>2, <4>1, <1>2
        <3>5. ~AwaitRoom(r)
            BY <2>2, TaskNotNone DEF AwaitRoom, Enqueue
        <3>6. QED
            BY <1>4, <3>3, <3>4, <3>5, WaitsOfEnqueue
    <2>3. QED
        BY <1>4, <2>1, <2>2, CallsOfEnqueue
<1>5. ASSUME NEW r \in Request, WaitCompletion(r) PROVE MadeInv'
    BY <1>5, <1>2 DEF WaitCompletion, TypeInv
<1>6. ASSUME NEW w \in Thread, ThreadStart(w) PROVE MadeInv'
    BY <1>6, <1>2 DEF ThreadStart, TypeInv
<1>7. ASSUME NEW w \in Thread, TimeOut(w) PROVE MadeInv'
    BY <1>7, <1>2 DEF TimeOut, TypeInv
<1>8. ASSUME NEW w \in Thread, Take(w) PROVE MadeInv'
    BY <1>8, <1>2 DEF Take, TypeInv
<1>9. ASSUME NEW w \in Thread, Respond(w) PROVE MadeInv'
    BY <1>9, <1>2 DEF Respond, TypeInv
<1>10. ASSUME NEW w \in Thread, Finish(w) PROVE MadeInv'
    BY <1>10, <1>2 DEF Finish, TypeInv
<1>11. ASSUME NEW w \in Thread, Exit(w) PROVE MadeInv'
    BY <1>11, <1>2 DEF Exit, TypeInv
<1>12. ASSUME NEW w \in Thread, Leave(w) PROVE MadeInv'
    BY <1>12, <1>2 DEF Leave, TypeInv
<1>13. ASSUME NEW w \in Thread, NotifyAll(w) PROVE MadeInv'
    BY <1>13, <1>2 DEF NotifyAll, TypeInv
<1>14. ASSUME NEW w \in Thread, Join(w) PROVE MadeInv'
    BY <1>14, <1>2 DEF Join, TypeInv
<1>15. CASE Destroy \/ DtorCheck \/ DtorWait \/ DtorJoin
    BY <1>15, <1>2 DEF Destroy, DtorCheck, DtorWait, DtorJoin, DtorStep
<1>16. QED
    BY Steps, <1>1, <1>2, <1>3, <1>4, <1>5, <1>6, <1>7, <1>8, <1>9, <1>10,
       <1>11, <1>12, <1>13, <1>14, <1>15 DEF ThreadNext
(* Threads are made in order and joined in order.                          *)
LEMMA NextThreadInv == ASSUME PoolInv, Next PROVE ThreadInv'
<1> USE DEF PoolInv
<1>1. \A w \in Thread : w \in Nat
    BY Finite
<1>2. made \in Nat
    BY DEF MadeInv
<1>3. ASSUME UNCHANGED made,
             \A w \in Thread : /\ thread'[w] = "none" <=> thread[w] = "none"
                               /\ thread'[w] = "ended" <=> thread[w] = "ended"
                               /\ thread'[w] = "starting" =>
                                     thread[w] = "starting" /\ enq' \in Request
                                     /\ user'[enq'] = "init"
      PROVE  ThreadInv'
    BY <1>3 DEF ThreadInv
<1>4. ASSUME NEW r \in Request, Enqueue(r) \/ UserNext(r), NEW w \in Thread
      PROVE  thread[w] # "starting"
    BY <1>4, CallsOfEnqueue, TaskNotNone DEF ThreadInv
<1>5. ASSUME NEW r \in Request, Enqueue(r) \/ UserNext(r) PROVE ThreadInv'
    <2>1. CASE AwaitRoom(r)
        BY <1>5, <1>3, <1>4, <2>1 DEF AwaitRoom
    <2>2. CASE AwaitThread(r)
        <3>1. made + 1 \in Thread
            <4>1. made' = made + 1 /\ made' <= Cardinality(Given)'
                BY <2>2, NextMadeInv DEF AwaitThread, MadeInv
            <4>2. Given' \in SUBSET Task
                BY DEF Given
            <4>3. Cardinality(Given') <= Cardinality(Task) /\ Cardinality(Given') \in Nat
                BY <4>2, Finite, FS_Subset, FS_CardinalityType
            <4>4. QED
                BY <1>2, <4>1, <4>3, Finite
        <3>2. \A w \in Thread : thread'[w] = IF w = made + 1 THEN "starting" ELSE thread[w]
            BY <2>2, <3>1 DEF AwaitThread, TypeInv
        <3>3. enq' = r /\ user'[r] = "init" /\ made' = made + 1
            BY <1>5, <2>2, CallsOfEnqueue DEF AwaitThread, TypeInv
        <3>4. \A w \in Thread : thread'[w] = "none" <=> w > made'
            BY <1>1, <1>2, <3>2, <3>3 DEF ThreadInv
        <3>5. \A v, w \in Thread : thread'[w] = "ended" /\ v < w => thread'[v] = "ended"
            BY <1>1, <1>2, <3>2, <3>3 DEF ThreadInv
        <3>6. QED
            BY <1>5, <1>4, <3>2, <3>3, <3>4, <3>5 DEF ThreadInv
    <2>3. CASE AwaitAnswer(r)
        BY <1>5, <1>3, <1>4, <2>3 DEF AwaitAnswer, Woken
    <2>4. QED
        BY <1>5, <2>1, <2>2, <2>3, WaitsOfEnqueue
<1>6. ASSUME NEW r \in Request, WaitCompletion(r) PROVE ThreadInv'
    BY <1>6, <1>3 DEF WaitCompletion, ThreadInv, TypeInv
<1>7. ASSUME NEW w \in Thread, ThreadStart(w) PROVE ThreadInv'
    BY <1>7, <1>3 DEF ThreadStart, Step, ThreadInv, TypeInv
<1>8. ASSUME NEW w \in Thread, Respond(w) PROVE ThreadInv'
    <2>1. user[enq] = "resp"
        BY <1>8, Steps DEF Respond, Step, WorkInv
    <2>2. QED
        BY <1>8, <1>3, <2>1 DEF Respond, Step, ThreadInv, TypeInv
<1>9. ASSUME NEW w \in Thread, Finish(w) PROVE ThreadInv'
    BY <1>9, <1>3 DEF Finish, Step, ThreadInv, TypeInv
<1>10. ASSUME NEW w \in Thread, Join(w) PROVE ThreadInv'
    <2>1. \A x \in Thread : thread'[x] = IF x = w THEN "ended" ELSE thread[x]
        BY <1>10 DEF Join, Step, TypeInv
    <2>2. \A v \in Thread : v < w => thread[v] = "ended"
        <3>1. ASSUME NEW v \in Thread, v < w PROVE thread[v] = "ended"
            <4>1. w - 1 \in Thread /\ v <= w - 1
                BY <3>1, Finite
            <4>2. thread[w - 1] = "ended"
                BY <1>10, <4>1 DEF Join, Joined
            <4>3. QED
                BY <1>1, <4>1, <4>2 DEF ThreadInv
        <3>2. QED
            BY <3>1
    <2>3. UNCHANGED <<made, enq, user>> /\ thread[w] = "joining"
        BY <1>10 DEF Join, Step
    <2>4. QED
        BY <1>1, <2>1, <2>2, <2>3 DEF ThreadInv
<1>11. ASSUME NEW w \in Thread, TimeOut(w) PROVE ThreadInv'
    BY <1>11, <1>3 DEF TimeOut, Step, ThreadInv, TypeInv
<1>12. ASSUME NEW w \in Thread, Take(w) PROVE ThreadInv'
    BY <1>12, <1>3 DEF Take, Step, ThreadInv, TypeInv
<1>13. ASSUME NEW w \in Thread, Exit(w) PROVE ThreadInv'
    BY <1>13, <1>3 DEF Exit, Step, ThreadInv, TypeInv
<1>14. ASSUME NEW w \in Thread, Leave(w) PROVE ThreadInv'
    BY <1>14, <1>3 DEF Leave, Step, ThreadInv, TypeInv
<1>15. ASSUME NEW w \in Thread, NotifyAll(w) PROVE ThreadInv'
    BY <1>15, <1>3 DEF NotifyAll, Step, ThreadInv, TypeInv
<1>16. CASE Destroy \/ DtorCheck \/ DtorWait \/ DtorJoin
    BY <1>16 DEF Destroy, DtorCheck, DtorWait, DtorJoin, DtorStep, ThreadInv
<1>17. QED
    BY Steps, <1>1, <1>2, <1>3, <1>4, <1>5, <1>6, <1>7, <1>8, <1>9, <1>10,
       <1>11, <1>12, <1>13, <1>14, <1>15, <1>16 DEF ThreadNext

(* The destructor is called when all users are done, and returns when the  *)
(* last thread has ended, which has waited for the one before.             *)
LEMMA NextDtorInv == ASSUME PoolInv, Next PROVE DtorInv'
<1> USE DEF PoolInv
<1>1. ASSUME NEW w \in Thread, thread[w] \notin {"none", "ended"} PROVE dtor # "gone"
    BY <1>1 DEF DtorInv, NoThreadOutlivesPool
<1>2. ASSUME dtor # "gone", UNCHANGED made,
             dtor' = dtor \/ (dtor = "wait" /\ dtor' = "check"),
             \A r \in Request : user[r] = "over" => user'[r] = "over"
      PROVE  DtorInv'
    BY <1>2 DEF DtorInv, NoThreadOutlivesPool
<1>3. ASSUME NEW r \in Request, Enqueue(r) \/ UserNext(r) PROVE DtorInv'
    <2>1. dtor = "none" /\ dtor' = dtor
        BY <1>3, CallsOfEnqueue DEF DtorInv
    <2>2. QED
        BY <2>1 DEF DtorInv, NoThreadOutlivesPool
<1>4. ASSUME NEW r \in Request, WaitCompletion(r) PROVE DtorInv'
    <2>1. dtor = "none" /\ dtor' = dtor
        BY <1>4 DEF WaitCompletion, DtorInv
    <2>2. QED
        BY <2>1 DEF DtorInv, NoThreadOutlivesPool
<1>5. ASSUME NEW w \in Thread, ThreadStart(w) PROVE DtorInv'
    <2>1. user[enq] = "init"
        BY <1>5 DEF ThreadStart, Step, ThreadInv
    <2>2. QED
        BY <1>5, <1>2, <1>1, <2>1 DEF ThreadStart, Step, TypeInv
<1>6. ASSUME NEW w \in Thread, Respond(w) PROVE DtorInv'
    <2>1. user[enq] = "resp"
        BY <1>6, Steps DEF Respond, Step, WorkInv
    <2>2. QED
        BY <1>6, <1>2, <1>1, <2>1 DEF Respond, Step, TypeInv
<1>7. ASSUME NEW w \in Thread, TimeOut(w) PROVE DtorInv'
    BY <1>7, <1>2, <1>1 DEF TimeOut, Step
<1>8. ASSUME NEW w \in Thread, Take(w) PROVE DtorInv'
    BY <1>8, <1>2, <1>1 DEF Take, Step
<1>9. ASSUME NEW w \in Thread, Finish(w) PROVE DtorInv'
    BY <1>9, <1>2, <1>1 DEF Finish, Step
<1>10. ASSUME NEW w \in Thread, Exit(w) PROVE DtorInv'
    BY <1>10, <1>2, <1>1 DEF Exit, Step
<1>11. ASSUME NEW w \in Thread, Leave(w) PROVE DtorInv'
    BY <1>11, <1>2, <1>1 DEF Leave, Step
<1>12. ASSUME NEW w \in Thread, Join(w) PROVE DtorInv'
    BY <1>12, <1>2, <1>1 DEF Join, Step
<1>13. ASSUME NEW w \in Thread, NotifyAll(w) PROVE DtorInv'
    BY <1>13, <1>2, <1>1 DEF NotifyAll, WakeDtor
<1>14. CASE Destroy
    <2>1. UNCHANGED <<user, made, thread>> /\ \A r \in Request : user[r] = "over"
        BY <1>14 DEF Destroy, DtorStep
    <2>2. CASE made = 0
        <3>1. \A w \in Thread : thread[w] = "none"
            BY <2>2, Finite DEF ThreadInv
        <3>2. QED
            BY <1>14, <2>1, <2>2, <3>1 DEF Destroy, DtorStep, DtorInv,
               NoThreadOutlivesPool
    <2>3. CASE made # 0
        BY <1>14, <2>1, <2>3 DEF Destroy, DtorStep, DtorInv,
           NoThreadOutlivesPool, MadeInv
    <2>4. QED
        BY <2>2, <2>3
<1>15. CASE DtorCheck \/ DtorWait
    BY <1>15 DEF DtorCheck, DtorWait, DtorStep, DtorInv, NoThreadOutlivesPool
<1>16. CASE DtorJoin
    <2>1. made \in Thread /\ thread[made] = "ended"
        <3>1. made > 0 /\ thread[made] = "ended"
            BY <1>16 DEF DtorJoin, DtorStep, DtorInv
        <3>2. made \in Nat /\ made <= Cardinality(Given)
            BY DEF MadeInv
        <3>3. QED
            BY <3>1, <3>2, FiniteSubsets, Finite
    <2>2. \A w \in Thread : thread[w] \in {"none", "ended"}
        BY <2>1, Finite DEF ThreadInv, MadeInv
    <2>3. QED
        BY <1>16, <2>2 DEF DtorJoin, DtorStep, DtorInv, NoThreadOutlivesPool
<1>17. QED
    BY Steps, <1>1, <1>2, <1>3, <1>4, <1>5, <1>6, <1>7, <1>8, <1>9, <1>10,
       <1>11, <1>12, <1>13, <1>14, <1>15, <1>16 DEF ThreadNext
-----------------------------------------------------------------------------
(* As long as no empty task was taken.                                     *)

(* The task that lies ready, and who has put it there.                     *)
LEMMA NextHandInv == ASSUME PoolInv, Next, ~aborted' PROVE HandInv'
<1> USE DEF PoolInv
<1>1. HandInv /\ WorkInv
    BY Steps
<1>2. {"cont", "continue", "init", "inited"} = Waits /\ Waits \subseteq Inside
      /\ "resp" \notin Waits
    BY DEF Waits, Inside
<1>3. NumThrds \in Int /\ occupied \in Int
    BY PoolAssumption DEF TypeInv
<1>4. ASSUME UNCHANGED <<enq, given, task, newWork, occupied>>,
             \A r \in Request : /\ user[r] = "resp" => user'[r] = "resp"
                                /\ user'[r] \in Waits => user[r] \in Waits
                                /\ user'[r] \in Waits \ {"cont"} => user[r] \in Waits \ {"cont"}
      PROVE  HandInv'
    BY <1>4, <1>1 DEF HandInv
<1>5. ASSUME NEW r \in Request, Enqueue(r) \/ UserNext(r) PROVE HandInv'
    <2>1. /\ occupied' = occupied /\ enq' = r /\ enq \in {r, None}
          /\ enq = r => user[r] \in {"continue", "inited"}
        BY <1>5, CallsOfEnqueue, TaskNotNone
    <2>2. newWork'
        <3>1. CASE user[r] \in {"continue", "inited"} /\ UNCHANGED newWork
            <4>1. newWork
                BY <1>1, <1>2, <3>1 DEF HandInv
            <4>2. QED
                BY <3>1, <4>1
        <3>2. QED
            BY <1>5, <3>1, CallsOfEnqueue
    <2>3. task = None
        BY <1>1, <2>1, TaskNotNone DEF HandInv
    <2>4. \A q \in Request \ {r} : user'[q] = user[q] /\ user[q] \notin Waits
        <3>1. \A q \in Request \ {r} : user'[q] = user[q]
            BY <1>5, WaitsOfEnqueue DEF AwaitRoom, AwaitThread, AwaitAnswer, TypeInv
        <3>2. \A q \in Request \ {r} : user[q] \notin Waits
            BY <1>2, <2>1, TaskNotNone DEF UserInv
        <3>3. QED
            BY <3>1, <3>2
    <2>5. ASSUME (Enqueue(r) /\ ~PoolFull) \/ Continue(r) \/ Inited(r)
          PROVE  occupied < NumThrds
        <3>1. CASE ~PoolFull
            BY <1>1, <1>3, <3>1 DEF HandInv, PoolFull
        <3>2. CASE Continue(r) \/ Inited(r)
            BY <1>1, <1>2, <3>2 DEF HandInv, Continue, Inited
        <3>3. QED
            BY <2>5, <3>1, <3>2
    <2>6. CASE AwaitRoom(r)
        <3>1. user'[r] = "cont" /\ task' = None
            BY <2>6, <2>3 DEF AwaitRoom, TypeInv
        <3>2. QED
            BY <1>1, <2>1, <2>2, <2>4, <3>1, TaskNotNone DEF HandInv
    <2>7. CASE AwaitThread(r)
        <3>1. user'[r] = "init" /\ task' = None /\ occupied < NumThrds
            BY <2>7, <2>3, <2>5 DEF AwaitThread, TypeInv
        <3>2. QED
            BY <1>1, <2>1, <2>2, <2>4, <3>1, TaskNotNone DEF HandInv
    <2>8. CASE AwaitAnswer(r)
        <3>1. user'[r] = "resp" /\ task' = <<r, given'[r]>> /\ occupied < NumThrds
            BY <2>8, <2>5 DEF AwaitAnswer, TypeInv
        <3>2. QED
            BY <1>1, <1>2, <2>1, <2>2, <2>4, <3>1, TaskNotNone DEF HandInv
    <2>9. QED
        BY <1>5, <2>6, <2>7, <2>8, WaitsOfEnqueue
<1>6. ASSUME NEW r \in Request, WaitCompletion(r) PROVE HandInv'
    BY <1>6, <1>4, <1>2 DEF WaitCompletion, TypeInv
<1>7. ASSUME NEW w \in Thread, ThreadStart(w) PROVE HandInv'
    <2>1. enq \in Request /\ user[enq] = "init"
        BY <1>7 DEF ThreadStart, Step, ThreadInv
    <2>2. QED
        BY <1>7, <1>4, <1>2, <2>1 DEF ThreadStart, TypeInv
<1>8. ASSUME NEW w \in Thread, Take(w) PROVE HandInv'
    <2>1. task # None
        BY <1>8 DEF Take
    <2>2. enq \in Request /\ user[enq] = "resp" /\ occupied < NumThrds
        BY <1>1, <2>1 DEF HandInv
    <2>3. \A r \in Request : user[r] \notin Waits
        BY <1>2, <2>2 DEF UserInv
    <2>4. UNCHANGED <<enq, user, given>> /\ newWork' = FALSE /\ occupied' = occupied + 1
          /\ task' = None
        BY <1>8 DEF Take
    <2>5. QED
        BY <1>3, <2>2, <2>3, <2>4 DEF HandInv
<1>9. ASSUME NEW w \in Thread, Respond(w) PROVE HandInv'
    <2>1. enq \in Request /\ ~newWork
        BY <1>9, <1>1 DEF Respond, Step, WorkInv
    <2>2. task = None
        BY <1>1, <2>1 DEF HandInv
    <2>3. \A r \in Request : user'[r] \notin Waits
        BY <1>9, <1>2, <2>1 DEF Respond, UserInv, TypeInv
    <2>4. QED
        BY <1>9, <1>1, <2>1, <2>2, <2>3 DEF Respond, HandInv
<1>10. ASSUME NEW w \in Thread, Finish(w) PROVE HandInv'
    <2>1. /\ UNCHANGED <<enq, given, task, newWork>> /\ occupied' = occupied - 1
          /\ \A r \in Request : \/ user'[r] = user[r]
                                \/ /\ user[r] = "cont" /\ user'[r] = "continue"
                                   /\ occupied' = NumThrds - 1
        BY <1>10 DEF Finish, HasRoom
    <2>2. occupied' < NumThrds
        BY <1>1, <1>3, <2>1 DEF HandInv
    <2>3. task # None => enq \in Request /\ user'[enq] = "resp"
        BY <1>1, <2>1 DEF HandInv
    <2>4. \A r \in Request : user'[r] \in Waits => user[r] \in Waits
        BY <1>2, <2>1
    <2>5. QED
        BY <1>1, <1>3, <2>1, <2>2, <2>3, <2>4 DEF HandInv
<1>11. ASSUME NEW w \in Thread, TimeOut(w) PROVE HandInv'
    BY <1>11, <1>4 DEF TimeOut
<1>12. ASSUME NEW w \in Thread, Exit(w) PROVE HandInv'
    BY <1>12, <1>4 DEF Exit
<1>13. ASSUME NEW w \in Thread, Leave(w) PROVE HandInv'
    BY <1>13, <1>4 DEF Leave
<1>14. ASSUME NEW w \in Thread, NotifyAll(w) PROVE HandInv'
    BY <1>14, <1>4 DEF NotifyAll
<1>15. ASSUME NEW w \in Thread, Join(w) PROVE HandInv'
    BY <1>15, <1>4 DEF Join
<1>16. CASE Destroy \/ DtorCheck \/ DtorWait \/ DtorJoin
    BY <1>16, <1>4 DEF Destroy, DtorCheck, DtorWait, DtorJoin, DtorStep
<1>17. QED
    BY Steps, <1>1, <1>2, <1>3, <1>4, <1>5, <1>6, <1>7, <1>8, <1>9, <1>10,
       <1>11, <1>12, <1>13, <1>14, <1>15, <1>16 DEF ThreadNext
(* enqueue gives no thread a task and takes none away, and nobody has      *)
(* taken the task it is about to put down.                                 *)
LEMMA EnqueueThreads ==
    ASSUME PoolInv, ~aborted, NEW r \in Request, Enqueue(r) \/ UserNext(r),
           NEW w \in Thread
    PROVE  /\ thread[w] # "taken" /\ thread'[w] # "taken"
           /\ thread'[w] = "running" <=> thread[w] = "running"
<1> USE DEF PoolInv
<1>1. thread[w] # "taken"
    BY CallsOfEnqueue, TaskNotNone DEF WorkInv
<1>2. CASE AwaitThread(r)
    <2>1. CASE w = made + 1
        <3>1. thread[w] = "none"
            BY <2>1 DEF ThreadInv, MadeInv
        <3>2. QED
            BY <1>2, <2>1, <3>1 DEF AwaitThread, TypeInv
    <2>2. CASE w # made + 1
        BY <1>1, <1>2, <2>2 DEF AwaitThread, TypeInv
    <2>3. QED
        BY <2>1, <2>2
<1>3. QED
    BY <1>1, <1>2, WaitsOfEnqueue DEF AwaitRoom, AwaitAnswer, Woken

(* Tasks and the threads that have them.                                   *)
LEMMA NextWorkInv == ASSUME PoolInv, Next, ~aborted' PROVE WorkInv'
<1> USE DEF PoolInv
<1>1. HandInv /\ WorkInv /\ ~aborted
    BY Steps
<1>2. ASSUME NEW w \in Thread, work[w] # None
      PROVE  /\ work[w] \in Task /\ work[w][1] \in Request /\ work[w][2] \in Nat
             /\ given[work[w][1]] \in Nat
    <2>1. work[w] \in Task
        BY <1>2 DEF TypeInv
    <2>2. work[w][1] \in Request /\ work[w][2] \in 1 .. MaxTasks
        BY <2>1 DEF Task
    <2>3. QED
        BY <2>1, <2>2 DEF TypeInv
<1>3. ASSUME UNCHANGED <<enq, given, newWork, work>>,
             user[enq] = "resp" => user'[enq] = "resp",
             \A w \in Thread : /\ thread'[w] = "taken" <=> thread[w] = "taken"
                               /\ thread'[w] = "running" <=> thread[w] = "running"
      PROVE  WorkInv'
    <2>1. Occupied' = Occupied
        BY <1>3 DEF Occupied
    <2>2. QED
        BY <1>1, <1>3, <2>1 DEF WorkInv
<1>4. ASSUME NEW r \in Request, Enqueue(r) \/ UserNext(r) PROVE WorkInv'
    <2>1. \A w \in Thread : /\ thread[w] # "taken" /\ thread'[w] # "taken"
                            /\ thread'[w] = "running" <=> thread[w] = "running"
        BY <1>1, <1>4, EnqueueThreads
    <2>2. Occupied' = Occupied /\ work' = work /\ enq' = r
        BY <1>4, <2>1, CallsOfEnqueue DEF Occupied
    <2>3. CASE enq = None /\ given' = [given EXCEPT ![r] = @ + 1]
        <3>1. ASSUME NEW w \in Thread, work[w] # None
              PROVE  work[w][2] <= given'[work[w][1]] /\ (work[w][1] = r => work[w][2] < given'[r])
            <4>1. work[w][2] <= given[work[w][1]]
                BY <1>1, <3>1 DEF WorkInv
            <4>2. CASE work[w][1] = r
                <5>1. given'[r] = given[r] + 1
                    BY <2>3 DEF TypeInv
                <5>2. QED
                    BY <1>2, <3>1, <4>1, <4>2, <5>1
            <4>3. CASE work[w][1] # r
                BY <1>2, <2>3, <3>1, <4>1, <4>3 DEF TypeInv
            <4>4. QED
                BY <4>2, <4>3
        <3>2. \A w \in Thread : thread'[w] = "running" =>
                                  ~(work[w][1] = r /\ work[w][2] = given'[r])
            <4>1. ASSUME NEW w \in Thread, thread'[w] = "running"
                  PROVE  ~(work[w][1] = r /\ work[w][2] = given'[r])
                <5>1. work[w] # None
                    BY <1>1, <2>1, <4>1, WorkerHasTask
                <5>2. given'[r] \in Nat
                    BY NextTypeInv DEF TypeInv
                <5>3. QED
                    BY <1>2, <3>1, <5>1, <5>2
            <4>2. QED
                BY <4>1
        <3>3. QED
            BY <1>1, <2>1, <2>2, <3>1, <3>2 DEF WorkInv
    <2>4. CASE enq = r /\ given' = given
        BY <1>1, <2>1, <2>2, <2>4 DEF WorkInv
    <2>5. QED
        BY <1>4, <2>3, <2>4, CallsOfEnqueue
<1>5. ASSUME NEW r \in Request, WaitCompletion(r) PROVE WorkInv'
    BY <1>5, <1>3 DEF WaitCompletion, TypeInv
<1>6. ASSUME NEW w \in Thread, ThreadStart(w) PROVE WorkInv'
    <2>1. enq \in Request /\ user[enq] = "init"
        BY <1>6 DEF ThreadStart, Step, ThreadInv
    <2>2. QED
        BY <1>6, <1>3, <2>1 DEF ThreadStart, Step, TypeInv
<1>7. ASSUME NEW w \in Thread, Take(w) PROVE WorkInv'
    <2>1. task # None /\ newWork
        BY <1>7 DEF Take
    <2>2. enq \in Request /\ user[enq] = "resp" /\ task = <<enq, given[enq]>>
        BY <1>1, <2>1 DEF HandInv
    <2>3. /\ UNCHANGED <<enq, user, given>> /\ ~newWork' /\ thread[w] = "notified"
          /\ \A v \in Thread : thread'[v] = IF v = w THEN "taken" ELSE thread[v]
          /\ \A v \in Thread : work'[v] = IF v = w THEN task ELSE work[v]
        BY <1>7 DEF Take, Step, TypeInv
    <2>4. \A v \in Thread : thread[v] # "taken"
        BY <1>1, <2>1 DEF WorkInv
    <2>5. \A v \in Thread : work[v] # task
        BY <1>1, <2>1, <2>2, <2>4 DEF WorkInv, Occupied
    <2>6. Occupied' = Occupied \cup {w}
        BY <2>3 DEF Occupied
    <2>7. \A v \in Thread : work'[v] # None <=> v \in Occupied'
        BY <1>1, <2>1, <2>3, <2>6 DEF WorkInv
    <2>8. given[enq] \in Nat
        BY <2>2 DEF TypeInv
    <2>9. \A v \in Thread : work'[v] # None => work'[v][2] <= given'[work'[v][1]]
        BY <1>1, <2>2, <2>3, <2>8 DEF WorkInv
    <2>10. \A u, v \in Thread : work'[u] = work'[v] /\ work'[u] # None => u = v
        BY <1>1, <2>3, <2>5 DEF WorkInv
    <2>11. \A v \in Thread : thread'[v] = "running" =>
                              ~(work'[v][1] = enq' /\ work'[v][2] = given'[enq'])
        BY <1>1, <2>3 DEF WorkInv
    <2>12. \A v \in Thread : thread'[v] = "taken" =>
                              /\ ~newWork' /\ enq' \in Request /\ user'[enq'] = "resp"
                              /\ work'[v] = <<enq', given'[enq']>>
        BY <2>2, <2>3, <2>4
    <2>13. QED
        BY <2>7, <2>9, <2>10, <2>11, <2>12 DEF WorkInv
<1>8. ASSUME NEW w \in Thread, Respond(w) PROVE WorkInv'
    <2>1. /\ UNCHANGED <<given, work>> /\ enq' = None /\ thread[w] = "taken"
          /\ \A v \in Thread : thread'[v] = IF v = w THEN "running" ELSE thread[v]
        BY <1>8 DEF Respond, Step, TypeInv
    <2>2. Occupied' = Occupied
        BY <2>1 DEF Occupied
    <2>3. \A v \in Thread : thread[v] = "taken" => v = w
        <3>1. ASSUME NEW v \in Thread, thread[v] = "taken" PROVE v = w
            <4>1. work[v] = work[w] /\ work[v] # None
                BY <1>1, <2>1, <3>1 DEF WorkInv, Occupied
            <4>2. QED
                BY <1>1, <4>1 DEF WorkInv
        <3>2. QED
            BY <3>1
    <2>4. \A v \in Thread : thread'[v] # "taken"
        BY <2>1, <2>3
    <2>5. \A v \in Thread : thread'[v] = "running" => work[v][1] # None
        BY <1>1, <2>1, WorkerHasTask, TaskNotNone
    <2>6. QED
        BY <1>1, <2>1, <2>2, <2>4, <2>5 DEF WorkInv
<1>9. ASSUME NEW w \in Thread, Finish(w) PROVE WorkInv'
    <2>1. /\ UNCHANGED <<enq, given, newWork>> /\ thread[w] = "running"
          /\ \A v \in Thread : thread'[v] = IF v = w THEN "waiting" ELSE thread[v]
          /\ \A v \in Thread : work'[v] = IF v = w THEN None ELSE work[v]
        BY <1>9 DEF Finish, Step, TypeInv
    <2>2. Occupied' = Occupied \ {w}
        BY <2>1 DEF Occupied
    <2>3. \A r \in Request : user[r] = "resp" => user'[r] = "resp"
        BY <1>9 DEF Finish
    <2>4. \A v \in Thread : thread'[v] = "taken" =>
                              /\ ~newWork' /\ enq' \in Request /\ user'[enq'] = "resp"
                              /\ work'[v] = <<enq', given'[enq']>>
        BY <1>1, <2>1, <2>3 DEF WorkInv
    <2>5. QED
        BY <1>1, <2>1, <2>2, <2>4 DEF WorkInv
<1>10. ASSUME NEW w \in Thread, TimeOut(w) PROVE WorkInv'
    BY <1>10, <1>3 DEF TimeOut, Step, TypeInv
<1>11. ASSUME NEW w \in Thread, Exit(w) PROVE WorkInv'
    BY <1>11, <1>3 DEF Exit, Step, TypeInv
<1>12. ASSUME NEW w \in Thread, Leave(w) PROVE WorkInv'
    BY <1>12, <1>3 DEF Leave, Step, TypeInv
<1>13. ASSUME NEW w \in Thread, NotifyAll(w) PROVE WorkInv'
    BY <1>13, <1>3 DEF NotifyAll, Step, TypeInv
<1>14. ASSUME NEW w \in Thread, Join(w) PROVE WorkInv'
    BY <1>14, <1>3 DEF Join, Step, TypeInv
<1>15. CASE Destroy \/ DtorCheck \/ DtorWait \/ DtorJoin
    BY <1>15, <1>3 DEF Destroy, DtorCheck, DtorWait, DtorJoin, DtorStep
<1>16. QED
    BY Steps, <1>1, <1>2, <1>3, <1>4, <1>5, <1>6, <1>7, <1>8, <1>9, <1>10,
       <1>11, <1>12, <1>13, <1>14, <1>15 DEF ThreadNext
(* occupied and num_jobs count the threads that work.                      *)
LEMMA NextCountInv == ASSUME PoolInv, Next, ~aborted' PROVE CountInv'
<1> USE DEF PoolInv
<1>1. HandInv /\ WorkInv /\ CountInv /\ ~aborted
    BY Steps
<1>2. ASSUME UNCHANGED <<occupied, numJobs, work>>,
             \A w \in Thread : thread'[w] \in {"taken", "running"} <=>
                               thread[w] \in {"taken", "running"}
      PROVE  CountInv'
    <2>1. Occupied' = Occupied
        BY <1>2 DEF Occupied
    <2>2. \A r \in Request : WorksFor(r)' = WorksFor(r)
        BY <1>2 DEF WorksFor
    <2>3. QED
        BY <1>1, <1>2, <2>1, <2>2 DEF CountInv
<1>3. ASSUME NEW r \in Request, Enqueue(r) \/ UserNext(r) PROVE CountInv'
    <2>1. \A w \in Thread : /\ thread[w] # "taken" /\ thread'[w] # "taken"
                            /\ thread'[w] = "running" <=> thread[w] = "running"
        BY <1>1, <1>3, EnqueueThreads
    <2>2. QED
        BY <1>3, <1>2, <2>1, CallsOfEnqueue
<1>4. ASSUME NEW r \in Request, WaitCompletion(r) PROVE CountInv'
    BY <1>4, <1>2 DEF WaitCompletion
<1>5. ASSUME NEW w \in Thread, Take(w) PROVE CountInv'
    <2>1. PICK q \in Request : task # None /\ task[1] = q
        BY <1>5 DEF Take, TypeInv, Task
    <2>2. /\ occupied' = occupied + 1 /\ thread[w] = "notified"
          /\ numJobs' = [numJobs EXCEPT ![task[1]] = @ + 1]
          /\ \A v \in Thread : thread'[v] = IF v = w THEN "taken" ELSE thread[v]
          /\ \A v \in Thread : work'[v] = IF v = w THEN task ELSE work[v]
        BY <1>5, <2>1 DEF Take, Step, TypeInv
    <2>3. Occupied' = Occupied \cup {w} /\ w \notin Occupied
        BY <2>2 DEF Occupied
    <2>4. work[w] = None
        BY <1>1, <2>3 DEF WorkInv
    <2>5. /\ WorksFor(q)' = WorksFor(q) \cup {w} /\ w \notin WorksFor(q)
          /\ \A r \in Request \ {q} : WorksFor(r)' = WorksFor(r)
        BY <2>1, <2>2, <2>4 DEF WorksFor
    <2>6. Cardinality(Occupied') = Cardinality(Occupied) + 1
        BY <2>3, FS_AddElement, FiniteSubsets
    <2>7. Cardinality(WorksFor(q)') = Cardinality(WorksFor(q)) + 1
        BY <2>5, FS_AddElement, FiniteSubsets
    <2>8. \A r \in Request : numJobs'[r] = Cardinality(WorksFor(r)')
        <3>1. \A r \in Request : numJobs'[r] = IF r = q THEN numJobs[r] + 1 ELSE numJobs[r]
            BY <2>1, <2>2 DEF TypeInv
        <3>2. QED
            BY <1>1, <2>5, <2>7, <3>1 DEF CountInv
    <2>9. QED
        BY <1>1, <2>2, <2>6, <2>8 DEF CountInv
<1>6. ASSUME NEW w \in Thread, Finish(w) PROVE CountInv'
    <2>1. /\ occupied' = occupied - 1 /\ thread[w] = "running"
          /\ numJobs' = [numJobs EXCEPT ![work[w][1]] = @ - 1]
          /\ \A v \in Thread : thread'[v] = IF v = w THEN "waiting" ELSE thread[v]
          /\ \A v \in Thread : work'[v] = IF v = w THEN None ELSE work[v]
        BY <1>6 DEF Finish, Step, TypeInv
    <2>2. PICK q \in Request : work[w] # None /\ work[w][1] = q
        BY <1>1, <2>1, WorkerHasTask
    <2>3. Occupied' = Occupied \ {w} /\ w \in Occupied
        BY <2>1 DEF Occupied
    <2>4. /\ WorksFor(q)' = WorksFor(q) \ {w} /\ w \in WorksFor(q)
          /\ \A r \in Request \ {q} : WorksFor(r)' = WorksFor(r)
        BY <2>1, <2>2 DEF WorksFor
    <2>5. Cardinality(Occupied') = Cardinality(Occupied) - 1
        BY <2>3, FS_RemoveElement, FiniteSubsets
    <2>6. Cardinality(WorksFor(q)') = Cardinality(WorksFor(q)) - 1
        BY <2>4, FS_RemoveElement, FiniteSubsets
    <2>7. \A r \in Request : numJobs'[r] = Cardinality(WorksFor(r)')
        BY <1>1, <2>1, <2>2, <2>4, <2>6 DEF CountInv, TypeInv
    <2>8. QED
        BY <1>1, <2>1, <2>5, <2>7 DEF CountInv
<1>7. ASSUME NEW w \in Thread, ThreadStart(w) PROVE CountInv'
    BY <1>7, <1>2 DEF ThreadStart, Step, TypeInv
<1>8. ASSUME NEW w \in Thread, TimeOut(w) PROVE CountInv'
    BY <1>8, <1>2 DEF TimeOut, Step, TypeInv
<1>9. ASSUME NEW w \in Thread, Respond(w) PROVE CountInv'
    BY <1>9, <1>2 DEF Respond, Step, TypeInv
<1>10. ASSUME NEW w \in Thread, Exit(w) PROVE CountInv'
    BY <1>10, <1>2 DEF Exit, Step, TypeInv
<1>11. ASSUME NEW w \in Thread, Leave(w) PROVE CountInv'
    BY <1>11, <1>2 DEF Leave, Step, TypeInv
<1>12. ASSUME NEW w \in Thread, NotifyAll(w) PROVE CountInv'
    BY <1>12, <1>2 DEF NotifyAll, Step, TypeInv
<1>13. ASSUME NEW w \in Thread, Join(w) PROVE CountInv'
    BY <1>13, <1>2 DEF Join, Step, TypeInv
<1>14. CASE Destroy \/ DtorCheck \/ DtorWait \/ DtorJoin
    BY <1>14, <1>2 DEF Destroy, DtorCheck, DtorWait, DtorJoin, DtorStep
<1>15. QED
    BY Steps, <1>1, <1>2, <1>3, <1>4, <1>5, <1>6, <1>7, <1>8, <1>9, <1>10,
       <1>11, <1>12, <1>13, <1>14 DEF ThreadNext

(* The inductive invariant.                                                *)
LEMMA PoolInvAlways == Spec => []PoolInv
<1>1. PoolInv /\ [Next]_vars => PoolInv'
    <2>1. ASSUME PoolInv, Next PROVE PoolInv'
        BY <2>1, NextTypeInv, NextUserInv, NextMadeInv, NextThreadInv, NextDtorInv,
           NextHandInv, NextWorkInv, NextCountInv DEF PoolInv
    <2>2. ASSUME PoolInv, UNCHANGED vars PROVE PoolInv'
        BY <2>2 DEF vars, PoolInv, TypeInv, UserInv, MadeInv, Given, ThreadInv,
           DtorInv,
                    NoThreadOutlivesPool, HandInv, WorkInv, CountInv, Occupied, WorksFor
    <2>3. QED
        BY <2>1, <2>2
<1>2. QED
    BY <1>1, InitPoolInv, PTL DEF Spec

(* When the destructor has returned no thread of the pool is left, however *)
(* many were made and in whatever order they came to leave.                *)
THEOREM NoThreadOutlivesPoolAlways == Spec => []NoThreadOutlivesPool
<1>1. PoolInv => NoThreadOutlivesPool
    BY DEF PoolInv, DtorInv
<1>2. QED
    BY <1>1, PoolInvAlways, PTL
-----------------------------------------------------------------------------
(* The pool implements TaskPool.                                           *)

Returned == {t \in Task : t[2] <= given[t[1]] /\ ~(t[1] = enq /\ t[2] = given[enq])}
Over == {r \in Request : user[r] = "over"}

(* The steps of TaskPool, in terms of the state of each task.              *)
SetState(u, s) ==
    \A t \in Task : TaskState(t)' = IF t = u THEN s ELSE TaskState(t)

(* A step is a step of TaskPool under the refinement mapping.              *)
Mapped == Users!Next \/ UNCHANGED <<[t \in Task |-> TaskState(t)], Returned, Over>>

(* A step that changes nothing the pool's users see.                       *)
LEMMA AbstractStutter ==
    ASSUME \A t \in Task : TaskState(t)' = TaskState(t), Returned' = Returned, Over' = Over
    PROVE  Mapped
BY DEF Mapped

(* A task is given to the pool.                                            *)
LEMMA AbstractEnqueue ==
    ASSUME NEW u \in Task, TaskState(u) = "new", u[1] \notin Over, SetState(u, "given"),
           Returned' = Returned, Over' = Over
    PROVE  Mapped
<1>1. Users!Enqueue(u)
    BY DEF Users!Enqueue, SetState, Returned, Over
<1>2. QED
    BY <1>1 DEF Mapped, Users!Next, Users!Task, Task

(* A thread starts a task, and fewer than numThreads ran before.           *)
LEMMA AbstractStart ==
    ASSUME NEW u \in Task, TaskState(u) = "given", SetState(u, "running"),
           Cardinality({t \in Task : TaskState(t) = "running"}) < NumThrds,
           Returned' = Returned, Over' = Over
    PROVE  Mapped
<1>1. {t \in Users!Task : [x \in Task |-> TaskState(x)][t] = "running"}
         = {t \in Task : TaskState(t) = "running"}
    BY DEF Users!Task, Task
<1>2. Users!Cardinality({t \in Users!Task : [x \in Task |-> TaskState(x)][t] = "running"}) < NumThrds
    BY <1>1 DEF Users!Cardinality, Cardinality, Users!IsFiniteSet, IsFiniteSet
<1>3. UNCHANGED <<Returned, Over>>
    OBVIOUS
<1>4. [t \in Task |-> TaskState(t)]' = [[t \in Task |-> TaskState(t)] EXCEPT ![u] = "running"]
    BY DEF SetState
<1>5. [t \in Task |-> TaskState(t)][u] = "given"
    OBVIOUS
<1>6. Users!Start(u)
    BY <1>2, <1>3, <1>4, <1>5 DEF Users!Start, Returned, Over
<1>7. QED
    BY <1>6 DEF Mapped, Users!Next, Users!Task, Task

(* enqueue returns to its caller.                                          *)
LEMMA AbstractReturn ==
    ASSUME NEW u \in Task, TaskState(u) \in {"running", "done"}, u \notin Returned,
           \A t \in Task : TaskState(t)' = TaskState(t),
           Returned' = Returned \cup {u}, Over' = Over
    PROVE  Mapped
<1>1. Users!Return(u)
    BY DEF Users!Return, Returned, Over
<1>2. QED
    BY <1>1 DEF Mapped, Users!Next, Users!Task, Task

(* A task ends.                                                            *)
LEMMA AbstractFinish ==
    ASSUME NEW u \in Task, TaskState(u) = "running", SetState(u, "done"),
           Returned' = Returned, Over' = Over
    PROVE  Mapped
<1>1. Users!Finish(u)
    BY DEF Users!Finish, SetState, Returned, Over
<1>2. QED
    BY <1>1 DEF Mapped, Users!Next, Users!Task, Task

(* waitCompletion returns: all tasks of its request have ended.            *)
LEMMA AbstractWaitCompletion ==
    ASSUME NEW r \in Request, r \notin Over,
           \A t \in Task : t[1] = r => TaskState(t) \in {"new", "done"},
           \A t \in Task : TaskState(t)' = TaskState(t),
           Returned' = Returned, Over' = Over \cup {r}
    PROVE  Mapped
<1>1. Users!WaitCompletion(r)
    BY DEF Users!WaitCompletion, Users!Task, Task, Returned, Over
<1>2. QED
    BY <1>1 DEF Mapped, Users!Next
(* What the parts of a task are.                                           *)
LEMMA TaskParts ==
    ASSUME TypeInv, NEW t \in Task
    PROVE  /\ t = <<t[1], t[2]>> /\ t[1] \in Request /\ t[2] \in 1 .. MaxTasks
           /\ t[2] \in Nat /\ given[t[1]] \in Nat /\ t # None
<1>1. t = <<t[1], t[2]>> /\ t[1] \in Request /\ t[2] \in 1 .. MaxTasks /\ t # None
    BY TaskNotNone DEF Task
<1>2. QED
    BY <1>1 DEF TypeInv

(* Most steps change no state of a task.                                   *)
LEMMA StateFrame ==
    ASSUME PoolInv, UNCHANGED <<given, work, task>>,
           \A r \in Request : user'[r] \in Waits <=> user[r] \in Waits
    PROVE  \A t \in Task : TaskState(t)' = TaskState(t)
<1>1. ASSUME NEW t \in Task PROVE TaskState(t)' = TaskState(t)
    <2>1. t[1] \in Request
        BY TaskParts DEF PoolInv
    <2>2. user'[t[1]] \in Waits <=> user[t[1]] \in Waits
        BY <2>1
    <2>3. QED
        BY <2>2 DEF TaskState, Waits
<1>2. QED
    BY <1>1

(* A call of enqueue that begins.                                          *)
LEMMA EnqueueMapped ==
    ASSUME PoolInv, ~aborted, NEW r \in Request, Enqueue(r) PROVE Mapped
<1> USE DEF PoolInv
<1>1. /\ enq = None /\ enq' = r /\ user[r] = "ready" /\ given[r] < MaxTasks
      /\ given' = [given EXCEPT ![r] = @ + 1] /\ work' = work
    BY DEF Enqueue
<1>2. PICK u \in Task : u = <<r, given[r] + 1>>
    BY <1>1, GivenGrows
<1>3. /\ given[r] \in Nat /\ given'[r] = given[r] + 1 /\ u[1] = r /\ u[2] = given[r] + 1
      /\ \A q \in Request : q # r => given'[q] = given[q]
    BY <1>1, <1>2 DEF TypeInv
<1>4. task = None
    BY <1>1, TaskNotNone DEF HandInv
<1>5. /\ task' \in {None, u}
      /\ task' = u \/ user'[r] \in Waits
      /\ user'[r] # "over"
      /\ \A q \in Request : q # r => user'[q] = user[q]
    <2>1. CASE AwaitRoom(r)
        BY <2>1, <1>4 DEF AwaitRoom, TypeInv, Waits
    <2>2. CASE AwaitThread(r)
        BY <2>2, <1>4 DEF AwaitThread, TypeInv, Waits
    <2>3. CASE AwaitAnswer(r)
        BY <2>3, <1>2, <1>3 DEF AwaitAnswer, TypeInv
    <2>4. QED
        BY <2>1, <2>2, <2>3, WaitsOfEnqueue
<1>6. \A w \in Thread : work[w] # u
    BY <1>3, TaskNotNone DEF WorkInv
<1>7. TaskState(u) = "new" /\ TaskState(u)' = "given"
    <2>1. TaskState(u) = "new"
        BY <1>3 DEF TaskState
    <2>2. u[2] = given'[u[1]]
        BY <1>3
    <2>3. ~(u[2] > given'[u[1]])
        BY <1>3, <2>2
    <2>4. ~\E w \in Thread : work'[w] = u
        BY <1>1, <1>6
    <2>5. task' = u \/ (u[2] = given'[u[1]] /\ user'[u[1]] \in {"cont", "continue", "init", "inited"})
        BY <1>5, <1>3, <2>2 DEF Waits
    <2>6. QED
        BY <2>1, <2>3, <2>4, <2>5 DEF TaskState
<1>8. ASSUME NEW t \in Task, t # u PROVE TaskState(t)' = TaskState(t)
    <2>1. /\ t = <<t[1], t[2]>> /\ t[1] \in Request /\ t[2] \in Nat /\ given[t[1]] \in Nat /\ t # None
        BY TaskParts
    <2>2. task # t /\ task' # t
        BY <1>5, <1>4, <1>8, <2>1
    <2>3. CASE t[1] = r
        <3>1. t[2] # given'[r]
            BY <1>2, <1>3, <1>8, <2>1, <2>3
        <3>2. t[2] > given'[t[1]] <=> t[2] > given[t[1]]
            BY <1>3, <2>1, <2>3, <3>1
        <3>3. user[t[1]] \notin Waits
            BY <1>1, <2>3 DEF Waits
        <3>4. QED
            BY <1>1, <2>2, <2>3, <3>1, <3>2, <3>3 DEF TaskState, Waits
    <2>4. CASE t[1] # r
        <3>1. given'[t[1]] = given[t[1]] /\ user'[t[1]] = user[t[1]]
            BY <1>3, <1>5, <2>1, <2>4
        <3>2. QED
            BY <1>1, <2>2, <3>1 DEF TaskState
    <2>5. QED
        BY <2>3, <2>4
<1>9. SetState(u, "given")
    BY <1>7, <1>8 DEF SetState
<1>10. Returned' = Returned
    <2>1. ASSUME NEW t \in Task
          PROVE  (t[2] <= given'[t[1]] /\ ~(t[1] = r /\ t[2] = given'[r]))
                 <=> (t[2] <= given[t[1]])
        <3>1. t[1] \in Request /\ t[2] \in Nat /\ given[t[1]] \in Nat
            BY TaskParts
        <3>2. QED
            BY <1>3, <3>1
    <2>2. \A t \in Task : t[1] # enq
        BY <1>1, TaskParts, TaskNotNone
    <2>3. QED
        BY <1>1, <2>1, <2>2 DEF Returned
<1>11. Over' = Over /\ u[1] \notin Over
    BY <1>1, <1>5, <1>3 DEF Over
<1>12. QED
    BY <1>7, <1>9, <1>10, <1>11, AbstractEnqueue

(* A call that goes on.                                                    *)
LEMMA UserNextMapped ==
    ASSUME PoolInv, ~aborted, NEW r \in Request, UserNext(r) PROVE Mapped
<1> USE DEF PoolInv
<1>1. /\ UNCHANGED <<enq, given, work>> /\ user[r] \in {"continue", "inited"}
    BY DEF UserNext, Continue, Inited
<1>2. enq = r
    BY <1>1 DEF UserInv, Inside, Waits
<1>3. task = None
    BY <1>1, <1>2 DEF HandInv
<1>4. \/ user' = [user EXCEPT ![r] = "init"] /\ UNCHANGED task
      \/ user' = [user EXCEPT ![r] = "resp"] /\ task' = <<r, given[r]>>
    <2>1. ~AwaitRoom(r)
        BY <1>2, TaskNotNone DEF AwaitRoom, Enqueue
    <2>2. QED
        BY <1>1, <2>1, WaitsOfEnqueue DEF AwaitThread, AwaitAnswer
<1>5. \A q \in Request : /\ q # r => user'[q] = user[q]
                         /\ user'[r] # "over"
    BY <1>4 DEF TypeInv
<1>6. ASSUME NEW t \in Task PROVE TaskState(t)' = TaskState(t)
    <2>1. t = <<t[1], t[2]>> /\ t[1] \in Request /\ t # None
        BY TaskParts
    <2>2. CASE user' = [user EXCEPT ![r] = "init"] /\ UNCHANGED task
        <3>1. \A q \in Request : user'[q] \in Waits <=> user[q] \in Waits
            BY <1>1, <2>2 DEF TypeInv, Waits
        <3>2. QED
            BY <1>1, <2>2, <3>1, StateFrame
    <2>3. CASE user'[r] = "resp" /\ task' = <<r, given[r]>>
        <3>1. CASE t = <<r, given[r]>>
            <4>1. user[t[1]] \in {"cont", "continue", "init", "inited"} /\ t[2] = given[t[1]]
                BY <1>1, <3>1
            <4>2. task' = t
                BY <2>3, <3>1
            <4>3. QED
                BY <1>1, <4>1, <4>2 DEF TaskState
        <3>2. CASE t # <<r, given[r]>>
            <4>1. task # t /\ task' # t
                BY <1>3, <2>1, <2>3, <3>2
            <4>2. CASE t[1] = r
                <5>1. t[2] # given[t[1]]
                    BY <2>1, <3>2, <4>2
                <5>2. QED
                    BY <1>1, <4>1, <5>1 DEF TaskState
            <4>3. CASE t[1] # r
                BY <1>1, <1>5, <2>1, <4>1, <4>3 DEF TaskState
            <4>4. QED
                BY <4>2, <4>3
        <3>3. QED
            BY <3>1, <3>2
    <2>4. QED
        BY <1>4, <2>2, <2>3 DEF TypeInv
<1>7. Returned' = Returned
    BY <1>1 DEF Returned
<1>8. Over' = Over
    BY <1>1, <1>5 DEF Over
<1>9. QED
    BY <1>6, <1>7, <1>8, AbstractStutter
(* waitCompletion: num_jobs is zero, and no task of the request lies ready.*)
LEMMA WaitCompletionMapped ==
    ASSUME PoolInv, ~aborted, NEW r \in Request, WaitCompletion(r) PROVE Mapped
<1> USE DEF PoolInv
<1>1. /\ UNCHANGED <<enq, given, work, task>> /\ user[r] = "ready"
      /\ user' = [user EXCEPT ![r] = "over"] /\ numJobs[r] = 0
    BY DEF WaitCompletion, Completed
<1>2. WorksFor(r) = {}
    BY <1>1, FiniteSubsets, FS_EmptySet DEF CountInv
<1>3. ASSUME NEW t \in Task, t[1] = r PROVE TaskState(t) \in {"new", "done"}
    <2>1. ~\E w \in Thread : work[w] = t
        BY <1>2, <1>3, TaskNotNone DEF WorksFor
    <2>2. task # t
        BY <1>1, <1>3, TaskNotNone DEF HandInv
    <2>3. QED
        BY <1>1, <1>3, <2>1, <2>2 DEF TaskState
<1>4. \A t \in Task : TaskState(t)' = TaskState(t)
    <2>1. \A q \in Request : user'[q] \in Waits <=> user[q] \in Waits
        BY <1>1 DEF TypeInv, Waits
    <2>2. QED
        BY <1>1, <2>1, StateFrame
<1>5. Returned' = Returned
    BY <1>1 DEF Returned
<1>6. Over' = Over \cup {r} /\ r \notin Over
    BY <1>1 DEF Over, TypeInv
<1>7. QED
    BY <1>3, <1>4, <1>5, <1>6, AbstractWaitCompletion

(* A thread takes the task that lies ready: there is room for it.          *)
LEMMA TakeMapped ==
    ASSUME PoolInv, ~aborted, NEW w \in Thread, Take(w) PROVE Mapped
<1> USE DEF PoolInv
<1>1. /\ UNCHANGED <<enq, given, user>> /\ newWork /\ task' = None
      /\ thread[w] = "notified"
      /\ \A v \in Thread : work'[v] = IF v = w THEN task ELSE work[v]
    BY DEF Take, Step, TypeInv
<1>2. work[w] = None
    BY <1>1 DEF WorkInv, Occupied
<1>3. Returned' = Returned /\ Over' = Over
    BY <1>1 DEF Returned, Over
<1>4. CASE task = None
    <2>1. \A v \in Thread : work'[v] = work[v]
        BY <1>1, <1>2, <1>4
    <2>2. \A t \in Task : TaskState(t)' = TaskState(t)
        BY <1>1, <1>4, <2>1 DEF TaskState
    <2>3. QED
        BY <1>3, <2>2, AbstractStutter
<1>5. CASE task # None
    <2>1. PICK u \in Task : u = task
        BY <1>5 DEF TypeInv
    <2>2. /\ enq \in Request /\ user[enq] = "resp" /\ u[1] = enq /\ u[2] = given[enq]
          /\ u = <<enq, given[enq]>> /\ occupied < NumThrds
        BY <1>5, <2>1 DEF HandInv
    <2>3. given[enq] \in Nat
        BY <2>2 DEF TypeInv
    <2>4. \A v \in Thread : work[v] # u
        BY <1>1, <2>2, WorkerHasTask, TaskNotNone DEF WorkInv, Occupied
    <2>5. TaskState(u) = "given"
        BY <2>1, <2>2, <2>3, <2>4 DEF TaskState
    <2>6. TaskState(u)' = "running"
        BY <1>1, <2>1, <2>2, <2>3 DEF TaskState
    <2>7. ASSUME NEW t \in Task, t # u PROVE TaskState(t)' = TaskState(t)
        <3>1. t # None
            BY TaskParts
        <3>2. (\E v \in Thread : work'[v] = t) <=> (\E v \in Thread : work[v] = t)
            BY <1>1, <1>2, <2>1, <2>7, <3>1
        <3>3. task # t /\ task' # t
            BY <1>1, <2>1, <2>7, <3>1
        <3>4. QED
            BY <1>1, <3>2, <3>3 DEF TaskState
    <2>8. Cardinality({t \in Task : TaskState(t) = "running"}) < NumThrds
        <3> DEFINE Run == {t \in Task : TaskState(t) = "running"}
                   R == {v \in Occupied : work[v] \in Run}
                   f == [v \in R |-> work[v]]
        <3>1. \A t \in Run : \E v \in R : work[v] = t
            <4>1. ASSUME NEW t \in Run PROVE \E v \in R : work[v] = t
                <5>1. PICK v \in Thread : work[v] = t
                    BY DEF TaskState
                <5>2. v \in Occupied
                    BY <5>1, TaskParts DEF WorkInv
                <5>3. QED
                    BY <5>1, <5>2
            <4>2. QED
                BY <4>1
        <3>2. f \in Surjection(R, Run)
            BY <3>1 DEF Surjection
        <3>3. IsFiniteSet(R) /\ Cardinality(R) <= Cardinality(Occupied)
            BY FiniteSubsets, FS_Subset
        <3>4. IsFiniteSet(Run) /\ Cardinality(Run) <= Cardinality(R)
            BY <3>2, <3>3, FS_Surjection
        <3>5. Cardinality(R) \in Nat /\ Cardinality(Run) \in Nat
            BY <3>3, <3>4, FS_CardinalityType
        <3>6. Cardinality(Occupied) < NumThrds /\ Cardinality(Occupied) \in Nat
            BY <2>2, FiniteSubsets DEF CountInv
        <3>7. QED
            BY <3>3, <3>4, <3>5, <3>6, PoolAssumption
    <2>9. SetState(u, "running")
        BY <2>6, <2>7 DEF SetState
    <2>10. QED
        BY <1>3, <2>5, <2>9, <2>8, AbstractStart
<1>6. QED
    BY <1>4, <1>5

(* The thread that has taken the task answers: enqueue returns.            *)
LEMMA RespondMapped ==
    ASSUME PoolInv, ~aborted, NEW w \in Thread, Respond(w) PROVE Mapped
<1> USE DEF PoolInv
<1>1. /\ UNCHANGED <<given, work, task>> /\ thread[w] = "taken" /\ enq' = None
      /\ user' = [user EXCEPT ![enq] = "ready"]
    BY DEF Respond, Step
<1>2. enq \in Request /\ user[enq] = "resp" /\ work[w] = <<enq, given[enq]>>
    BY <1>1 DEF WorkInv
<1>3. PICK u \in Task : u = work[w]
    BY <1>1, WorkerHasTask
<1>4. u[1] = enq /\ u[2] = given[enq] /\ given[enq] \in Nat
    BY <1>2, <1>3 DEF TypeInv
<1>5. TaskState(u) = "running"
    BY <1>3, <1>4 DEF TaskState
<1>6. \A t \in Task : TaskState(t)' = TaskState(t)
    <2>1. \A q \in Request : user'[q] \in Waits <=> user[q] \in Waits
        BY <1>1, <1>2 DEF TypeInv, Waits
    <2>2. QED
        BY <1>1, <2>1, StateFrame
<1>7. Returned' = Returned \cup {u} /\ u \notin Returned
    <2>1. ASSUME NEW t \in Task
          PROVE  t \in Returned' <=> (t \in Returned \/ t = u)
        <3>1. t = <<t[1], t[2]>> /\ t[1] \in Request /\ t[2] \in Nat /\ given[t[1]] \in Nat
            BY TaskParts
        <3>2. t = u <=> (t[1] = enq /\ t[2] = given[enq])
            BY <1>2, <1>3, <1>4, <3>1
        <3>3. t[1] # enq'
            BY <1>1, <3>1, TaskNotNone
        <3>4. t = u => t[2] <= given[t[1]]
            BY <1>4, <3>1, <3>2
        <3>5. QED
            BY <1>1, <3>2, <3>3, <3>4 DEF Returned
    <2>2. u \notin Returned
        BY <1>4 DEF Returned
    <2>3. Returned \subseteq Task /\ Returned' \subseteq Task
        BY DEF Returned
    <2>4. QED
        BY <2>1, <2>2, <2>3
<1>8. Over' = Over
    BY <1>1, <1>2 DEF Over, TypeInv
<1>9. QED
    BY <1>5, <1>6, <1>7, <1>8, AbstractReturn

(* A task ends: no other thread has it.                                    *)
LEMMA FinishMapped ==
    ASSUME PoolInv, ~aborted, NEW w \in Thread, Finish(w) PROVE Mapped
<1> USE DEF PoolInv
<1>1. /\ UNCHANGED <<enq, given, task>> /\ thread[w] = "running"
      /\ \A v \in Thread : work'[v] = IF v = w THEN None ELSE work[v]
    BY DEF Finish, Step, TypeInv
<1>2. \A r \in Request : /\ user'[r] \in Waits <=> user[r] \in Waits
                         /\ user'[r] = "over" <=> user[r] = "over"
    BY DEF Finish, Waits
<1>3. PICK u \in Task : u = work[w]
    BY <1>1, WorkerHasTask
<1>4. u = <<u[1], u[2]>> /\ u[1] \in Request /\ u[2] \in Nat /\ given[u[1]] \in Nat /\ u # None
    BY TaskParts
<1>5. u[2] <= given[u[1]]
    BY <1>3, <1>4 DEF WorkInv
<1>6. TaskState(u) = "running"
    BY <1>3, <1>5, <1>4 DEF TaskState
<1>7. ~(u[1] = enq /\ u[2] = given[enq])
    BY <1>1, <1>3 DEF WorkInv
<1>8. TaskState(u)' = "done"
    <2>1. \A v \in Thread : work'[v] # u
        BY <1>1, <1>3, <1>4 DEF WorkInv
    <2>2. task' # u
        BY <1>1, <1>7, <1>4 DEF HandInv
    <2>3. ~(u[2] = given'[u[1]] /\ user'[u[1]] \in {"cont", "continue", "init", "inited"})
        BY <1>1, <1>2, <1>4, <1>7 DEF UserInv, Inside, Waits
    <2>4. ~(u[2] > given'[u[1]])
        BY <1>1, <1>5, <1>4
    <2>5. QED
        BY <2>1, <2>2, <2>3, <2>4 DEF TaskState
<1>9. ASSUME NEW t \in Task, t # u PROVE TaskState(t)' = TaskState(t)
    <2>1. t[1] \in Request /\ t # None
        BY TaskParts
    <2>2. (\E v \in Thread : work'[v] = t) <=> (\E v \in Thread : work[v] = t)
        BY <1>1, <1>3, <1>9, <2>1
    <2>3. user'[t[1]] \in Waits <=> user[t[1]] \in Waits
        BY <1>2, <2>1
    <2>4. QED
        BY <1>1, <2>2, <2>3 DEF TaskState, Waits
<1>10. SetState(u, "done")
    BY <1>8, <1>9 DEF SetState
<1>11. Returned' = Returned /\ Over' = Over
    BY <1>1, <1>2 DEF Returned, Over
<1>12. QED
    BY <1>6, <1>10, <1>11, AbstractFinish

(* Threads that start, leave and join, and the destructor, are not seen.   *)
LEMMA UnseenMapped ==
    ASSUME PoolInv, UNCHANGED <<enq, given, work, task>>,
           \A r \in Request : /\ user'[r] \in Waits <=> user[r] \in Waits
                              /\ user'[r] = "over" <=> user[r] = "over"
    PROVE  Mapped
<1>1. \A t \in Task : TaskState(t)' = TaskState(t)
    BY StateFrame
<1>2. Returned' = Returned /\ Over' = Over
    BY DEF Returned, Over
<1>3. QED
    BY <1>1, <1>2, AbstractStutter

(* Every step of the pool is a step of TaskPool or changes nothing there.  *)
LEMMA NextMapped == ASSUME PoolInv, Next PROVE Mapped
<1> USE DEF PoolInv
<1>1. ~aborted
    BY Steps
<1>2. ASSUME NEW r \in Request, Enqueue(r) \/ UserNext(r) PROVE Mapped
    BY <1>1, <1>2, EnqueueMapped, UserNextMapped
<1>3. ASSUME NEW r \in Request, WaitCompletion(r) PROVE Mapped
    BY <1>1, <1>3, WaitCompletionMapped
<1>4. ASSUME NEW w \in Thread, ThreadStart(w) PROVE Mapped
    <2>1. enq \in Request /\ user[enq] = "init"
        BY <1>4 DEF ThreadStart, Step, ThreadInv
    <2>2. QED
        BY <1>4, <2>1, UnseenMapped DEF ThreadStart, TypeInv, Waits
<1>5. ASSUME NEW w \in Thread, Take(w) \/ Respond(w) \/ Finish(w) PROVE Mapped
    BY <1>1, <1>5, TakeMapped, RespondMapped, FinishMapped
<1>6. ASSUME NEW w \in Thread, TimeOut(w) PROVE Mapped
    BY <1>6, UnseenMapped DEF TimeOut
<1>7. ASSUME NEW w \in Thread, Exit(w) PROVE Mapped
    BY <1>7, UnseenMapped DEF Exit
<1>8. ASSUME NEW w \in Thread, Leave(w) PROVE Mapped
    BY <1>8, UnseenMapped DEF Leave
<1>9. ASSUME NEW w \in Thread, NotifyAll(w) PROVE Mapped
    BY <1>9, UnseenMapped DEF NotifyAll
<1>10. ASSUME NEW w \in Thread, Join(w) PROVE Mapped
    BY <1>10, UnseenMapped DEF Join
<1>11. CASE Destroy \/ DtorCheck \/ DtorWait \/ DtorJoin
    BY <1>11, UnseenMapped DEF Destroy, DtorCheck, DtorWait, DtorJoin, DtorStep
<1>12. QED
    BY Steps, <1>1, <1>2, <1>3, <1>4, <1>5, <1>6, <1>7, <1>8, <1>9, <1>10,
       <1>11 DEF ThreadNext

(* Whatever the order in which users, workers and exiting threads come to  *)
(* mtx_main, no task is lost or run twice, not more than num_thrds run     *)
(* together, enqueue does not return before its task is counted, and       *)
(* waitCompletion not before all tasks of its request are done.            *)
THEOREM PoolImplementsTaskPool == Spec => Abstract
<1>1. Init => Users!Init
    <2> SUFFICES ASSUME Init PROVE Users!Init
        OBVIOUS
    <2>1. TypeInv
        BY InitPoolInv DEF PoolInv
    <2>2. \A t \in Task : t[2] > given[t[1]]
        BY <2>1, TaskParts DEF Init
    <2>3. \A t \in Task : TaskState(t) = "new"
        BY <2>2 DEF TaskState
    <2>4. Returned = {}
        BY <2>1, <2>2, TaskParts DEF Returned
    <2>5. Over = {}
        BY DEF Init, Over
    <2>6. QED
        BY <2>3, <2>4, <2>5 DEF Users!Init, Users!Task, Task, Returned, Over
<1>2. PoolInv /\ [Next]_vars => [Users!Next]_<<[t \in Task |-> TaskState(t)], Returned, Over>>
    <2>1. ASSUME PoolInv, Next PROVE Mapped
        BY <2>1, NextMapped
    <2>2. ASSUME PoolInv, UNCHANGED vars PROVE Mapped
        BY <2>2, UnseenMapped DEF vars
    <2>3. QED
        BY <2>1, <2>2 DEF Mapped
<1>3. QED
    BY <1>1, <1>2, PoolInvAlways, PTL DEF Spec, Abstract, Users!Spec, Returned, Over
=============================================================================
