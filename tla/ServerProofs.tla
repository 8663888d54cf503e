---------------------------- MODULE ServerProofs ----------------------------
(***************************************************************************)
(* Proofs about the start and the end of the server, for any number of     *)
(* processes that are started, of clients and of faults.                   *)
(***************************************************************************)
EXTENDS Server, TLAPS

Alive == {"key", "init", "run"}

(* The server lock is exclusive between processes and clients, and it is   *)
(* held by a process from lockServer to its end.                           *)
LockInv ==
    /\ \A x, y \in lock \ {Overlay} : x = y
    /\ \A p \in Proc : p \in lock <=> proc[p] \in Alive

(* From writeKey to its end the key is that of the process.                *)
KeyInv == \A p \in Proc : proc[p] \in {"init", "run"} => key = p

(* Threads belong to a process that runs.                                  *)
ThreadInv == Running = {} => Ended

(* The socket is open while the receiver accepts, waits and drains.        *)
SockInv ==
    /\ sock # None <=> rpc \in {"accept", "wait", "wake", "drain"}
    /\ sock # None => sock \in Running

(* A receiver that has no socket has no sessions, and a scheduler that has *)
(* ended no executors.                                                     *)
DrainInv ==
    /\ sock = None => \A c \in Conn : conn[c] \in {"none", "closed"}
    /\ spc = "ended" => exec = {}

ServerInv ==
    TypeOK /\ LockInv /\ KeyInv /\ ThreadInv /\ SockInv /\ DrainInv

(* No process, no thread and no session exists at first.                   *)
LEMMA InitServerInv == Init => ServerInv
<1> SUFFICES ASSUME Init PROVE ServerInv
    OBVIOUS
<1>1. kind \in [Client -> {"stop", "forced", "work", "format"}]
    <2>1. /\ kind \in [Client -> UNION {Kinds[c] : c \in Client}]
          /\ \A c \in Client : kind[c] \in Kinds[c]
        BY DEF Init
    <2>2. \A c \in Client : Kinds[c] \subseteq {"stop", "forced", "work", "format"}
        BY ServerAssumption
    <2>3. QED
        BY <2>1, <2>2
<1>2. TypeOK
    <2>1. busy \in BOOLEAN
        BY DEF Init
    <2>2. faults \in 0 .. MaxFaults
        BY ServerAssumption DEF Init
    <2>3. /\ proc \in [Proc -> {"off", "lock", "key", "init", "run", "ended"}]
          /\ conn \in [Conn -> {"none", "backlog", "closed"} \cup Open]
          /\ cli \in [Conn -> {"idle", "talk", "told", "locked", "done", "failed"}]
          /\ row \in [Client -> {"none", "new", "inprogress", "completed"}]
        BY DEF Init
    <2>4. QED
        BY <1>1, <2>1, <2>2, <2>3 DEF Init, TypeOK
<1>3. QED
    BY <1>2 DEF Init, ServerInv, LockInv, KeyInv, ThreadInv, SockInv, DrainInv,
                Alive, Running, Ended

-----------------------------------------------------------------------------
(* The steps that change the processes, the server lock or the key file.   *)
LifeStep ==
    \/ \E p \in Proc : \/ Start(p) \/ LockServer(p) \/ WriteKey(p) \/ Run(p)
                       \/ RunFails(p) \/ Exit(p) \/ Crash(p)
    \/ \E c \in Client : TakeLock(c) \/ FreeLock(c)
    \/ RecallDStarts \/ Unmount

(* The steps that neither make nor end a process: those that the receiver  *)
(* takes or that wake it, those of the other threads, of the sessions and  *)
(* of the executors, and those of somebody outside.                        *)
ReceiverStep ==
    \/ Listen \/ Wake \/ Close \/ AcceptFails \/ Spurious
    \/ \E c \in Conn : Accept(c) \/ Recv(c)

WorkStep ==
    \/ SchedWake \/ SchedDone \/ SchedEnd \/ RecallDStarts \/ RecallDEnds \/ SigTold
    \/ \E s \in Signals : SigWait(s)
    \/ \E c \in Conn : Take(c) \/ Count(c) \/ Finish(c)
    \/ \E c \in Client : \/ Handle(c) \/ Submit(c) \/ Query(c) \/ ExecEnd(c)
                         \/ Schedule(c) \/ ExecThrows(c)

ThreadStep == ReceiverStep \/ WorkStep

ClientStep ==
    \/ \E c \in Client : Connect(c) \/ ClientDies(c) \/ TakeLock(c) \/ FreeLock(c)
    \/ Kill \/ Use \/ Unmount

(* Every step is one of a process, of a thread or of somebody outside.     *)
LEMMA Steps ==
    ASSUME Next PROVE LifeStep \/ ThreadStep \/ ClientStep
BY DEF Next, ServerStep, Environment, LifeStep, ThreadStep, ReceiverStep,
   WorkStep, ClientStep

(* A thread changes the lock only by starting the overlay.                 *)
LEMMA ThreadStepLife ==
    ASSUME ThreadStep PROVE RecallDStarts \/ UNCHANGED life
BY DEF ThreadStep, ReceiverStep, WorkStep, life, Listen, Wake, Close, SchedWake,
   SchedDone, SchedEnd,
       RecallDEnds, SigTold, AcceptFails, Spurious, SigWait, Accept, Take, Recv,
       Count, Finish, Handle, Submit, Query, ExecEnd, Schedule, ExecThrows

(* All other steps leave processes, lock and key as they are.              *)
LEMMA LifeSteps ==
    ASSUME [Next]_vars PROVE LifeStep \/ UNCHANGED life
<1>1. CASE ThreadStep
    BY <1>1, ThreadStepLife DEF LifeStep
<1>2. CASE ClientStep
    BY <1>2 DEF ClientStep, LifeStep, life, Connect, ClientDies, Kill, Use
<1>3. QED
    BY <1>1, <1>2, Steps DEF vars

-----------------------------------------------------------------------------
(* Types: each action keeps them.  Listen needs a process that runs.       *)
LEMMA LifeTypeOK == ASSUME TypeOK, LifeStep PROVE TypeOK'
<1> USE ServerAssumption DEF TypeOK, life, users, threads, signals, work, Fault,
        Conn, Signals, Open, Overlay
<1>1. ASSUME NEW p \in Proc, Start(p) PROVE TypeOK'
    BY <1>1 DEF Start
<1>2. ASSUME NEW p \in Proc, LockServer(p) PROVE TypeOK'
    BY <1>2 DEF LockServer
<1>3. ASSUME NEW p \in Proc, WriteKey(p) PROVE TypeOK'
    BY <1>3 DEF WriteKey
<1>4. ASSUME NEW p \in Proc, Run(p) PROVE TypeOK'
    BY <1>4 DEF Run
<1>5. ASSUME NEW p \in Proc, RunFails(p) PROVE TypeOK'
    BY <1>5 DEF RunFails
<1>6. ASSUME NEW p \in Proc, Crash(p) PROVE TypeOK'
    BY <1>6 DEF Crash
<1>7. ASSUME NEW p \in Proc, Exit(p) PROVE TypeOK'
    <2>1. lock' \subseteq Proc \cup Client \cup {Overlay} /\ busy' \in BOOLEAN
        BY <1>7 DEF Exit
    <2>2. QED
        BY <1>7, <2>1 DEF Exit
<1>8. ASSUME NEW c \in Client, TakeLock(c) PROVE TypeOK'
    BY <1>8 DEF TakeLock
<1>9. ASSUME NEW c \in Client, FreeLock(c) PROVE TypeOK'
    BY <1>9 DEF FreeLock
<1>10. CASE RecallDStarts
    BY <1>10 DEF RecallDStarts
<1>11. CASE Unmount
    BY <1>11 DEF Unmount
<1>12. QED
    BY <1>1, <1>2, <1>3, <1>4, <1>5, <1>6, <1>7, <1>8, <1>9, <1>10,
       <1>11 DEF LifeStep

(* The receiver listens for the process that runs, or fails.               *)
LEMMA ListenEffect ==
    ASSUME TypeOK, ThreadInv, Listen
    PROVE  \/ /\ rpc' = "accept" /\ sock' \in Running
              /\ UNCHANGED <<term, flags, pend, faults>>
           \/ rpc' = "ended" /\ term' = None /\ Thrown /\ Fault /\ UNCHANGED sock
<1>1. \E p \in Proc : p \in Running
    BY DEF Listen, ThreadInv, Ended, Running
<1>2. QED
    BY <1>1 DEF Listen

(* The steps of the threads keep the types.                                *)
LEMMA ThreadTypeOK == ASSUME TypeOK, ThreadInv, ThreadStep PROVE TypeOK'
<1> USE ServerAssumption DEF TypeOK, life, users, threads, signals, work, Fault,
        Thrown, Invoke, Answer, Conn, Signals, Open, Overlay
<1>1. CASE Listen
    <2>1. sock' \in Proc \cup {None}
        BY <1>1, ListenEffect DEF Running
    <2>2. UNCHANGED <<life, users, spc, hpc, dpc, sig, conn, cli, work>>
        BY <1>1 DEF Listen
    <2>3. CASE rpc' = "accept" /\ UNCHANGED <<term, flags, pend, faults>>
        BY <2>1, <2>2, <2>3
    <2>4. CASE rpc' = "ended" /\ term' = None /\ Thrown /\ Fault
        BY <2>1, <2>2, <2>4
    <2>5. QED
        BY <1>1, <2>3, <2>4, ListenEffect
<1>2. CASE Close
    <2>1. /\ conn' \in [Conn -> {"none", "backlog", "closed"} \cup Open]
          /\ cli' \in [Conn -> {"idle", "talk", "told", "locked", "done", "failed"}]
        BY <1>2 DEF Close
    <2>2. flags' \subseteq {"terminate", "forced", "finish", "connector"}
        BY <1>2 DEF Close
    <2>3. pend' \subseteq Signals
        BY <1>2 DEF Close
    <2>4. QED
        BY <1>2, <2>1, <2>2, <2>3 DEF Close
<1>3. CASE Wake
    BY <1>3 DEF Wake
<1>4. CASE AcceptFails
    BY <1>4 DEF AcceptFails
<1>5. CASE Spurious
    BY <1>5 DEF Spurious
<1>6. CASE SchedWake
    BY <1>6 DEF SchedWake
<1>7. CASE SchedDone
    BY <1>7 DEF SchedDone
<1>8. CASE SchedEnd
    BY <1>8 DEF SchedEnd
<1>9. CASE RecallDStarts
    BY <1>9 DEF RecallDStarts
<1>10. CASE RecallDEnds
    BY <1>10 DEF RecallDEnds
<1>11. CASE SigTold
    BY <1>11 DEF SigTold
<1>12. ASSUME NEW s \in Signals, SigWait(s) PROVE TypeOK'
    BY <1>12 DEF SigWait
<1>13. ASSUME NEW c \in Conn, Accept(c) PROVE TypeOK'
    BY <1>13 DEF Accept
<1>14. ASSUME NEW c \in Conn, Take(c) PROVE TypeOK'
    BY <1>14 DEF Take
<1>15. ASSUME NEW c \in Conn, Count(c) PROVE TypeOK'
    BY <1>15 DEF Count
<1>16. ASSUME NEW c \in Conn, Finish(c) PROVE TypeOK'
    BY <1>16 DEF Finish
<1>17. ASSUME NEW c \in Conn, Recv(c) PROVE TypeOK'
    BY <1>17 DEF Recv, Woken, Received, StopFlags, KindOf, Stops
<1>18. ASSUME NEW c \in Client, Handle(c) PROVE TypeOK'
    BY <1>18 DEF Handle
<1>19. ASSUME NEW c \in Client, Submit(c) PROVE TypeOK'
    BY <1>19 DEF Submit
<1>20. ASSUME NEW c \in Client, Query(c) PROVE TypeOK'
    BY <1>20 DEF Query
<1>21. ASSUME NEW c \in Client, ExecEnd(c) PROVE TypeOK'
    BY <1>21 DEF ExecEnd
<1>22. ASSUME NEW c \in Client, Schedule(c) PROVE TypeOK'
    BY <1>22 DEF Schedule
<1>23. ASSUME NEW c \in Client, ExecThrows(c) PROVE TypeOK'
    BY <1>23 DEF ExecThrows
<1>24. QED
    BY <1>1, <1>2, <1>3, <1>4, <1>5, <1>6, <1>7, <1>8, <1>9, <1>10, <1>11,
       <1>12, <1>13, <1>14, <1>15, <1>16, <1>17, <1>18, <1>19, <1>20, <1>21,
       <1>22, <1>23 DEF ThreadStep, ReceiverStep, WorkStep

(* Every step keeps the types.                                             *)
LEMMA NextTypeOK == ASSUME TypeOK, ThreadInv, [Next]_vars PROVE TypeOK'
<1>1. CASE ClientStep
    <2> USE ServerAssumption DEF TypeOK, life, users, threads, signals, work,
            Fault, Conn, Signals, Open, Running
    <2>1. ASSUME NEW c \in Client, Connect(c) PROVE TypeOK'
        BY <2>1 DEF Connect
    <2>2. ASSUME NEW c \in Client, ClientDies(c) PROVE TypeOK'
        BY <2>2 DEF ClientDies
    <2>3. CASE Kill
        BY <2>3 DEF Kill
    <2>4. CASE Use
        BY <2>4 DEF Use
    <2>5. QED
        BY <1>1, <2>1, <2>2, <2>3, <2>4, LifeTypeOK DEF ClientStep, LifeStep
<1>2. CASE UNCHANGED vars
    BY <1>2 DEF vars, TypeOK, life, threads, signals, work
<1>3. QED
    BY <1>1, <1>2, LifeTypeOK, ThreadTypeOK, Steps

-----------------------------------------------------------------------------
(* The lock: it is taken only when nobody has it, and given back at the    *)
(* end of a process.  An overlay that is left behind keeps it from others. *)
LEMMA NextLockInv == ASSUME ServerInv, [Next]_vars PROVE LockInv'
<1> USE ServerAssumption DEF ServerInv, LockInv, TypeOK, Alive, Overlay, Conn, Signals
<1>1. ASSUME NEW p \in Proc, LockServer(p) PROVE LockInv'
    <2>1. CASE LockFree
        <3>1. lock = {} /\ lock' = {p} /\ proc' = [proc EXCEPT ![p] = "key"]
            BY <1>1, <2>1 DEF LockServer, LockFree
        <3>2. QED
            BY <3>1
    <2>2. CASE ~LockFree
        BY <1>1, <2>2 DEF LockServer
    <2>3. QED
        BY <2>1, <2>2
<1>2. ASSUME NEW p \in Proc, Start(p) PROVE LockInv'
    BY <1>2 DEF Start
<1>3. ASSUME NEW p \in Proc, WriteKey(p) PROVE LockInv'
    BY <1>3 DEF WriteKey
<1>4. ASSUME NEW p \in Proc, Run(p) PROVE LockInv'
    BY <1>4 DEF Run
<1>5. ASSUME NEW p \in Proc, RunFails(p) PROVE LockInv'
    BY <1>5 DEF RunFails
<1>6. ASSUME NEW p \in Proc, Exit(p) PROVE LockInv'
    BY <1>6 DEF Exit
<1>7. ASSUME NEW p \in Proc, Crash(p) PROVE LockInv'
    BY <1>7 DEF Crash
<1>8. ASSUME NEW c \in Client, TakeLock(c) PROVE LockInv'
    <2>1. lock = {} /\ lock' = {c} /\ UNCHANGED proc
        BY <1>8 DEF TakeLock, LockFree
    <2>2. QED
        BY <2>1
<1>9. ASSUME NEW c \in Client, FreeLock(c) PROVE LockInv'
    BY <1>9 DEF FreeLock
<1>10. CASE RecallDStarts
    BY <1>10 DEF RecallDStarts
<1>11. CASE Unmount
    BY <1>11 DEF Unmount
<1>12. CASE UNCHANGED life
    BY <1>12 DEF life
<1>13. QED
    BY <1>1, <1>2, <1>3, <1>4, <1>5, <1>6, <1>7, <1>8, <1>9, <1>10, <1>11,
       <1>12, LifeSteps DEF LifeStep

(* The key: only a process that holds the lock writes it.                  *)
LEMMA NextKeyInv == ASSUME ServerInv, [Next]_vars PROVE KeyInv'
<1> USE DEF ServerInv, KeyInv, TypeOK
<1>1. ASSUME NEW p \in Proc, WriteKey(p) PROVE KeyInv'
    <2>1. \A q \in Proc : q # p => proc[q] \notin Alive
        BY <1>1, ServerAssumption DEF WriteKey, LockInv, Alive, Overlay
    <2>2. QED
        BY <1>1, <2>1 DEF WriteKey, Alive
<1>2. ASSUME NEW p \in Proc, Start(p) \/ LockServer(p) \/ Run(p) PROVE KeyInv'
    BY <1>2 DEF Start, LockServer, Run
<1>3. ASSUME NEW p \in Proc, RunFails(p) \/ Exit(p) \/ Crash(p) PROVE KeyInv'
    BY <1>3 DEF RunFails, Exit, Crash
<1>4. ASSUME NEW c \in Client, TakeLock(c) \/ FreeLock(c) PROVE KeyInv'
    BY <1>4 DEF TakeLock, FreeLock
<1>5. CASE RecallDStarts \/ Unmount
    BY <1>5 DEF RecallDStarts, Unmount
<1>6. CASE UNCHANGED life
    BY <1>6 DEF life
<1>7. QED
    BY <1>1, <1>2, <1>3, <1>4, <1>5, <1>6, LifeSteps DEF LifeStep

(* Threads: they are started with the process that runs, none of them      *)
(* comes back to life, and the process ends after all of them.             *)
LEMMA NextThreadInv == ASSUME ServerInv, [Next]_vars PROVE ThreadInv'
<1> USE DEF ServerInv, ThreadInv, Running, Ended, TypeOK, threads
<1>1. ASSUME NEW p \in Proc, Start(p) PROVE ThreadInv'
    BY <1>1 DEF Start
<1>2. ASSUME NEW p \in Proc, LockServer(p) PROVE ThreadInv'
    BY <1>2 DEF LockServer
<1>3. ASSUME NEW p \in Proc, WriteKey(p) PROVE ThreadInv'
    BY <1>3 DEF WriteKey
<1>4. ASSUME NEW p \in Proc, Run(p) PROVE ThreadInv'
    BY <1>4 DEF Run
<1>5. ASSUME NEW p \in Proc, RunFails(p) PROVE ThreadInv'
    BY <1>5 DEF RunFails
<1>6. ASSUME NEW p \in Proc, Exit(p) PROVE ThreadInv'
    BY <1>6 DEF Exit
<1>7. ASSUME NEW p \in Proc, Crash(p) PROVE ThreadInv'
    BY <1>7 DEF Crash
<1>8. CASE ThreadStep
    <2>1. UNCHANGED proc
        BY <1>8, ThreadStepLife DEF life, RecallDStarts
    <2>2. SUFFICES ASSUME Running = {}, Ended PROVE Ended'
        BY <2>1
    <2>3. exec = {} /\ \A c \in Conn : conn[c] \in {"none", "closed"}
        BY <2>2 DEF DrainInv, SockInv
    <2>4. FALSE
        BY <1>8, <2>2, <2>3 DEF ThreadStep, ReceiverStep, WorkStep, Listen,
           Wake, Close, SchedWake, SchedDone, SchedEnd, RecallDStarts,
           RecallDEnds, SigTold, AcceptFails, Spurious, SigWait, Accept, Take,
           Recv, Count, Finish, Handle, Submit, Query, ExecEnd, Schedule,
           ExecThrows, Conn
    <2>5. QED
        BY <2>4
<1>9. CASE ClientStep
    BY <1>9 DEF ClientStep, Connect, ClientDies, TakeLock, FreeLock, Kill, Use,
       Unmount, life
<1>10. CASE UNCHANGED vars
    BY <1>10 DEF vars, life
<1>11. QED
    BY <1>1, <1>2, <1>3, <1>4, <1>5, <1>6, <1>7, <1>8, <1>9, <1>10, Steps,
       LifeSteps DEF LifeStep, ThreadStep, ReceiverStep, WorkStep, ClientStep

(* The socket: it belongs to the process that runs, and a process does not *)
(* end before its receiver has closed it.                                  *)
LEMMA NextSockInv == ASSUME ServerInv, TypeOK', [Next]_vars PROVE SockInv'
<1> USE ServerAssumption DEF ServerInv, SockInv, Running, TypeOK, life, threads
<1>1. ASSUME NEW p \in Proc, Start(p) PROVE SockInv'
    BY <1>1 DEF Start, Ended
<1>2. ASSUME NEW p \in Proc, LockServer(p) PROVE SockInv'
    BY <1>2 DEF LockServer, Ended
<1>3. ASSUME NEW p \in Proc, WriteKey(p) PROVE SockInv'
    BY <1>3 DEF WriteKey, Ended
<1>4. ASSUME NEW p \in Proc, RunFails(p) PROVE SockInv'
    BY <1>4 DEF RunFails, Ended
<1>5. ASSUME NEW p \in Proc, Exit(p) PROVE SockInv'
    BY <1>5 DEF Exit, Ended
<1>6. ASSUME NEW p \in Proc, Run(p) PROVE SockInv'
    <2>1. Running = {}
        BY <1>6 DEF Run, LockInv, Alive, Overlay
    <2>2. sock = None
        BY <2>1
    <2>3. QED
        BY <1>6, <2>2 DEF Run
<1>7. ASSUME NEW p \in Proc, Crash(p) PROVE SockInv'
    <2>1. Running = {p}
        BY <1>7 DEF Crash, LockInv, Alive, Overlay
    <2>2. sock' = None
        BY <1>7, <2>1 DEF Crash
    <2>3. QED
        BY <1>7, <2>2 DEF Crash
<1>8. CASE Listen
    <2>1. UNCHANGED proc
        BY <1>8 DEF Listen
    <2>2. sock = None
        BY <1>8 DEF Listen
    <2>3. QED
        BY <2>1, <2>2, ListenEffect, <1>8
<1>9. CASE Wake
    BY <1>9 DEF Wake
<1>10. CASE Close
    BY <1>10 DEF Close
<1>11. CASE AcceptFails
    BY <1>11 DEF AcceptFails
<1>12. CASE Spurious
    BY <1>12 DEF Spurious
<1>13. ASSUME NEW c \in Conn, Accept(c) PROVE SockInv'
    BY <1>13 DEF Accept
<1>14. ASSUME NEW c \in Conn, Recv(c) PROVE SockInv'
    BY <1>14 DEF Recv, Woken
<1>15. CASE UNCHANGED <<proc, sock, rpc>>
    BY <1>15
<1>16. CASE ClientStep
    BY <1>16, <1>15 DEF ClientStep, Connect, ClientDies, TakeLock, FreeLock,
       Kill, Use, Unmount
<1>17. CASE WorkStep
    BY <1>17, <1>15 DEF WorkStep, SchedWake, SchedDone, SchedEnd, RecallDStarts,
       RecallDEnds, SigTold, SigWait, Take, Count, Finish, Handle, Submit,
       Query, ExecEnd, Schedule, ExecThrows
<1>18. CASE UNCHANGED vars
    BY <1>18, <1>15 DEF vars
<1>19. QED
    BY <1>1, <1>2, <1>3, <1>4, <1>5, <1>6, <1>7, <1>8, <1>9, <1>10, <1>11,
       <1>12, <1>13, <1>14, <1>15, <1>16, <1>17, <1>18, Steps DEF LifeStep,
       ThreadStep, ReceiverStep, WorkStep, ClientStep

(* Sessions and executors: the receiver closes its socket when all         *)
(* sessions have ended, the scheduler ends when no executor is left.       *)
LEMMA NextDrainInv == ASSUME ServerInv, TypeOK', [Next]_vars PROVE DrainInv'
<1> USE ServerAssumption DEF ServerInv, DrainInv, Open, TypeOK, life, threads, work, Conn, Signals
<1>1. ASSUME NEW p \in Proc, Start(p) PROVE DrainInv'
    BY <1>1 DEF Start
<1>2. ASSUME NEW p \in Proc, LockServer(p) PROVE DrainInv'
    BY <1>2 DEF LockServer
<1>3. ASSUME NEW p \in Proc, WriteKey(p) PROVE DrainInv'
    BY <1>3 DEF WriteKey
<1>4. ASSUME NEW p \in Proc, Run(p) PROVE DrainInv'
    BY <1>4 DEF Run
<1>5. ASSUME NEW p \in Proc, RunFails(p) PROVE DrainInv'
    BY <1>5 DEF RunFails
<1>6. ASSUME NEW p \in Proc, Exit(p) PROVE DrainInv'
    BY <1>6 DEF Exit
<1>7. ASSUME NEW p \in Proc, Crash(p) PROVE DrainInv'
    BY <1>7 DEF Crash
<1>8. CASE Listen
    <2>1. sock = None
        BY <1>8 DEF Listen, SockInv
    <2>2. UNCHANGED <<spc, conn, exec>>
        BY <1>8 DEF Listen
    <2>3. QED
        BY <2>1, <2>2
<1>9. CASE Close
    <2>1. \A c \in Conn : conn[c] \notin Open
        BY <1>9 DEF Close, Completed
    <2>2. \A c \in Conn : conn'[c] \in {"none", "closed"}
        BY <1>9, <2>1 DEF Close
    <2>3. QED
        BY <1>9, <2>2 DEF Close
<1>10. CASE Wake
    BY <1>10 DEF Wake
<1>11. CASE SchedWake
    BY <1>11 DEF SchedWake
<1>12. CASE SchedDone
    BY <1>12 DEF SchedDone
<1>13. CASE SchedEnd
    BY <1>13 DEF SchedEnd
<1>14. CASE RecallDStarts
    BY <1>14 DEF RecallDStarts
<1>15. CASE RecallDEnds
    BY <1>15 DEF RecallDEnds
<1>16. CASE SigTold
    BY <1>16 DEF SigTold
<1>17. CASE AcceptFails
    BY <1>17 DEF AcceptFails
<1>18. CASE Spurious
    BY <1>18 DEF Spurious
<1>19. CASE Kill
    BY <1>19 DEF Kill
<1>20. CASE Use
    BY <1>20 DEF Use
<1>21. CASE Unmount
    BY <1>21 DEF Unmount
<1>22. ASSUME NEW s \in Signals, SigWait(s) PROVE DrainInv'
    BY <1>22 DEF SigWait
<1>23. ASSUME NEW c \in Conn, Accept(c) PROVE DrainInv'
    BY <1>23 DEF Accept
<1>24. ASSUME NEW c \in Conn, Take(c) PROVE DrainInv'
    BY <1>24 DEF Take
<1>25. ASSUME NEW c \in Conn, Recv(c) PROVE DrainInv'
    BY <1>25 DEF Recv
<1>26. ASSUME NEW c \in Conn, Count(c) PROVE DrainInv'
    BY <1>26 DEF Count
<1>27. ASSUME NEW c \in Conn, Finish(c) PROVE DrainInv'
    BY <1>27 DEF Finish, Invoke
<1>28. ASSUME NEW c \in Client, Handle(c) PROVE DrainInv'
    BY <1>28 DEF Handle, Invoke, Answer
<1>29. ASSUME NEW c \in Client, Submit(c) PROVE DrainInv'
    BY <1>29 DEF Submit, Invoke, Answer
<1>30. ASSUME NEW c \in Client, Query(c) PROVE DrainInv'
    BY <1>30 DEF Query, Invoke, Answer
<1>31. ASSUME NEW c \in Client, ExecEnd(c) PROVE DrainInv'
    BY <1>31 DEF ExecEnd, Invoke, Answer
<1>32. ASSUME NEW c \in Client, Schedule(c) PROVE DrainInv'
    BY <1>32 DEF Schedule, Invoke, Answer
<1>33. ASSUME NEW c \in Client, ExecThrows(c) PROVE DrainInv'
    BY <1>33 DEF ExecThrows, Invoke, Answer
<1>34. ASSUME NEW c \in Client, Connect(c) PROVE DrainInv'
    BY <1>34 DEF Connect, Invoke, Answer
<1>35. ASSUME NEW c \in Client, ClientDies(c) PROVE DrainInv'
    BY <1>35 DEF ClientDies, Invoke, Answer
<1>36. ASSUME NEW c \in Client, TakeLock(c) PROVE DrainInv'
    BY <1>36 DEF TakeLock, Invoke, Answer
<1>37. ASSUME NEW c \in Client, FreeLock(c) PROVE DrainInv'
    BY <1>37 DEF FreeLock, Invoke, Answer
<1>38. CASE UNCHANGED vars
    BY <1>38 DEF vars
<1>39. QED
    BY <1>1, <1>2, <1>3, <1>4, <1>5, <1>6, <1>7, <1>8, <1>9, <1>10, <1>11,
       <1>12, <1>13, <1>14, <1>15, <1>16, <1>17, <1>18, <1>19, <1>20, <1>21,
       <1>22, <1>23, <1>24, <1>25, <1>26, <1>27, <1>28, <1>29, <1>30, <1>31,
       <1>32, <1>33, <1>34, <1>35, <1>36, <1>37, <1>38, Steps DEF LifeStep,
       ThreadStep, ReceiverStep, WorkStep, ClientStep

(* The inductive invariant holds in every state of every behaviour.        *)
LEMMA ServerInvAlways == Spec => []ServerInv
<1>1. ServerInv /\ [Next]_vars => ServerInv'
    <2> SUFFICES ASSUME ServerInv, [Next]_vars PROVE ServerInv'
        OBVIOUS
    <2>1. TypeOK'
        BY NextTypeOK DEF ServerInv
    <2>2. QED
        BY <2>1, NextLockInv, NextKeyInv, NextThreadInv, NextSockInv,
           NextDrainInv DEF ServerInv
<1>2. QED
    BY <1>1, InitServerInv, PTL DEF Spec

-----------------------------------------------------------------------------
(* Every variable keeps its type, with any number of processes, clients,   *)
(* faults and restarts.                                                    *)
THEOREM ServerTypeCorrect == Spec => []TypeOK
<1>1. ServerInv => TypeOK
    BY DEF ServerInv
<1>2. QED
    BY <1>1, ServerInvAlways, PTL

(* Two servers never serve clients at the same time: who listens on the    *)
(* client socket (Receiver::run) holds the lock that lockServer has taken, *)
(* and the key a client reads in the key file is the one it compares with. *)
THEOREM KeyAgreesAlways == Spec => []KeyAgrees
<1>1. ServerInv => KeyAgrees
    <2> SUFFICES ASSUME ServerInv, sock # None
                 PROVE  sock \in lock /\ key = sock /\ sock \in Running
        BY DEF KeyAgrees
    <2>1. sock \in Running
        BY DEF ServerInv, SockInv
    <2>2. QED
        BY <2>1 DEF ServerInv, LockInv, KeyInv, Running, Alive
<1>2. QED
    BY <1>1, ServerInvAlways, PTL

(* A process that has ended, whether it was stopped, failed or was killed, *)
(* leaves no executor and no open session to the server that follows it.   *)
THEOREM ExitCleanAlways == Spec => []ExitClean
<1>1. ServerInv => ExitClean
    BY DEF ServerInv, ThreadInv, SockInv, DrainInv, Ended, ExitClean, Open
<1>2. QED
    BY <1>1, ServerInvAlways, PTL
=============================================================================
