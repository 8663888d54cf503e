------------------------------- MODULE Server -------------------------------
(***************************************************************************)
(* Start and stop of the server: server/ltfsdmd.cc and Server.cc (lock,    *)
(* key file, the four threads, signals), Receiver.cc, the loop of          *)
(* Scheduler.cc, the sessions of MessageParser.cc as far as a stop         *)
(* concerns them, SubServer.cc, and the ltfsdm start and stop commands.    *)
(*                                                                         *)
(* A process holds the server lock; while it runs, the state of its        *)
(* threads is in the variables below.  The lock file descriptor has no     *)
(* O_CLOEXEC, so the overlay process of a managed file system, started     *)
(* with popen, keeps the lock too.  What a request does is in the modules  *)
(* Scheduler, Requests, Pools and TransRecall: here a client has one row   *)
(* in REQUEST_QUEUE.                                                       *)
(***************************************************************************)
EXTENDS Integers, FiniteSets

CONSTANTS Client, Proc,
          Kinds,       (* client -> commands it may be: stop, forced (stop   *)
                       (* -x), work (migrate, recall), format (pool add -F)  *)
          MaxFaults,   (* bound on failures, kills of a process and wake-ups *)
          None

Signals == {"TERM", "USR1"}
Conn == Client \cup Signals

ASSUME ServerAssumption ==
    /\ IsFiniteSet(Client) /\ IsFiniteSet(Proc) /\ MaxFaults \in Nat
    /\ Client \cap Signals = {} /\ None \notin Proc \cup Conn
    /\ Client \cap Proc = {} /\ "overlay" \notin Client \cup Proc
    /\ Kinds \in [Client -> SUBSET {"stop", "forced", "work", "format"}]

VARIABLES proc,    (* process -> off, lock, key, init, run, ended            *)
          lock,    (* holders of the server lock                             *)
          key,     (* process whose key is in the key file                   *)
          sock,    (* process that listens on the client socket              *)
          busy,    (* the managed file system is in use                      *)
          flags,   (* Server::terminate, forcedTerminate, finishTerminate    *)
                   (* and Connector::connectorTerminate, those that are true *)
          term,    (* holder of Server::termmtx                              *)
          rpc, spc, hpc, dpc,  (* Receiver, Scheduler, SigHandler, RecallD   *)
          pend,    (* pending signals                                        *)
          sig,     (* the signal the handler works on                        *)
          conn,    (* connection -> its session                              *)
          kind,    (* client -> its command                                  *)
          cli,     (* the other end of a connection                          *)
          row,     (* client -> state of its row in REQUEST_QUEUE            *)
          exec,    (* clients whose row an executor works on                 *)
          faults

users == <<busy, kind>>
life == <<proc, lock, key>>
threads == <<rpc, spc, hpc, dpc>>
signals == <<pend, sig>>
work == <<row, exec>>
vars == <<life, sock, busy, flags, term, threads, signals, conn, kind, cli, work, faults>>

Overlay == "overlay"
Open == {"start", "recv", "handle", "submit", "query", "add", "count", "kill"}

TypeOK ==
    /\ proc \in [Proc -> {"off", "lock", "key", "init", "run", "ended"}]
    /\ lock \subseteq Proc \cup Client \cup {Overlay}
    /\ key \in Proc \cup {None} /\ sock \in Proc \cup {None}
    /\ busy \in BOOLEAN
    /\ flags \subseteq {"terminate", "forced", "finish", "connector"}
    /\ term \in Conn \cup {"receiver", None}
    /\ rpc \in {"listen", "accept", "wait", "wake", "drain", "ended"}
    /\ spc \in {"idle", "woken", "run", "drain", "ended"}
    /\ hpc \in {"wait", "talk", "ended"} /\ dpc \in {"init", "run", "ended"}
    /\ pend \subseteq Signals /\ sig \in Signals \cup {None}
    /\ conn \in [Conn -> {"none", "backlog", "closed"} \cup Open]
    /\ kind \in [Client -> {"stop", "forced", "work", "format"}]
    /\ cli \in [Conn -> {"idle", "talk", "told", "locked", "done", "failed"}]
    /\ row \in [Client -> {"none", "new", "inprogress", "completed"}]
    /\ exec \subseteq Client /\ faults \in 0 .. MaxFaults

KindOf(c) == IF c \in Signals THEN "signal" ELSE kind[c]
Stops(c) == KindOf(c) \in {"stop", "forced", "signal"}
Is(f) == f \in flags

Init ==
    /\ proc = [p \in Proc |-> "off"] /\ lock = {} /\ key = None /\ sock = None
    /\ busy = FALSE /\ flags = {} /\ term = None
    /\ rpc = "ended" /\ spc = "ended" /\ hpc = "ended" /\ dpc = "ended"
    /\ pend = {} /\ sig = None
    /\ kind \in {k \in [Client -> UNION {Kinds[c] : c \in Client}] :
                    \A c \in Client : k[c] \in Kinds[c]}
    /\ conn = [c \in Conn |-> "none"] /\ cli = [c \in Conn |-> "idle"]
    /\ row = [c \in Client |-> "none"] /\ exec = {} /\ faults = 0

Fault == faults < MaxFaults /\ faults' = faults + 1

-----------------------------------------------------------------------------
(* Start: ltfsdm start, Server::initialize, daemonize and run.             *)

Start(p) ==
    /\ proc[p] = "off"
    /\ proc' = [proc EXCEPT ![p] = "lock"]
    /\ UNCHANGED <<lock, key, sock, users, flags, term, threads, signals, conn, cli, work, faults>>

(* Mutant of LockFree: the lock is not tried exclusively.                  *)
LockFreeAny == lock \cap Client = {}

LockFree == lock = {}

LockServer(p) ==
    /\ proc[p] = "lock"
    /\ \/ /\ LockFree
          /\ lock' = lock \cup {p} /\ proc' = [proc EXCEPT ![p] = "key"]
       \/ /\ ~LockFree
          /\ proc' = [proc EXCEPT ![p] = "ended"] /\ UNCHANGED lock
    /\ UNCHANGED <<key, sock, users, flags, term, threads, signals, conn, cli, work, faults>>

WriteKey(p) ==
    /\ proc[p] = "key"
    /\ proc' = [proc EXCEPT ![p] = "init"] /\ key' = p
    /\ UNCHANGED <<lock, sock, users, flags, term, threads, signals, conn, cli, work, faults>>

(* The data base is new, the configuration is read, the four threads are   *)
(* started; or that fails and the process ends.                            *)
Run(p) ==
    /\ proc[p] = "init"
    /\ proc' = [proc EXCEPT ![p] = "run"]
    /\ flags' = {} /\ term' = "receiver"
    /\ rpc' = "listen" /\ spc' = "idle" /\ hpc' = "wait" /\ dpc' = "init"
    /\ pend' = {} /\ sig' = None
    /\ cli' = [c \in Conn |-> IF c \in Signals THEN "idle" ELSE cli[c]]
    /\ conn' = [c \in Conn |-> "none"]
    /\ row' = [c \in Client |-> "none"] /\ exec' = {}
    /\ UNCHANGED <<lock, key, sock, users, faults>>

RunFails(p) ==
    /\ proc[p] = "init" /\ Fault
    /\ proc' = [proc EXCEPT ![p] = "ended"] /\ lock' = lock \ {p}
    /\ UNCHANGED <<key, sock, users, flags, term, threads, signals, conn, cli, work>>

Running == {p \in Proc : proc[p] = "run"}

(* A thread that ends with an exception makes SubServer::waitThread        *)
(* terminate the server.                                                   *)
Thrown == flags' = flags \cup {"forced"} /\ pend' = pend \cup {"USR1"}

(* Scheduler::invoke waits while the scheduler goes through the queue.     *)
Invoke == spc # "run" /\ spc' = IF spc = "idle" THEN "woken" ELSE spc

-----------------------------------------------------------------------------
(* Clients.                                                                *)

Connect(c) ==
    /\ cli[c] = "idle" /\ sock # None
    /\ cli' = [cli EXCEPT ![c] = "talk"] /\ conn' = [conn EXCEPT ![c] = "backlog"]
    /\ UNCHANGED <<life, sock, users, flags, term, threads, signals, work, faults>>

ClientDies(c) ==
    /\ cli[c] = "talk" /\ Fault
    /\ cli' = [cli EXCEPT ![c] = "failed"]
    /\ UNCHANGED <<life, sock, users, flags, term, threads, signals, conn, work>>

(* ltfsdm stop takes and frees the server lock to see that it is gone.     *)
TakeLock(c) ==
    /\ cli[c] = "told" /\ LockFree
    /\ cli' = [cli EXCEPT ![c] = "locked"] /\ lock' = lock \cup {c}
    /\ UNCHANGED <<proc, key, sock, users, flags, term, threads, signals, conn, work, faults>>

FreeLock(c) ==
    /\ cli[c] = "locked"
    /\ cli' = [cli EXCEPT ![c] = "done"] /\ lock' = lock \ {c}
    /\ UNCHANGED <<proc, key, sock, users, flags, term, threads, signals, conn, work, faults>>

(* The operator kills the server, or the files of the file system are      *)
(* opened and closed.                                                      *)
Kill ==
    /\ Running # {} /\ "TERM" \notin pend /\ cli["TERM"] = "idle" /\ Fault
    /\ pend' = pend \cup {"TERM"}
    /\ UNCHANGED <<life, sock, users, flags, term, threads, sig, conn, cli, work>>

Use ==
    /\ busy' = (~busy /\ Overlay \in lock) /\ busy' # busy
    /\ UNCHANGED <<life, sock, kind, flags, term, threads, signals, conn, cli, work, faults>>

-----------------------------------------------------------------------------
(* Receiver::run.  It has termmtx but for its wait, so that a session can  *)
(* only take its first messages while the receiver waits.                  *)

Listen ==
    /\ rpc = "listen"
    /\ \/ /\ rpc' = "accept" /\ sock' = CHOOSE p \in Proc : p \in Running
          /\ UNCHANGED <<term, flags, pend, faults>>
       \/ /\ Fault
          /\ rpc' = "ended" /\ term' = None /\ Thrown
          /\ UNCHANGED sock
    /\ UNCHANGED <<life, users, spc, hpc, dpc, sig, conn, cli, work>>

(* accept and enqueue; accept may fail for want of file descriptors.       *)
Accept(c) ==
    /\ rpc = "accept" /\ conn[c] = "backlog"
    /\ conn' = [conn EXCEPT ![c] = "start"]
    /\ rpc' = "wait" /\ term' = None
    /\ UNCHANGED <<life, sock, users, flags, spc, hpc, dpc, signals, cli, work, faults>>

AcceptFails ==
    /\ rpc = "accept" /\ Fault
    /\ rpc' = "drain" /\ term' = None
    /\ UNCHANGED <<life, sock, users, flags, spc, hpc, dpc, signals, conn, cli, work>>

(* termcond is waited for without a predicate.                             *)
Spurious ==
    /\ rpc = "wait" /\ Fault /\ rpc' = "wake"
    /\ UNCHANGED <<life, sock, users, flags, term, spc, hpc, dpc, signals, conn, cli, work>>

(* Mutant of Woken: the receiver is not notified.                          *)
WokenNot == rpc

Woken == IF rpc = "wait" THEN "wake" ELSE rpc

Wake ==
    /\ rpc = "wake" /\ term = None
    /\ IF Is("finish") THEN rpc' = "drain" /\ UNCHANGED term
                       ELSE rpc' = "accept" /\ term' = "receiver"
    /\ UNCHANGED <<life, sock, users, flags, spc, hpc, dpc, signals, conn, cli, work, faults>>

(* Mutant of Completed: waitCompletion does not wait for the sessions.     *)
CompletedSome == \E c \in Conn : conn[c] = "closed"

Completed == \A c \in Conn : conn[c] \notin Open

(* The sessions have ended, the socket is closed, and the connector is     *)
(* terminated: that fails if nobody listens on the recall socket.          *)
Close ==
    /\ rpc = "drain" /\ Completed
    /\ rpc' = "ended" /\ sock' = None
    /\ conn' = [c \in Conn |-> IF conn[c] = "backlog" THEN "closed" ELSE conn[c]]
    /\ cli' = [c \in Conn |-> IF conn[c] = "backlog" THEN "failed" ELSE cli[c]]
    /\ IF dpc = "run"
       THEN flags' = flags \cup {"connector"} /\ UNCHANGED pend
       ELSE flags' = flags \cup {"connector", "forced"} /\ pend' = pend \cup {"USR1"}
    /\ UNCHANGED <<life, users, term, spc, hpc, dpc, sig, work, faults>>

-----------------------------------------------------------------------------
(* Sessions: MessageParser::run.                                           *)

Take(c) ==
    /\ conn[c] = "start" /\ term = None
    /\ conn' = [conn EXCEPT ![c] = "recv"] /\ term' = c
    /\ UNCHANGED <<life, sock, users, flags, threads, signals, cli, work, faults>>

(* The first message is there, or the client is gone: the receiver is      *)
(* woken.  A stop sets its flags before.                                   *)
(* Mutant of StopFlags: the command itself is taken for its flags.         *)
StopFlagsRaw(c) == {KindOf(c)}

StopFlags(c) ==
    CASE KindOf(c) = "forced" -> {"terminate", "forced"}
      [] KindOf(c) = "signal" -> {"terminate", "finish"}
      [] OTHER -> {"terminate"}

Received(c) == IF Stops(c) THEN flags \cup StopFlags(c) ELSE flags

Recv(c) ==
    /\ conn[c] = "recv" /\ term' = None /\ rpc' = Woken
    /\ \/ /\ cli[c] = "talk" /\ flags' = Received(c)
          /\ conn' = [conn EXCEPT ![c] = IF Stops(c) THEN "count" ELSE "handle"]
       \/ /\ cli[c] = "failed" /\ UNCHANGED flags
          /\ conn' = [conn EXCEPT ![c] = "closed"]
    /\ UNCHANGED <<life, sock, users, spc, hpc, dpc, signals, cli, work, faults>>

Answer(c) == /\ conn' = [conn EXCEPT ![c] = "closed"]
             /\ cli' = [cli EXCEPT ![c] = IF @ = "talk" THEN "done" ELSE @]

(* A migration or recall is refused while the server stops, a format is    *)
(* not.                                                                    *)
Handle(c) ==
    /\ conn[c] = "handle"
    /\ \/ /\ kind[c] = "work" /\ Is("terminate") /\ Answer(c)
       \/ /\ kind[c] = "work" => ~Is("terminate")
          /\ conn' = [conn EXCEPT ![c] = "submit"] /\ UNCHANGED cli
    /\ UNCHANGED <<life, sock, users, flags, term, threads, signals, work, faults>>

(* Its row is added and the scheduler invoked; the session then waits.     *)
Submit(c) ==
    /\ conn[c] = "submit"
    /\ \/ /\ row[c] = "none" /\ row' = [row EXCEPT ![c] = "new"] /\ UNCHANGED <<spc, conn>>
       \/ /\ row[c] # "none" /\ Invoke
          /\ conn' = [conn EXCEPT ![c] = IF kind[c] = "work" THEN "query" ELSE "add"]
          /\ UNCHANGED row
    /\ UNCHANGED <<life, sock, users, flags, term, rpc, hpc, dpc, signals, cli, exec, faults>>

(* queryResult: a request is done, or all are when the server finishes;    *)
(* the rows are deleted.  A session whose client is gone just ends.        *)
Query(c) ==
    /\ conn[c] = "query"
    /\ \/ /\ row[c] = "completed" \/ Is("finish")
          /\ row' = [row EXCEPT ![c] = "none"]
       \/ cli[c] = "failed" /\ UNCHANGED row
    /\ Answer(c)
    /\ UNCHANGED <<life, sock, users, flags, term, threads, signals, exec, faults>>

(* stopMessage: it waits until no row is in progress.                      *)
InProgress == {c \in Client : row[c] = "inprogress"}

MayEnd == Is("forced") \/ Is("finish") \/ InProgress = {}

Count(c) ==
    /\ conn[c] = "count"
    /\ \/ /\ cli[c] = "talk" /\ MayEnd
          /\ cli' = [cli EXCEPT ![c] = "told"] /\ conn' = [conn EXCEPT ![c] = "kill"]
       \/ /\ cli[c] = "failed"
          /\ conn' = [conn EXCEPT ![c] = "closed"] /\ UNCHANGED cli
    /\ UNCHANGED <<life, sock, users, flags, term, threads, signals, work, faults>>

Finish(c) ==
    /\ conn[c] = "kill" /\ Invoke /\ pend' = pend \cup {"USR1"}
    /\ conn' = [conn EXCEPT ![c] = "closed"]
    /\ UNCHANGED <<life, sock, users, flags, term, rpc, hpc, dpc, sig, cli, work, faults>>

-----------------------------------------------------------------------------
(* Server::signalHandler: a signal makes it a client that stops the        *)
(* server; it ends with SIGUSR1 or when it cannot talk to the receiver.    *)

SigWait(s) ==
    /\ hpc = "wait" /\ s \in pend /\ pend' = pend \ {s} /\ sig' = s
    /\ IF sock = None THEN hpc' = "ended" /\ UNCHANGED <<conn, cli>>
       ELSE /\ hpc' = "talk" /\ conn' = [conn EXCEPT ![s] = "backlog"]
            /\ cli' = [cli EXCEPT ![s] = "talk"]
    /\ UNCHANGED <<life, sock, users, flags, term, rpc, spc, dpc, work, faults>>

SigTold ==
    /\ hpc = "talk" /\ cli[sig] \in {"told", "failed"}
    /\ hpc' = IF sig = "USR1" \/ cli[sig] = "failed" THEN "ended" ELSE "wait"
    /\ UNCHANGED <<life, sock, users, flags, term, rpc, spc, dpc, signals, conn, cli, work, faults>>

-----------------------------------------------------------------------------
(* Scheduler::run and its executors.                                       *)

SchedWake ==
    /\ spc = "woken" /\ spc' = IF Is("terminate") THEN "drain" ELSE "run"
    /\ UNCHANGED <<life, sock, users, flags, term, rpc, hpc, dpc, signals, conn, cli, work, faults>>

Schedule(c) ==
    /\ spc = "run" /\ row[c] = "new"
    /\ row' = [row EXCEPT ![c] = "inprogress"] /\ exec' = exec \cup {c}
    /\ UNCHANGED <<life, sock, users, flags, term, threads, signals, conn, cli, faults>>

SchedDone ==
    /\ spc = "run" /\ spc' = "idle"
    /\ UNCHANGED <<life, sock, users, flags, term, rpc, hpc, dpc, signals, conn, cli, work, faults>>

(* A format that fails leaves its row in progress; it wakes its session in *)
(* any case, and an executor that throws terminates the server.            *)
ExecEnd(c) ==
    /\ c \in exec /\ exec' = exec \ {c} /\ Invoke
    /\ \/ /\ row' = [row EXCEPT ![c] = IF @ = "none" \/ kind[c] = "format" THEN "none"
                                       ELSE "completed"]
          /\ UNCHANGED faults
       \/ kind[c] = "format" /\ Fault /\ UNCHANGED row
    /\ IF conn[c] = "add" THEN Answer(c) ELSE UNCHANGED <<conn, cli>>
    /\ UNCHANGED <<life, sock, users, flags, term, rpc, hpc, dpc, signals>>

ExecThrows(c) ==
    /\ c \in exec /\ exec' = exec \ {c} /\ kind[c] = "work" /\ Fault /\ Thrown
    /\ UNCHANGED <<life, sock, users, term, threads, sig, conn, cli, row>>

(* waitAllRemaining; then every cartridge's condition is notified.         *)
SchedEnd ==
    /\ spc = "drain" /\ exec = {} /\ spc' = "ended"
    /\ conn' = [c \in Conn |-> IF conn[c] = "add" THEN "closed" ELSE conn[c]]
    /\ cli' = [c \in Conn |-> IF conn[c] = "add" /\ cli[c] = "talk" THEN "done" ELSE cli[c]]
    /\ UNCHANGED <<life, sock, users, flags, term, rpc, hpc, dpc, signals, work, faults>>

-----------------------------------------------------------------------------
(* RecallD, as far as start and stop go: it starts the overlay, which      *)
(* inherits the server lock, and ends when the connector is terminated.    *)

RecallDStarts ==
    /\ dpc = "init"
    /\ \/ dpc' = "run" /\ lock' = lock \cup {Overlay} /\ UNCHANGED faults
       \/ dpc' = "ended" /\ Fault /\ UNCHANGED lock
    /\ UNCHANGED <<proc, key, sock, users, flags, term, rpc, spc, hpc, signals, conn, cli, work>>

RecallDEnds ==
    /\ dpc = "run" /\ Is("connector") /\ dpc' = "ended"
    /\ UNCHANGED <<life, sock, users, flags, term, rpc, spc, hpc, signals, conn, cli, work, faults>>

(* The end of Server::run: the four threads have ended, the file system is *)
(* unmounted, which its users can delay unless the stop is forced, and the *)
(* process ends.                                                           *)
Ended == rpc = "ended" /\ spc = "ended" /\ hpc = "ended" /\ dpc = "ended"

Exit(p) ==
    /\ proc[p] = "run" /\ Ended /\ (busy => Is("forced"))
    /\ proc' = [proc EXCEPT ![p] = "ended"] /\ lock' = lock \ {p, Overlay}
    /\ busy' = FALSE
    /\ UNCHANGED <<key, sock, kind, flags, term, threads, signals, conn, cli, work, faults>>

(* The process is killed: the overlay lives on until it is unmounted.      *)
Crash(p) ==
    /\ proc[p] = "run" /\ Fault
    /\ proc' = [proc EXCEPT ![p] = "ended"] /\ lock' = lock \ {p}
    /\ sock' = IF sock = p THEN None ELSE sock
    /\ flags' = {} /\ term' = None /\ pend' = {} /\ sig' = None
    /\ rpc' = "ended" /\ spc' = "ended" /\ hpc' = "ended" /\ dpc' = "ended"
    /\ cli' = [c \in Conn |-> IF cli[c] = "talk" THEN "failed" ELSE cli[c]]
    /\ conn' = [c \in Conn |-> "closed"] /\ exec' = {}
    /\ UNCHANGED <<key, users, row>>

Unmount ==
    /\ Overlay \in lock /\ Running = {} /\ ~busy
    /\ lock' = lock \ {Overlay}
    /\ UNCHANGED <<proc, key, sock, users, flags, term, threads, signals, conn, cli, work, faults>>

-----------------------------------------------------------------------------
ServerStep ==
    \/ \E p \in Proc : LockServer(p) \/ WriteKey(p) \/ Run(p) \/ Exit(p)
    \/ Listen \/ Wake \/ Close \/ SchedWake \/ SchedDone \/ SchedEnd
    \/ RecallDStarts \/ RecallDEnds \/ SigTold
    \/ \E s \in Signals : SigWait(s)
    \/ \E c \in Conn : Accept(c) \/ Take(c) \/ Recv(c) \/ Count(c) \/ Finish(c)
    \/ \E c \in Client : Handle(c) \/ Submit(c) \/ Query(c) \/ ExecEnd(c) \/ Schedule(c)

Environment ==
    \/ \E p \in Proc : Start(p) \/ RunFails(p) \/ Crash(p)
    \/ \E c \in Client : Connect(c) \/ ClientDies(c) \/ TakeLock(c) \/ FreeLock(c) \/ ExecThrows(c)
    \/ AcceptFails \/ Spurious \/ Kill \/ Use \/ Unmount

Next == ServerStep \/ Environment

(* As long as a thread of the server, a session, an executor or a client   *)
(* that is alive has a step to do, one of them does it; the rest need not  *)
(* happen.  No thread can go on for ever, so that is all that is needed.   *)
Spec == Init /\ [][Next]_vars /\ WF_vars(ServerStep)

-----------------------------------------------------------------------------
(* Properties.                                                             *)

(* The server that clients reach holds the server lock, and the key file   *)
(* has its key, whatever is started, killed or restarted: lockServer comes *)
(* before writeKey and the sockets.                                        *)
KeyAgrees == sock # None => sock \in lock /\ key = sock /\ sock \in Running

(* When no server runs no executor works on a request and no session is    *)
(* open: Server::run waits for its threads, Scheduler::run for the         *)
(* executors and Receiver::run for the sessions before the process ends    *)
(* and the server lock is free for another.                                *)
ExitClean == Running = {} => exec = {} /\ \A c \in Conn : conn[c] \notin Open

(* What keeps a server that was told to stop from its end: the users of    *)
(* the file system; a receiver that has ended with an error, or a signal   *)
(* handler that could not reach it, so that finishTerminate is never set;  *)
(* a session that the receiver overtook; a pool add that waits for a       *)
(* scheduler that has ended; a row that a failed format left in progress.  *)
Hindered ==
    \/ busy /\ ~Is("forced")
    \/ ~Is("finish") /\ (rpc \in {"drain", "ended"} \/ hpc = "ended")
    \/ rpc = "accept" /\ \E c \in Conn : conn[c] = "start"
    \/ spc = "ended" /\ \E c \in Client : conn[c] \in {"submit", "add"}
    \/ ~MayEnd /\ InProgress \ exec # {}

(* A stop that a session has taken, and a SIGTERM, end the server, unless  *)
(* the client of the stop is gone before its answer or the server is       *)
(* hindered: stopMessage, the signal handler, the receiver, the scheduler  *)
(* and the recall thread never wait for each other.                        *)
StopTaken == "TERM" \in pend \/ \E c \in Conn : conn[c] = "count"

StopEnds ==
    StopTaken ~> (Running = {} \/ Hindered \/ \E c \in Client : Stops(c) /\ cli[c] = "failed")

=============================================================================
