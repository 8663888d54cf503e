------------------------------- MODULE Pools --------------------------------
(***************************************************************************)
(* Tape storage pools: the pool and info commands of the client, the       *)
(* sessions that answer them (server/MessageParser.cc), the pools of the   *)
(* inventory (server/LTFSDMInventory.cc) and of the configuration file     *)
(* (common/Configuration.cc), and the formatting or checking of a tape     *)
(* before it is added (server/TapeHandler.cc).                             *)
(*                                                                         *)
(* Every operation of the inventory runs under its mutex and is one step.  *)
(* inventorize makes new cartridge objects, but a session that waits for a *)
(* tape keeps the object it has, and so does a TapeHandler: of an old one  *)
(* only its result matters, and who waits for it.  How a row gets its      *)
(* drive is in module Scheduler.                                           *)
(***************************************************************************)
EXTENDS Integers, FiniteSets

CONSTANTS Client, Tape, Pool,
          Modes,        (* client -> ways it may add: plain, format, check   *)
          Drives,       (* number of drives                                  *)
          MaxCommands,  (* bound on commands of the clients                  *)
          MaxRestarts,  (* bound on crashes of the server                    *)
          MaxMoves,     (* bound on tapes taken out of or put in the library *)
          None

ASSUME PoolsAssumption ==
    /\ IsFiniteSet(Client) /\ None \notin Pool \cup Tape
    /\ Modes \in [Client -> SUBSET {"plain", "format", "check"}]
    /\ Drives \in Nat \ {0} /\ MaxCommands \in Nat /\ MaxRestarts \in Nat /\ MaxMoves \in Nat

VARIABLES conf,      (* Configuration::stgplist: pool -> tapes               *)
          file,      (* the configuration file                               *)
          lib,       (* tapes in the library                                 *)
          status,    (* tape -> what LTFS LE says of it                      *)
          inv,       (* tapes of the inventory                               *)
          pool,      (* tape -> LTFSDMCartridge::pool                        *)
          result,    (* tapes whose LTFSDMCartridge::result is an error      *)
          sess,      (* client -> its session                                *)
          rows,      (* REQUEST_QUEUE: formats and checks to be served       *)
          exec,      (* the TapeHandlers that run                            *)
          missed,    (* history: clients whose TapeHandler notified another  *)
                     (* object than the one they wait for, or too early      *)
          added,     (* history: <<client, tape>> that its command has added *)
          told,      (* history: <<client, tape>> told to be added           *)
          commands, restarts, moves

config == <<conf, file>>
inventory == <<inv, pool, result>>
history == <<missed, added, told>>
budget == <<commands, restarts, moves>>
vars == <<config, lib, status, inventory, sess, rows, exec, history, budget>>

Statuses == {"WRITABLE", "NOT_MOUNTED_YET", "INVALID"}
AnyMode == {"plain", "format", "check"}
Row == [client: Client, tape: Tape, pool: Pool, mode: AnyMode, state: {"new", "inprogress"}]
(* The object a session has: that of the inventory, or an old one and its  *)
(* result.                                                                 *)
Objects == {"current", "ok", "error"}

Idle == [pc |-> "idle", pool |-> None, todo |-> {}, tape |-> None, mode |-> "plain",
         obj |-> "current"]

TypeOK ==
    /\ \E P \in SUBSET Pool : conf \in [P -> SUBSET Tape]
    /\ \E P \in SUBSET Pool : file \in [P -> SUBSET Tape]
    /\ lib \subseteq Tape /\ inv \subseteq Tape
    /\ status \in [Tape -> Statuses]
    /\ pool \in [Tape -> Pool \cup {None}] /\ result \subseteq Tape
    /\ sess \in [Client -> [pc: {"idle", "add", "get", "wait", "woken"},
                            pool: Pool \cup {None}, todo: SUBSET Tape,
                            tape: Tape \cup {None}, mode: AnyMode, obj: Objects]]
    /\ rows \subseteq Row
    /\ \A e \in exec : /\ e.row \in Row /\ e.old \in BOOLEAN
                       /\ e.waiting \subseteq Client
                       /\ e.pc \in {"work", "add", "free", "inventorize", "notify"}
    /\ missed \subseteq Client
    /\ added \subseteq Client \X Tape /\ told \subseteq Client \X Tape
    /\ commands \in 0 .. MaxCommands /\ restarts \in 0 .. MaxRestarts
    /\ moves \in 0 .. MaxMoves

-----------------------------------------------------------------------------
(* Configuration: each change is written to a new file that is renamed.    *)

(* Mutant of Write: the file is not written.                               *)
WriteNot(c) == file

Write(c) == c

Configure(c) == conf' = c /\ file' = Write(c)

(* poolCreate, poolDelete, poolAdd and poolRemove of LTFSDMInventory.      *)
CanCreate(p) == p \notin DOMAIN conf

(* Mutant of CanDelete: a pool with tapes may be deleted.                  *)
CanDeleteFull(p) == p \in DOMAIN conf

CanDelete(p) == p \in DOMAIN conf /\ conf[p] = {}

CanAdd(p, t) == /\ t \in inv /\ pool[t] = None /\ p \in DOMAIN conf
                /\ \A q \in DOMAIN conf : t \notin conf[q]

CanRemove(p, t) == t \in inv /\ pool[t] = p /\ p \in DOMAIN conf /\ t \in conf[p]

PoolAdd(c, p, t) == /\ Configure([conf EXCEPT ![p] = @ \cup {t}])
                    /\ pool' = [pool EXCEPT ![t] = p]
                    /\ added' = added \cup {<<c, t>>}

(* inventorize, if no drive is busy: new objects, and tapes that are gone  *)
(* leave their pools.                                                      *)
Busy == {e \in exec : e.pc \in {"work", "add", "free"}}

Waits(c, t) == sess[c].pc = "wait" /\ sess[c].obj = "current" /\ sess[c].tape = t

Pruned(c) == [p \in DOMAIN c |-> c[p] \cap lib]

PoolsFrom(c) ==
    [t \in Tape |-> IF \E p \in DOMAIN c : t \in c[p]
                    THEN CHOOSE p \in DOMAIN c : t \in c[p] ELSE None]

(* The sessions and the TapeHandlers keep the old objects.                 *)
KeepOld(E) ==
    /\ sess' = [c \in Client |->
                  IF sess[c].pc \in {"wait", "woken"} /\ sess[c].obj = "current"
                  THEN [sess[c] EXCEPT !.obj = IF sess[c].tape \in result THEN "error"
                                               ELSE "ok"]
                  ELSE sess[c]]
    /\ exec' = {IF e.old THEN e
                 ELSE [e EXCEPT !.old = TRUE,
                                !.waiting = {c \in Client : Waits(c, e.row.tape)}] :
                e \in E}

Renew(E) ==
    /\ KeepOld(E)
    /\ inv' = lib /\ result' = {}
    /\ Configure(Pruned(conf))
    /\ pool' = PoolsFrom(Pruned(conf))

(* The server has read its configuration and made the inventory.           *)
Init ==
    /\ \E P \in SUBSET Pool : conf \in [P -> SUBSET Tape]
    /\ \A p, q \in DOMAIN conf : p # q => conf[p] \cap conf[q] = {}
    /\ file = conf
    /\ lib = Tape /\ inv = Tape /\ status \in [Tape -> Statuses]
    /\ pool = PoolsFrom(conf) /\ result = {}
    /\ sess = [c \in Client |-> Idle] /\ rows = {} /\ exec = {}
    /\ missed = {} /\ added = {} /\ told = {}
    /\ commands = MaxCommands /\ restarts = MaxRestarts /\ moves = MaxMoves

-----------------------------------------------------------------------------
(* The sessions.                                                           *)

Asks(c) == sess[c].pc = "idle" /\ commands > 0 /\ commands' = commands - 1

CreatePool(c) ==
    /\ Asks(c) /\ UNCHANGED sess
    /\ \E p \in Pool : IF CanCreate(p)
                       THEN Configure([q \in DOMAIN conf \cup {p} |->
                                         IF q = p THEN {} ELSE conf[q]])
                       ELSE UNCHANGED config
    /\ UNCHANGED <<lib, status, inventory, rows, exec, history, restarts, moves>>

DeletePool(c) ==
    /\ Asks(c) /\ UNCHANGED sess
    /\ \E p \in Pool : IF CanDelete(p)
                       THEN Configure([q \in DOMAIN conf \ {p} |-> conf[q]])
                       ELSE UNCHANGED config
    /\ UNCHANGED <<lib, status, inventory, rows, exec, history, restarts, moves>>

(* One tape of poolRemoveMessage.                                          *)
RemoveTape(c) ==
    /\ Asks(c) /\ UNCHANGED sess
    /\ \E p \in Pool, t \in Tape :
          IF CanRemove(p, t)
          THEN /\ Configure([conf EXCEPT ![p] = @ \ {t}])
               /\ pool' = [pool EXCEPT ![t] = None]
          ELSE UNCHANGED <<config, pool>>
    /\ UNCHANGED <<lib, status, inv, result, rows, exec, history, restarts, moves>>

(* infoPoolsMessage removes tapes that the inventory does not know.        *)
InfoPools(c) ==
    /\ Asks(c) /\ UNCHANGED sess
    /\ Configure([p \in DOMAIN conf |-> conf[p] \cap inv])
    /\ UNCHANGED <<lib, status, inventory, rows, exec, history, restarts, moves>>

(* retrieveMessage.                                                        *)
Retrieve(c) ==
    /\ Asks(c)
    /\ IF Busy = {} THEN Renew(exec) ELSE UNCHANGED <<config, inventory, sess, exec>>
    /\ UNCHANGED <<lib, status, rows, history, restarts, moves>>

(* poolAddMessage.  A pool that does not exist is reported, and the        *)
(* session goes on.                                                        *)
AddTapes(c) ==
    /\ Asks(c)
    /\ \E p \in Pool, T \in (SUBSET Tape) \ {{}}, m \in Modes[c] :
          sess' = [sess EXCEPT ![c] = [Idle EXCEPT !.pc = "add", !.pool = p,
                                                   !.todo = T, !.mode = m]]
    /\ UNCHANGED <<config, lib, status, inventory, rows, exec, history, restarts, moves>>

(* The tape has to be formatted or checked first.                          *)
NeedsHandler(m, s) == \/ m = "format" /\ s # "WRITABLE"
                      \/ m = "check" /\ s \in {"NOT_MOUNTED_YET", "WRITABLE"}

MayHandle(t) == t \in inv /\ pool[t] = None

(* The next tape: it is refused, added, or a row is added for it.          *)
AddTape(c) ==
    /\ sess[c].pc = "add"
    /\ \E t \in sess[c].todo :
          LET s == sess[c]
              rest == [s EXCEPT !.todo = @ \ {t}]
          IN \/ /\ MayHandle(t) /\ NeedsHandler(s.mode, status[t])
                /\ rows' = rows \cup {[client |-> c, tape |-> t, pool |-> s.pool,
                                       mode |-> s.mode, state |-> "new"]}
                /\ sess' = [sess EXCEPT ![c] = [rest EXCEPT !.pc = "get", !.tape = t]]
                /\ UNCHANGED <<config, pool, history>>
             \/ /\ MayHandle(t) /\ s.mode = "plain" /\ status[t] = "WRITABLE"
                /\ CanAdd(s.pool, t)
                /\ PoolAdd(c, s.pool, t)
                /\ told' = told \cup {<<c, t>>}
                /\ sess' = [sess EXCEPT ![c] = rest]
                /\ UNCHANGED <<rows, missed>>
             \/ /\ ~(MayHandle(t) /\ NeedsHandler(s.mode, status[t]))
                /\ ~(s.mode = "plain" /\ status[t] = "WRITABLE" /\ CanAdd(s.pool, t))
                /\ sess' = [sess EXCEPT ![c] = rest]
                /\ UNCHANGED <<config, pool, rows, history>>
    /\ UNCHANGED <<lib, status, inv, result, exec, budget>>

(* The session takes the cartridge object and waits for its condition.  If *)
(* the tape has gone it ends, without an answer for the tapes that remain. *)
AddWait(c) ==
    /\ sess[c].pc = "get"
    /\ sess' = [sess EXCEPT ![c] = IF sess[c].tape \in inv
                                   THEN [@ EXCEPT !.pc = "wait"]
                                   ELSE Idle]
    /\ UNCHANGED <<config, lib, status, inventory, rows, exec, history, budget>>

(* The answer is what the object says.                                     *)
AddResult(c) ==
    /\ sess[c].pc = "woken"
    /\ sess' = [sess EXCEPT ![c] = [@ EXCEPT !.pc = "add", !.tape = None, !.obj = "current"]]
    /\ told' = IF sess[c].obj = "error" \/ (sess[c].obj = "current" /\ sess[c].tape \in result)
               THEN told
               ELSE told \cup {<<c, sess[c].tape>>}
    /\ UNCHANGED <<config, lib, status, inventory, rows, exec, missed, added, budget>>

AddEnd(c) ==
    /\ sess[c].pc = "add" /\ sess[c].todo = {}
    /\ sess' = [sess EXCEPT ![c] = Idle]
    /\ missed' = missed \ {c}
    /\ added' = {a \in added : a[1] # c} /\ told' = {a \in told : a[1] # c}
    /\ UNCHANGED <<config, lib, status, inventory, rows, exec, budget>>

-----------------------------------------------------------------------------
(* TapeHandler::execRequest.                                               *)

Moved(e, pc) == (exec \ {e}) \cup {[e EXCEPT !.pc = pc]}
To(e, pc) == exec' = Moved(e, pc)

(* The scheduler has found a drive, and nobody else has the tape.          *)
Dispatch(r) ==
    /\ r \in rows /\ r.state = "new" /\ r.tape \in inv
    /\ Cardinality(Busy) < Drives /\ \A e \in Busy : e.row.tape # r.tape
    /\ rows' = (rows \ {r}) \cup {[r EXCEPT !.state = "inprogress"]}
    /\ exec' = exec \cup {[row |-> [r EXCEPT !.state = "inprogress"], pc |-> "work",
                           old |-> FALSE, waiting |-> {}]}
    /\ UNCHANGED <<config, lib, status, inventory, sess, history, budget>>

(* Mutant of Formatted: a status that nobody knows.                        *)
FormattedOther == "FORMATTED"

Formatted == "WRITABLE"

(* Format or Check of LTFS LE.  If it fails the row remains in progress,   *)
(* where nobody looks at it, and no result is set.                         *)
ExecWork(e) ==
    /\ e \in exec /\ e.pc = "work"
    /\ \/ /\ status' = [status EXCEPT ![e.row.tape] = Formatted] /\ To(e, "add")
          /\ UNCHANGED rows
       \/ /\ rows' = rows \ {e.row} /\ To(e, "free")
          /\ UNCHANGED status
    /\ UNCHANGED <<config, lib, inventory, sess, history, budget>>

ExecAdd(e) ==
    /\ e \in exec /\ e.pc = "add" /\ To(e, "free")
    /\ IF CanAdd(e.row.pool, e.row.tape)
       THEN PoolAdd(e.row.client, e.row.pool, e.row.tape) /\ UNCHANGED result
       ELSE /\ result' = result \cup {e.row.tape}
            /\ UNCHANGED <<config, pool, added>>
    /\ rows' = rows \ {e.row}
    /\ UNCHANGED <<lib, status, inv, sess, missed, told, budget>>

(* The drive is free again.                                                *)
ExecFree(e) ==
    /\ e \in exec /\ e.pc = "free" /\ To(e, "inventorize")
    /\ UNCHANGED <<config, lib, status, inventory, sess, rows, history, budget>>

ExecInventorize(e) ==
    /\ e \in exec /\ e.pc = "inventorize"
    /\ IF Busy = {}
       THEN Renew(Moved(e, "notify"))
       ELSE To(e, "notify") /\ UNCHANGED <<config, inventory, sess>>
    /\ UNCHANGED <<lib, status, rows, history, budget>>

Waiting(e) ==
    IF e.old THEN {c \in e.waiting : sess[c].pc = "wait" /\ sess[c].obj # "current"}
    ELSE {c \in Client : Waits(c, e.row.tape)}

(* Mutant of Notified: nobody is notified.                                 *)
NotifiedNot(e) == {}

Notified(e) == Waiting(e)

(* One of the sessions that wait for the object is notified.               *)
ExecNotify(e) ==
    /\ e \in exec /\ e.pc = "notify"
    /\ \/ /\ Notified(e) = {} /\ exec' = exec \ {e}
          /\ missed' = IF Waiting(e) = {} THEN missed \cup {e.row.client} ELSE missed
          /\ UNCHANGED sess
       \/ \E c \in Notified(e) :
             /\ sess' = [sess EXCEPT ![c].pc = "woken"]
             /\ exec' = {[x EXCEPT !.waiting = @ \ {c}] : x \in exec \ {e}}
             /\ missed' = IF c = e.row.client THEN missed ELSE missed \cup {e.row.client}
    /\ UNCHANGED <<config, lib, status, inventory, rows, added, told, budget>>

-----------------------------------------------------------------------------
(* A tape is taken out of the library or put back.                         *)
MoveTape ==
    /\ moves > 0 /\ moves' = moves - 1
    /\ \E t \in Tape : lib' = IF t \in lib THEN lib \ {t} ELSE lib \cup {t}
    /\ UNCHANGED <<config, status, inventory, sess, rows, exec, history, commands, restarts>>

(* The server crashes and is started: the tables are made anew, the        *)
(* configuration is read, the inventory is made.                           *)
Restart ==
    /\ restarts > 0 /\ restarts' = restarts - 1
    /\ sess' = [c \in Client |-> Idle]
    /\ rows' = {} /\ exec' = {}
    /\ Configure(Pruned(file))
    /\ inv' = lib /\ pool' = PoolsFrom(Pruned(file)) /\ result' = {}
    /\ missed' = {} /\ added' = {} /\ told' = {}
    /\ UNCHANGED <<lib, status, commands, moves>>

SessionNext(c) == AddTape(c) \/ AddWait(c) \/ AddResult(c) \/ AddEnd(c)

Command(c) == CreatePool(c) \/ DeletePool(c) \/ RemoveTape(c) \/ InfoPools(c)
              \/ Retrieve(c) \/ AddTapes(c)

ExecNext(e) == ExecWork(e) \/ ExecAdd(e) \/ ExecFree(e) \/ ExecInventorize(e)
               \/ ExecNotify(e)

HandlerNext == \/ \E r \in rows : Dispatch(r)
               \/ \E e \in exec : ExecNext(e)

Next == \/ \E c \in Client : Command(c) \/ SessionNext(c)
        \/ HandlerNext
        \/ MoveTape \/ Restart

Spec == Init /\ [][Next]_vars

(* Sessions go on, and rows are served: there are finitely many.           *)
Fairness == (\A c \in Client : WF_vars(SessionNext(c))) /\ WF_vars(HandlerNext)

FairSpec == Spec /\ Fairness

-----------------------------------------------------------------------------
(* The inventory and the configuration agree on the pool of each tape, no  *)
(* tape is in two pools, and no pool holds a tape that is not known.       *)
PoolsAgree ==
    /\ \A t \in inv, p \in Pool : pool[t] = p <=> (p \in DOMAIN conf /\ t \in conf[p])
    /\ \A p \in DOMAIN conf : conf[p] \subseteq inv

(* What was configured survives a crash, but for tapes that have gone.     *)
ConfSurvives ==
    [][restarts' # restarts => conf' = Pruned(conf)]_vars

(* A client is told that a tape was added only if it was added for it.     *)
ToldTruth == told \subseteq added

(* A session that waits for its tape gets an answer, unless the object it  *)
(* waits for was replaced or notified for another, or the tape has gone.   *)
AddEnds ==
    \A c \in Client :
       sess[c].pc = "wait" ~>
          (sess[c].pc # "wait" \/ c \in missed \/ sess[c].tape \notin inv)
=============================================================================
