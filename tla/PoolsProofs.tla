---------------------------- MODULE PoolsProofs -----------------------------
(***************************************************************************)
(* Proofs about tape storage pools, for any number of clients, tapes,      *)
(* pools and drives, with any number of crashes and of tapes that are      *)
(* moved in and out of the library.                                        *)
(***************************************************************************)
EXTENDS Pools, TLAPS

(* A configuration, and one in which no tape is in two pools.              *)
IsConf(c) == DOMAIN c \subseteq Pool /\ c \in [DOMAIN c -> SUBSET Tape]

Disjoint(c) == \A p, q \in DOMAIN c : p # q => c[p] \cap c[q] = {}

Handler == [row: Row, pc: {"work", "add", "free", "inventorize", "notify"},
            old: BOOLEAN, waiting: SUBSET Client]

Session == [pc: {"idle", "add", "get", "wait", "woken"},
            pool: Pool \cup {None}, todo: SUBSET Tape,
            tape: Tape \cup {None}, mode: AnyMode, obj: Objects]

(* What pc says about a session: one that adds has a pool, one that waits  *)
(* has a tape.                                                             *)
SessInv ==
    \A c \in Client : /\ sess[c].pc # "idle" => sess[c].pool \in Pool
                      /\ sess[c].pc \in {"get", "wait", "woken"} => sess[c].tape \in Tape

(* Inventory and configuration, of which the file is a copy.               *)
ConfInv ==
    /\ IsConf(conf) /\ Disjoint(conf) /\ file = conf
    /\ pool \in [Tape -> Pool \cup {None}] /\ inv \subseteq Tape
    /\ PoolsAgree

(* The rest of the state has its type.                                     *)
RestInv ==
    /\ lib \subseteq Tape /\ status \in [Tape -> Statuses] /\ result \subseteq Tape
    /\ sess \in [Client -> Session] /\ SessInv
    /\ rows \subseteq Row /\ exec \subseteq Handler
    /\ missed \subseteq Client
    /\ added \subseteq Client \X Tape /\ told \subseteq Client \X Tape
    /\ commands \in 0 .. MaxCommands /\ restarts \in 0 .. MaxRestarts
    /\ moves \in 0 .. MaxMoves

PoolsInv == ConfInv /\ RestInv

(* What inventorize derives from a configuration: since a tape is in one   *)
(* pool at most, each tape gets the pool it is configured in.              *)
LEMMA PoolsFromConf ==
    ASSUME NEW c, IsConf(c), Disjoint(c)
    PROVE  /\ PoolsFrom(c) \in [Tape -> Pool \cup {None}]
           /\ \A t \in Tape, p \in Pool :
                 PoolsFrom(c)[t] = p <=> (p \in DOMAIN c /\ t \in c[p])
<1>1. ASSUME NEW t \in Tape, NEW p \in DOMAIN c, t \in c[p]
      PROVE  PoolsFrom(c)[t] = p
    <2>1. \A q \in DOMAIN c : t \in c[q] => q = p
        BY <1>1 DEF Disjoint
    <2>2. (CHOOSE q \in DOMAIN c : t \in c[q]) = p
        BY <1>1, <2>1
    <2>3. QED
        BY <1>1, <2>2 DEF PoolsFrom
<1>2. ASSUME NEW t \in Tape, ~\E p \in DOMAIN c : t \in c[p]
      PROVE  PoolsFrom(c)[t] = None
    BY <1>2 DEF PoolsFrom
<1>3. \A t \in Tape : PoolsFrom(c)[t] \in Pool \cup {None}
    BY <1>1, <1>2 DEF IsConf
<1>4. QED
    BY <1>1, <1>2, <1>3, PoolsAssumption DEF PoolsFrom, IsConf

(* Tapes that are gone leave their pools; the pools stay disjoint.         *)
LEMMA PrunedConf ==
    ASSUME NEW c, IsConf(c), Disjoint(c)
    PROVE  /\ IsConf(Pruned(c)) /\ Disjoint(Pruned(c))
           /\ \A p \in DOMAIN Pruned(c) : Pruned(c)[p] \subseteq lib
<1>1. DOMAIN Pruned(c) = DOMAIN c /\ \A p \in DOMAIN c : Pruned(c)[p] = c[p] \cap lib
    BY DEF Pruned
<1>2. Pruned(c) \in [DOMAIN c -> SUBSET Tape]
    BY DEF Pruned, IsConf
<1>3. QED
    BY <1>1, <1>2 DEF IsConf, Disjoint

(* The inventory that is made from a configuration agrees with it.         *)
LEMMA RenewedConf ==
    ASSUME NEW c, IsConf(c), Disjoint(c), lib \subseteq Tape,
           Configure(Pruned(c)), inv' = lib, pool' = PoolsFrom(Pruned(c))
    PROVE  ConfInv'
<1>1. conf' = Pruned(c) /\ file' = conf'
    BY DEF Configure, Write
<1>2. /\ IsConf(conf') /\ Disjoint(conf')
      /\ \A p \in DOMAIN conf' : conf'[p] \subseteq lib
    BY <1>1, PrunedConf
<1>3. /\ pool' \in [Tape -> Pool \cup {None}]
      /\ \A t \in Tape, p \in Pool : pool'[t] = p <=> (p \in DOMAIN conf' /\ t \in conf'[p])
    BY <1>1, <1>2, PoolsFromConf
<1>4. PoolsAgree'
    BY <1>2, <1>3 DEF PoolsAgree
<1>5. QED
    BY <1>1, <1>2, <1>3, <1>4 DEF ConfInv, IsConf, Disjoint

(* LTFSDMInventory::poolAdd of a tape that is in no pool.                  *)
LEMMA PoolAddConf ==
    ASSUME ConfInv, NEW c, NEW p \in Pool, NEW t \in Tape, CanAdd(p, t),
           PoolAdd(c, p, t), UNCHANGED inv
    PROVE  ConfInv'
<1>1. /\ conf' = [conf EXCEPT ![p] = @ \cup {t}] /\ file' = conf'
      /\ pool' = [pool EXCEPT ![t] = p] /\ p \in DOMAIN conf
    BY DEF PoolAdd, Configure, Write, CanAdd
<1>2. DOMAIN conf' = DOMAIN conf /\ IsConf(conf')
    BY <1>1 DEF ConfInv, IsConf
<1>3. Disjoint(conf')
    BY <1>1 DEF ConfInv, IsConf, Disjoint, CanAdd
<1>4. PoolsAgree'
    BY <1>1, <1>2, PoolsAssumption DEF ConfInv, IsConf, PoolsAgree, CanAdd
<1>5. QED
    BY <1>1, <1>2, <1>3, <1>4 DEF ConfInv, IsConf, Disjoint

(* At the start the inventory was made from the configuration.             *)
LEMMA InitPoolsInv == Init => PoolsInv
<1> SUFFICES ASSUME Init PROVE PoolsInv
    OBVIOUS
<1>1. IsConf(conf) /\ Disjoint(conf)
    <2>1. PICK P \in SUBSET Pool : conf \in [P -> SUBSET Tape]
        BY DEF Init
    <2>2. IsConf(conf)
        BY <2>1 DEF IsConf
    <2>3. QED
        BY <2>2 DEF Init, Disjoint
<1>2. ConfInv
    <2>1. /\ pool \in [Tape -> Pool \cup {None}]
          /\ \A t \in Tape, p \in Pool : pool[t] = p <=> (p \in DOMAIN conf /\ t \in conf[p])
        BY <1>1, PoolsFromConf DEF Init
    <2>2. \A p \in DOMAIN conf : conf[p] \subseteq Tape
        BY <1>1 DEF IsConf
    <2>3. QED
        BY <1>1, <2>1, <2>2 DEF Init, ConfInv, PoolsAgree
<1>3. RestInv
    BY PoolsAssumption DEF Init, RestInv, Session, SessInv, Idle, Objects, AnyMode
<1>4. QED
    BY <1>2, <1>3 DEF PoolsInv

-----------------------------------------------------------------------------
(* Pools and tapes: each operation changes configuration, file and         *)
(* inventory together.                                                     *)

(* inventorize, called by a retrieve or after a format.                    *)
LEMMA RenewConf ==
    ASSUME PoolsInv, NEW E, Renew(E) PROVE ConfInv'
BY RenewedConf DEF Renew, PoolsInv, ConfInv, RestInv

(* The commands that create and delete pools and remove tapes.             *)
LEMMA CommandConf ==
    ASSUME PoolsInv, NEW c \in Client, Command(c) PROVE ConfInv'
<1> USE DEF PoolsInv
<1>1. CASE UNCHANGED <<config, inv, pool>>
    BY <1>1 DEF config, ConfInv, IsConf, Disjoint, PoolsAgree
<1>2. CASE CreatePool(c)
    <2>1. PICK p \in Pool :
             IF CanCreate(p)
             THEN Configure([q \in DOMAIN conf \cup {p} |-> IF q = p THEN {} ELSE conf[q]])
             ELSE UNCHANGED config
        BY <1>2 DEF CreatePool
    <2>2. UNCHANGED <<inv, pool>>
        BY <1>2 DEF CreatePool, inventory
    <2>3. CASE CanCreate(p)
        <3>1. /\ conf' = [q \in DOMAIN conf \cup {p} |-> IF q = p THEN {} ELSE conf[q]]
              /\ file' = conf' /\ p \notin DOMAIN conf
            BY <2>1, <2>3 DEF Configure, Write, CanCreate
        <3>2. IsConf(conf') /\ Disjoint(conf')
            BY <3>1 DEF ConfInv, IsConf, Disjoint
        <3>3. PoolsAgree'
            BY <2>2, <3>1 DEF ConfInv, IsConf, PoolsAgree
        <3>4. QED
            BY <2>2, <3>1, <3>2, <3>3 DEF ConfInv, IsConf, Disjoint
    <2>4. QED
        BY <1>1, <2>1, <2>2, <2>3
<1>3. CASE DeletePool(c)
    <2>1. PICK p \in Pool :
             IF CanDelete(p) THEN Configure([q \in DOMAIN conf \ {p} |-> conf[q]])
                             ELSE UNCHANGED config
        BY <1>3 DEF DeletePool
    <2>2. UNCHANGED <<inv, pool>>
        BY <1>3 DEF DeletePool, inventory
    <2>3. CASE CanDelete(p)
        <3>1. /\ conf' = [q \in DOMAIN conf \ {p} |-> conf[q]]
              /\ file' = conf' /\ p \in DOMAIN conf /\ conf[p] = {}
            BY <2>1, <2>3 DEF Configure, Write, CanDelete
        <3>2. IsConf(conf') /\ Disjoint(conf')
            BY <3>1 DEF ConfInv, IsConf, Disjoint
        <3>3. PoolsAgree'
            BY <2>2, <3>1 DEF ConfInv, IsConf, PoolsAgree
        <3>4. QED
            BY <2>2, <3>1, <3>2, <3>3 DEF ConfInv, IsConf, Disjoint
    <2>4. QED
        BY <1>1, <2>1, <2>2, <2>3
<1>4. CASE RemoveTape(c)
    <2>1. PICK p \in Pool, t \in Tape :
             IF CanRemove(p, t)
             THEN /\ Configure([conf EXCEPT ![p] = @ \ {t}])
                  /\ pool' = [pool EXCEPT ![t] = None]
             ELSE UNCHANGED <<config, pool>>
        BY <1>4 DEF RemoveTape
    <2>2. UNCHANGED inv
        BY <1>4 DEF RemoveTape
    <2>3. CASE CanRemove(p, t)
        <3>1. /\ conf' = [conf EXCEPT ![p] = @ \ {t}] /\ file' = conf'
              /\ pool' = [pool EXCEPT ![t] = None] /\ pool[t] = p /\ p \in DOMAIN conf
            BY <2>1, <2>3 DEF Configure, Write, CanRemove
        <3>2. DOMAIN conf' = DOMAIN conf /\ IsConf(conf') /\ Disjoint(conf')
            BY <3>1 DEF ConfInv, IsConf, Disjoint
        <3>3. PoolsAgree'
            BY <2>2, <3>1, <3>2, PoolsAssumption DEF ConfInv, IsConf,
               PoolsAgree, Disjoint
        <3>4. QED
            BY <2>2, <3>1, <3>2, <3>3 DEF ConfInv, IsConf, Disjoint
    <2>4. QED
        BY <1>1, <2>1, <2>2, <2>3
<1>5. CASE InfoPools(c)
    <2>1. conf' = [p \in DOMAIN conf |-> conf[p] \cap inv] /\ file' = conf'
        BY <1>5 DEF InfoPools, Configure, Write
    <2>2. UNCHANGED <<inv, pool>>
        BY <1>5 DEF InfoPools, inventory
    <2>3. IsConf(conf') /\ Disjoint(conf') /\ PoolsAgree'
        BY <2>1, <2>2 DEF ConfInv, IsConf, Disjoint, PoolsAgree
    <2>4. QED
        BY <2>1, <2>2, <2>3 DEF ConfInv, IsConf, Disjoint
<1>6. CASE Retrieve(c)
    BY <1>6, <1>1, RenewConf DEF Retrieve, inventory
<1>7. CASE AddTapes(c)
    BY <1>7, <1>1 DEF AddTapes, inventory
<1>8. QED
    BY <1>2, <1>3, <1>4, <1>5, <1>6, <1>7 DEF Command

(* The sessions of poolAddMessage.                                         *)
LEMMA SessionConf ==
    ASSUME PoolsInv, NEW c \in Client, SessionNext(c) PROVE ConfInv'
<1> USE DEF PoolsInv
<1>1. CASE UNCHANGED <<config, inv, pool>>
    BY <1>1 DEF config, ConfInv, IsConf, Disjoint, PoolsAgree
<1>2. CASE AddTape(c)
    <2>1. PICK t \in sess[c].todo :
             \/ /\ CanAdd(sess[c].pool, t) /\ PoolAdd(c, sess[c].pool, t)
             \/ UNCHANGED <<config, pool>>
        BY <1>2 DEF AddTape
    <2>2. UNCHANGED inv
        BY <1>2 DEF AddTape
    <2>3. sess[c].pool \in Pool /\ t \in Tape
        BY <1>2 DEF AddTape, RestInv, SessInv, Session
    <2>4. QED
        BY <1>1, <2>1, <2>2, <2>3, PoolAddConf
<1>3. CASE AddWait(c) \/ AddResult(c) \/ AddEnd(c)
    BY <1>3, <1>1 DEF AddWait, AddResult, AddEnd, inventory
<1>4. QED
    BY <1>2, <1>3 DEF SessionNext

(* TapeHandler::execRequest.                                               *)
LEMMA HandlerConf ==
    ASSUME PoolsInv, HandlerNext PROVE ConfInv'
<1> USE DEF PoolsInv
<1>1. CASE UNCHANGED <<config, inv, pool>>
    BY <1>1 DEF config, ConfInv, IsConf, Disjoint, PoolsAgree
<1>2. ASSUME NEW r, Dispatch(r) PROVE ConfInv'
    BY <1>2, <1>1 DEF Dispatch, inventory
<1>3. ASSUME NEW e, ExecAdd(e) PROVE ConfInv'
    <2>1. e \in Handler /\ e.row.pool \in Pool /\ e.row.tape \in Tape
        BY <1>3 DEF ExecAdd, RestInv, Handler, Row
    <2>2. CASE CanAdd(e.row.pool, e.row.tape)
        BY <1>3, <2>1, <2>2, PoolAddConf DEF ExecAdd
    <2>3. CASE ~CanAdd(e.row.pool, e.row.tape)
        BY <1>3, <2>3, <1>1 DEF ExecAdd
    <2>4. QED
        BY <2>2, <2>3
<1>4. ASSUME NEW e, ExecInventorize(e) PROVE ConfInv'
    BY <1>4, <1>1, RenewConf DEF ExecInventorize, inventory
<1>5. ASSUME NEW e, ExecWork(e) \/ ExecFree(e) \/ ExecNotify(e) PROVE ConfInv'
    BY <1>5, <1>1 DEF ExecWork, ExecFree, ExecNotify, inventory
<1>6. QED
    BY <1>2, <1>3, <1>4, <1>5 DEF HandlerNext, ExecNext

(* Every step keeps configuration, file and inventory in agreement.        *)
LEMMA NextConfInv == ASSUME PoolsInv, [Next]_vars PROVE ConfInv'
<1>1. CASE UNCHANGED <<config, inv, pool>>
    BY <1>1 DEF PoolsInv, config, ConfInv, IsConf, Disjoint, PoolsAgree
<1>2. CASE MoveTape
    BY <1>2, <1>1 DEF MoveTape, inventory
<1>3. CASE Restart
    BY <1>3, RenewedConf DEF Restart, PoolsInv, ConfInv, RestInv
<1>4. CASE UNCHANGED vars
    BY <1>4, <1>1 DEF vars, inventory
<1>5. QED
    BY <1>2, <1>3, <1>4, CommandConf, SessionConf, HandlerConf DEF Next

-----------------------------------------------------------------------------
(* Types and sessions.                                                     *)

(* inventorize: sessions and TapeHandlers that keep an old object keep      *)
(* their pool and their tape.                                              *)
LEMMA KeepOldRest ==
    ASSUME PoolsInv, NEW E \in SUBSET Handler, KeepOld(E)
    PROVE  sess' \in [Client -> Session] /\ SessInv' /\ exec' \subseteq Handler
<1>1. sess' \in [Client -> Session]
    <2>1. ASSUME NEW s \in Session, NEW o \in Objects PROVE [s EXCEPT !.obj = o] \in Session
        BY DEF Session
    <2>2. \A c \in Client : sess'[c] \in Session
        BY <2>1 DEF KeepOld, PoolsInv, RestInv, Objects
    <2>3. QED
        BY <2>2 DEF KeepOld
<1>2. \A c \in Client : /\ sess'[c].pc = sess[c].pc /\ sess'[c].pool = sess[c].pool
                        /\ sess'[c].tape = sess[c].tape
    BY DEF KeepOld, PoolsInv, RestInv, Session
<1>3. SessInv'
    BY <1>2 DEF SessInv, PoolsInv, RestInv
<1>4. exec' \subseteq Handler
    <2>1. ASSUME NEW e \in Handler, NEW W \in SUBSET Client
          PROVE  [e EXCEPT !.old = TRUE, !.waiting = W] \in Handler
        BY DEF Handler
    <2>2. \A e \in E : {c \in Client : Waits(c, e.row.tape)} \in SUBSET Client
        OBVIOUS
    <2>3. QED
        BY <2>1, <2>2 DEF KeepOld
<1>5. QED
    BY <1>1, <1>3, <1>4

(* A session that is set to a proper one.                                  *)
SessionOK(s) ==
    /\ s \in Session
    /\ s.pc # "idle" => s.pool \in Pool
    /\ s.pc \in {"get", "wait", "woken"} => s.tape \in Tape

(* A step that sets one session to a proper one keeps them all proper.     *)
LEMMA SetSession ==
    ASSUME RestInv, NEW c \in Client, NEW s, SessionOK(s), sess' = [sess EXCEPT ![c] = s]
    PROVE  sess' \in [Client -> Session] /\ SessInv'
<1>1. sess' \in [Client -> Session]
    BY DEF RestInv, SessionOK
<1>2. \A d \in Client : sess'[d] = IF d = c THEN s ELSE sess[d]
    BY DEF RestInv
<1>3. QED
    BY <1>1, <1>2 DEF RestInv, SessInv, SessionOK

(* Each session is a proper one.                                           *)
LEMMA SessionsOK == ASSUME RestInv, NEW c \in Client PROVE SessionOK(sess[c])
BY DEF RestInv, SessInv, SessionOK

(* So is a session that has no command.                                    *)
LEMMA IdleOK == SessionOK(Idle)
BY DEF SessionOK, Idle, Session, Objects, AnyMode

(* The commands keep the types: poolAddMessage starts with a pool.         *)
LEMMA CommandRest ==
    ASSUME PoolsInv, NEW c \in Client, Command(c) PROVE RestInv'
<1> USE DEF PoolsInv
<1>1. Asks(c) => commands' \in 0 .. MaxCommands
    BY PoolsAssumption DEF Asks, RestInv
<1>2. CASE CreatePool(c) \/ DeletePool(c) \/ InfoPools(c) \/ RemoveTape(c)
    <2>1. UNCHANGED <<lib, status, result, sess, rows, exec, history, restarts, moves>>
        BY <1>2 DEF CreatePool, DeletePool, InfoPools, RemoveTape, inventory
    <2>2. Asks(c)
        BY <1>2 DEF CreatePool, DeletePool, InfoPools, RemoveTape
    <2>3. QED
        BY <1>1, <2>1, <2>2 DEF RestInv, SessInv, history
<1>3. CASE Retrieve(c)
    <2>1. UNCHANGED <<lib, status, rows, history, restarts, moves>> /\ Asks(c)
        BY <1>3 DEF Retrieve
    <2>2. /\ sess' \in [Client -> Session] /\ SessInv' /\ exec' \subseteq Handler
          /\ result' \subseteq Tape
        <3>1. CASE Busy = {}
            <4>1. KeepOld(exec) /\ result' = {}
                BY <1>3, <3>1 DEF Retrieve, Renew
            <4>2. QED
                BY <4>1, KeepOldRest DEF RestInv
        <3>2. CASE Busy # {}
            BY <1>3, <3>2 DEF Retrieve, RestInv, SessInv, inventory
        <3>3. QED
            BY <3>1, <3>2
    <2>3. QED
        BY <1>1, <2>1, <2>2 DEF RestInv, history
<1>4. CASE AddTapes(c)
    <2>1. PICK p \in Pool, T \in (SUBSET Tape) \ {{}}, m \in Modes[c] :
             sess' = [sess EXCEPT ![c] = [Idle EXCEPT !.pc = "add", !.pool = p,
                                                      !.todo = T, !.mode = m]]
        BY <1>4 DEF AddTapes
    <2>2. m \in AnyMode
        BY PoolsAssumption DEF AnyMode
    <2>3. SessionOK([Idle EXCEPT !.pc = "add", !.pool = p, !.todo = T, !.mode = m])
        BY <2>2 DEF SessionOK, Idle, Session, Objects
    <2>4. sess' \in [Client -> Session] /\ SessInv'
        BY <2>1, <2>3, SetSession
    <2>5. QED
        BY <1>4, <1>1, <2>4 DEF AddTapes, RestInv, inventory, history
<1>5. QED
    BY <1>2, <1>3, <1>4 DEF Command

(* The steps of poolAddMessage: a session waits for a tape it was given.   *)
LEMMA SessionRest ==
    ASSUME PoolsInv, NEW c \in Client, SessionNext(c) PROVE RestInv'
<1> USE DEF PoolsInv
<1>1. SessionOK(sess[c])
    BY SessionsOK
<1>2. CASE AddTape(c)
    <2>1. UNCHANGED <<lib, status, result, exec, budget>>
        BY <1>2 DEF AddTape
    <2>2. PICK t \in sess[c].todo :
          LET s == sess[c]
              rest == [s EXCEPT !.todo = @ \ {t}]
          IN \/ /\ rows' = rows \cup {[client |-> c, tape |-> t, pool |-> s.pool,
                                       mode |-> s.mode, state |-> "new"]}
                /\ sess' = [sess EXCEPT ![c] = [rest EXCEPT !.pc = "get", !.tape = t]]
                /\ UNCHANGED <<history>>
             \/ /\ added' = added \cup {<<c, t>>} /\ told' = told \cup {<<c, t>>}
                /\ sess' = [sess EXCEPT ![c] = rest]
                /\ UNCHANGED <<rows, missed>>
             \/ /\ sess' = [sess EXCEPT ![c] = rest]
                /\ UNCHANGED <<rows, history>>
        BY <1>2 DEF AddTape, PoolAdd
    <2>3. t \in Tape /\ sess[c].pool \in Pool /\ sess[c].mode \in AnyMode
        BY <1>1, <1>2 DEF AddTape, SessionOK, Session
    <2>4. rows' \subseteq Row /\ missed' \subseteq Client
          /\ added' \subseteq Client \X Tape /\ told' \subseteq Client \X Tape
        BY <2>2, <2>3 DEF RestInv, Row, history
    <2>5. /\ SessionOK([sess[c] EXCEPT !.todo = @ \ {t}])
          /\ SessionOK([[sess[c] EXCEPT !.todo = @ \ {t}] EXCEPT !.pc = "get", !.tape = t])
        BY <1>1, <1>2, <2>3 DEF AddTape, SessionOK, Session
    <2>6. sess' \in [Client -> Session] /\ SessInv'
        BY <2>2, <2>5, SetSession
    <2>7. QED
        BY <2>1, <2>4, <2>6 DEF RestInv, budget
<1>3. CASE AddWait(c)
    <2>1. SessionOK([sess[c] EXCEPT !.pc = "wait"])
        BY <1>1, <1>3 DEF AddWait, SessionOK, Session
    <2>2. sess' \in [Client -> Session] /\ SessInv'
        BY <1>3, <2>1, IdleOK, SetSession DEF AddWait
    <2>3. QED
        BY <1>3, <2>2 DEF AddWait, RestInv, inventory, history, budget
<1>4. CASE AddResult(c)
    <2>1. SessionOK([sess[c] EXCEPT !.pc = "add", !.tape = None, !.obj = "current"])
        BY <1>1, <1>4 DEF AddResult, SessionOK, Session, Objects
    <2>2. sess' \in [Client -> Session] /\ SessInv'
        BY <1>4, <2>1, SetSession DEF AddResult
    <2>3. told' \subseteq Client \X Tape
        BY <1>1, <1>4 DEF AddResult, SessionOK, RestInv
    <2>4. QED
        BY <1>4, <2>2, <2>3 DEF AddResult, RestInv, inventory, budget
<1>5. CASE AddEnd(c)
    <2>1. sess' \in [Client -> Session] /\ SessInv'
        BY <1>5, IdleOK, SetSession DEF AddEnd
    <2>2. QED
        BY <1>5, <2>1 DEF AddEnd, RestInv, inventory, budget
<1>6. QED
    BY <1>2, <1>3, <1>4, <1>5 DEF SessionNext

(* TapeHandler::execRequest: a handler keeps the row it was made for.      *)
LEMMA HandlerRest ==
    ASSUME PoolsInv, HandlerNext PROVE RestInv'
<1> USE DEF PoolsInv
<1>1. ASSUME NEW e \in exec, NEW pc \in {"work", "add", "free", "inventorize", "notify"}
            PROVE  Moved(e, pc) \subseteq Handler
    <2>1. e \in Handler
        BY DEF RestInv
    <2>2. [e EXCEPT !.pc = pc] \in Handler
        BY <2>1 DEF Handler
    <2>3. QED
        BY <2>2 DEF Moved, RestInv
<1>2. ASSUME NEW e \in exec
        PROVE  /\ e \in Handler /\ e.row \in Row /\ e.row.tape \in Tape /\ e.row.pool \in Pool
               /\ e.row.client \in Client /\ e.waiting \subseteq Client
    BY DEF RestInv, Handler, Row
<1>3. ASSUME NEW r \in rows, Dispatch(r) PROVE RestInv'
    <2>1. r \in Row
        BY DEF RestInv
    <2>2. [r EXCEPT !.state = "inprogress"] \in Row
        BY <2>1 DEF Row
    <2>3. [row |-> [r EXCEPT !.state = "inprogress"], pc |-> "work",
           old |-> FALSE, waiting |-> {}] \in Handler
        BY <2>2 DEF Handler
    <2>4. rows' \subseteq Row /\ exec' \subseteq Handler
        BY <1>3, <2>2, <2>3 DEF Dispatch, RestInv
    <2>5. QED
        BY <1>3, <2>4 DEF Dispatch, RestInv, SessInv, inventory, history, budget
<1>4. ASSUME NEW e \in exec, ExecWork(e) PROVE RestInv'
    <2>1. exec' \subseteq Handler
        BY <1>4, <1>1 DEF ExecWork, To
    <2>2. rows' \subseteq Row /\ status' \in [Tape -> Statuses]
        BY <1>4, <1>2 DEF ExecWork, RestInv, Statuses, Formatted
    <2>3. QED
        BY <1>4, <2>1, <2>2 DEF ExecWork, RestInv, SessInv, inventory, history,
           budget
<1>5. ASSUME NEW e \in exec, ExecAdd(e) PROVE RestInv'
    <2>1. exec' \subseteq Handler
        BY <1>5, <1>1 DEF ExecAdd, To
    <2>2. rows' \subseteq Row /\ result' \subseteq Tape /\ added' \subseteq Client \X Tape
        BY <1>5, <1>2 DEF ExecAdd, RestInv, PoolAdd
    <2>3. QED
        BY <1>5, <2>1, <2>2 DEF ExecAdd, RestInv, SessInv, budget
<1>6. ASSUME NEW e \in exec, ExecFree(e) PROVE RestInv'
    <2>1. exec' \subseteq Handler
        BY <1>6, <1>1 DEF ExecFree, To
    <2>2. QED
        BY <1>6, <2>1 DEF ExecFree, RestInv, SessInv, inventory, history, budget
<1>7. ASSUME NEW e \in exec, ExecInventorize(e) PROVE RestInv'
    <2>1. UNCHANGED <<lib, status, rows, history, budget>>
        BY <1>7 DEF ExecInventorize
    <2>2. /\ sess' \in [Client -> Session] /\ SessInv' /\ exec' \subseteq Handler
          /\ result' \subseteq Tape
        <3>1. CASE Busy = {}
            <4>1. KeepOld(Moved(e, "notify")) /\ result' = {}
                BY <1>7, <3>1 DEF ExecInventorize, Renew
            <4>2. Moved(e, "notify") \in SUBSET Handler
                BY <1>1
            <4>3. QED
                BY <4>1, <4>2, KeepOldRest
        <3>2. CASE Busy # {}
            <4>1. exec' \subseteq Handler
                BY <1>7, <3>2, <1>1 DEF ExecInventorize, To
            <4>2. QED
                BY <1>7, <3>2, <4>1 DEF ExecInventorize, RestInv, SessInv, inventory
        <3>3. QED
            BY <3>1, <3>2
    <2>3. QED
        BY <2>1, <2>2 DEF RestInv, history, budget
<1>8. ASSUME NEW e \in exec, ExecNotify(e) PROVE RestInv'
    <2>1. missed' \subseteq Client
        BY <1>8, <1>2 DEF ExecNotify, RestInv
    <2>2. exec' \subseteq Handler /\ sess' \in [Client -> Session] /\ SessInv'
        <3>1. CASE exec' = exec \ {e} /\ UNCHANGED sess
            BY <3>1 DEF RestInv, SessInv
        <3>2. ASSUME NEW c \in Notified(e),
                     sess' = [sess EXCEPT ![c].pc = "woken"],
                     exec' = {[x EXCEPT !.waiting = @ \ {c}] : x \in exec \ {e}}
              PROVE  exec' \subseteq Handler /\ sess' \in [Client -> Session] /\ SessInv'
            <4>1. c \in Client /\ sess[c].pc = "wait"
                BY <1>2 DEF Notified, Waiting, Waits
            <4>2. SessionOK([sess[c] EXCEPT !.pc = "woken"])
                BY <4>1, SessionsOK DEF SessionOK, Session
            <4>3. sess' \in [Client -> Session] /\ SessInv'
                BY <3>2, <4>1, <4>2, SetSession
            <4>4. ASSUME NEW x \in Handler PROVE [x EXCEPT !.waiting = @ \ {c}] \in Handler
                BY DEF Handler
            <4>5. QED
                BY <3>2, <4>3, <4>4 DEF RestInv
        <3>3. QED
            BY <1>8, <3>1, <3>2 DEF ExecNotify
    <2>3. QED
        BY <1>8, <2>1, <2>2 DEF ExecNotify, RestInv, inventory, budget
<1>9. QED
    BY <1>3, <1>4, <1>5, <1>6, <1>7, <1>8
    DEF HandlerNext, ExecNext

(* Every step keeps the types, also a crash and a tape that is moved.      *)
LEMMA NextRestInv == ASSUME PoolsInv, [Next]_vars PROVE RestInv'
<1> USE DEF PoolsInv
<1>1. CASE MoveTape
    <2>1. lib' \subseteq Tape /\ moves' \in 0 .. MaxMoves
        BY <1>1, PoolsAssumption DEF MoveTape, RestInv
    <2>2. QED
        BY <1>1, <2>1 DEF MoveTape, RestInv, SessInv, inventory, history
<1>2. CASE Restart
    <2>1. sess' \in [Client -> Session] /\ SessInv'
        BY <1>2, IdleOK DEF Restart, SessionOK, SessInv
    <2>2. restarts' \in 0 .. MaxRestarts
        BY <1>2, PoolsAssumption DEF Restart, RestInv
    <2>3. QED
        BY <1>2, <2>1, <2>2 DEF Restart, RestInv
<1>3. CASE UNCHANGED vars
    BY <1>3 DEF vars, RestInv, SessInv, inventory, history, budget
<1>4. QED
    BY <1>1, <1>2, <1>3, CommandRest, SessionRest, HandlerRest DEF Next

-----------------------------------------------------------------------------
(* The inductive invariant holds in every state.                           *)
LEMMA PoolsInvAlways == Spec => []PoolsInv
<1>1. PoolsInv /\ [Next]_vars => PoolsInv'
    BY NextConfInv, NextRestInv DEF PoolsInv
<1>2. QED
    BY <1>1, InitPoolsInv, PTL DEF Spec

(* Pools, inventory, sessions and rows keep their types.                   *)
THEOREM PoolsTypeCorrect == Spec => []TypeOK
<1>1. PoolsInv => TypeOK
    <2> SUFFICES ASSUME PoolsInv PROVE TypeOK
        OBVIOUS
    <2>1. DOMAIN conf \in SUBSET Pool /\ conf \in [DOMAIN conf -> SUBSET Tape] /\ file = conf
        BY DEF PoolsInv, ConfInv, IsConf
    <2>2. \E P \in SUBSET Pool : conf \in [P -> SUBSET Tape]
        BY <2>1
    <2>3. \A e \in exec : /\ e.row \in Row /\ e.old \in BOOLEAN
                           /\ e.waiting \subseteq Client
                           /\ e.pc \in {"work", "add", "free", "inventorize", "notify"}
        BY DEF PoolsInv, RestInv, Handler
    <2>4. QED
        BY <2>1, <2>2, <2>3 DEF PoolsInv, ConfInv, RestInv, TypeOK, Session
<1>2. QED
    BY <1>1, PoolsInvAlways, PTL

(* The inventory and the configuration agree on the pool of each tape,     *)
(* whatever commands, formats, moves and crashes happen in what order.     *)
THEOREM PoolsAgreeAlways == Spec => []PoolsAgree
<1>1. PoolsInv => PoolsAgree
    BY DEF PoolsInv, ConfInv
<1>2. QED
    BY <1>1, PoolsInvAlways, PTL

(* A crash of the server loses no pool, and of the tapes in it only those  *)
(* that have left the library: the file is never behind the memory.        *)
THEOREM ConfSurvivesAlways == Spec => ConfSurvives
<1>1. PoolsInv /\ [Next]_vars => [restarts' # restarts => conf' = Pruned(conf)]_vars
    <2> SUFFICES ASSUME PoolsInv, Next, restarts' # restarts PROVE conf' = Pruned(conf)
        OBVIOUS
    <2>1. ASSUME NEW c \in Client, Command(c) PROVE FALSE
        BY <2>1 DEF Command, CreatePool, DeletePool, RemoveTape, InfoPools,
           Retrieve, AddTapes
    <2>2. ASSUME NEW c \in Client, SessionNext(c) PROVE FALSE
        BY <2>2 DEF SessionNext, AddTape, AddWait, AddResult, AddEnd, budget
    <2>3. CASE HandlerNext
        BY <2>3 DEF HandlerNext, Dispatch, ExecNext, ExecWork, ExecAdd, ExecFree,
                    ExecInventorize, ExecNotify, budget
    <2>4. CASE Restart
        BY <2>4 DEF Restart, Configure, Write, PoolsInv, ConfInv
    <2>5. QED
        BY <2>1, <2>2, <2>3, <2>4 DEF Next, MoveTape
<1>2. QED
    BY <1>1, PoolsInvAlways, PTL DEF Spec, ConfSurvives
=============================================================================
