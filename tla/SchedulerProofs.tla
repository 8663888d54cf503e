--------------------------- MODULE SchedulerProofs ---------------------------
(***************************************************************************)
(* Proofs about the scheduler, for any number of cartridges, rows and      *)
(* movers.  The first part holds for any number of drives and with every   *)
(* fault of the library; the second is about servers with one drive, for   *)
(* the properties that a second drive or updateCartridge breaks.           *)
(***************************************************************************)
EXTENDS Scheduler, TLAPS

(* At the start no thread exists and no drive is busy.                     *)
LEMMA InitDriveInv == Init => DriveInv
<1> SUFFICES ASSUME Init PROVE DriveInv
    OBVIOUS
<1> USE RowAssumption, BoundAssumption, NoDriveAssumption
<1>1. PICK p \in Placement :
        /\ drives = [d \in Drive |-> FreshDrive]
        /\ carts = [c \in Cart |-> FreshCart(p[c])]
    BY DEF Init, InventoryInit
<1>2. InventoryTypeOK
    BY <1>1 DEF InventoryTypeOK, DriveType, CartType, FreshDrive, FreshCart,
                Placement, CartState, Operation, NOOP
<1>3. req \in [Row -> ReqType]
    BY DEF Init, ReqType
<1>4. mover \in [Mover -> MoverType]
    BY DEF Init, MoverType, NoMover, MOUNT, MOVE, UNMOUNT
<1>5. TypeOK
    BY <1>2, <1>3, <1>4 DEF TypeOK, Init, SchedType
<1>6. ThreadsConsistent
    BY DEF ThreadsConsistent, Init, NoMover, Running
<1>7. DriveExclusive
    BY <1>1 DEF DriveExclusive, RowHolds, MoverHolds, Init, NoMover, FreshDrive, Running
<1>8. TapeInDrive
    BY DEF TapeInDrive, Init, NoMover, Running
<1>9. QED
    BY <1>5, <1>6, <1>7, <1>8 DEF DriveInv

------------------------------------------------------------------------------
(* What handling a row can do to threads and drives: it starts the row's   *)
(* executor on a drive that is not busy, or starts one mover, or changes   *)
(* no thread and no busy flag.                                             *)
SameSlots == \A c \in Cart : carts'[c].slot = carts[c].slot

StartsExecutor(r) ==
    \E d \in Drive, c \in Cart : /\ ~drives[d].busy
                                /\ carts[c].slot = d
                                /\ req[r].tape \in {c, NoCart}
                                /\ Dispatch(r, d, c)
                                /\ UNCHANGED <<mover, aborted>>

StartsMover(r) ==
    \E d \in Drive, c \in Cart, m \in Mover, op \in {MOUNT, MOVE, UNMOUNT} :
        /\ mover[m].pc = "free"
        /\ mover' = [mover EXCEPT ![m] = [pc |-> "add", op |-> op,
                                          drive |-> d, tape |-> c]]
        /\ drives' = [drives EXCEPT ![d].moveReq = RowKey[r]]
        /\ carts' \in [Cart -> CartType]
        /\ SameSlots
        /\ UNCHANGED <<req, aborted>>

LeavesThreads ==
    /\ UNCHANGED <<req, mover>>
    /\ drives' \in [Drive -> DriveType]
    /\ \A d \in Drive : drives'[d].busy = drives[d].busy
    /\ carts' \in [Cart -> CartType]
    /\ SameSlots
    /\ aborted' \in BOOLEAN

(* moveTape starts a mover, or leaves everything alone.                    *)
LEMMA MoveTapeEffect ==
    ASSUME TypeOK, NEW r \in Row, NEW d \in Drive, NEW c \in Cart,
           NEW op \in {MOUNT, MOVE, UNMOUNT},
           moveTape(r, d, c, op), UNCHANGED <<req, aborted>>,
           carts' \in [Cart -> CartType], SameSlots
    PROVE  StartsMover(r) \/ LeavesThreads
<1>1. CASE requestExists(RowKey[r])
    BY <1>1 DEF moveTape, LeavesThreads, TypeOK, InventoryTypeOK
<1>2. CASE ~requestExists(RowKey[r])
    BY <1>2 DEF moveTape, StartsMover, FreeMover
<1>3. QED
    BY <1>1, <1>2

(* Taking a mounted tape starts the executor, or the server aborts.        *)
LEMMA TakeMountedEffect ==
    ASSUME TypeOK, NEW r \in Row, NEW c \in Cart, TakeMounted(r, c),
           req[r].tape \in {c, NoCart}
    PROVE  StartsExecutor(r) \/ LeavesThreads
<1>1. CASE carts[c].slot \in Drive /\ ~drives[carts[c].slot].busy
    BY <1>1 DEF TakeMounted, StartsExecutor
<1>2. CASE carts[c].slot \notin Drive \/ drives[carts[c].slot].busy
    BY <1>2 DEF TakeMounted, LeavesThreads, SameSlots, Abort, TypeOK, InventoryTypeOK
<1>3. QED
    BY <1>1, <1>2

(* The early returns of resAvail change nothing.                          *)
LEMMA NothingToDoEffect == ASSUME TypeOK, NothingToDo PROVE LeavesThreads
BY DEF NothingToDo, LeavesThreads, SameSlots, TypeOK, InventoryTypeOK

(* A suspension only sets flags (setToUnblock, setRequested): the threads  *)
(* it is meant for go on until they look at them.                          *)
LEMMA SuspendEffect ==
    ASSUME TypeOK, NEW r \in Row, NEW c \in Cart, Suspend(r, c)
    PROVE  LeavesThreads
<1>1. CASE NothingToDo
    BY <1>1, NothingToDoEffect
<1>2. ASSUME NEW d \in Drive,
             drives' = [drives EXCEPT ![d].toUnblock = RowOp[r]],
             carts' = [carts EXCEPT ![c].requested = TRUE],
             UNCHANGED <<req, mover, aborted>>
      PROVE  LeavesThreads
    <2>1. RowOp[r] \in Operation
        BY RowAssumption DEF RowOperation, Operation, TRARECALL, SELRECALL,
                             MIGRATION, FORMAT, CHECK
    <2>2. QED
        BY <1>2, <2>1 DEF LeavesThreads, SameSlots, TypeOK, InventoryTypeOK, DriveType, CartType
<1>3. QED
    BY <1>1, <1>2 DEF Suspend

(* A MOUNT or MOVE is queued by moveTape, whatever the row's operation is. *)
LEMMA MountTapeEffect ==
    ASSUME TypeOK, NEW r \in Row, NEW d \in Drive, NEW c \in Cart, MountTape(r, d, c)
    PROVE  StartsMover(r) \/ LeavesThreads
<1>1. MountTarget(r) \in {MOUNT, MOVE, UNMOUNT}
    BY DEF MountTarget
<1>2. QED
    BY <1>1, MoveTapeEffect DEF MountTape, SameSlots, TypeOK, InventoryTypeOK

(* The branches of tapeResAvail, for a row that names its tape.            *)
LEMMA TapeResAvailEffect ==
    ASSUME TypeOK, NEW r \in Row, req[r].tape \in Cart, tapeResAvail(r)
    PROVE  StartsExecutor(r) \/ StartsMover(r) \/ LeavesThreads
<1> DEFINE c == req[r].tape
<1>1. CASE NothingToDo
    BY <1>1, NothingToDoEffect
<1>2. CASE TakeMounted(r, c)
    BY <1>2, TakeMountedEffect
<1>3. CASE \E d \in UsableEmpty(r) : MountTape(r, d, c)
    BY <1>3, MountTapeEffect DEF UsableEmpty
<1>4. CASE /\ \E d \in UsableLoaded(r) : \E old \in MountedIn(d) :
                moveTape(r, d, old, UNMOUNT)
           /\ carts' = [carts EXCEPT ![c].requested = FALSE]
           /\ UNCHANGED <<req, aborted>>
    <2>1. PICK d \in Drive, old \in Cart : moveTape(r, d, old, UNMOUNT)
        BY <1>4 DEF UsableLoaded, MountedIn
    <2>2. carts' \in [Cart -> CartType] /\ SameSlots
        BY <1>4 DEF SameSlots, TypeOK, InventoryTypeOK, CartType
    <2>3. QED
        BY <1>4, <2>1, <2>2, MoveTapeEffect
<1>5. CASE Suspend(r, c)
    BY <1>5, SuspendEffect
<1>6. QED
    BY <1>1, <1>2, <1>3, <1>4, <1>5 DEF tapeResAvail

(* The branches of poolResAvail, for a migration without a tape.           *)
LEMMA PoolResAvailEffect ==
    ASSUME TypeOK, NEW r \in Row, req[r].tape = NoCart, poolResAvail(r)
    PROVE  StartsExecutor(r) \/ StartsMover(r) \/ LeavesThreads
<1>0. RowPool[r] \subseteq Cart
    BY RowAssumption
<1>1. CASE NothingToDo
    BY <1>1, NothingToDoEffect
<1>2. CASE \E c \in PoolIn(r, "MOUNTED") \cap room[r] : TakeMounted(r, c)
    BY <1>0, <1>2, TakeMountedEffect DEF PoolIn
<1>3. CASE \E d \in UsableEmpty(r), c \in MountableInPool(r) : MountTape(r, d, c)
    BY <1>0, <1>3, MountTapeEffect DEF UsableEmpty, MountableInPool, PoolIn
<1>4. CASE /\ \E d \in UsableLoaded(r) : \E old \in MountedIn(d) :
                moveTape(r, d, old, UNMOUNT)
           /\ UNCHANGED <<carts, req, aborted>>
    <2>1. PICK d \in Drive, old \in Cart : moveTape(r, d, old, UNMOUNT)
        BY <1>4 DEF UsableLoaded, MountedIn
    <2>2. QED
        BY <1>4, <2>1, MoveTapeEffect DEF SameSlots, TypeOK, InventoryTypeOK
<1>5. QED
    BY <1>1, <1>2, <1>3, <1>4 DEF poolResAvail

(* One iteration of the loop of Scheduler::run for a client's row.         *)
LEMMA HandleRowEffect ==
    ASSUME TypeOK, NEW r \in Row, HandleRow(r)
    PROVE  StartsExecutor(r) \/ StartsMover(r) \/ LeavesThreads
<1>1. req[r].tape \in Cart \cup {NoCart}
    BY DEF TypeOK, ReqType
<1>2. QED
    BY <1>1, TapeResAvailEffect, PoolResAvailEffect DEF HandleRow

------------------------------------------------------------------------------
(* How a step can change who holds which drive.                            *)
SameHolders ==
    /\ \A d \in Drive : drives'[d].busy = drives[d].busy
    /\ \A d \in Drive, r \in Row : RowHolds(r, d)' <=> RowHolds(r, d)
    /\ \A d \in Drive, m \in Mover : MoverHolds(m, d)' <=> MoverHolds(m, d)

SameOthers(d) ==
    \A e \in Drive \ {d} :
        /\ drives'[e].busy = drives[e].busy
        /\ \A r \in Row : RowHolds(r, e)' <=> RowHolds(r, e)
        /\ \A m \in Mover : MoverHolds(m, e)' <=> MoverHolds(m, e)

(* A step that changes neither a busy flag nor a holder keeps the drives   *)
(* exclusive.                                                              *)
LEMMA SameHoldersExclusive ==
    ASSUME DriveExclusive, SameHolders PROVE DriveExclusive'
BY DEF DriveExclusive, SameHolders

(* An executor that takes a drive that is not busy is its only holder.     *)
LEMMA RowTakesDrive ==
    ASSUME DriveExclusive, NEW d \in Drive, NEW r \in Row,
           ~drives[d].busy, drives'[d].busy, SameOthers(d),
           \A s \in Row : RowHolds(s, d)' <=> RowHolds(s, d) \/ s = r,
           \A m \in Mover : MoverHolds(m, d)' <=> MoverHolds(m, d)
    PROVE  DriveExclusive'
BY DEF DriveExclusive, SameOthers

(* So is a mover.                                                          *)
LEMMA MoverTakesDrive ==
    ASSUME DriveExclusive, NEW d \in Drive, NEW m \in Mover,
           ~drives[d].busy, drives'[d].busy, SameOthers(d),
           \A r \in Row : RowHolds(r, d)' <=> RowHolds(r, d),
           \A n \in Mover : MoverHolds(n, d)' <=> MoverHolds(n, d) \/ n = m
    PROVE  DriveExclusive'
BY DEF DriveExclusive, SameOthers

(* When the holder of a drive frees it, nobody holds it any more.          *)
LEMMA RowFreesDrive ==
    ASSUME DriveExclusive, NEW d \in Drive, NEW r \in Row,
           RowHolds(r, d), ~drives'[d].busy, SameOthers(d),
           \A s \in Row : RowHolds(s, d)' <=> RowHolds(s, d) /\ s # r,
           \A m \in Mover : MoverHolds(m, d)' <=> MoverHolds(m, d)
    PROVE  DriveExclusive'
BY DEF DriveExclusive, SameOthers

(* The same for a mover.                                                   *)
LEMMA MoverFreesDrive ==
    ASSUME DriveExclusive, NEW d \in Drive, NEW m \in Mover,
           MoverHolds(m, d), ~drives'[d].busy, SameOthers(d),
           \A r \in Row : RowHolds(r, d)' <=> RowHolds(r, d),
           \A n \in Mover : MoverHolds(n, d)' <=> MoverHolds(n, d) /\ n # m
    PROVE  DriveExclusive'
BY DEF DriveExclusive, SameOthers

(* inventorize forgets the busy flags only if no drive is busy.            *)
LEMMA InventorizeEffect ==
    ASSUME TypeOK, inventorize
    PROVE  /\ InventoryTypeOK' /\ SameSlots
           /\ \A d \in Drive : drives'[d].busy = drives[d].busy
<1>1. \A c \in Cart : FreshCart(carts[c].slot) \in CartType
    BY DEF FreshCart, CartType, CartState, TypeOK, InventoryTypeOK
<1>2. FreshDrive \in DriveType
    BY DEF FreshDrive, DriveType, Operation, NOOP
<1>3. CASE UNCHANGED inventory
    BY <1>3 DEF inventory, SameSlots, TypeOK, InventoryTypeOK
<1>4. CASE /\ \A d \in Drive : ~drives[d].busy
           /\ drives' = [d \in Drive |-> FreshDrive]
           /\ carts' = [c \in Cart |-> FreshCart(carts[c].slot)]
    <2>1. InventoryTypeOK' /\ SameSlots
        BY <1>1, <1>2, <1>4 DEF InventoryTypeOK, SameSlots, FreshCart
    <2>2. \A d \in Drive : drives[d].busy = FALSE /\ drives'[d].busy = FALSE
        BY <1>4 DEF FreshDrive, TypeOK, InventoryTypeOK, DriveType
    <2>3. QED
        BY <2>1, <2>2
<1>5. QED
    BY <1>3, <1>4 DEF inventorize

(* A row of REQUEST_QUEUE that is replaced by a record of the right type.  *)
LEMMA UpdateRow ==
    ASSUME TypeOK, NEW r \in Row, NEW new \in ReqType, req' = [req EXCEPT ![r] = new]
    PROVE  /\ req' \in [Row -> ReqType]
           /\ req'[r] = new
           /\ \A s \in Row \ {r} : req'[s] = req[s]
BY DEF TypeOK

(* The same for the row and the thread of a mover.                         *)
LEMMA UpdateMover ==
    ASSUME TypeOK, NEW m \in Mover, NEW new \in MoverType,
           mover' = [mover EXCEPT ![m] = new]
    PROVE  /\ mover' \in [Mover -> MoverType]
           /\ mover'[m] = new
           /\ \A n \in Mover \ {m} : mover'[n] = mover[n]
BY DEF TypeOK

------------------------------------------------------------------------------
(* Steps by what they do to threads, drives and tapes.                     *)

(* A step that changes no thread, no busy flag and no slot.                *)
LEMMA NoThreadInv ==
    ASSUME DriveInv, UNCHANGED <<req, mover>>, SameSlots, TypeOK',
           \A d \in Drive : drives'[d].busy = drives[d].busy,
           \A r \in sched'.rows : RowOp[r] # TRARECALL => req[r].state = "NEW",
           \A m \in sched'.movers : mover[m].pc = "new"
    PROVE  DriveInv'
<1> USE DEF DriveInv
<1>1. ThreadsConsistent'
    BY DEF ThreadsConsistent
<1>2. SameHolders
    BY DEF SameHolders, RowHolds, MoverHolds
<1>3. TapeInDrive'
    BY DEF TapeInDrive, ThreadsConsistent, SameSlots
<1>4. QED
    BY <1>1, <1>2, <1>3, SameHoldersExclusive

(* The row that Scheduler::run, or its own thread, updates to new: without *)
(* a transparent recall's exceptions, it is NEW or deleted only if it has  *)
(* no thread, and is not deleted while the scheduler has it in its pass.   *)
RowConsistent(r, new) ==
    RowOp[r] # TRARECALL => /\ new.state \in {"NONE", "NEW"} => new.pc = "idle"
                            /\ r \in sched.rows => new.state = "NEW"

(* A step of a row that keeps its drive, or has none before and after it.  *)
LEMMA RowKeepsDriveInv ==
    ASSUME DriveInv, NEW r \in Row, NEW new \in ReqType,
           req' = [req EXCEPT ![r] = new], RowConsistent(r, new),
           req[r].pc \in Running <=> new.pc \in Running,
           new.pc \in Running => new.drive = req[r].drive /\ new.tape = req[r].tape,
           InventoryTypeOK', SameSlots,
           \A d \in Drive : drives'[d].busy = drives[d].busy,
           sched' \in SchedType, sched'.rows = sched.rows, sched'.movers = sched.movers,
           invoking' \in BOOLEAN, adds' \in [Row -> Nat],
           UNCHANGED <<mover, room, aborted, faults>>
    PROVE  DriveInv'
<1> USE DEF DriveInv
<1>1. /\ req' \in [Row -> ReqType]
      /\ req'[r] = new
      /\ \A s \in Row \ {r} : req'[s] = req[s]
    BY UpdateRow
<1>2. TypeOK'
    BY <1>1 DEF TypeOK
<1>3. ThreadsConsistent'
    BY <1>1 DEF ThreadsConsistent, RowConsistent, TypeOK, SchedType
<1>4. SameHolders
    BY <1>1 DEF SameHolders, RowHolds, MoverHolds
<1>5. TapeInDrive'
    BY <1>1 DEF TapeInDrive, ThreadsConsistent, SameSlots
<1>6. QED
    BY <1>2, <1>3, <1>4, <1>5, SameHoldersExclusive

(* The executor of a row gives its drive back.                             *)
LEMMA RowReleasesInv ==
    ASSUME DriveInv, NEW r \in Row, NEW new \in ReqType,
           req' = [req EXCEPT ![r] = new], RowConsistent(r, new),
           req[r].pc \in Running, new.pc \notin Running,
           InventoryTypeOK', SameSlots, ~drives'[req[r].drive].busy,
           \A e \in Drive \ {req[r].drive} : drives'[e] = drives[e],
           room' \in [Row -> SUBSET Cart], faults' \in [Fault -> Nat],
           UNCHANGED <<mover, sched, invoking, aborted, adds>>
    PROVE  DriveInv'
<1> USE DEF DriveInv
<1>1. /\ req' \in [Row -> ReqType]
      /\ req'[r] = new
      /\ \A s \in Row \ {r} : req'[s] = req[s]
    BY UpdateRow
<1>2. PICK d \in Drive : d = req[r].drive
    BY DEF ThreadsConsistent
<1>3. TypeOK'
    BY <1>1 DEF TypeOK
<1>4. ThreadsConsistent'
    BY <1>1 DEF ThreadsConsistent, RowConsistent, TypeOK, SchedType
<1>5. SameOthers(d)
    BY <1>1, <1>2 DEF SameOthers, RowHolds, MoverHolds
<1>6. /\ RowHolds(r, d)
      /\ \A s \in Row : RowHolds(s, d)' <=> RowHolds(s, d) /\ s # r
      /\ \A m \in Mover : MoverHolds(m, d)' <=> MoverHolds(m, d)
    BY <1>1, <1>2 DEF RowHolds, MoverHolds
<1>7. DriveExclusive'
    BY <1>2, <1>5, <1>6, RowFreesDrive
<1>8. TapeInDrive'
    BY <1>1 DEF TapeInDrive, ThreadsConsistent, SameSlots
<1>9. QED
    BY <1>3, <1>4, <1>7, <1>8

Working == {"exec", "assert", "op"}

(* A mover goes on and keeps its drive, or has none before and after.      *)
LEMMA MoverKeepsDriveInv ==
    ASSUME DriveInv, NEW m \in Mover, NEW new \in MoverType,
           mover' = [mover EXCEPT ![m] = new],
           m \notin sched.movers,
           mover[m].pc \in Working <=> new.pc \in Working,
           new.pc # "free" => new.drive = mover[m].drive /\ new.tape = mover[m].tape
                                /\ mover[m].pc # "free",
           new.pc = "op" /\ new.op = UNMOUNT => carts[new.tape].slot = new.drive,
           InventoryTypeOK', SameSlots,
           \A d \in Drive : drives'[d].busy = drives[d].busy,
           invoking' \in BOOLEAN, aborted' \in BOOLEAN,
           UNCHANGED <<req, room, sched, adds, faults>>
    PROVE  DriveInv'
<1> USE DEF DriveInv
<1>1. /\ mover' \in [Mover -> MoverType]
      /\ mover'[m] = new
      /\ \A n \in Mover \ {m} : mover'[n] = mover[n]
    BY UpdateMover
<1>2. TypeOK'
    BY <1>1 DEF TypeOK
<1>3. ThreadsConsistent'
    BY <1>1 DEF ThreadsConsistent, TypeOK, SchedType
<1>4. SameHolders
    BY <1>1 DEF SameHolders, RowHolds, MoverHolds, Working
<1>5. TapeInDrive'
    BY <1>1 DEF TapeInDrive, ThreadsConsistent, SameSlots
<1>6. QED
    BY <1>2, <1>3, <1>4, <1>5, SameHoldersExclusive

(* A mover is done with its drive: mount and unmount call setFree.         *)
LEMMA MoverReleasesInv ==
    ASSUME DriveInv, NEW m \in Mover, NEW new \in MoverType,
           mover' = [mover EXCEPT ![m] = new],
           mover[m].pc \in Working, new.pc \in {"free", "failed"},
           new.pc # "free" => new.drive = mover[m].drive /\ new.tape = mover[m].tape,
           InventoryTypeOK', TapeInDrive', ~drives'[mover[m].drive].busy,
           \A e \in Drive \ {mover[m].drive} : drives'[e] = drives[e],
           invoking' \in BOOLEAN, faults' \in [Fault -> Nat],
           UNCHANGED <<req, room, sched, aborted, adds>>
    PROVE  DriveInv'
<1> USE DEF DriveInv
<1>1. /\ mover' \in [Mover -> MoverType]
      /\ mover'[m] = new
      /\ \A n \in Mover \ {m} : mover'[n] = mover[n]
    BY UpdateMover
<1>2. PICK d \in Drive : d = mover[m].drive
    BY DEF ThreadsConsistent, Working
<1>3. TypeOK'
    BY <1>1 DEF TypeOK
<1>4. ThreadsConsistent'
    BY <1>1 DEF ThreadsConsistent, TypeOK, SchedType, Working
<1>5. SameOthers(d)
    BY <1>1, <1>2 DEF SameOthers, RowHolds, MoverHolds, Working
<1>6. /\ MoverHolds(m, d)
      /\ \A r \in Row : RowHolds(r, d)' <=> RowHolds(r, d)
      /\ \A n \in Mover : MoverHolds(n, d)' <=> MoverHolds(n, d) /\ n # m
    BY <1>1, <1>2 DEF RowHolds, MoverHolds, Working
<1>7. DriveExclusive'
    BY <1>2, <1>5, <1>6, MoverFreesDrive
<1>8. QED
    BY <1>3, <1>4, <1>7

------------------------------------------------------------------------------
(* Steps of the scheduler.                                                 *)

(* Handling a row keeps the invariant: its executor gets a drive that no   *)
(* thread holds, and the row itself, even a recall that was made NEW again *)
(* while it runs, has no drive; a new mover holds none yet.                *)
LEMMA HandleRowInv ==
    ASSUME DriveInv, NEW r \in Row, HandleRow(r) PROVE DriveInv' /\ SameSlots
<1> USE RowAssumption DEF DriveInv
<1>1. /\ sched' = [sched EXCEPT !.rows = @ \ {r}]
      /\ UNCHANGED <<room, invoking, adds, faults>>
      /\ r \in sched.rows
    BY DEF HandleRow, NextRow, RowHandled
<1>2. sched' \in SchedType /\ sched'.rows = sched.rows \ {r} /\ sched'.movers = sched.movers
    BY <1>1 DEF TypeOK, SchedType
<1>3. CASE StartsExecutor(r)
    <2>1. PICK d \in Drive, c \in Cart : /\ ~drives[d].busy
                                         /\ carts[c].slot = d
                                         /\ req[r].tape \in {c, NoCart}
                                         /\ Dispatch(r, d, c)
                                         /\ UNCHANGED <<mover, aborted>>
        BY <1>3 DEF StartsExecutor
    <2>2. drives' \in [Drive -> DriveType] /\ carts' \in [Cart -> CartType] /\ SameSlots
        BY <2>1 DEF Dispatch, makeUse, TypeOK, InventoryTypeOK, DriveType, CartType,
                    CartState, SameSlots
    <2>3. /\ drives'[d].busy
          /\ \A e \in Drive \ {d} : drives'[e] = drives[e]
        BY <2>1 DEF Dispatch, makeUse, TypeOK, InventoryTypeOK, DriveType
    <2> DEFINE st == IF req[r].state = "NONE" THEN "NONE" ELSE "INPROGRESS"
               new == [req[r] EXCEPT !.state = st, !.pc = "run", !.tape = c, !.drive = d]
    <2>4. st \in {"NONE", "INPROGRESS"} /\ (req[r].state = "NEW" => st = "INPROGRESS")
        OBVIOUS
    <2>5. req' = [req EXCEPT ![r] = new]
        BY <2>1 DEF Dispatch
    <2> HIDE DEF st
    <2>6. /\ new \in ReqType
          /\ new.state = st /\ new.pc = "run" /\ new.tape = c /\ new.drive = d
        <3>1. req[r] \in ReqType
            BY DEF TypeOK
        <3>2. new \in ReqType
            BY <2>4, <3>1 DEF ReqType
        <3>3. new.state = st /\ new.pc = "run" /\ new.tape = c /\ new.drive = d
            BY <3>1 DEF ReqType
        <3>4. QED
            BY <3>2, <3>3
    <2> HIDE DEF new
    <2>7. /\ req' \in [Row -> ReqType]
          /\ req'[r].state = st /\ req'[r].pc = "run"
          /\ req'[r].tape = c /\ req'[r].drive = d
          /\ \A s \in Row \ {r} : req'[s] = req[s]
        BY <2>5, <2>6, UpdateRow
    <2>8. TypeOK'
        BY <1>1, <1>2, <2>1, <2>2, <2>7 DEF TypeOK, InventoryTypeOK
    <2>9. ThreadsConsistent'
        BY <1>1, <1>2, <2>1, <2>4, <2>7 DEF ThreadsConsistent, TypeOK, SchedType, Running
    <2>10. req[r].pc \notin Running
        BY <2>1 DEF ThreadsConsistent, TapeInDrive, DriveExclusive, RowHolds
    <2>11. SameOthers(d)
        BY <2>1, <2>3, <2>7, <2>10 DEF SameOthers, RowHolds, MoverHolds
    <2>12. /\ \A s \in Row : RowHolds(s, d)' <=> RowHolds(s, d) \/ s = r
           /\ \A m \in Mover : MoverHolds(m, d)' <=> MoverHolds(m, d)
        BY <2>1, <2>7 DEF RowHolds, MoverHolds, Running
    <2>13. DriveExclusive'
        BY <2>1, <2>3, <2>11, <2>12, RowTakesDrive
    <2>14. TapeInDrive'
        BY <2>1, <2>2, <2>7 DEF TapeInDrive, ThreadsConsistent, SameSlots
    <2>15. QED
        BY <2>2, <2>8, <2>9, <2>13, <2>14
<1>4. CASE StartsMover(r)
    <2>1. PICK d \in Drive, c \in Cart, m \in Mover, op \in {MOUNT, MOVE, UNMOUNT} :
            /\ mover[m].pc = "free"
            /\ mover' = [mover EXCEPT ![m] = [pc |-> "add", op |-> op,
                                              drive |-> d, tape |-> c]]
            /\ drives' = [drives EXCEPT ![d].moveReq = RowKey[r]]
            /\ carts' \in [Cart -> CartType]
            /\ SameSlots
            /\ UNCHANGED <<req, aborted>>
        BY <1>4 DEF StartsMover
    <2>2. /\ drives' \in [Drive -> DriveType]
          /\ \A e \in Drive : drives'[e].busy = drives[e].busy
        BY <2>1 DEF TypeOK, InventoryTypeOK, DriveType
    <2>3. /\ mover' \in [Mover -> MoverType]
          /\ mover'[m].pc = "add" /\ mover'[m].drive = d /\ mover'[m].tape = c
          /\ \A n \in Mover \ {m} : mover'[n] = mover[n]
        BY <2>1 DEF TypeOK, MoverType
    <2>4. TypeOK'
        BY <1>1, <1>2, <2>1, <2>2, <2>3 DEF TypeOK, InventoryTypeOK
    <2>5. m \notin sched.movers
        BY <2>1 DEF ThreadsConsistent
    <2>6. ThreadsConsistent'
        BY <1>2, <2>1, <2>3, <2>5 DEF ThreadsConsistent, TypeOK, SchedType
    <2>7. SameHolders
        BY <2>1, <2>2, <2>3 DEF SameHolders, RowHolds, MoverHolds
    <2>8. TapeInDrive'
        BY <2>1, <2>3 DEF TapeInDrive, ThreadsConsistent, SameSlots
    <2>9. QED
        BY <2>1, <2>4, <2>6, <2>7, <2>8, SameHoldersExclusive
<1>5. CASE LeavesThreads
    <2>1. TypeOK'
        BY <1>1, <1>2, <1>5 DEF LeavesThreads, TypeOK, InventoryTypeOK
    <2>2. QED
        BY <1>2, <1>5, <2>1, NoThreadInv DEF LeavesThreads, ThreadsConsistent
<1>6. QED
    BY <1>3, <1>4, <1>5, HandleRowEffect

(* Dispatching a mover keeps the invariant: resAvailTapeMove has found its *)
(* drive not busy.                                                         *)
LEMMA HandleMoverInv ==
    ASSUME DriveInv, NEW m \in Mover, HandleMover(m) PROVE DriveInv' /\ SameSlots
<1> USE DEF DriveInv
<1>1. /\ sched' = [sched EXCEPT !.movers = @ \ {m}]
      /\ UNCHANGED <<req, room, invoking, aborted, adds, faults>>
      /\ mover[m].pc = "new"
    BY DEF HandleMover, NextMover, MoverHandled, ThreadsConsistent
<1>2. sched' \in SchedType /\ sched'.rows = sched.rows /\ sched'.movers = sched.movers \ {m}
    BY <1>1 DEF TypeOK, SchedType
<1>3. CASE /\ resAvailTapeMove(m)
           /\ makeUse(mover[m].drive, mover[m].tape)
           /\ mover' = [mover EXCEPT ![m].pc = "exec"]
    <2>1. PICK d \in Drive, c \in Cart : d = mover[m].drive /\ c = mover[m].tape
        BY <1>1 DEF ThreadsConsistent
    <2>2. /\ drives' \in [Drive -> DriveType]
          /\ carts' \in [Cart -> CartType] /\ SameSlots
          /\ drives'[d].busy /\ \A e \in Drive \ {d} : drives'[e] = drives[e]
        BY <1>3, <2>1 DEF makeUse, TypeOK, InventoryTypeOK, DriveType, CartType, CartState,
                          SameSlots
    <2> DEFINE new == [mover[m] EXCEPT !.pc = "exec"]
    <2>3. new \in MoverType /\ new.pc = "exec" /\ new.drive = d /\ new.tape = c
        BY <2>1 DEF TypeOK, MoverType
    <2>4. mover' = [mover EXCEPT ![m] = new]
        BY <1>3
    <2> HIDE DEF new
    <2>5. /\ mover' \in [Mover -> MoverType]
          /\ mover'[m].pc = "exec" /\ mover'[m].drive = d /\ mover'[m].tape = c
          /\ \A n \in Mover \ {m} : mover'[n] = mover[n]
        BY <2>3, <2>4, UpdateMover
    <2>6. TypeOK'
        BY <1>1, <1>2, <2>2, <2>5 DEF TypeOK, InventoryTypeOK
    <2>7. ThreadsConsistent'
        BY <1>1, <1>2, <2>5 DEF ThreadsConsistent, TypeOK, SchedType
    <2>8. SameOthers(d)
        BY <1>1, <2>1, <2>2, <2>5 DEF SameOthers, RowHolds, MoverHolds
    <2>9. /\ \A s \in Row : RowHolds(s, d)' <=> RowHolds(s, d)
          /\ \A n \in Mover : MoverHolds(n, d)' <=> MoverHolds(n, d) \/ n = m
        BY <1>1, <2>5 DEF RowHolds, MoverHolds
    <2>10. ~drives[d].busy
        BY <1>3, <2>1 DEF resAvailTapeMove
    <2>11. DriveExclusive'
        BY <2>1, <2>2, <2>8, <2>9, <2>10, MoverTakesDrive
    <2>12. TapeInDrive'
        BY <1>1, <2>2, <2>5 DEF TapeInDrive, ThreadsConsistent, SameSlots
    <2>13. QED
        BY <2>2, <2>6, <2>7, <2>11, <2>12
<1>4. CASE UNCHANGED <<drives, carts, mover>>
    <2>1. TypeOK'
        BY <1>1, <1>2, <1>4 DEF TypeOK, InventoryTypeOK
    <2>2. SameSlots
        BY <1>4 DEF SameSlots
    <2>3. QED
        BY <1>1, <1>2, <1>4, <2>1, <2>2, NoThreadInv DEF ThreadsConsistent
<1>5. QED
    BY <1>3, <1>4 DEF HandleMover

------------------------------------------------------------------------------
(* What the blocks that give a drive and a tape back do to the inventory.  *)
LEMMA ReleaseEffect ==
    ASSUME TypeOK, NEW d \in Drive, NEW c \in Cart,
           Release(d, c) \/ ReleaseKeepingUnblock(d, c)
    PROVE  /\ InventoryTypeOK' /\ SameSlots /\ ~drives'[d].busy
           /\ \A e \in Drive \ {d} : drives'[e] = drives[e]
<1>1. carts' \in [Cart -> CartType] /\ SameSlots
    BY DEF Release, ReleaseKeepingUnblock, BackToMounted, TypeOK, InventoryTypeOK,
           CartType, CartState, SameSlots
<1>2. PICK new \in DriveType : new.busy = FALSE /\ drives' = [drives EXCEPT ![d] = new]
    <2>1. [drives[d] EXCEPT !.busy = FALSE, !.toUnblock = NOOP] \in DriveType
        <3>1. NOOP \in Operation
            BY DEF Operation, NOOP
        <3>2. QED
            BY <3>1 DEF TypeOK, InventoryTypeOK, DriveType
    <2>2. [drives[d] EXCEPT !.busy = FALSE] \in DriveType
        BY DEF TypeOK, InventoryTypeOK, DriveType
    <2>3. QED
        BY <2>1, <2>2 DEF Release, ReleaseKeepingUnblock, TypeOK, InventoryTypeOK, DriveType
<1>3. QED
    BY <1>1, <1>2 DEF TypeOK, InventoryTypeOK

(* The second half of mount and unmount, after success and after an error. *)
LEMMA MovedEffect ==
    ASSUME TypeOK, NEW d \in Drive, NEW c \in Cart,
           mounted(d, c) \/ unmounted(d, c) \/ setFree(d)
    PROVE  /\ InventoryTypeOK' /\ ~drives'[d].busy
           /\ \A e \in Drive \ {d} : drives'[e] = drives[e]
           /\ \A b \in Cart \ {c} : carts'[b] = carts[b]
<1>1. carts' \in [Cart -> CartType] /\ \A b \in Cart \ {c} : carts'[b] = carts[b]
    <2>1. /\ [carts[c] EXCEPT !.slot = d, !.state = "MOUNTED"] \in CartType
          /\ [carts[c] EXCEPT !.slot = NoDrive, !.state = "UNMOUNTED"] \in CartType
        BY DEF TypeOK, InventoryTypeOK, CartType, CartState
    <2>2. QED
        BY <2>1 DEF mounted, unmounted, setFree, TypeOK, InventoryTypeOK
<1>2. PICK new \in DriveType : new.busy = FALSE /\ drives' = [drives EXCEPT ![d] = new]
    <2>1. [drives[d] EXCEPT !.busy = FALSE, !.moveReq = NoKey] \in DriveType
        BY DEF TypeOK, InventoryTypeOK, DriveType
    <2>2. [drives[d] EXCEPT !.busy = FALSE] \in DriveType
        BY DEF TypeOK, InventoryTypeOK, DriveType
    <2>3. QED
        BY <2>1, <2>2 DEF mounted, unmounted, setFree, TypeOK, InventoryTypeOK, DriveType
<1>3. QED
    BY <1>1, <1>2 DEF TypeOK, InventoryTypeOK

(* A fault uses up one of its occurrences.                                 *)
LEMMA FaultsTyped ==
    ASSUME TypeOK, NEW f \in Fault, Happens(f) PROVE faults' \in [Fault -> Nat]
BY DEF TypeOK, Happens

------------------------------------------------------------------------------
(* Every step of an executor keeps the invariant and moves no tape.        *)
LEMMA RowStepInv ==
    ASSUME DriveInv, NEW r \in Row, RowStep(r) \/ TransRecallEnds(r)
    PROVE  DriveInv' /\ SameSlots
<1> USE DEF DriveInv, Running
<1>1. req[r] \in ReqType
    BY DEF TypeOK
<1>2. RowOp[r] # TRARECALL /\ req[r].pc # "idle"
        => req[r].state \notin {"NONE", "NEW"} /\ r \notin sched.rows
    BY DEF ThreadsConsistent
<1>3. req[r].pc \in Running => req[r].drive \in Drive /\ req[r].tape \in Cart
    BY DEF ThreadsConsistent
<1>4. InventoryTypeOK /\ sched \in SchedType /\ invoking \in BOOLEAN
    BY DEF TypeOK
<1>5. UNCHANGED <<drives, carts>> => /\ InventoryTypeOK' /\ SameSlots
                                     /\ \A d \in Drive : drives'[d].busy = drives[d].busy
    BY <1>4 DEF InventoryTypeOK, SameSlots
<1>6. CASE MigrationReleases(r)
    <2>1. PICK outcome \in {"done", "suspended", "remaining"}, full \in SUBSET Row :
            /\ req' = [req EXCEPT ![r] = [@ EXCEPT !.pc = "released", !.outcome = outcome]]
            /\ room' = [s \in Row |-> IF s \in full THEN room[s] \ {req[r].tape}
                                                   ELSE room[s]]
        BY <1>6 DEF MigrationReleases
    <2>2. room' \in [Row -> SUBSET Cart]
        BY <2>1 DEF TypeOK
    <2> DEFINE new == [req[r] EXCEPT !.pc = "released", !.outcome = outcome]
    <2>3. new \in ReqType /\ new.pc = "released" /\ new.state = req[r].state
        BY <1>1 DEF ReqType
    <2>4. req' = [req EXCEPT ![r] = new]
        BY <2>1
    <2>5. /\ Release(req[r].drive, req[r].tape) /\ req[r].pc = "run"
          /\ UNCHANGED <<mover, sched, invoking, aborted, adds, faults>>
        BY <1>6 DEF MigrationReleases
    <2> HIDE DEF new
    <2>6. RowConsistent(r, new)
        BY <1>2, <2>3, <2>5 DEF RowConsistent
    <2>7. QED
        BY <1>3, <2>2, <2>3, <2>4, <2>5, <2>6, ReleaseEffect, RowReleasesInv DEF TypeOK
<1>7. CASE SelRecallReleases(r)
    <2>1. PICK outcome \in {"done", "suspended"} :
            req' = [req EXCEPT ![r] = [@ EXCEPT !.pc = "released", !.outcome = outcome]]
        BY <1>7 DEF SelRecallReleases
    <2> DEFINE new == [req[r] EXCEPT !.pc = "released", !.outcome = outcome]
    <2>2. new \in ReqType /\ new.pc = "released" /\ new.state = req[r].state
        BY <1>1 DEF ReqType
    <2>3. req' = [req EXCEPT ![r] = new]
        BY <2>1
    <2>4. /\ Release(req[r].drive, req[r].tape) /\ req[r].pc = "run"
          /\ UNCHANGED <<mover, room, sched, invoking, aborted, adds, faults>>
        BY <1>7 DEF SelRecallReleases
    <2> HIDE DEF new
    <2>5. RowConsistent(r, new)
        BY <1>2, <2>2, <2>4 DEF RowConsistent
    <2>6. QED
        BY <1>3, <2>2, <2>3, <2>4, <2>5, ReleaseEffect, RowReleasesInv DEF TypeOK
<1>8. CASE TransRecallStarts(r)
    <2> DEFINE jobs == IF req[r].jobs = {} THEN {} ELSE {"recalling"}
               new == [req[r] EXCEPT !.pc = "recall", !.jobs = jobs]
    <2>1. jobs \subseteq {"new", "recalling"}
        OBVIOUS
    <2>2. /\ req' = [req EXCEPT ![r] = new] /\ req[r].pc = "run" /\ RowOp[r] = TRARECALL
          /\ UNCHANGED <<drives, carts, mover, room, sched, invoking, aborted, adds, faults>>
        BY <1>8 DEF TransRecallStarts
    <2> HIDE DEF jobs
    <2>3. new \in ReqType /\ new.pc = "recall"
          /\ new.drive = req[r].drive /\ new.tape = req[r].tape
        BY <1>1, <2>1 DEF ReqType
    <2> HIDE DEF new
    <2>4. RowConsistent(r, new)
        BY <2>2 DEF RowConsistent
    <2>5. QED
        BY <1>4, <1>5, <2>2, <2>3, <2>4, RowKeepsDriveInv DEF TypeOK
<1>9. CASE TransRecallReleases(r)
    <2> DEFINE new == [req[r] EXCEPT !.pc = "idle", !.drive = NoDrive,
                                     !.jobs = req[r].jobs \ {"recalling"},
                                     !.ending = req[r].ending + 1]
    <2>1. /\ req' = [req EXCEPT ![r] = new] /\ req[r].pc = "recall"
          /\ ReleaseKeepingUnblock(req[r].drive, req[r].tape) /\ RowOp[r] = TRARECALL
          /\ UNCHANGED <<mover, room, sched, invoking, aborted, adds, faults>>
        BY <1>9 DEF TransRecallReleases
    <2>2. req[r].ending + 1 \in Nat /\ req[r].jobs \ {"recalling"} \in SUBSET {"new", "recalling"}
        BY <1>1 DEF ReqType
    <2>3. new \in ReqType /\ new.pc = "idle" /\ new.state = req[r].state
        BY <1>1, <2>2 DEF ReqType
    <2> HIDE DEF new
    <2>4. RowConsistent(r, new)
        BY <2>1 DEF RowConsistent
    <2>5. QED
        BY <1>3, <2>1, <2>3, <2>4, ReleaseEffect, RowReleasesInv DEF TypeOK
<1>10. CASE TransRecallEnds(r)
    <2> DEFINE st == IF req[r].jobs = {} \/ req[r].state = "NONE" THEN "NONE" ELSE "NEW"
               new == [req[r] EXCEPT !.ending = req[r].ending - 1, !.state = st]
    <2>1. st \in {"NONE", "NEW"}
        OBVIOUS
    <2>2. /\ req' = [req EXCEPT ![r] = new] /\ req[r].ending > 0 /\ invoking' = TRUE
          /\ RowOp[r] = TRARECALL
          /\ UNCHANGED <<drives, carts, mover, room, sched, aborted, adds, faults>>
        BY <1>10 DEF TransRecallEnds
    <2> HIDE DEF st
    <2>3. req[r].ending - 1 \in Nat
        BY <1>1, <2>2 DEF ReqType
    <2>4. new \in ReqType /\ new.pc = req[r].pc
          /\ new.drive = req[r].drive /\ new.tape = req[r].tape
        BY <1>1, <2>1, <2>3 DEF ReqType
    <2> HIDE DEF new
    <2>5. RowConsistent(r, new)
        BY <2>2 DEF RowConsistent
    <2>6. QED
        BY <1>4, <1>5, <2>2, <2>4, <2>5, RowKeepsDriveInv DEF TypeOK
<1>11. CASE TapeHandlerReleases(r)
    <2>1. PICK st \in {req[r].state, "COMPLETED"} :
            req' = [req EXCEPT ![r] = [@ EXCEPT !.pc = "released", !.state = st]]
        <3>1. [req[r] EXCEPT !.pc = "released"]
                = [req[r] EXCEPT !.pc = "released", !.state = req[r].state]
            BY <1>1 DEF ReqType
        <3>2. QED
            BY <1>11, <3>1 DEF TapeHandlerReleases
    <2> DEFINE new == [req[r] EXCEPT !.pc = "released", !.state = st]
    <2>2. new \in ReqType /\ new.pc = "released" /\ new.state = st
        BY <1>1, <2>1 DEF ReqType
    <2>3. req' = [req EXCEPT ![r] = new]
        BY <2>1
    <2>4. /\ Release(req[r].drive, req[r].tape) /\ req[r].pc = "run"
          /\ RowOp[r] # TRARECALL
          /\ UNCHANGED <<mover, room, sched, invoking, aborted, adds>>
        BY <1>11 DEF TapeHandlerReleases, TRARECALL, FORMAT, CHECK
    <2>5. faults' \in [Fault -> Nat]
        BY <1>11, FaultsTyped DEF TapeHandlerReleases, Fault, TypeOK
    <2> HIDE DEF new
    <2>6. RowConsistent(r, new)
        BY <1>2, <2>1, <2>2, <2>4 DEF RowConsistent
    <2>7. QED
        BY <1>3, <2>2, <2>3, <2>4, <2>5, <2>6, ReleaseEffect, RowReleasesInv DEF TypeOK
<1>12. CASE MigrationInvokes(r)
    <2> DEFINE new == [req[r] EXCEPT !.pc = "phase2"]
    <2>1. new \in ReqType /\ new.pc = "phase2" /\ new.state = req[r].state
        BY <1>1 DEF ReqType
    <2>2. /\ req' = [req EXCEPT ![r] = new] /\ req[r].pc = "released"
          /\ sched' = [sched EXCEPT !.pc = "notified"]
          /\ UNCHANGED <<drives, carts, mover, room, invoking, aborted, adds, faults>>
        BY <1>12 DEF MigrationInvokes
    <2>3. sched' \in SchedType /\ sched'.rows = sched.rows /\ sched'.movers = sched.movers
        BY <1>4, <2>2 DEF SchedType
    <2> HIDE DEF new
    <2>4. RowConsistent(r, new)
        BY <1>2, <2>1, <2>2 DEF RowConsistent
    <2>5. QED
        BY <1>4, <1>5, <2>1, <2>2, <2>3, <2>4, RowKeepsDriveInv DEF TypeOK
<1>13. CASE MigrationEnds(r)
    <2> DEFINE st == IF req[r].outcome = "done" THEN "COMPLETED" ELSE "NEW"
               tp == IF req[r].outcome = "remaining" THEN NoCart ELSE req[r].tape
               new == [req[r] EXCEPT !.pc = "idle", !.drive = NoDrive, !.outcome = "done",
                                     !.state = st, !.tape = tp]
    <2>1. st \in {"COMPLETED", "NEW"} /\ tp \in Cart \cup {NoCart}
        BY <1>1 DEF ReqType
    <2>2. /\ req' = [req EXCEPT ![r] = new] /\ req[r].pc = "phase2"
          /\ RowOp[r] # TRARECALL
          /\ invoking' = (invoking \/ req[r].outcome # "done")
          /\ UNCHANGED <<drives, carts, mover, room, sched, aborted, adds, faults>>
        BY <1>13 DEF MigrationEnds, MIGRATION, TRARECALL
    <2> HIDE DEF st, tp
    <2>3. new \in ReqType /\ new.pc = "idle"
        BY <1>1, <2>1 DEF ReqType
    <2> HIDE DEF new
    <2>4. RowConsistent(r, new)
        BY <1>2, <2>2, <2>3 DEF RowConsistent
    <2>5. invoking' \in BOOLEAN
        BY <2>2
    <2>6. QED
        BY <1>4, <1>5, <2>2, <2>3, <2>4, <2>5, RowKeepsDriveInv DEF TypeOK
<1>14. CASE SelRecallEnds(r)
    <2> DEFINE st == IF req[r].outcome = "done" THEN "COMPLETED" ELSE "NEW"
               new == [req[r] EXCEPT !.pc = "idle", !.drive = NoDrive, !.outcome = "done",
                                     !.state = st]
    <2>1. st \in {"COMPLETED", "NEW"}
        OBVIOUS
    <2>2. /\ req' = [req EXCEPT ![r] = new] /\ req[r].pc = "released"
          /\ RowOp[r] # TRARECALL /\ invoking' = TRUE
          /\ UNCHANGED <<drives, carts, mover, room, sched, aborted, adds, faults>>
        BY <1>14 DEF SelRecallEnds, SELRECALL, TRARECALL
    <2> HIDE DEF st
    <2>3. new \in ReqType /\ new.pc = "idle"
        BY <1>1, <2>1 DEF ReqType
    <2> HIDE DEF new
    <2>4. RowConsistent(r, new)
        BY <1>2, <2>2, <2>3 DEF RowConsistent
    <2>5. QED
        BY <1>4, <1>5, <2>2, <2>3, <2>4, RowKeepsDriveInv DEF TypeOK
<1>15. CASE TapeHandlerEnds(r)
    <2> DEFINE new == [req[r] EXCEPT !.pc = "idle", !.drive = NoDrive]
    <2>1. new \in ReqType /\ new.pc = "idle" /\ new.state = req[r].state
        BY <1>1 DEF ReqType
    <2>2. /\ req' = [req EXCEPT ![r] = new] /\ req[r].pc = "released"
          /\ RowOp[r] # TRARECALL /\ inventorize /\ invoking' = TRUE
          /\ UNCHANGED <<mover, room, sched, aborted, adds, faults>>
        BY <1>15 DEF TapeHandlerEnds, FORMAT, CHECK, TRARECALL
    <2> HIDE DEF new
    <2>3. RowConsistent(r, new)
        BY <1>2, <2>1, <2>2 DEF RowConsistent
    <2>4. QED
        BY <1>4, <2>1, <2>2, <2>3, InventorizeEffect, RowKeepsDriveInv DEF TypeOK
<1>16. QED
    BY <1>6, <1>7, <1>8, <1>9, <1>10, <1>11, <1>12, <1>13, <1>14, <1>15 DEF RowStep

(* The tape a mover moves is used by no executor and by no other unmount:  *)
(* an unmount takes a tape out of the drive the mover itself holds, and a  *)
(* mount takes a tape that is in no drive.                                 *)
LEMMA MovedTapeUnused ==
    ASSUME DriveInv, NEW m \in Mover, MoverSucceeds(m), NEW d \in Drive, NEW c \in Cart,
           d = mover[m].drive, c = mover[m].tape
    PROVE  /\ \A r \in Row : req[r].pc \in Running => req[r].tape # c
           /\ \A n \in Mover \ {m} : mover[n].pc = "op" /\ mover[n].op = UNMOUNT
                                         => mover[n].tape # c
<1> USE DEF DriveInv
<1>1. mover[m].pc = "op" /\ LibraryCanMove(mover[m].op, d, c)
    BY DEF MoverSucceeds
<1>2. CASE mover[m].op = UNMOUNT
    <2>1. carts[c].slot = d /\ MoverHolds(m, d)
        BY <1>1, <1>2 DEF TapeInDrive, MoverHolds
    <2>2. QED
        BY <2>1 DEF TapeInDrive, DriveExclusive, RowHolds, MoverHolds
<1>3. CASE mover[m].op # UNMOUNT
    <2>1. carts[c].slot = NoDrive
        BY <1>1, <1>3 DEF LibraryCanMove
    <2>2. QED
        BY <2>1, NoDriveAssumption DEF TapeInDrive, ThreadsConsistent
<1>4. QED
    BY <1>2, <1>3

(* Every step of a mover keeps the invariant, and only its success moves a *)
(* tape.                                                                   *)
LEMMA MoverStepInv ==
    ASSUME DriveInv, NEW m \in Mover, MoverStep(m)
    PROVE  DriveInv' /\ (SameSlots \/ MoverSucceeds(m))
<1> USE DEF DriveInv
<1>1. mover[m] \in MoverType
    BY DEF TypeOK
<1>2. mover[m].pc # "free" => mover[m].drive \in Drive /\ mover[m].tape \in Cart
    BY DEF ThreadsConsistent
<1>3. mover[m].pc # "new" => m \notin sched.movers
    BY DEF ThreadsConsistent
<1>4. InventoryTypeOK /\ aborted \in BOOLEAN /\ invoking \in BOOLEAN
    BY DEF TypeOK
<1>5. UNCHANGED <<drives, carts>> => /\ InventoryTypeOK' /\ SameSlots
                                     /\ \A d \in Drive : drives'[d].busy = drives[d].busy
    BY <1>4 DEF InventoryTypeOK, SameSlots
<1>6. NoMover \in MoverType /\ NoMover.pc = "free"
    BY DEF NoMover, MoverType, MOUNT, MOVE, UNMOUNT
<1>7. CASE MoverAddRequest(m)
    <2> DEFINE new == [mover[m] EXCEPT !.pc = "new"]
    <2>1. new \in MoverType /\ new.pc = "new"
          /\ new.drive = mover[m].drive /\ new.tape = mover[m].tape
        BY <1>1 DEF MoverType
    <2>2. /\ mover' = [mover EXCEPT ![m] = new] /\ mover[m].pc = "add" /\ invoking' = TRUE
          /\ UNCHANGED <<drives, carts, req, room, sched, aborted, adds, faults>>
        BY <1>7 DEF MoverAddRequest
    <2> HIDE DEF new
    <2>3. QED
        BY <1>3, <1>4, <1>5, <2>1, <2>2, MoverKeepsDriveInv DEF Working
<1>8. CASE MoverExecRequest(m)
    <2>1. PICK c \in Cart : c = mover[m].tape
        BY <1>2, <1>8 DEF MoverExecRequest
    <2> DEFINE new == [mover[m] EXCEPT !.pc = "assert"]
    <2>2. new \in MoverType /\ new.pc = "assert"
          /\ new.drive = mover[m].drive /\ new.tape = mover[m].tape
        BY <1>1 DEF MoverType
    <2>3. /\ mover' = [mover EXCEPT ![m] = new] /\ mover[m].pc = "exec" /\ setMoving(c)
          /\ UNCHANGED <<req, room, sched, invoking, aborted, adds, faults>>
        BY <1>8, <2>1 DEF MoverExecRequest
    <2>4. /\ InventoryTypeOK' /\ SameSlots
          /\ \A d \in Drive : drives'[d].busy = drives[d].busy
        BY <1>4, <2>3 DEF setMoving, InventoryTypeOK, CartType, CartState, SameSlots
    <2> HIDE DEF new
    <2>5. QED
        BY <1>3, <1>4, <2>2, <2>3, <2>4, MoverKeepsDriveInv DEF Working
<1>9. CASE MoverAssert(m)
    <2>1. CASE ~MoveAsserts(m)
        <3>1. /\ mover' = [mover EXCEPT ![m] = mover[m]] /\ mover[m].pc = "assert"
              /\ aborted' = TRUE
              /\ UNCHANGED <<drives, carts, req, room, sched, invoking, adds, faults>>
            BY <1>9, <2>1 DEF MoverAssert, Abort, TypeOK
        <3>2. QED
            BY <1>1, <1>3, <1>4, <1>5, <3>1, MoverKeepsDriveInv
    <2>2. CASE MoveAsserts(m)
        <3> DEFINE new == [mover[m] EXCEPT !.pc = "op"]
        <3>1. new \in MoverType /\ new.pc = "op" /\ new.op = mover[m].op
              /\ new.drive = mover[m].drive /\ new.tape = mover[m].tape
            BY <1>1 DEF MoverType
        <3>2. /\ mover' = [mover EXCEPT ![m] = new] /\ mover[m].pc = "assert"
              /\ UNCHANGED <<drives, carts, req, room, sched, invoking, aborted, adds, faults>>
            BY <1>9, <2>2 DEF MoverAssert
        <3> HIDE DEF new
        <3>3. new.op = UNMOUNT => carts[new.tape].slot = new.drive
            BY <2>2, <3>1 DEF MoveAsserts
        <3>4. QED
            BY <1>3, <1>4, <1>5, <3>1, <3>2, <3>3, MoverKeepsDriveInv DEF Working
    <2>3. QED
        BY <2>1, <2>2
<1>10. CASE MoverSucceeds(m)
    <2>1. /\ mover[m].pc = "op"
          /\ mover' = [mover EXCEPT ![m] = NoMover] /\ invoking' = TRUE
          /\ UNCHANGED <<req, room, sched, aborted, adds, faults>>
        BY <1>10 DEF MoverSucceeds, MoverEnds
    <2>2. PICK d \in Drive, c \in Cart : d = mover[m].drive /\ c = mover[m].tape
        BY <1>2, <2>1
    <2>3. /\ LibraryCanMove(mover[m].op, d, c)
          /\ IF mover[m].op = UNMOUNT THEN unmounted(d, c) ELSE mounted(d, c)
        BY <1>10, <2>2 DEF MoverSucceeds
    <2>4. /\ InventoryTypeOK' /\ ~drives'[d].busy
          /\ \A e \in Drive \ {d} : drives'[e] = drives[e]
          /\ \A b \in Cart \ {c} : carts'[b] = carts[b]
        BY <2>3, MovedEffect
    <2>5. /\ \A r \in Row : req[r].pc \in Running => req[r].tape # c
          /\ \A n \in Mover \ {m} : mover[n].pc = "op" /\ mover[n].op = UNMOUNT
                                        => mover[n].tape # c
        BY <1>10, <2>2, MovedTapeUnused
    <2>6. mover'[m].pc = "free" /\ \A n \in Mover \ {m} : mover'[n] = mover[n]
        BY <1>6, <2>1, UpdateMover
    <2>7. TapeInDrive'
        BY <2>1, <2>4, <2>5, <2>6 DEF TapeInDrive, ThreadsConsistent
    <2>8. DriveInv'
        BY <1>6, <2>1, <2>2, <2>4, <2>7, MoverReleasesInv DEF TypeOK, Working
    <2>9. QED
        BY <1>10, <2>8
<1>11. CASE MoverFails(m)
    <2>1. PICK d \in Drive, c \in Cart : d = mover[m].drive /\ c = mover[m].tape
        BY <1>2, <1>11 DEF MoverFails
    <2> DEFINE new == [mover[m] EXCEPT !.pc = "failed"]
    <2>2. new \in MoverType /\ new.pc = "failed"
          /\ new.drive = mover[m].drive /\ new.tape = mover[m].tape
        BY <1>1 DEF MoverType
    <2>3. /\ mover' = [mover EXCEPT ![m] = new] /\ mover[m].pc = "op" /\ setFree(d)
          /\ UNCHANGED <<req, room, sched, invoking, aborted, adds>>
        BY <1>11, <2>1 DEF MoverFails
    <2>4. faults' \in [Fault -> Nat]
        BY <1>11, FaultsTyped DEF MoverFails, Fault, TypeOK
    <2>5. /\ InventoryTypeOK' /\ ~drives'[d].busy
          /\ \A e \in Drive \ {d} : drives'[e] = drives[e]
        BY <2>3, MovedEffect
    <2> HIDE DEF new
    <2>6. SameSlots /\ carts' = carts
        BY <2>3 DEF setFree, SameSlots
    <2>7. mover'[m].pc = "failed" /\ \A n \in Mover \ {m} : mover'[n] = mover[n]
        BY <2>2, <2>3, UpdateMover
    <2>8. TapeInDrive'
        BY <2>3, <2>6, <2>7 DEF TapeInDrive
    <2>9. DriveInv'
        BY <1>4, <2>1, <2>2, <2>3, <2>4, <2>5, <2>8, MoverReleasesInv DEF Working
    <2>10. QED
        BY <2>6, <2>9
<1>12. CASE MoverInventorize(m)
    <2>1. /\ mover' = [mover EXCEPT ![m] = NoMover] /\ mover[m].pc = "failed"
          /\ inventorize /\ invoking' = TRUE
          /\ UNCHANGED <<req, room, sched, aborted, adds, faults>>
        BY <1>12 DEF MoverInventorize, MoverEnds
    <2>2. QED
        BY <1>3, <1>4, <1>6, <2>1, InventorizeEffect, MoverKeepsDriveInv DEF Working
<1>13. QED
    BY <1>7, <1>8, <1>9, <1>10, <1>11, <1>12 DEF MoverStep
------------------------------------------------------------------------------
(* Requests and recall jobs are added without looking at the scheduler, at *)
(* a drive or at a tape: a row that runs keeps its drive.                  *)
LEMMA AddInv ==
    ASSUME DriveInv, NEW r \in Row, AddRequest(r) \/ AddJob(r)
    PROVE  DriveInv' /\ SameSlots
<1> USE DEF DriveInv
<1>1. req[r] \in ReqType /\ sched \in SchedType /\ InventoryTypeOK
    BY DEF TypeOK
<1>2. /\ adds' = [adds EXCEPT ![r] = @ - 1] /\ adds[r] > 0 /\ invoking' = TRUE
      /\ UNCHANGED <<drives, carts, mover, room, sched, aborted, faults>>
    BY DEF AddRequest, AddJob
<1>3. /\ adds' \in [Row -> Nat] /\ InventoryTypeOK' /\ SameSlots
      /\ \A d \in Drive : drives'[d].busy = drives[d].busy
    BY <1>1, <1>2 DEF TypeOK, InventoryTypeOK, SameSlots
<1>4. CASE AddRequest(r)
    <2> DEFINE new == [req[r] EXCEPT !.state = "NEW"]
    <2>1. new \in ReqType /\ new.pc = req[r].pc /\ new.state = "NEW"
        BY <1>1 DEF ReqType
    <2>2. req' = [req EXCEPT ![r] = new] /\ req[r].pc = "idle"
        BY <1>4 DEF AddRequest
    <2> HIDE DEF new
    <2>3. RowConsistent(r, new)
        BY <2>1, <2>2 DEF RowConsistent
    <2>4. QED
        BY <1>1, <1>2, <1>3, <2>1, <2>2, <2>3, RowKeepsDriveInv DEF Running
<1>5. CASE AddJob(r)
    <2> DEFINE jobs == req[r].jobs \cup {"new"}
               new == [req[r] EXCEPT !.state = "NEW", !.jobs = jobs]
    <2>1. jobs \in SUBSET {"new", "recalling"}
        BY <1>1 DEF ReqType
    <2>2. req' = [req EXCEPT ![r] = new] /\ RowOp[r] = TRARECALL
        BY <1>5 DEF AddJob
    <2> HIDE DEF jobs
    <2>3. new \in ReqType /\ new.pc = req[r].pc
          /\ new.drive = req[r].drive /\ new.tape = req[r].tape
        BY <1>1, <2>1 DEF ReqType
    <2> HIDE DEF new
    <2>4. RowConsistent(r, new)
        BY <2>2 DEF RowConsistent
    <2>5. QED
        BY <1>1, <1>2, <1>3, <2>2, <2>3, <2>4, RowKeepsDriveInv
<1>6. QED
    BY <1>4, <1>5

(* Every step keeps the invariant, and only the success of a mover moves a *)
(* tape.                                                                   *)
LEMMA NextDriveInv ==
    ASSUME DriveInv, [Next]_vars
    PROVE  DriveInv' /\ (SameSlots \/ \E m \in Mover : MoverSucceeds(m))
<1> USE DEF DriveInv
<1>1. UNCHANGED <<drives, carts>> => /\ InventoryTypeOK' /\ SameSlots
                                     /\ \A d \in Drive : drives'[d].busy = drives[d].busy
    BY DEF TypeOK, InventoryTypeOK, SameSlots
<1>2. CASE invoke
    <2>1. /\ sched' \in SchedType /\ sched'.rows = sched.rows
          /\ sched'.movers = sched.movers
        BY <1>2 DEF invoke, TypeOK, SchedType
    <2>2. TypeOK'
        BY <1>1, <1>2, <2>1 DEF invoke, TypeOK
    <2>3. QED
        BY <1>1, <1>2, <2>1, <2>2, NoThreadInv DEF invoke, ThreadsConsistent
<1>3. CASE WakeUp \/ SpuriousWakeUp
    <2>1. /\ SelectRows
          /\ UNCHANGED <<drives, carts, req, mover, room, invoking, aborted, adds, faults>>
        BY <1>3 DEF WakeUp, SpuriousWakeUp
    <2>2. TypeOK'
        BY <1>1, <2>1 DEF SelectRows, TypeOK, SchedType
    <2>3. QED
        BY <1>1, <2>1, <2>2, NoThreadInv DEF SelectRows
<1>4. CASE EndPass
    <2>1. /\ sched' \in SchedType /\ sched'.rows = sched.rows
          /\ sched'.movers = sched.movers
        BY <1>4 DEF EndPass, TypeOK, SchedType
    <2>2. TypeOK'
        BY <1>1, <1>4, <2>1 DEF EndPass, TypeOK
    <2>3. QED
        BY <1>1, <1>4, <2>1, <2>2, NoThreadInv DEF EndPass, ThreadsConsistent
<1>5. ASSUME NEW r \in Row, TapeStaysBusy(r) PROVE DriveInv' /\ SameSlots
    <2>1. PICK c \in Cart : c = req[r].tape
        BY <1>5 DEF TapeStaysBusy, ThreadsConsistent
    <2>2. /\ InventoryTypeOK' /\ SameSlots
          /\ \A d \in Drive : drives'[d].busy = drives[d].busy
        BY <1>5, <2>1 DEF TapeStaysBusy, updateCartridge, FreshCart, TypeOK,
                          InventoryTypeOK, CartType, CartState, SameSlots
    <2>3. faults' \in [Fault -> Nat]
        BY <1>5, FaultsTyped DEF TapeStaysBusy, Fault
    <2>4. TypeOK'
        BY <1>5, <2>2, <2>3 DEF TapeStaysBusy, TypeOK
    <2>5. QED
        BY <1>5, <2>2, <2>4, NoThreadInv DEF TapeStaysBusy, ThreadsConsistent
<1>6. CASE retrieveMessage
    <2>1. faults' \in [Fault -> Nat]
        BY <1>6, FaultsTyped DEF retrieveMessage, Fault
    <2>2. /\ InventoryTypeOK' /\ SameSlots
          /\ \A d \in Drive : drives'[d].busy = drives[d].busy
        BY <1>6, InventorizeEffect DEF retrieveMessage
    <2>3. TypeOK'
        BY <1>6, <2>1, <2>2 DEF retrieveMessage, TypeOK
    <2>4. QED
        BY <1>6, <2>2, <2>3, NoThreadInv DEF retrieveMessage, ThreadsConsistent
<1>7. CASE UNCHANGED vars
    <2>1. TypeOK'
        BY <1>1, <1>7 DEF vars, TypeOK
    <2>2. QED
        BY <1>1, <1>7, <2>1, NoThreadInv DEF vars, ThreadsConsistent
<1>8. CASE Environment
    BY <1>3, <1>5, <1>6, <1>8, AddInv DEF Environment
<1>9. CASE SchedulerStep
    BY <1>3, <1>4, <1>9, HandleRowInv, HandleMoverInv DEF SchedulerStep
<1>10. QED
    BY <1>2, <1>7, <1>8, <1>9, MoverStepInv, RowStepInv DEF Next

(* The inductive invariant holds in every state of every behaviour.        *)
LEMMA DriveInvAlways == Spec => []DriveInv
<1>1. DriveInv /\ [Next]_vars => DriveInv'
    BY NextDriveInv
<1>2. QED
    BY <1>1, InitDriveInv, PTL DEF Spec

(* Every variable keeps its type, with any number of threads.              *)
THEOREM TypeCorrect == Spec => []TypeOK
<1>1. DriveInv => TypeOK
    BY DEF DriveInv
<1>2. QED
    BY <1>1, DriveInvAlways, PTL

(* The busy flag works as the lock of a drive: an executor or a mover that *)
(* the scheduler starts (makeUse) is the only thread that works with its   *)
(* drive until it calls setFree, whatever is added, fails or is made NEW   *)
(* again meanwhile, and a drive nobody works with is not busy.             *)
THEOREM DriveExclusiveAlways == Spec => []DriveExclusive
<1>1. DriveInv => DriveExclusive
    BY DEF DriveInv
<1>2. QED
    BY <1>1, DriveInvAlways, PTL

(* The snapshot of REQUEST_QUEUE a pass of Scheduler::run works on is not  *)
(* outdated by other threads, transparent recalls excepted.                *)
THEOREM ThreadsConsistentAlways == Spec => []ThreadsConsistent
<1>1. DriveInv => ThreadsConsistent
    BY DEF DriveInv
<1>2. QED
    BY <1>1, DriveInvAlways, PTL

(* The tape an executor works with stays in its drive, even when its state *)
(* has been overwritten by updateCartridge.                                *)
THEOREM TapeInDriveAlways == Spec => []TapeInDrive
<1>1. DriveInv => TapeInDrive
    BY DEF DriveInv
<1>2. QED
    BY <1>1, DriveInvAlways, PTL

(* A tape in use is not moved: an unmount holds the drive the tape is in,  *)
(* a mount takes a tape that is in no drive, and nothing else moves tapes. *)
LEMMA NextNoMove == ASSUME DriveInv, [Next]_vars PROVE NoMoveStep
<1> USE DEF DriveInv
<1>1. CASE SameSlots
    BY <1>1 DEF SameSlots, NoMoveStep
<1>2. ASSUME NEW m \in Mover, MoverSucceeds(m) PROVE NoMoveStep
    <2>1. mover[m].pc = "op"
        BY <1>2 DEF MoverSucceeds
    <2>2. PICK d \in Drive, c \in Cart : d = mover[m].drive /\ c = mover[m].tape
        BY <2>1 DEF ThreadsConsistent
    <2>3. /\ LibraryCanMove(mover[m].op, d, c)
          /\ IF mover[m].op = UNMOUNT THEN unmounted(d, c) ELSE mounted(d, c)
        BY <1>2, <2>2 DEF MoverSucceeds
    <2>4. \A b \in Cart \ {c} : carts'[b] = carts[b]
        BY <2>3, MovedEffect
    <2>5. \A r \in Row : req[r].pc \in Running => req[r].tape # c
        BY <1>2, <2>2, MovedTapeUnused
    <2>6. QED
        BY <2>4, <2>5 DEF NoMoveStep
<1>3. QED
    BY <1>1, <1>2, NextDriveInv

(* No tape enters or leaves a drive while an executor reads or writes it,  *)
(* although TapeMover never asks who uses the tape.                        *)
THEOREM NoMoveWhileInUseAlways == Spec => NoMoveWhileInUse
<1>1. DriveInv /\ [Next]_vars => [NoMoveStep]_vars
    BY NextNoMove
<1>2. QED
    BY <1>1, DriveInvAlways, PTL DEF Spec, NoMoveWhileInUse

------------------------------------------------------------------------------
(* A server with one drive.  With two, a tape that two requests ask for    *)
(* can be mounted for one while a mover takes it for the other.            *)
SingleDrive == \A d, e \in Drive : d = e

(* A drive holds one tape.                                                 *)
SlotInv == \A b, c \in Cart : b # c /\ carts[b].slot = carts[c].slot => carts[b].slot = NoDrive

(* A tape that is MOUNTED can be taken: it is in a drive nobody works with. *)
MountedInv ==
    \A c \in Cart : carts[c].state = "MOUNTED" => \E d \in Drive : carts[c].slot = d /\ ~drives[d].busy

(* The state of a tape says what the thread that works with it is doing.   *)
HeldInv ==
    /\ \A r \in Row : req[r].pc \in Running => carts[req[r].tape].state = "INUSE"
    /\ \A m \in Mover :
        /\ mover[m].pc = "exec" => carts[mover[m].tape].state = "INUSE"
        /\ mover[m].pc \in {"assert", "op"} => carts[mover[m].tape].state = "MOVING"
        /\ mover[m].pc \in Working /\ mover[m].op = UNMOUNT
                => carts[mover[m].tape].slot = mover[m].drive

(* The inductive invariant behind TapeExclusive and NoAbort.               *)
UseInv == DriveInv /\ SlotInv /\ MountedInv /\ HeldInv /\ ~aborted /\ faults["tapeBusy"] = 0

SameTapes == \A c \in Cart : carts'[c].state = carts[c].state /\ carts'[c].slot = carts[c].slot

SameDrives ==
    \A d \in Drive : drives'[d].busy = drives[d].busy /\ drives'[d].moveReq = drives[d].moveReq

(* What handling a row comes to when no tape changes its state under its   *)
(* user: the executor is started, a mover is, or the row has to wait.      *)
Dispatched(r) ==
    \E d \in Drive, c \in Cart :
        /\ carts[c].slot = d /\ carts[c].state = "MOUNTED" /\ ~drives[d].busy
        /\ Dispatch(r, d, c)
        /\ UNCHANGED <<mover, aborted>>

Moves(r) ==
    \E m \in Mover, d \in Drive, c \in Cart, op \in {MOUNT, MOVE, UNMOUNT} :
        /\ mover[m].pc = "free" /\ drives[d].moveReq = NoKey
        /\ mover' = [mover EXCEPT ![m] = [pc |-> "add", op |-> op, drive |-> d, tape |-> c]]
        /\ drives' = [drives EXCEPT ![d].moveReq = RowKey[r]]
        /\ SameTapes /\ UNCHANGED <<req, aborted>>

Blocked(r) == ~Schedulable(r) /\ ~NeedsMovement(r)

Waits(r) == Blocked(r) /\ SameTapes /\ SameDrives /\ UNCHANGED <<req, mover, aborted>>

(* moveTape, for a drive the row can use.                                  *)
LEMMA MoveTapeCases ==
    ASSUME TypeOK, NEW r \in Row, NEW d \in Drive, driveIsUsable(d, r), NEW c \in Cart,
           NEW op \in {MOUNT, MOVE, UNMOUNT}, moveTape(r, d, c, op),
           SameTapes, UNCHANGED <<req, aborted>>
    PROVE  (requestExists(RowKey[r]) /\ SameDrives /\ UNCHANGED mover) \/ Moves(r)
<1>1. CASE requestExists(RowKey[r])
    BY <1>1 DEF moveTape, SameDrives
<1>2. CASE ~requestExists(RowKey[r])
    <2>1. drives[d].moveReq = NoKey
        BY <1>2 DEF requestExists, driveIsUsable
    <2>2. QED
        BY <1>2, <2>1 DEF moveTape, Moves, FreeMover
<1>3. QED
    BY <1>1, <1>2

(* A mounted tape is taken, and no assert() fails.                         *)
LEMMA TakeMountedCases ==
    ASSUME UseInv, NEW r \in Row, NEW c \in Cart, carts[c].state = "MOUNTED", TakeMounted(r, c)
    PROVE  Dispatched(r)
BY DEF UseInv, MountedInv, TakeMounted, Dispatched

(* A row that names its tape.                                              *)
LEMMA TapeResAvailCases ==
    ASSUME UseInv, NEW r \in Row, NEW c \in Cart, req[r].tape = c, tapeResAvail(r)
    PROVE  Dispatched(r) \/ Moves(r) \/ Waits(r)
<1>1. TypeOK /\ c # NoCart
    BY RowAssumption DEF UseInv, DriveInv
<1>2. Schedulable(r) <=> carts[c].state = "MOUNTED"
    BY <1>1 DEF Schedulable
<1>3. NeedsMovement(r) <=> /\ ~requestExists(RowKey[r]) /\ carts[c].state = "UNMOUNTED"
                           /\ UsableLoaded(r) # {} \/ UsableEmpty(r) # {}
    BY <1>1 DEF NeedsMovement
<1>4. NothingToDo => SameTapes /\ SameDrives /\ UNCHANGED <<req, mover, aborted>>
    BY DEF NothingToDo, SameTapes, SameDrives
<1>5. CASE carts[c].state \in {"MOVING", "INUSE"} /\ NothingToDo
    BY <1>5, <1>2, <1>3, <1>4 DEF Waits, Blocked
<1>6. CASE carts[c].state = "MOUNTED" /\ TakeMounted(r, c)
    BY <1>6, TakeMountedCases
<1>7. ASSUME carts[c].state = "UNMOUNTED", NEW d \in UsableEmpty(r), MountTape(r, d, c)
      PROVE  Moves(r) \/ Waits(r)
    <2>1. d \in Drive /\ driveIsUsable(d, r)
        BY <1>7 DEF UsableEmpty
    <2>2. MountTarget(r) \in {MOUNT, MOVE, UNMOUNT}
        BY DEF MountTarget
    <2>3. moveTape(r, d, c, MountTarget(r)) /\ SameTapes /\ UNCHANGED <<req, aborted>>
        BY <1>7 DEF MountTape, SameTapes
    <2>4. (requestExists(RowKey[r]) /\ SameDrives /\ UNCHANGED mover) \/ Moves(r)
        BY <2>1, <2>2, <2>3, <1>1, MoveTapeCases
    <2>5. QED
        BY <2>3, <2>4, <1>7, <1>2, <1>3 DEF Waits, Blocked
<1>8. ASSUME carts[c].state = "UNMOUNTED", NEW d \in UsableLoaded(r), NEW old \in MountedIn(d),
             moveTape(r, d, old, UNMOUNT), carts' = [carts EXCEPT ![c].requested = FALSE],
             UNCHANGED <<req, aborted>>
      PROVE  Moves(r) \/ Waits(r)
    <2>1. d \in Drive /\ driveIsUsable(d, r) /\ old \in Cart
        BY <1>8 DEF UsableLoaded, MountedIn
    <2>2. SameTapes
        BY <1>8, <1>1 DEF SameTapes, TypeOK, InventoryTypeOK, CartType
    <2>3. (requestExists(RowKey[r]) /\ SameDrives /\ UNCHANGED mover) \/ Moves(r)
        BY <2>1, <2>2, <1>8, <1>1, MoveTapeCases
    <2>4. QED
        BY <2>2, <2>3, <1>8, <1>2, <1>3 DEF Waits, Blocked
<1>9. CASE /\ carts[c].state = "UNMOUNTED" /\ UsableEmpty(r) = {} /\ UsableLoaded(r) = {}
           /\ NothingToDo \/ Suspend(r, c)
    <2>1. CASE NothingToDo
        BY <2>1, <1>9, <1>2, <1>3, <1>4 DEF Waits, Blocked
    <2>2. ASSUME NEW d \in Drive, drives' = [drives EXCEPT ![d].toUnblock = RowOp[r]],
                 carts' = [carts EXCEPT ![c].requested = TRUE], UNCHANGED <<req, mover, aborted>>
          PROVE  Waits(r)
        <3>1. SameTapes
            BY <2>2, <1>1 DEF SameTapes, TypeOK, InventoryTypeOK, CartType
        <3>2. SameDrives
            BY <2>2, <1>1 DEF SameDrives, TypeOK, InventoryTypeOK, DriveType
        <3>3. QED
            BY <3>1, <3>2, <2>2, <1>9, <1>2, <1>3 DEF Waits, Blocked
    <2>3. QED
        BY <2>1, <2>2, <1>9 DEF Suspend
<1>10. QED
    BY <1>5, <1>6, <1>7, <1>8, <1>9 DEF tapeResAvail

(* A migration without a tape.                                             *)
LEMMA PoolResAvailCases ==
    ASSUME UseInv, NEW r \in Row, req[r].tape = NoCart, poolResAvail(r)
    PROVE  Dispatched(r) \/ Moves(r) \/ Waits(r)
<1>1. TypeOK /\ RowPool[r] \subseteq Cart
    BY RowAssumption DEF UseInv, DriveInv
<1>2. \A s : PoolIn(r, s) \subseteq Cart
    BY <1>1 DEF PoolIn
<1>3. Schedulable(r) <=> PoolIn(r, "MOUNTED") \cap room[r] # {}
    BY DEF Schedulable
<1>4. NeedsMovement(r) <=> /\ ~requestExists(RowKey[r]) /\ PoolIn(r, "UNMOUNTED") # {}
                           /\ \/ UsableLoaded(r) # {}
                              \/ UsableEmpty(r) # {} /\ MountableInPool(r) # {}
    BY DEF NeedsMovement
<1>5. NothingToDo => SameTapes /\ SameDrives /\ UNCHANGED <<req, mover, aborted>>
    BY DEF NothingToDo, SameTapes, SameDrives
<1>6. ASSUME NEW c \in PoolIn(r, "MOUNTED"), TakeMounted(r, c) PROVE Dispatched(r)
    BY <1>6, <1>2, TakeMountedCases DEF PoolIn
<1>7. ASSUME PoolIn(r, "MOUNTED") \cap room[r] = {}, NEW d \in Drive, driveIsUsable(d, r), NEW c \in Cart,
             NEW op \in {MOUNT, MOVE, UNMOUNT}, moveTape(r, d, c, op), UNCHANGED <<carts, req, aborted>>
      PROVE  Moves(r) \/ Waits(r)
    <2>1. SameTapes
        BY <1>7 DEF SameTapes
    <2>2. (requestExists(RowKey[r]) /\ SameDrives /\ UNCHANGED mover) \/ Moves(r)
        BY <2>1, <1>7, <1>1, MoveTapeCases
    <2>3. QED
        BY <2>1, <2>2, <1>7, <1>3, <1>4 DEF Waits, Blocked
<1>8. ASSUME PoolIn(r, "MOUNTED") \cap room[r] = {}, NEW d \in UsableEmpty(r), NEW c \in MountableInPool(r),
             MountTape(r, d, c)
      PROVE  Moves(r) \/ Waits(r)
    <2>1. d \in Drive /\ driveIsUsable(d, r) /\ c \in Cart
        BY <1>8, <1>2 DEF UsableEmpty, MountableInPool
    <2>2. MountTarget(r) \in {MOUNT, MOVE, UNMOUNT}
        BY DEF MountTarget
    <2>3. QED
        BY <2>1, <2>2, <1>8, <1>7 DEF MountTape
<1>9. ASSUME PoolIn(r, "MOUNTED") \cap room[r] = {}, NEW d \in UsableLoaded(r), NEW old \in MountedIn(d),
             moveTape(r, d, old, UNMOUNT), UNCHANGED <<carts, req, aborted>>
      PROVE  Moves(r) \/ Waits(r)
    <2>1. d \in Drive /\ driveIsUsable(d, r) /\ old \in Cart
        BY <1>9 DEF UsableLoaded, MountedIn
    <2>2. QED
        BY <2>1, <1>9, <1>7
<1>10. CASE /\ PoolIn(r, "MOUNTED") \cap room[r] = {} /\ NothingToDo
            /\ (IF UsableEmpty(r) = {} THEN {} ELSE MountableInPool(r)) = {}
            /\ (PoolIn(r, "UNMOUNTED") = {} \/ requestExists(RowKey[r])) \/ UsableLoaded(r) = {}
    <2>1. UsableEmpty(r) = {} \/ MountableInPool(r) = {}
        BY <1>10
    <2>2. ~Schedulable(r) /\ ~NeedsMovement(r)
        BY <2>1, <1>10, <1>3, <1>4
    <2>3. QED
        BY <2>2, <1>10, <1>5 DEF Waits, Blocked
<1>11. QED
    BY <1>6, <1>8, <1>9, <1>10 DEF poolResAvail

(* One iteration of the loop of Scheduler::run for a client's row.         *)
LEMMA HandleRowCases ==
    ASSUME UseInv, NEW r \in Row, HandleRow(r)
    PROVE  Dispatched(r) \/ Moves(r) \/ Waits(r)
<1>1. req[r].tape \in Cart \cup {NoCart}
    BY DEF UseInv, DriveInv, TypeOK, ReqType
<1>2. QED
    BY <1>1, TapeResAvailCases, PoolResAvailCases DEF HandleRow

------------------------------------------------------------------------------
(* What becomes of the states of the tapes.                                *)

(* Nobody holds a drive that is not busy, before and after a step.         *)
LEMMA NobodyHolds ==
    ASSUME DriveInv, \A d \in Drive : ~drives[d].busy
    PROVE  /\ \A r \in Row : req[r].pc \notin Running
           /\ \A m \in Mover : mover[m].pc \notin Working
BY DEF DriveInv, ThreadsConsistent, DriveExclusive, RowHolds, MoverHolds, Working

(* The same after a step.                                                  *)
LEMMA NobodyHoldsNext ==
    ASSUME DriveInv', \A d \in Drive : ~drives'[d].busy
    PROVE  /\ \A r \in Row : req'[r].pc \notin Running
           /\ \A m \in Mover : mover'[m].pc \notin Working
BY DEF DriveInv, ThreadsConsistent, DriveExclusive, RowHolds, MoverHolds, Working

(* A step that changes neither a tape nor what a thread does with it.      *)
LEMMA HoldersKeep ==
    ASSUME UseInv, SameTapes, \A d \in Drive : drives'[d].busy = drives[d].busy,
           \A r \in Row : req'[r].pc \in Running => req[r].pc \in Running /\ req'[r].tape = req[r].tape,
           \A m \in Mover : mover'[m].pc \in Working =>
               /\ mover[m].pc = mover'[m].pc \/ (mover[m].pc = "assert" /\ mover'[m].pc = "op")
               /\ mover'[m].op = mover[m].op /\ mover'[m].tape = mover[m].tape
               /\ mover'[m].drive = mover[m].drive
    PROVE  SlotInv' /\ MountedInv' /\ HeldInv'
<1>1. SlotInv'
    BY DEF UseInv, SlotInv, SameTapes
<1>2. MountedInv'
    BY DEF UseInv, MountedInv, SameTapes
<1>3. \A r \in Row : req[r].pc \in Running => req[r].tape \in Cart
    BY DEF UseInv, DriveInv, ThreadsConsistent
<1>4. \A m \in Mover : mover[m].pc \in Working => mover[m].tape \in Cart
    BY DEF UseInv, DriveInv, ThreadsConsistent, Working
<1>5. HeldInv'
    BY <1>3, <1>4 DEF UseInv, HeldInv, SameTapes, Working
<1>6. QED
    BY <1>1, <1>2, <1>5

(* The drive is given back, or inventorize has found it free.              *)
LEMMA DriveFreeKeeps ==
    ASSUME DriveInv', SlotInv', \A d \in Drive : ~drives'[d].busy,
           \A c \in Cart : carts'[c].state = "MOUNTED" => carts'[c].slot \in Drive
    PROVE  MountedInv' /\ HeldInv'
<1>1. MountedInv'
    BY DEF MountedInv
<1>2. HeldInv'
    BY NobodyHoldsNext DEF HeldInv, Working
<1>3. QED
    BY <1>1, <1>2

(* A tape and the drive are taken: no tape is left to take.                *)
LEMMA DriveTakenKeeps ==
    ASSUME SingleDrive, UseInv, NEW d \in Drive, NEW c \in Cart, ~drives[d].busy,
           makeUse(d, c), carts[c].slot = d \/ MountedIn(d) = {}
    PROVE  /\ SlotInv' /\ MountedInv' /\ carts'[c].state = "INUSE" /\ SameSlots
           /\ \A e \in Drive : drives'[e].busy
           /\ \A r \in Row : req[r].pc \notin Running
           /\ \A m \in Mover : mover[m].pc \notin Working
<1>1. TypeOK /\ DriveInv
    BY DEF UseInv, DriveInv
<1>2. /\ SameSlots /\ carts'[c].state = "INUSE"
      /\ \A b \in Cart : b # c => carts'[b].state = carts[b].state
    BY <1>1 DEF makeUse, TypeOK, InventoryTypeOK, CartType, SameSlots
<1>3. \A e \in Drive : drives'[e].busy
    BY <1>1 DEF makeUse, TypeOK, InventoryTypeOK, DriveType, SingleDrive
<1>4. \A e \in Drive : ~drives[e].busy
    BY DEF SingleDrive
<1>5. SlotInv'
    BY <1>2 DEF UseInv, SlotInv, SameSlots
<1>6. ASSUME NEW b \in Cart, b # c PROVE carts[b].state # "MOUNTED"
    <2>1. carts[b].state = "MOUNTED" => carts[b].slot = d
        BY DEF UseInv, MountedInv, SingleDrive
    <2>2. CASE carts[c].slot = d
        BY <2>1, <2>2, <1>6, NoDriveAssumption DEF UseInv, SlotInv
    <2>3. CASE MountedIn(d) = {}
        BY <2>1, <2>3 DEF MountedIn
    <2>4. QED
        BY <2>2, <2>3
<1>7. MountedInv'
    BY <1>6, <1>2 DEF MountedInv
<1>8. QED
    BY <1>5, <1>7, <1>2, <1>3, <1>4, <1>1, NobodyHolds

(* A fault that cannot happen now never will.                              *)
LEMMA FaultStays ==
    ASSUME TypeOK, NEW f \in Fault, faults[f] = 0, [Next]_vars
    PROVE  faults'[f] = 0 /\ ~Happens(f)
<1>1. faults \in [Fault -> Nat]
    BY DEF TypeOK
<1>2. ~Happens(f)
    BY <1>1 DEF Happens
<1>3. ASSUME NEW g \in Fault, Happens(g) PROVE faults'[f] = 0
    BY <1>3, <1>2, <1>1 DEF Happens
<1>4. ASSUME NEW m \in Mover, MoverStep(m) PROVE faults'[f] = 0
    BY <1>4, <1>3, <1>1 DEF MoverStep, MoverAddRequest, MoverExecRequest,
       MoverAssert,
       MoverSucceeds, MoverFails, MoverInventorize, Fault
<1>5. ASSUME NEW r \in Row, RowStep(r) \/ TransRecallEnds(r) PROVE faults'[f] = 0
    BY <1>5, <1>3, <1>1 DEF RowStep, MigrationReleases, MigrationInvokes,
       MigrationEnds,
       SelRecallReleases, SelRecallEnds, TransRecallStarts, TransRecallReleases, TapeHandlerReleases,
       TapeHandlerEnds, TransRecallEnds, Fault
<1>6. CASE invoke \/ SchedulerStep
    BY <1>6, <1>2 DEF invoke, SchedulerStep, WakeUp, EndPass, HandleRow, HandleMover
<1>7. CASE Environment
    BY <1>7, <1>2, <1>3 DEF Environment, AddRequest, AddJob, retrieveMessage,
       SpuriousWakeUp,
       TapeStaysBusy, Fault
<1>8. CASE UNCHANGED vars
    BY <1>8, <1>2 DEF vars
<1>9. QED
    BY <1>2, <1>4, <1>5, <1>6, <1>7, <1>8 DEF Next

(* Steps of an executor that leave its drive and its tape alone.           *)
RowGoesOn(r) ==
    \/ AddRequest(r) \/ AddJob(r) \/ MigrationInvokes(r) \/ MigrationEnds(r) \/ SelRecallEnds(r)
    \/ TransRecallStarts(r) \/ TransRecallEnds(r)

(* The steps that give them back.                                          *)
RowReleases(r) ==
    MigrationReleases(r) \/ SelRecallReleases(r) \/ TransRecallReleases(r) \/ TapeHandlerReleases(r)

(* Such a step changes no drive, no tape and nobody else's row.            *)
LEMMA RowGoesOnEffect ==
    ASSUME TypeOK, NEW r \in Row, RowGoesOn(r)
    PROVE  /\ UNCHANGED <<drives, carts, mover, aborted>>
           /\ \A s \in Row : req'[s].pc \in Running => req[s].pc \in Running /\ req'[s].tape = req[s].tape
<1>1. req \in [Row -> ReqType] /\ req[r] \in ReqType
    BY DEF TypeOK
<1>2. UNCHANGED <<drives, carts, mover, aborted>>
    BY DEF RowGoesOn, AddRequest, AddJob, MigrationInvokes, MigrationEnds,
       SelRecallEnds, TransRecallStarts,
           TransRecallEnds
<1>3. \A s \in Row : s # r => req'[s] = req[s]
    BY <1>1 DEF RowGoesOn, AddRequest, AddJob, MigrationInvokes, MigrationEnds,
       SelRecallEnds,
       TransRecallStarts, TransRecallEnds
<1>4. req'[r].pc \in Running => req[r].pc \in Running /\ req'[r].tape = req[r].tape
    <2>1. CASE AddRequest(r)
        BY <2>1, <1>1 DEF AddRequest, ReqType
    <2>2. CASE AddJob(r)
        BY <2>2, <1>1 DEF AddJob, ReqType
    <2>3. CASE MigrationInvokes(r)
        BY <2>3, <1>1 DEF MigrationInvokes, ReqType, Running
    <2>4. CASE MigrationEnds(r)
        BY <2>4, <1>1 DEF MigrationEnds, ReqType, Running
    <2>5. CASE SelRecallEnds(r)
        BY <2>5, <1>1 DEF SelRecallEnds, ReqType, Running
    <2>6. CASE TransRecallStarts(r)
        BY <2>6, <1>1 DEF TransRecallStarts, ReqType, Running
    <2>7. CASE TransRecallEnds(r)
        BY <2>7, <1>1 DEF TransRecallEnds, ReqType
    <2>8. QED
        BY <2>1, <2>2, <2>3, <2>4, <2>5, <2>6, <2>7 DEF RowGoesOn
<1>5. QED
    BY <1>2, <1>3, <1>4

(* The one drive becomes free, its reservation stays.                      *)
LEMMA RowReleasesEffect ==
    ASSUME SingleDrive, UseInv, NEW r \in Row, RowReleases(r)
    PROVE  /\ \A d \in Drive : drives[d].busy /\ ~drives'[d].busy /\ drives'[d].moveReq = drives[d].moveReq
           /\ SlotInv' /\ UNCHANGED <<mover, aborted>>
           /\ \A c \in Cart : carts'[c].state = "MOUNTED" => carts'[c].slot \in Drive
<1>1. TypeOK /\ DriveInv /\ req[r] \in ReqType
    BY DEF UseInv, DriveInv, TypeOK
<1>2. req[r].pc \in Running
    BY DEF RowReleases, MigrationReleases, SelRecallReleases,
       TransRecallReleases, TapeHandlerReleases, Running
<1>3. PICK d \in Drive, c \in Cart : d = req[r].drive /\ c = req[r].tape
    BY <1>2, <1>1 DEF DriveInv, ThreadsConsistent
<1>4. (Release(d, c) \/ ReleaseKeepingUnblock(d, c)) /\ UNCHANGED <<mover, aborted>>
    BY <1>3 DEF RowReleases, MigrationReleases, SelRecallReleases,
       TransRecallReleases, TapeHandlerReleases
<1>5. drives[d].busy /\ carts[c].slot = d
    BY <1>2, <1>3, <1>1 DEF DriveInv, DriveExclusive, RowHolds, TapeInDrive
<1>6. ~drives'[d].busy /\ drives'[d].moveReq = drives[d].moveReq
    BY <1>4, <1>1 DEF Release, ReleaseKeepingUnblock, TypeOK, InventoryTypeOK,
       DriveType
<1>7. SameSlots /\ \A b \in Cart : b # c => carts'[b].state = carts[b].state
    BY <1>4, <1>1 DEF Release, ReleaseKeepingUnblock, BackToMounted, TypeOK,
       InventoryTypeOK, CartType,
       SameSlots
<1>8. SlotInv'
    BY <1>7 DEF UseInv, SlotInv, SameSlots
<1>9. \A b \in Cart : carts'[b].state = "MOUNTED" => carts'[b].slot \in Drive
    BY <1>7, <1>5 DEF UseInv, MountedInv, SameSlots
<1>10. QED
    BY <1>4, <1>5, <1>6, <1>8, <1>9 DEF SingleDrive

(* inventorize, with a drive that is busy and with one that is not.        *)
LEMMA InventorizeCases ==
    ASSUME SingleDrive, UseInv, inventorize
    PROVE  \/ UNCHANGED inventory
           \/ /\ \A d \in Drive : ~drives[d].busy /\ ~drives'[d].busy /\ drives'[d].moveReq = NoKey
              /\ SlotInv'
              /\ \A c \in Cart : carts'[c].state = "MOUNTED" => carts'[c].slot \in Drive
<1> SUFFICES ASSUME \A d \in Drive : ~drives[d].busy,
                    drives' = [d \in Drive |-> FreshDrive],
                    carts' = [c \in Cart |-> FreshCart(carts[c].slot)]
             PROVE  /\ \A d \in Drive : ~drives[d].busy /\ ~drives'[d].busy /\ drives'[d].moveReq = NoKey
                    /\ SlotInv'
                    /\ \A c \in Cart : carts'[c].state = "MOUNTED" => carts'[c].slot \in Drive
    BY DEF inventorize
<1>1. \A c \in Cart : /\ carts'[c].slot = carts[c].slot
                      /\ carts'[c].state = "MOUNTED" => carts'[c].slot \in Drive
    BY DEF FreshCart
<1>2. SlotInv'
    BY <1>1 DEF UseInv, SlotInv
<1>3. \A d \in Drive : ~drives'[d].busy /\ drives'[d].moveReq = NoKey
    BY DEF FreshDrive
<1>4. QED
    BY <1>1, <1>2, <1>3

(* The library has moved the tape, or has not.                             *)
LEMMA MoverDoneEffect ==
    ASSUME SingleDrive, UseInv, NEW m \in Mover, MoverSucceeds(m) \/ MoverFails(m)
    PROVE  /\ \A d \in Drive : drives[d].busy /\ ~drives'[d].busy
           /\ SlotInv' /\ UNCHANGED <<req, aborted>>
           /\ \A c \in Cart : carts'[c].state = "MOUNTED" => carts'[c].slot \in Drive
           /\ \A n \in Mover : n # m => mover'[n] = mover[n]
<1>1. TypeOK /\ DriveInv /\ mover \in [Mover -> MoverType]
    BY DEF UseInv, DriveInv, TypeOK
<1>2. mover[m].pc = "op"
    BY DEF MoverSucceeds, MoverFails
<1>3. PICK d \in Drive, c \in Cart : d = mover[m].drive /\ c = mover[m].tape
    BY <1>2, <1>1 DEF DriveInv, ThreadsConsistent
<1>4. drives[d].busy
    BY <1>2, <1>3, <1>1 DEF DriveInv, DriveExclusive, MoverHolds
<1>5. UNCHANGED <<req, aborted>> /\ \A n \in Mover : n # m => mover'[n] = mover[n]
    BY <1>1 DEF MoverSucceeds, MoverFails, MoverEnds
<1>6. CASE MoverSucceeds(m)
    <2>1. /\ LibraryCanMove(mover[m].op, d, c)
          /\ IF mover[m].op = UNMOUNT THEN unmounted(d, c) ELSE mounted(d, c)
        BY <1>6, <1>3 DEF MoverSucceeds
    <2>2. ~drives'[d].busy /\ \A b \in Cart \ {c} : carts'[b] = carts[b]
        BY <2>1, <1>1, MovedEffect
    <2>3. CASE mover[m].op = UNMOUNT
        <3>1. carts'[c].slot = NoDrive /\ carts'[c].state = "UNMOUNTED"
            BY <2>1, <2>3, <1>1 DEF unmounted, TypeOK, InventoryTypeOK, CartType
        <3>2. SlotInv'
            BY <2>2, <3>1 DEF UseInv, SlotInv
        <3>3. \A b \in Cart : carts'[b].state = "MOUNTED" => carts'[b].slot \in Drive
            BY <2>2, <3>1 DEF UseInv, MountedInv
        <3>4. QED
            BY <2>2, <3>2, <3>3, <1>4, <1>5 DEF SingleDrive
    <2>4. CASE mover[m].op # UNMOUNT
        <3>1. carts'[c].slot = d /\ carts'[c].state = "MOUNTED"
            <4>1. carts' = [carts EXCEPT ![c] = [carts[c] EXCEPT !.slot = d, !.state = "MOUNTED"]]
                BY <2>1, <2>4 DEF mounted
            <4>2. carts \in [Cart -> CartType] /\ carts[c] \in CartType
                BY <1>1 DEF TypeOK, InventoryTypeOK
            <4>3. QED
                BY <4>1, <4>2 DEF CartType
        <3>2. \A b \in Cart : carts[b].slot # d
            BY <2>1, <2>4 DEF LibraryCanMove
        <3>3. SlotInv'
            BY <2>2, <3>1, <3>2 DEF UseInv, SlotInv
        <3>4. \A b \in Cart : carts'[b].state = "MOUNTED" => carts'[b].slot \in Drive
            BY <2>2, <3>1 DEF UseInv, MountedInv
        <3>5. QED
            BY <2>2, <3>3, <3>4, <1>4, <1>5 DEF SingleDrive
    <2>5. QED
        BY <2>3, <2>4
<1>7. CASE MoverFails(m)
    <2>1. setFree(d)
        BY <1>7, <1>3 DEF MoverFails
    <2>2. ~drives'[d].busy /\ carts' = carts
        BY <2>1, <1>1, MovedEffect DEF setFree
    <2>3. SlotInv' /\ \A b \in Cart : carts'[b].state = "MOUNTED" => carts'[b].slot \in Drive
        BY <2>2 DEF UseInv, SlotInv, MountedInv
    <2>4. QED
        BY <2>2, <2>3, <1>4, <1>5 DEF SingleDrive
<1>8. QED
    BY <1>6, <1>7

(* No step takes a tape away from its user, and no assert() fails.         *)
LEMMA NextUseInv ==
    ASSUME SingleDrive, UseInv, [Next]_vars PROVE UseInv'
<1>1. TypeOK /\ DriveInv /\ mover \in [Mover -> MoverType]
    BY DEF UseInv, DriveInv, TypeOK
<1>2. DriveInv'
    BY <1>1, NextDriveInv
<1>3. faults'["tapeBusy"] = 0 /\ \A r \in Row : ~TapeStaysBusy(r)
    BY <1>1, FaultStays DEF UseInv, Fault, TapeStaysBusy
<1> SUFFICES SlotInv' /\ MountedInv' /\ HeldInv' /\ ~aborted'
    BY <1>2, <1>3 DEF UseInv
<1>4. ASSUME UNCHANGED <<drives, carts, req, mover, aborted>>
      PROVE  SlotInv' /\ MountedInv' /\ HeldInv' /\ ~aborted'
    BY <1>4, HoldersKeep DEF SameTapes, UseInv
<1>5. ASSUME SlotInv', ~aborted', \A d \in Drive : ~drives'[d].busy,
             \A c \in Cart : carts'[c].state = "MOUNTED" => carts'[c].slot \in Drive
      PROVE  SlotInv' /\ MountedInv' /\ HeldInv' /\ ~aborted'
    BY <1>5, <1>2, DriveFreeKeeps
<1>6. ~aborted
    BY DEF UseInv
<1>7. CASE invoke \/ WakeUp \/ SpuriousWakeUp \/ EndPass \/ UNCHANGED vars
    BY <1>7, <1>4 DEF invoke, WakeUp, SpuriousWakeUp, EndPass, vars
<1>8. ASSUME inventorize, ~aborted', \A s \in Row : req'[s].pc \in Running => req'[s] = req[s],
             \A m \in Mover : mover'[m].pc \in Working => mover'[m] = mover[m]
      PROVE  SlotInv' /\ MountedInv' /\ HeldInv' /\ ~aborted'
    <2>1. CASE UNCHANGED inventory
        BY <2>1, <1>8, HoldersKeep DEF inventory, SameTapes
    <2>2. QED
        BY <2>1, <1>8, <1>5, InventorizeCases
<1>9. CASE retrieveMessage
    BY <1>9, <1>8, <1>6 DEF retrieveMessage
<1>10. ASSUME NEW r \in Row, RowGoesOn(r) PROVE SlotInv' /\ MountedInv' /\ HeldInv' /\ ~aborted'
    BY <1>10, <1>1, <1>6, RowGoesOnEffect, HoldersKeep DEF SameTapes
<1>11. ASSUME NEW r \in Row, RowReleases(r) PROVE SlotInv' /\ MountedInv' /\ HeldInv' /\ ~aborted'
    BY <1>11, <1>5, <1>6, RowReleasesEffect
<1>12. ASSUME NEW r \in Row, TapeHandlerEnds(r) PROVE SlotInv' /\ MountedInv' /\ HeldInv' /\ ~aborted'
    <2>1. req \in [Row -> ReqType] /\ req[r] \in ReqType
        BY <1>1 DEF TypeOK
    <2>2. req'[r].pc = "idle" /\ \A s \in Row : s # r => req'[s] = req[s]
        BY <1>12, <2>1 DEF TapeHandlerEnds, ReqType
    <2>3. inventorize /\ UNCHANGED <<mover, aborted>>
        BY <1>12 DEF TapeHandlerEnds
    <2>4. QED
        BY <2>2, <2>3, <1>8, <1>6 DEF Running
<1>13. ASSUME NEW r \in Row, HandleRow(r) PROVE SlotInv' /\ MountedInv' /\ HeldInv' /\ ~aborted'
    <2>1. CASE Dispatched(r)
        <3>1. PICK d \in Drive, c \in Cart :
                /\ carts[c].slot = d /\ carts[c].state = "MOUNTED" /\ ~drives[d].busy
                /\ Dispatch(r, d, c) /\ UNCHANGED <<mover, aborted>>
            BY <2>1 DEF Dispatched
        <3>2. /\ SlotInv' /\ MountedInv' /\ carts'[c].state = "INUSE"
              /\ \A s \in Row : req[s].pc \notin Running
              /\ \A m \in Mover : mover[m].pc \notin Working
            BY <3>1, DriveTakenKeeps DEF Dispatch
        <3>3. req'[r].tape = c /\ \A s \in Row : s # r => req'[s] = req[s]
            <4>1. req \in [Row -> ReqType] /\ req[r] \in ReqType
                BY <1>1 DEF TypeOK
            <4>2. PICK st : req' = [req EXCEPT ![r] = [req[r] EXCEPT !.state = st, !.pc = "run",
                                                          !.tape = c, !.drive = d]]
                BY <3>1 DEF Dispatch
            <4>3. QED
                BY <4>1, <4>2 DEF ReqType
        <3>4. HeldInv'
            BY <3>1, <3>2, <3>3 DEF HeldInv, Working
        <3>5. QED
            BY <3>1, <3>2, <3>4, <1>6
    <2>2. CASE Moves(r)
        <3>1. PICK m \in Mover, d \in Drive, c \in Cart, op \in {MOUNT, MOVE, UNMOUNT} :
                /\ mover[m].pc = "free" /\ drives[d].moveReq = NoKey
                /\ mover' = [mover EXCEPT ![m] = [pc |-> "add", op |-> op, drive |-> d, tape |-> c]]
                /\ drives' = [drives EXCEPT ![d].moveReq = RowKey[r]]
                /\ SameTapes /\ UNCHANGED <<req, aborted>>
            BY <2>2 DEF Moves
        <3>2. \A e \in Drive : drives'[e].busy = drives[e].busy
            BY <3>1, <1>1 DEF TypeOK, InventoryTypeOK, DriveType
        <3>3. mover'[m].pc = "add" /\ \A n \in Mover : n # m => mover'[n] = mover[n]
            BY <3>1, <1>1
        <3>4. QED
            BY <3>1, <3>2, <3>3, <1>6, HoldersKeep DEF Working
    <2>3. CASE Waits(r)
        BY <2>3, <1>6, HoldersKeep DEF Waits, SameDrives
    <2>4. QED
        BY <2>1, <2>2, <2>3, <1>13, HandleRowCases
<1>14. ASSUME NEW m \in Mover, HandleMover(m) PROVE SlotInv' /\ MountedInv' /\ HeldInv' /\ ~aborted'
    <2>1. mover[m].pc = "new" /\ UNCHANGED <<req, aborted>>
        BY <1>14, <1>1 DEF HandleMover, NextMover, DriveInv, ThreadsConsistent
    <2>2. PICK d \in Drive, c \in Cart : d = mover[m].drive /\ c = mover[m].tape
        BY <2>1, <1>1 DEF DriveInv, ThreadsConsistent
    <2>3. CASE resAvailTapeMove(m) /\ makeUse(d, c) /\ mover' = [mover EXCEPT ![m].pc = "exec"]
        <3>1. /\ ~drives[d].busy /\ (carts[c].slot = d \/ MountedIn(d) = {})
              /\ mover[m].op = UNMOUNT => carts[c].slot = d
            BY <2>2, <2>3 DEF resAvailTapeMove, MountedIn
        <3>2. /\ SlotInv' /\ MountedInv' /\ carts'[c].state = "INUSE" /\ SameSlots
              /\ \A s \in Row : req[s].pc \notin Running
              /\ \A n \in Mover : mover[n].pc \notin Working
            BY <2>3, <3>1, DriveTakenKeeps
        <3>3. /\ mover'[m].pc = "exec" /\ mover'[m].tape = c /\ mover'[m].drive = d /\ mover'[m].op = mover[m].op
              /\ \A n \in Mover : n # m => mover'[n] = mover[n]
            BY <2>2, <2>3, <1>1 DEF MoverType
        <3>4. HeldInv'
            BY <2>1, <3>1, <3>2, <3>3 DEF HeldInv, Working, SameSlots
        <3>5. QED
            BY <2>1, <3>2, <3>4, <1>6
    <2>4. CASE UNCHANGED <<drives, carts, mover>>
        BY <2>1, <2>4, <1>4
    <2>5. QED
        BY <2>2, <2>3, <2>4, <1>14 DEF HandleMover
<1>15. ASSUME NEW m \in Mover, MoverAddRequest(m) PROVE SlotInv' /\ MountedInv' /\ HeldInv' /\ ~aborted'
    <2>1. mover'[m].pc = "new" /\ \A n \in Mover : n # m => mover'[n] = mover[n]
        BY <1>15, <1>1 DEF MoverAddRequest, MoverType
    <2>2. QED
        BY <2>1, <1>15, <1>6, HoldersKeep DEF MoverAddRequest, SameTapes, Working
<1>16. ASSUME NEW m \in Mover, MoverExecRequest(m) PROVE SlotInv' /\ MountedInv' /\ HeldInv' /\ ~aborted'
    <2>1. mover[m].pc = "exec" /\ UNCHANGED <<req, aborted>>
        BY <1>16 DEF MoverExecRequest
    <2>2. PICK d \in Drive, c \in Cart : d = mover[m].drive /\ c = mover[m].tape
        BY <2>1, <1>1 DEF DriveInv, ThreadsConsistent
    <2>3. setMoving(c) /\ mover' = [mover EXCEPT ![m].pc = "assert"]
        BY <2>2, <1>16 DEF MoverExecRequest
    <2>4. /\ mover'[m].pc = "assert" /\ mover'[m].tape = c /\ mover'[m].drive = d /\ mover'[m].op = mover[m].op
          /\ \A n \in Mover : n # m => mover'[n] = mover[n]
        BY <2>2, <2>3, <1>1 DEF MoverType
    <2>5. /\ SameSlots /\ carts'[c].state = "MOVING" /\ drives' = drives
          /\ \A b \in Cart : b # c => carts'[b].state = carts[b].state
        BY <2>3, <1>1 DEF setMoving, SameSlots, TypeOK, InventoryTypeOK, CartType
    <2>6. /\ \A s \in Row : req[s].pc \notin Running
          /\ \A n \in Mover : n # m => mover[n].pc \notin Working
        BY <2>1, <2>2, <1>1 DEF DriveInv, ThreadsConsistent, DriveExclusive,
           RowHolds, MoverHolds, SingleDrive,
           Working
    <2>7. HeldInv'
        BY <2>1, <2>2, <2>4, <2>5, <2>6 DEF UseInv, HeldInv, SameSlots, Working
    <2>8. SlotInv' /\ MountedInv'
        BY <2>5 DEF UseInv, SlotInv, MountedInv, SameSlots
    <2>9. QED
        BY <2>1, <2>7, <2>8, <1>6
<1>17. ASSUME NEW m \in Mover, MoverAssert(m) PROVE SlotInv' /\ MountedInv' /\ HeldInv' /\ ~aborted'
    <2>1. mover[m].pc = "assert" /\ UNCHANGED <<drives, carts, req>>
        BY <1>17 DEF MoverAssert
    <2>2. PICK d \in Drive, c \in Cart : d = mover[m].drive /\ c = mover[m].tape
        BY <2>1, <1>1 DEF DriveInv, ThreadsConsistent
    <2>3. drives[d].busy
        BY <2>1, <2>2, <1>1 DEF DriveInv, DriveExclusive, MoverHolds
    <2>4. MoveAsserts(m)
        BY <2>1, <2>2, <2>3 DEF MoveAsserts, UseInv, HeldInv, Working
    <2>5. mover' = [mover EXCEPT ![m].pc = "op"] /\ ~aborted'
        BY <2>4, <1>17, <1>6 DEF MoverAssert
    <2>6. /\ mover'[m].pc = "op" /\ mover'[m].tape = c /\ mover'[m].drive = d /\ mover'[m].op = mover[m].op
          /\ \A n \in Mover : n # m => mover'[n] = mover[n]
        BY <2>2, <2>5, <1>1 DEF MoverType
    <2>7. QED
        BY <2>1, <2>2, <2>5, <2>6, HoldersKeep DEF SameTapes
<1>18. ASSUME NEW m \in Mover, MoverSucceeds(m) \/ MoverFails(m)
       PROVE  SlotInv' /\ MountedInv' /\ HeldInv' /\ ~aborted'
    BY <1>18, <1>5, <1>6, MoverDoneEffect
<1>19. ASSUME NEW m \in Mover, MoverInventorize(m) PROVE SlotInv' /\ MountedInv' /\ HeldInv' /\ ~aborted'
    <2>1. mover'[m] = NoMover /\ NoMover.pc = "free" /\ \A n \in Mover : n # m => mover'[n] = mover[n]
        BY <1>19, <1>1 DEF MoverInventorize, MoverEnds, NoMover
    <2>2. QED
        BY <2>1, <1>19, <1>8, <1>6 DEF MoverInventorize, Working
<1>20. ASSUME NEW m \in Mover, MoverStep(m) PROVE SlotInv' /\ MountedInv' /\ HeldInv' /\ ~aborted'
    BY <1>20, <1>15, <1>16, <1>17, <1>18, <1>19 DEF MoverStep
<1>21. ASSUME NEW r \in Row, RowStep(r) \/ TransRecallEnds(r) PROVE SlotInv' /\ MountedInv' /\ HeldInv' /\ ~aborted'
    BY <1>21, <1>10, <1>11, <1>12 DEF RowStep, RowGoesOn, RowReleases
<1>22. CASE Environment
    BY <1>22, <1>10, <1>9, <1>7, <1>3 DEF Environment, RowGoesOn
<1>23. CASE SchedulerStep
    BY <1>23, <1>7, <1>13, <1>14 DEF SchedulerStep
<1>24. QED
    BY <1>7, <1>20, <1>21, <1>22, <1>23 DEF Next

(* Tapes are where the library has them, and nobody uses them.             *)
LEMMA InitUseInv == ASSUME MaxFaults["tapeBusy"] = 0, Init PROVE UseInv
<1>1. DriveInv
    BY InitDriveInv
<1>2. PICK p \in Placement :
        /\ drives = [d \in Drive |-> FreshDrive]
        /\ carts = [c \in Cart |-> FreshCart(p[c])]
    BY DEF Init, InventoryInit
<1>3. \A c \in Cart : /\ carts[c].slot = p[c]
                      /\ carts[c].state = "MOUNTED" => carts[c].slot \in Drive
    BY <1>2 DEF FreshCart
<1>4. SlotInv
    BY <1>2, <1>3 DEF SlotInv, Placement
<1>5. MountedInv
    BY <1>2, <1>3 DEF MountedInv, FreshDrive
<1>6. HeldInv
    BY DEF HeldInv, Init, NoMover, Running, Working
<1>7. QED
    BY <1>1, <1>4, <1>5, <1>6 DEF UseInv, Init

(* UseInv holds in every state of a server with one drive.                 *)
LEMMA UseInvAlways ==
    ASSUME SingleDrive, MaxFaults["tapeBusy"] = 0 PROVE Spec => []UseInv
<1>1. Init => UseInv
    BY InitUseInv
<1>2. UseInv /\ [Next]_vars => UseInv'
    BY NextUseInv
<1>3. QED
    BY <1>1, <1>2, PTL DEF Spec

(* In a server with one drive, a tape an executor reads or writes is INUSE *)
(* and nobody else uses or moves it, for any number of tapes and requests, *)
(* as long as updateCartridge does not overwrite its state.                *)
THEOREM TapeExclusiveOneDrive ==
    ASSUME SingleDrive, MaxFaults["tapeBusy"] = 0 PROVE Spec => []TapeExclusive
<1>1. ASSUME UseInv PROVE TapeExclusive
    <2> SUFFICES ASSUME NEW r \in Row, req[r].pc \in Running
                 PROVE  /\ carts[req[r].tape].slot = req[r].drive
                        /\ carts[req[r].tape].state = "INUSE"
                        /\ \A s \in Row \ {r} : req[s].pc \in Running => req[s].tape # req[r].tape
                        /\ \A m \in Mover : mover[m].pc \in {"exec", "assert", "op"}
                                                => mover[m].tape # req[r].tape
        BY DEF TapeExclusive
    <2>1. DriveInv /\ HeldInv
        BY <1>1 DEF UseInv
    <2>2. PICK d \in Drive : RowHolds(r, d)
        BY <2>1 DEF DriveInv, ThreadsConsistent, RowHolds
    <2>3. \A s \in Row \ {r} : req[s].pc \notin Running
        BY <2>1, <2>2 DEF DriveInv, ThreadsConsistent, DriveExclusive, RowHolds,
           SingleDrive
    <2>4. \A m \in Mover : mover[m].pc \notin {"exec", "assert", "op"}
        BY <2>1, <2>2 DEF DriveInv, ThreadsConsistent, DriveExclusive,
           MoverHolds, SingleDrive
    <2>5. QED
        BY <2>1, <2>3, <2>4 DEF DriveInv, TapeInDrive, HeldInv
<1>2. QED
    BY <1>1, UseInvAlways, PTL

(* Nor does an assert() of Scheduler, of LTFSDMInventory::mount or of      *)
(* LTFSDMInventory::unmount fail.                                          *)
THEOREM NoAbortOneDrive ==
    ASSUME SingleDrive, MaxFaults["tapeBusy"] = 0 PROVE Spec => []NoAbort
<1>1. UseInv => NoAbort
    BY DEF UseInv, NoAbort
<1>2. QED
    BY <1>1, UseInvAlways, PTL

------------------------------------------------------------------------------
(* Without format, check and retrieve nothing but a mover that fails calls *)
(* inventorize, and so no reservation gets lost.                           *)
OnlyTransfers == \A r \in Row : RowOp[r] \notin {FORMAT, CHECK}

(* The one mover has the reservation of the drive.  When its operation has *)
(* failed there is no tape to start an executor with, so that inventorize  *)
(* finds the drive free.                                                   *)
MoveInv ==
    /\ \A m \in Mover, d \in Drive : mover[m].pc # "free" => drives[d].moveReq # NoKey
    /\ \A m, n \in Mover : mover[m].pc # "free" /\ mover[n].pc # "free" => m = n
    /\ \A d \in Drive : drives[d].moveReq # NoKey => \E m \in Mover : mover[m].pc # "free"
    /\ \A m \in Mover : mover[m].pc = "failed" =>
          (\A d \in Drive : ~drives[d].busy) /\ \A c \in Cart : carts[c].state # "MOUNTED"
    /\ faults["retrieve"] = 0

(* A step that starts and ends no mover.                                   *)
LEMMA MoversKeep ==
    ASSUME MoveInv, faults'["retrieve"] = 0,
           \A d \in Drive : drives'[d].moveReq = drives[d].moveReq,
           \A m \in Mover : mover'[m].pc = "free" <=> mover[m].pc = "free",
           \A m \in Mover : mover'[m].pc = "failed" =>
               (\A d \in Drive : ~drives'[d].busy) /\ \A c \in Cart : carts'[c].state # "MOUNTED"
    PROVE  MoveInv'
BY DEF MoveInv

(* No step starts a second mover or forgets the reservation of one.        *)
LEMMA NextMoveInv ==
    ASSUME SingleDrive, OnlyTransfers, UseInv, MoveInv, [Next]_vars PROVE MoveInv'
<1>1. TypeOK /\ DriveInv /\ mover \in [Mover -> MoverType]
    BY DEF UseInv, DriveInv, TypeOK
<1>2. faults'["retrieve"] = 0 /\ ~Happens("retrieve") /\ ~Happens("tapeBusy")
    BY <1>1, FaultStays DEF MoveInv, UseInv, Fault
<1>3. \A d \in Drive : drives[d].busy => \A c \in Cart : carts[c].state # "MOUNTED"
    BY DEF UseInv, MountedInv, SingleDrive
<1>4. ASSUME SameTapes, SameDrives, mover' = mover PROVE MoveInv'
    BY <1>4, <1>2, MoversKeep DEF MoveInv, SameTapes, SameDrives
<1>5. CASE invoke \/ WakeUp \/ SpuriousWakeUp \/ EndPass \/ UNCHANGED vars
    BY <1>5, <1>4 DEF invoke, WakeUp, SpuriousWakeUp, EndPass, vars, SameTapes,
       SameDrives
<1>6. ASSUME NEW r \in Row, RowGoesOn(r) PROVE MoveInv'
    BY <1>6, <1>1, <1>4, RowGoesOnEffect DEF SameTapes, SameDrives
<1>7. ASSUME NEW r \in Row, RowReleases(r) PROVE MoveInv'
    <2>1. /\ \A d \in Drive : drives[d].busy /\ drives'[d].moveReq = drives[d].moveReq
          /\ mover' = mover
        BY <1>7, RowReleasesEffect
    <2>2. PICK d \in Drive : d = req[r].drive
        BY <1>7, <1>1 DEF DriveInv, ThreadsConsistent, Running, RowReleases,
           MigrationReleases,
           SelRecallReleases, TransRecallReleases, TapeHandlerReleases
    <2>3. \A m \in Mover : mover[m].pc # "failed"
        BY <2>1, <2>2 DEF MoveInv
    <2>4. QED
        BY <2>1, <2>3, <1>2, MoversKeep
<1>8. ASSUME NEW r \in Row, HandleRow(r) PROVE MoveInv'
    <2>1. CASE Dispatched(r)
        <3>1. PICK d \in Drive, c \in Cart : /\ carts[c].state = "MOUNTED" /\ makeUse(d, c)
                                             /\ mover' = mover
            BY <2>1 DEF Dispatched, Dispatch
        <3>2. \A m \in Mover : mover[m].pc # "failed"
            BY <3>1 DEF MoveInv
        <3>3. \A e \in Drive : drives'[e].moveReq = drives[e].moveReq
            BY <3>1, <1>1 DEF makeUse, TypeOK, InventoryTypeOK, DriveType
        <3>4. QED
            BY <3>1, <3>2, <3>3, <1>2, MoversKeep
    <2>2. CASE Moves(r)
        <3>1. PICK m \in Mover, d \in Drive, c \in Cart, op \in {MOUNT, MOVE, UNMOUNT} :
                /\ mover[m].pc = "free" /\ drives[d].moveReq = NoKey
                /\ mover' = [mover EXCEPT ![m] = [pc |-> "add", op |-> op, drive |-> d, tape |-> c]]
                /\ drives' = [drives EXCEPT ![d].moveReq = RowKey[r]]
                /\ SameTapes /\ UNCHANGED <<req, aborted>>
            BY <2>2 DEF Moves
        <3>2. \A n \in Mover : mover[n].pc = "free"
            BY <3>1 DEF MoveInv
        <3>3. mover'[m].pc = "add" /\ \A n \in Mover : n # m => mover'[n].pc = "free"
            BY <3>1, <3>2, <1>1
        <3>4. RowKey[r] # NoKey
            BY RowAssumption, NoKeyAssumption
        <3>5. \A e \in Drive : drives'[e].moveReq # NoKey
            BY <3>1, <3>4, <1>1 DEF TypeOK, InventoryTypeOK, DriveType, SingleDrive
        <3>6. QED
            BY <3>3, <3>5, <1>2 DEF MoveInv
    <2>3. CASE Waits(r)
        BY <2>3, <1>4 DEF Waits
    <2>4. QED
        BY <2>1, <2>2, <2>3, <1>8, HandleRowCases
<1>9. ASSUME NEW m \in Mover, NEW p \in {"new", "exec", "assert", "op"}, mover[m].pc \notin {"free", "failed"},
             mover' = [mover EXCEPT ![m].pc = p],
             \A d \in Drive : drives'[d].moveReq = drives[d].moveReq
      PROVE  MoveInv'
    <2>1. mover'[m].pc = p /\ \A n \in Mover : n # m => mover'[n] = mover[n]
        BY <1>9, <1>1 DEF MoverType
    <2>2. \A n \in Mover : n # m => mover[n].pc = "free"
        BY <1>9 DEF MoveInv
    <2>3. QED
        BY <2>1, <2>2, <1>9, <1>2, MoversKeep
<1>10. ASSUME NEW m \in Mover, HandleMover(m) PROVE MoveInv'
    <2>1. mover[m].pc = "new"
        BY <1>10, <1>1 DEF HandleMover, NextMover, DriveInv, ThreadsConsistent
    <2>2. CASE makeUse(mover[m].drive, mover[m].tape) /\ mover' = [mover EXCEPT ![m].pc = "exec"]
        <3>1. \A e \in Drive : drives'[e].moveReq = drives[e].moveReq
            BY <2>2, <1>1 DEF makeUse, TypeOK, InventoryTypeOK, DriveType
        <3>2. QED
            BY <2>1, <2>2, <3>1, <1>9
    <2>3. CASE UNCHANGED <<drives, carts, mover>>
        BY <2>3, <1>4 DEF SameTapes, SameDrives
    <2>4. QED
        BY <2>2, <2>3, <1>10 DEF HandleMover
<1>11. ASSUME NEW m \in Mover, MoverAddRequest(m) \/ MoverExecRequest(m) PROVE MoveInv'
    BY <1>11, <1>9 DEF MoverAddRequest, MoverExecRequest, setMoving
<1>12. ASSUME NEW m \in Mover, MoverAssert(m) PROVE MoveInv'
    <2>1. CASE mover' = [mover EXCEPT ![m].pc = "op"]
        BY <2>1, <1>12, <1>9 DEF MoverAssert
    <2>2. CASE mover' = mover
        BY <2>2, <1>12, <1>4 DEF MoverAssert, SameTapes, SameDrives
    <2>3. QED
        BY <2>1, <2>2, <1>12 DEF MoverAssert
<1>13. ASSUME NEW m \in Mover, mover[m].pc # "free", mover' = [mover EXCEPT ![m] = NoMover],
              \A d \in Drive : drives'[d].moveReq = NoKey
       PROVE  MoveInv'
    <2>1. mover'[m].pc = "free" /\ \A n \in Mover : n # m => mover'[n] = mover[n]
        BY <1>13, <1>1 DEF NoMover
    <2>2. \A n \in Mover : mover'[n].pc = "free"
        BY <2>1, <1>13 DEF MoveInv
    <2>3. QED
        BY <2>2, <1>13, <1>2 DEF MoveInv
<1>14. ASSUME NEW m \in Mover, MoverSucceeds(m) PROVE MoveInv'
    <2>1. mover[m].pc = "op" /\ mover' = [mover EXCEPT ![m] = NoMover]
        BY <1>14 DEF MoverSucceeds, MoverEnds
    <2>2. PICK d \in Drive, c \in Cart : d = mover[m].drive /\ c = mover[m].tape
        BY <2>1, <1>1 DEF DriveInv, ThreadsConsistent
    <2>3. drives' = [drives EXCEPT ![d] = [drives[d] EXCEPT !.busy = FALSE, !.moveReq = NoKey]]
        BY <2>2, <1>14 DEF MoverSucceeds, mounted, unmounted
    <2>4. drives \in [Drive -> DriveType] /\ drives[d] \in DriveType
        BY <1>1 DEF TypeOK, InventoryTypeOK
    <2>5. drives'[d].moveReq = NoKey
        BY <2>3, <2>4 DEF DriveType
    <2>6. QED
        BY <2>1, <2>5, <1>13 DEF SingleDrive
<1>15. ASSUME NEW m \in Mover, MoverFails(m) PROVE MoveInv'
    <2>1. mover[m].pc = "op" /\ mover' = [mover EXCEPT ![m].pc = "failed"] /\ carts' = carts
        BY <1>15 DEF MoverFails, setFree
    <2>2. \A d \in Drive : drives[d].busy /\ ~drives'[d].busy
        BY <1>15, MoverDoneEffect
    <2>3. \A d \in Drive : drives'[d].moveReq = drives[d].moveReq
        BY <1>15, <1>1 DEF MoverFails, setFree, TypeOK, InventoryTypeOK, DriveType
    <2>4. PICK d \in Drive : d = mover[m].drive
        BY <2>1, <1>1 DEF DriveInv, ThreadsConsistent
    <2>5. \A c \in Cart : carts'[c].state # "MOUNTED"
        BY <2>1, <2>2, <2>4, <1>3
    <2>6. mover'[m].pc = "failed" /\ \A n \in Mover : n # m => mover'[n] = mover[n]
        BY <2>1, <1>1 DEF MoverType
    <2>7. QED
        BY <2>1, <2>2, <2>3, <2>5, <2>6, <1>2, MoversKeep
<1>16. ASSUME NEW m \in Mover, MoverInventorize(m) PROVE MoveInv'
    <2>1. mover[m].pc = "failed" /\ mover' = [mover EXCEPT ![m] = NoMover] /\ inventorize
        BY <1>16 DEF MoverInventorize, MoverEnds
    <2>2. \A d \in Drive : ~drives[d].busy
        BY <2>1 DEF MoveInv
    <2>3. \A d \in Drive : drives'[d].moveReq = NoKey
        BY <2>1, <2>2 DEF inventorize, FreshDrive
    <2>4. QED
        BY <2>1, <2>3, <1>13
<1>17. ASSUME NEW m \in Mover, MoverStep(m) PROVE MoveInv'
    BY <1>17, <1>11, <1>12, <1>14, <1>15, <1>16 DEF MoverStep
<1>18. ASSUME NEW r \in Row, RowStep(r) \/ TransRecallEnds(r) PROVE MoveInv'
    BY <1>18, <1>6, <1>7 DEF RowStep, RowGoesOn, RowReleases, OnlyTransfers,
       TapeHandlerEnds
<1>19. CASE Environment
    BY <1>19, <1>6, <1>5, <1>2 DEF Environment, RowGoesOn, retrieveMessage,
       TapeStaysBusy
<1>20. CASE SchedulerStep
    BY <1>20, <1>5, <1>8, <1>10 DEF SchedulerStep
<1>21. QED
    BY <1>5, <1>17, <1>18, <1>19, <1>20 DEF Next

(* In a server with one drive that only migrates and recalls, the drive is *)
(* reserved exactly while one mover exists, also after errors of the       *)
(* library: no reservation is left behind.                                 *)
THEOREM MoveReqHasMoverOneDrive ==
    ASSUME SingleDrive, OnlyTransfers, MaxFaults["tapeBusy"] = 0, MaxFaults["retrieve"] = 0
    PROVE  Spec => []MoveReqHasMover
<1>1. Init => MoveInv
    BY DEF Init, InventoryInit, FreshDrive, NoMover, MoveInv
<1>2. UseInv /\ MoveInv /\ [Next]_vars => MoveInv'
    BY NextMoveInv
<1>3. ASSUME UseInv, MoveInv PROVE MoveReqHasMover
    <2>1. \A m \in Mover : mover[m].pc # "free" => mover[m].drive \in Drive
        BY <1>3 DEF UseInv, DriveInv, ThreadsConsistent
    <2>2. QED
        BY <1>3, <2>1 DEF MoveInv, MoveReqHasMover, SingleDrive
<1>4. QED
    BY <1>1, <1>2, <1>3, UseInvAlways, PTL DEF Spec

------------------------------------------------------------------------------
(* Somebody will notify the scheduler, or has done so: a thread that has   *)
(* given something back calls Scheduler::invoke later.                     *)
Awake ==
    \/ invoking \/ sched.pc = "notified"
    \/ \E r \in Row : req[r].pc = "released" \/ req[r].ending > 0
    \/ \E m \in Mover : mover[m].pc \in {"add", "failed"}

RowWaits(r) == (sched.pc = "pass" /\ r \in sched.rows) \/ Blocked(r)

MoverWaits(m) == (sched.pc = "pass" /\ m \in sched.movers) \/ ~resAvailTapeMove(m)

(* If nobody will, then a pass that is under way still has to look at the  *)
(* row, or there is nothing to do for it.                                  *)
WakeInv ==
    /\ \/ Awake
       \/ /\ \A r \in Row : req[r].state = "NEW" => RowWaits(r)
          /\ \A m \in Mover : mover[m].pc = "new" => MoverWaits(m)
    /\ faults["retrieve"] = 0

(* While the one drive is busy there is nothing to do for any row.         *)
LEMMA BusyBlocks ==
    ASSUME SingleDrive, UseInv', NEW e \in Drive, drives'[e].busy, faults'["retrieve"] = 0
    PROVE  WakeInv'
<1>1. TypeOK' /\ MountedInv' /\ ThreadsConsistent'
    BY DEF UseInv, DriveInv
<1>2. \A d \in Drive : drives'[d].busy
    BY DEF SingleDrive
<1>3. \A c \in Cart : carts'[c].state # "MOUNTED"
    BY <1>1, <1>2 DEF MountedInv
<1>4. ASSUME NEW r \in Row PROVE Blocked(r)'
    <2>1. RowPool[r] \subseteq Cart /\ req'[r].tape \in Cart \cup {NoCart}
        BY <1>1, RowAssumption DEF TypeOK, ReqType
    <2>2. ~Schedulable(r)'
        BY <2>1, <1>3 DEF Schedulable, PoolIn
    <2>3. UsableLoaded(r)' = {} /\ UsableEmpty(r)' = {}
        BY <1>2 DEF UsableLoaded, UsableEmpty, driveIsUsable
    <2>4. QED
        BY <2>2, <2>3 DEF Blocked, NeedsMovement
<1>5. ASSUME NEW m \in Mover, mover'[m].pc = "new" PROVE ~resAvailTapeMove(m)'
    <2>1. mover'[m].drive \in Drive
        BY <1>5, <1>1 DEF ThreadsConsistent
    <2>2. QED
        BY <2>1, <1>2 DEF resAvailTapeMove
<1>6. QED
    BY <1>4, <1>5 DEF WakeInv, RowWaits, MoverWaits

(* What a row or a mover waits for depends on the tapes and drives only.   *)
LEMMA BlockedKeeps ==
    ASSUME TypeOK, SameTapes, SameDrives, NEW r \in Row, room' = room, req'[r].tape = req[r].tape,
           Blocked(r)
    PROVE  Blocked(r)'
<1>1. RowPool[r] \subseteq Cart /\ req[r].tape \in Cart \cup {NoCart}
    BY RowAssumption DEF TypeOK, ReqType
<1>2. PoolIn(r, "MOUNTED")' = PoolIn(r, "MOUNTED") /\ PoolIn(r, "UNMOUNTED")' = PoolIn(r, "UNMOUNTED")
    BY <1>1 DEF PoolIn, SameTapes
<1>3. \A d \in Drive : MountedIn(d)' = MountedIn(d)
    BY DEF MountedIn, SameTapes
<1>4. \A d \in Drive : driveIsUsable(d, r)' <=> driveIsUsable(d, r)
    BY DEF driveIsUsable, SameDrives
<1>5. UsableLoaded(r)' = UsableLoaded(r) /\ UsableEmpty(r)' = UsableEmpty(r)
    BY <1>3, <1>4 DEF UsableLoaded, UsableEmpty
<1>6. requestExists(RowKey[r])' <=> requestExists(RowKey[r])
    BY DEF requestExists, SameDrives
<1>7. Schedulable(r)' <=> Schedulable(r)
    BY <1>1, <1>2 DEF Schedulable, SameTapes
<1>8. NeedsMovement(r)' <=> NeedsMovement(r)
    BY <1>1, <1>2, <1>5, <1>6 DEF NeedsMovement, MountableInPool, SameTapes
<1>9. QED
    BY <1>7, <1>8 DEF Blocked

(* A step that changes neither, and takes no row off a pass that could be  *)
(* served.                                                                 *)
LEMMA WakeKeeps ==
    ASSUME UseInv, WakeInv, SameTapes, SameDrives, room' = room, faults'["retrieve"] = 0,
           invoking => invoking', sched.pc = "notified" => sched'.pc = "notified",
           \A r \in Row : /\ req'[r].pc = "released" <=> req[r].pc = "released"
                          /\ req'[r].ending = req[r].ending,
           \A m \in Mover : mover'[m] = mover[m] \/ (mover[m].pc = "assert" /\ mover'[m].pc = "op"),
           \A r \in Row : req'[r].state = "NEW" =>
               /\ req[r].state = "NEW" /\ req'[r].tape = req[r].tape
               /\ (sched.pc = "pass" /\ r \in sched.rows) =>
                     (sched'.pc = "pass" /\ r \in sched'.rows) \/ Blocked(r),
           \A m \in Mover : (sched.pc = "pass" /\ m \in sched.movers) =>
               (sched'.pc = "pass" /\ m \in sched'.movers) \/ ~resAvailTapeMove(m)
    PROVE  WakeInv'
<1>1. TypeOK /\ ThreadsConsistent
    BY DEF UseInv, DriveInv
<1>2. CASE Awake
    <2>1. Awake'
        BY <1>2 DEF Awake
    <2>2. QED
        BY <2>1 DEF WakeInv
<1>3. CASE ~Awake
    <2>1. ASSUME NEW r \in Row, req'[r].state = "NEW" PROVE RowWaits(r)'
        <3>1. RowWaits(r) /\ req[r].state = "NEW" /\ req'[r].tape = req[r].tape
            BY <2>1, <1>3 DEF WakeInv
        <3>2. CASE Blocked(r)
            BY <3>1, <3>2, <1>1, BlockedKeeps DEF RowWaits
        <3>3. QED
            BY <2>1, <3>1, <3>2 DEF RowWaits
    <2>2. ASSUME NEW m \in Mover, mover'[m].pc = "new" PROVE MoverWaits(m)'
        <3>1. mover'[m] = mover[m]
            BY <2>2
        <3>2. MoverWaits(m) /\ mover[m].drive \in Drive /\ mover[m].tape \in Cart
            BY <2>2, <3>1, <1>3, <1>1 DEF WakeInv, ThreadsConsistent
        <3>3. CASE ~resAvailTapeMove(m)
            <4>1. \A d \in Drive : MountedIn(d)' = MountedIn(d)
                BY DEF MountedIn, SameTapes
            <4>2. ~resAvailTapeMove(m)'
                BY <3>1, <3>2, <3>3, <4>1 DEF resAvailTapeMove, SameDrives
            <4>3. QED
                BY <4>2 DEF MoverWaits
        <3>4. QED
            BY <3>2, <3>3 DEF MoverWaits
    <2>3. QED
        BY <2>1, <2>2 DEF WakeInv
<1>4. QED
    BY <1>2, <1>3

(* Every step that gives somebody something to do leads to an invoke.      *)
LEMMA NextWakeInv ==
    ASSUME SingleDrive, UseInv, WakeInv, [Next]_vars PROVE WakeInv'
<1>1. /\ TypeOK /\ ThreadsConsistent /\ mover \in [Mover -> MoverType] /\ req \in [Row -> ReqType]
      /\ sched \in SchedType /\ drives \in [Drive -> DriveType]
    BY DEF UseInv, DriveInv, TypeOK, InventoryTypeOK
<1>2. UseInv'
    BY NextUseInv
<1>3. faults'["retrieve"] = 0 /\ ~Happens("retrieve") /\ ~Happens("tapeBusy")
    BY <1>1, FaultStays DEF WakeInv, UseInv, Fault
<1>4. invoking' => WakeInv'
    BY <1>3 DEF WakeInv, Awake
<1>5. sched'.pc = "notified" => WakeInv'
    BY <1>3 DEF WakeInv, Awake
<1>6. UNCHANGED <<drives, carts>> => SameTapes /\ SameDrives
    BY DEF SameTapes, SameDrives
<1>7. CASE invoke
    BY <1>7, <1>5, <1>1 DEF invoke, SchedType
<1>8. CASE WakeUp \/ SpuriousWakeUp
    <2>1. /\ sched'.pc = "pass" /\ UNCHANGED <<req, mover>>
          /\ sched'.rows = {r \in Row : req[r].state = "NEW"}
          /\ sched'.movers = {m \in Mover : mover[m].pc = "new"}
        BY <1>8 DEF WakeUp, SpuriousWakeUp, SelectRows
    <2>2. QED
        BY <2>1, <1>3 DEF WakeInv, RowWaits, MoverWaits
<1>9. CASE EndPass
    <2>1. /\ sched.pc = "pass" /\ sched.rows = {} /\ sched.movers = {}
          /\ UNCHANGED <<drives, carts, req, mover, room, invoking>>
        BY <1>9 DEF EndPass
    <2>2. QED
        BY <2>1, <1>6, <1>3, WakeKeeps
<1>10. CASE UNCHANGED vars
    BY <1>10, <1>6, <1>3, WakeKeeps DEF vars
<1>11. ASSUME NEW r \in Row, HandleRow(r) PROVE WakeInv'
    <2>1. /\ sched.pc = "pass" /\ UNCHANGED <<room, invoking>>
          /\ sched'.pc = "pass" /\ sched'.rows = sched.rows \ {r} /\ sched'.movers = sched.movers
        BY <1>11, <1>1 DEF HandleRow, NextRow, RowHandled, SchedType
    <2>2. CASE Dispatched(r)
        <3>1. PICK d \in Drive, c \in Cart : makeUse(d, c)
            BY <2>2 DEF Dispatched, Dispatch
        <3>2. drives'[d].busy
            BY <3>1, <1>1 DEF makeUse, DriveType
        <3>3. QED
            BY <3>2, <1>2, <1>3, BusyBlocks
    <2>3. CASE Moves(r)
        <3>1. \E m \in Mover : mover'[m].pc = "add"
            BY <2>3, <1>1 DEF Moves
        <3>2. QED
            BY <3>1, <1>3 DEF WakeInv, Awake
    <2>4. CASE Waits(r)
        BY <2>1, <2>4, <1>3, WakeKeeps DEF Waits
    <2>5. QED
        BY <2>2, <2>3, <2>4, <1>11, HandleRowCases
<1>12. ASSUME NEW m \in Mover, HandleMover(m) PROVE WakeInv'
    <2>1. /\ sched.pc = "pass" /\ UNCHANGED <<req, room, invoking>> /\ mover[m].pc = "new"
          /\ sched'.pc = "pass" /\ sched'.rows = sched.rows /\ sched'.movers = sched.movers \ {m}
        BY <1>12, <1>1 DEF HandleMover, NextMover, MoverHandled, SchedType,
           ThreadsConsistent
    <2>2. CASE makeUse(mover[m].drive, mover[m].tape)
        <3>1. mover[m].drive \in Drive
            BY <2>1, <1>1 DEF ThreadsConsistent
        <3>2. drives'[mover[m].drive].busy
            BY <2>2, <3>1, <1>1 DEF makeUse, DriveType
        <3>3. QED
            BY <3>1, <3>2, <1>2, <1>3, BusyBlocks
    <2>3. CASE ~resAvailTapeMove(m) /\ UNCHANGED <<drives, carts, mover>>
        BY <2>1, <2>3, <1>6, <1>3, WakeKeeps
    <2>4. QED
        BY <2>2, <2>3, <1>12 DEF HandleMover
<1>13. ASSUME NEW m \in Mover, MoverExecRequest(m) \/ MoverAssert(m) PROVE WakeInv'
    <2>1. drives' = drives /\ mover[m].pc \in Working
        BY <1>13 DEF MoverExecRequest, MoverAssert, setMoving, Working
    <2>2. mover[m].drive \in Drive /\ drives[mover[m].drive].busy
        BY <2>1, <1>1 DEF UseInv, DriveInv, ThreadsConsistent, DriveExclusive,
           MoverHolds, Working
    <2>3. QED
        BY <2>1, <2>2, <1>2, <1>3, BusyBlocks
<1>14. ASSUME NEW m \in Mover, MoverFails(m) PROVE WakeInv'
    <2>1. mover'[m].pc = "failed"
        BY <1>14, <1>1 DEF MoverFails, MoverType
    <2>2. QED
        BY <2>1, <1>3 DEF WakeInv, Awake
<1>15. ASSUME NEW m \in Mover, MoverStep(m) PROVE WakeInv'
    BY <1>15, <1>4, <1>13, <1>14
       DEF MoverStep, MoverAddRequest, MoverSucceeds, MoverInventorize, MoverEnds
<1>16. ASSUME NEW r \in Row, RowReleases(r) PROVE WakeInv'
    <2>1. req[r] \in ReqType
        BY <1>1
    <2>2. req'[r].pc = "released" \/ req'[r].ending > 0
        <3>1. CASE MigrationReleases(r)
            BY <3>1, <2>1, <1>1 DEF MigrationReleases, ReqType
        <3>2. CASE SelRecallReleases(r)
            BY <3>2, <2>1, <1>1 DEF SelRecallReleases, ReqType
        <3>3. CASE TransRecallReleases(r)
            BY <3>3, <2>1, <1>1 DEF TransRecallReleases, ReqType
        <3>4. CASE TapeHandlerReleases(r)
            <4>1. CASE req' = [req EXCEPT ![r] = [req[r] EXCEPT !.pc = "released", !.state = "COMPLETED"]]
                BY <4>1, <2>1, <1>1 DEF ReqType
            <4>2. CASE req' = [req EXCEPT ![r].pc = "released"]
                BY <4>2, <2>1, <1>1 DEF ReqType
            <4>3. QED
                BY <3>4, <4>1, <4>2 DEF TapeHandlerReleases
        <3>5. QED
            BY <3>1, <3>2, <3>3, <3>4, <1>16 DEF RowReleases
    <2>3. QED
        BY <2>2, <1>3 DEF WakeInv, Awake
<1>17. ASSUME NEW r \in Row, MigrationInvokes(r) PROVE WakeInv'
    BY <1>17, <1>5, <1>1 DEF MigrationInvokes, SchedType
<1>18. ASSUME NEW r \in Row, MigrationEnds(r) PROVE WakeInv'
    <2>1. CASE req[r].outcome # "done"
        BY <2>1, <1>18, <1>4 DEF MigrationEnds
    <2>2. CASE req[r].outcome = "done"
        <3>1. req[r] \in ReqType /\ req[r].pc = "phase2"
            BY <1>18, <1>1 DEF MigrationEnds
        <3>2. /\ req'[r].state = "COMPLETED" /\ req'[r].pc = "idle" /\ req'[r].ending = req[r].ending
              /\ \A s \in Row : s # r => req'[s] = req[s]
            BY <2>2, <3>1, <1>18, <1>1 DEF MigrationEnds, ReqType
        <3>3. UNCHANGED <<drives, carts, mover, room, sched>> /\ (invoking => invoking')
            BY <1>18 DEF MigrationEnds
        <3>4. QED
            BY <3>1, <3>2, <3>3, <1>6, <1>3, WakeKeeps
    <2>3. QED
        BY <2>1, <2>2
<1>19. ASSUME NEW r \in Row, TransRecallStarts(r) PROVE WakeInv'
    <2>1. req[r] \in ReqType /\ UNCHANGED <<drives, carts, mover, room, sched, invoking>> /\ req[r].pc = "run"
        BY <1>19, <1>1 DEF TransRecallStarts
    <2>2. /\ req'[r].state = req[r].state /\ req'[r].tape = req[r].tape
          /\ req'[r].pc = "recall" /\ req'[r].ending = req[r].ending
          /\ \A s \in Row : s # r => req'[s] = req[s]
        BY <2>1, <1>19, <1>1 DEF TransRecallStarts, ReqType
    <2>3. QED
        BY <2>1, <2>2, <1>6, <1>3, WakeKeeps
<1>20. ASSUME NEW r \in Row, RowStep(r) \/ TransRecallEnds(r) PROVE WakeInv'
    BY <1>20, <1>16, <1>17, <1>18, <1>19, <1>4
       DEF RowStep, RowReleases, SelRecallEnds, TapeHandlerEnds, TransRecallEnds
<1>21. CASE Environment
    BY <1>21, <1>4, <1>8, <1>3 DEF Environment, AddRequest, AddJob,
       retrieveMessage, TapeStaysBusy
<1>22. CASE SchedulerStep
    BY <1>22, <1>8, <1>9, <1>11, <1>12 DEF SchedulerStep
<1>23. QED
    BY <1>7, <1>10, <1>15, <1>20, <1>21, <1>22 DEF Next

(* In a server with one drive no wake-up of the scheduler is lost: while   *)
(* it sleeps and nobody is about to call Scheduler::invoke, no row can be  *)
(* started and no tape has to be moved, for any number of tapes and        *)
(* requests, as long as nobody calls retrieve, which invokes nothing.      *)
THEOREM NoLostWakeUpOneDrive ==
    ASSUME SingleDrive, MaxFaults["tapeBusy"] = 0, MaxFaults["retrieve"] = 0
    PROVE  Spec => []NoLostWakeUp
<1>1. Init => WakeInv
    BY DEF Init, NoMover, WakeInv
<1>2. UseInv /\ WakeInv /\ [Next]_vars => WakeInv'
    BY NextWakeInv
<1>3. ASSUME UseInv, WakeInv PROVE NoLostWakeUp
    <2>1. \A r \in Row : req[r].ending \in Nat
        BY <1>3 DEF UseInv, DriveInv, TypeOK, ReqType
    <2>2. Quiet => ~Awake /\ sched.pc = "wait"
        BY <2>1 DEF Quiet, Awake
    <2>3. QED
        BY <1>3, <2>2 DEF WakeInv, RowWaits, MoverWaits, Blocked, NoLostWakeUp
<1>4. QED
    BY <1>1, <1>2, <1>3, UseInvAlways, PTL DEF Spec
==============================================================================
