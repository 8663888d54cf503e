--------------------------- MODULE LTFSDMInventory ---------------------------
(***************************************************************************)
(* The tape inventory of the server: the drives and cartridges objects of  *)
(* server/LTFSDMDrive.cc, server/LTFSDMCartridge.cc and                    *)
(* server/LTFSDMInventory.cc.  Every operator below is executed by the     *)
(* code under LTFSDMInventory::mtx, so each is one indivisible piece of an *)
(* action.  The tape library behind LTFS LE is external: a tape is in at   *)
(* most one drive, and a drive holds at most one tape.                     *)
(***************************************************************************)
EXTENDS Naturals, FiniteSets

CONSTANTS Drive,     (* the tape drives                                     *)
          Cart,      (* the cartridges                                      *)
          Key,       (* the (request number, pool) pairs a drive can be     *)
                     (* reserved for                                        *)
          NoDrive,   (* slot of a cartridge that is in no drive             *)
          NoKey      (* Const::UNSET: no move request on the drive          *)

ASSUME NoDriveAssumption == NoDrive \notin Drive
ASSUME NoKeyAssumption == NoKey \notin Key

(* DataBase::operation: the smaller the number the higher the priority.    *)
MOUNT     == 0
MOVE      == 1
TRARECALL == 2
SELRECALL == 3
MIGRATION == 4
FORMAT    == 5
CHECK     == 6
UNMOUNT   == 7
NOOP      == 8
Operation == 0 .. 8

(* LTFSDMCartridge::state_t; INVALID and UNKNOWN never survive inventorize *)
CartState == {"INUSE", "MOUNTED", "MOVING", "UNMOUNTED"}

VARIABLES drives,    (* LTFSDMDrive: busy, umountReqNum/Pool, toUnBlock     *)
          carts      (* LTFSDMCartridge: state, requested; slot of its LE   *)

inventory == <<drives, carts>>

DriveType == [busy: BOOLEAN, moveReq: Key \cup {NoKey}, toUnblock: Operation]

CartType == [state: CartState, slot: Drive \cup {NoDrive}, requested: BOOLEAN]

InventoryTypeOK ==
    /\ drives \in [Drive -> DriveType]
    /\ carts \in [Cart -> CartType]

------------------------------------------------------------------------------
(* The objects inventorize creates: one per drive, one per cartridge.      *)
FreshDrive == [busy |-> FALSE, moveReq |-> NoKey, toUnblock |-> NOOP]

FreshCart(slot) ==
    [state |-> IF slot \in Drive THEN "MOUNTED" ELSE "UNMOUNTED",
     slot |-> slot, requested |-> FALSE]

(* Where the library can have its tapes when the server starts.            *)
Placement ==
    {p \in [Cart -> Drive \cup {NoDrive}] :
        \A c1, c2 \in Cart : c1 # c2 /\ p[c1] = p[c2] => p[c1] = NoDrive}

InventoryInit ==
    \E p \in Placement :
        /\ drives = [d \in Drive |-> FreshDrive]
        /\ carts = [c \in Cart |-> FreshCart(p[c])]

(* inventorize gives up as soon as it finds a busy drive; otherwise it     *)
(* forgets everything the old objects knew.                                *)
inventorize ==
    \/ /\ \E d \in Drive : drives[d].busy
       /\ UNCHANGED inventory
    \/ /\ \A d \in Drive : ~drives[d].busy
       /\ drives' = [d \in Drive |-> FreshDrive]
       /\ carts' = [c \in Cart |-> FreshCart(carts[c].slot)]

(* updateCartridge overwrites the state, whatever the cartridge is doing.  *)
updateCartridge(c) ==
    /\ carts' = [carts EXCEPT ![c].state = FreshCart(carts[c].slot).state]
    /\ UNCHANGED drives

requestExists(k) == \E d \in Drive : drives[d].moveReq = k

MountedIn(d) == {c \in Cart : carts[c].slot = d /\ carts[c].state = "MOUNTED"}

------------------------------------------------------------------------------
(* A cartridge and a drive taken for an operation, and given back.         *)
makeUse(d, c) ==
    /\ drives' = [drives EXCEPT ![d].busy = TRUE]
    /\ carts' = [carts EXCEPT ![c].state = "INUSE"]

BackToMounted(c) ==
    [carts EXCEPT ![c].state = IF @ = "INUSE" THEN "MOUNTED" ELSE @]

(* Mutants of Release: the drive stays busy; NOOP is off by one.           *)
ReleaseKeepsBusy(d, c) ==
    /\ carts' = BackToMounted(c)
    /\ drives' = [drives EXCEPT ![d].toUnblock = NOOP]

ReleaseOffByOne(d, c) ==
    /\ carts' = BackToMounted(c)
    /\ drives' = [drives EXCEPT ![d] = [@ EXCEPT !.busy = FALSE, !.toUnblock = NOOP + 1]]

(* Migration, SelRecall and TapeHandler end with this block...             *)
Release(d, c) ==
    /\ carts' = BackToMounted(c)
    /\ drives' = [drives EXCEPT ![d] = [@ EXCEPT !.busy = FALSE, !.toUnblock = NOOP]]

(* ... and TransRecall with the same block without clearToUnblock.         *)
ReleaseKeepingUnblock(d, c) ==
    /\ carts' = BackToMounted(c)
    /\ drives' = [drives EXCEPT ![d].busy = FALSE]

------------------------------------------------------------------------------
(* The library moves a tape into a drive only if the drive is empty and    *)
(* the tape is in its storage slot, and out of it only if it is in one.    *)
LibraryCanMove(op, d, c) ==
    IF op = UNMOUNT THEN carts[c].slot # NoDrive
    ELSE /\ carts[c].slot = NoDrive
         /\ \A other \in Cart : carts[other].slot # d

(* Mutants of mounted and unmounted: unsetMoveReq is forgotten.            *)
mountedKeepsMoveReq(d, c) ==
    /\ carts' = [carts EXCEPT ![c] = [@ EXCEPT !.slot = d, !.state = "MOUNTED"]]
    /\ drives' = [drives EXCEPT ![d].busy = FALSE]

unmountedKeepsMoveReq(d, c) ==
    /\ carts' = [carts EXCEPT ![c] = [@ EXCEPT !.slot = NoDrive, !.state = "UNMOUNTED"]]
    /\ drives' = [drives EXCEPT ![d].busy = FALSE]

(* mount and unmount after the library has done its work.                  *)
mounted(d, c) ==
    /\ carts' = [carts EXCEPT ![c] = [@ EXCEPT !.slot = d, !.state = "MOUNTED"]]
    /\ drives' = [drives EXCEPT ![d] = [@ EXCEPT !.busy = FALSE, !.moveReq = NoKey]]

unmounted(d, c) ==
    /\ carts' = [carts EXCEPT ![c] = [@ EXCEPT !.slot = NoDrive, !.state = "UNMOUNTED"]]
    /\ drives' = [drives EXCEPT ![d] = [@ EXCEPT !.busy = FALSE, !.moveReq = NoKey]]

(* mount and unmount after the library has reported an error.              *)
setFree(d) ==
    /\ drives' = [drives EXCEPT ![d].busy = FALSE]
    /\ UNCHANGED carts

setMoving(c) ==
    /\ carts' = [carts EXCEPT ![c].state = "MOVING"]
    /\ UNCHANGED drives
==============================================================================
