------------------------------ MODULE Scheduler ------------------------------
(***************************************************************************)
(* The scheduler thread of the server (server/Scheduler.cc), the tape      *)
(* movers it starts (server/TapeMover.cc, LTFSDMInventory::mount and       *)
(* unmount) and the way the request executors take and give back tapes     *)
(* (execRequest of Migration, SelRecall, TransRecall and TapeHandler).     *)
(*                                                                         *)
(* A row is a client's row of the REQUEST_QUEUE table; what its executor   *)
(* does with the files is left to other modules, here it only holds a      *)
(* drive and a tape.  A mover is a MOUNT, MOVE or UNMOUNT row together     *)
(* with the thread that adds it and the thread that executes it.           *)
(*                                                                         *)
(* Scheduler::mtx is held by the scheduler except in cond.wait, so         *)
(* Scheduler::invoke is a step that is possible only while it waits.       *)
(* LTFSDMInventory::mtx is held while one row is handled, so handling a    *)
(* row is one step.  Lists of drives and cartridges have no order a        *)
(* request can rely on: "the first that fits" is any that fits.            *)
(***************************************************************************)
EXTENDS LTFSDMInventory

CONSTANTS Row,         (* rows clients add to REQUEST_QUEUE                  *)
          RowOp,       (* row -> operation                                  *)
          RowKey,      (* row -> its (REQ_NUM, TAPE_POOL)                   *)
          RowTape,     (* row -> the tape it names, NoCart for a migration  *)
          RowPool,     (* row -> the cartridges of its pool                 *)
          NoCart,      (* TAPE_ID ''                                        *)
          MaxMovers,   (* bound on MOUNT/MOVE/UNMOUNT rows alive at a time  *)
          MaxAdds,     (* row -> how often it may be added                  *)
          MaxFaults    (* fault -> how often it may happen                  *)

(* What can go wrong outside the server, and the operator's command that   *)
(* makes it read the inventory again.                                      *)
Fault == {"library", "tapeBusy", "retrieve"}

RowOperation == {TRARECALL, SELRECALL, MIGRATION, FORMAT, CHECK}

ASSUME RowAssumption ==
    /\ RowOp \in [Row -> RowOperation]
    /\ RowKey \in [Row -> Key]
    /\ RowPool \in [Row -> SUBSET Cart]
    /\ RowTape \in [Row -> Cart \cup {NoCart}]
    /\ \A r \in Row : RowTape[r] = NoCart <=> RowOp[r] = MIGRATION
    /\ NoCart \notin Cart

ASSUME BoundAssumption ==
    /\ MaxMovers \in Nat /\ MaxFaults \in [Fault -> Nat] /\ MaxAdds \in [Row -> Nat]

Mover == 1 .. MaxMovers

VARIABLES req,       (* row -> its REQUEST_QUEUE columns and its thread     *)
          mover,     (* mover -> its row and its thread                     *)
          room,      (* row -> cartridges with room for its smallest file   *)
          sched,     (* the scheduler thread: where it is, rows to handle   *)
          invoking,  (* a thread is about to call Scheduler::invoke         *)
          aborted,   (* an assert() of the code has failed                  *)
          adds,      (* row -> how often it may still be added              *)
          faults     (* fault -> how often it may still happen              *)

vars == <<drives, carts, req, mover, room, sched, invoking, aborted, adds, faults>>

(* Thread of a row: run = has a drive and a tape, recall = the same, and   *)
(* the jobs it recalls are RECALLING; released = has given the drive and   *)
(* the tape back, phase2 = changes the states of files.                    *)
(*                                                                         *)
(* A transparent recall has one row per tape.  addJob makes it NEW again   *)
(* at any time, so a second thread can be started for it while the first   *)
(* ones are still on their way from releasing the drive to updating the    *)
(* row: ending counts these, jobs says which rows JOB_QUEUE has for it.    *)
ReqType == [state: {"NONE", "NEW", "INPROGRESS", "COMPLETED"},
            tape: Cart \cup {NoCart},
            drive: Drive \cup {NoDrive},
            pc: {"idle", "run", "recall", "released", "phase2"},
            outcome: {"done", "suspended", "remaining"},
            jobs: SUBSET {"new", "recalling"},
            ending: Nat]

Running == {"run", "recall"}

(* Mover: add = the thread in TapeMover::addRequest, new = the row is NEW, *)
(* exec = TapeMover::execRequest has been started, assert = the tape is    *)
(* MOVING, op = the library works, failed = the drive is free again after  *)
(* an error, inventorize is next.                                          *)
MoverType == [pc: {"free", "add", "new", "exec", "assert", "op", "failed"},
              op: {MOUNT, MOVE, UNMOUNT}, drive: Drive \cup {NoDrive},
              tape: Cart \cup {NoCart}]

SchedType == [pc: {"wait", "notified", "pass"}, rows: SUBSET Row,
              movers: SUBSET Mover]

TypeOK ==
    /\ InventoryTypeOK
    /\ req \in [Row -> ReqType]
    /\ mover \in [Mover -> MoverType]
    /\ room \in [Row -> SUBSET Cart]
    /\ sched \in SchedType
    /\ invoking \in BOOLEAN
    /\ aborted \in BOOLEAN
    /\ adds \in [Row -> Nat]
    /\ faults \in [Fault -> Nat]

NoMover == [pc |-> "free", op |-> MOUNT, drive |-> NoDrive, tape |-> NoCart]

Init ==
    /\ InventoryInit
    /\ req = [r \in Row |-> [state |-> "NONE", tape |-> RowTape[r],
                             drive |-> NoDrive, pc |-> "idle", outcome |-> "done",
                             jobs |-> {}, ending |-> 0]]
    /\ mover = [m \in Mover |-> NoMover]
    /\ room = RowPool
    /\ sched = [pc |-> "wait", rows |-> {}, movers |-> {}]
    /\ invoking = FALSE
    /\ aborted = FALSE
    /\ adds = MaxAdds
    /\ faults = MaxFaults

------------------------------------------------------------------------------
(* Scheduler::invoke and the wait of Scheduler::run.                       *)

(* A thread in invoke() takes Scheduler::mtx and notifies.  Several        *)
(* threads that call it are one: what they changed is changed already.     *)
invoke ==
    /\ invoking
    /\ sched.pc \in {"wait", "notified"}
    /\ invoking' = FALSE
    /\ sched' = [sched EXCEPT !.pc = "notified"]
    /\ UNCHANGED <<drives, carts, req, mover, room, aborted, adds, faults>>

(* cond.wait returns, after a notification or spuriously (it has no        *)
(* predicate), and the rows that are NEW now are selected.                 *)
SelectRows ==
    sched' = [pc |-> "pass",
              rows |-> {r \in Row : req[r].state = "NEW"},
              movers |-> {m \in Mover : mover[m].pc = "new"}]

WakeUp ==
    /\ sched.pc = "notified"
    /\ SelectRows
    /\ UNCHANGED <<drives, carts, req, mover, room, invoking, aborted, adds, faults>>

SpuriousWakeUp ==
    /\ sched.pc = "wait"
    /\ SelectRows
    /\ UNCHANGED <<drives, carts, req, mover, room, invoking, aborted, adds, faults>>

EndPass ==
    /\ sched.pc = "pass" /\ sched.rows = {} /\ sched.movers = {}
    /\ sched' = [sched EXCEPT !.pc = "wait"]
    /\ UNCHANGED <<drives, carts, req, mover, room, invoking, aborted, adds, faults>>

(* ORDER BY OPERATION, TIME_ADDED; rows of one operation added in the same *)
(* second have no order.                                                   *)
NextRow(r) ==
    /\ sched.pc = "pass" /\ r \in sched.rows
    /\ \A s \in sched.rows : RowOp[r] <= RowOp[s]
    /\ \A m \in sched.movers : RowOp[r] <= mover[m].op

NextMover(m) ==
    /\ sched.pc = "pass" /\ m \in sched.movers
    /\ \A r \in sched.rows : mover[m].op <= RowOp[r]
    /\ \A n \in sched.movers : mover[m].op <= mover[n].op

RowHandled(r) == sched' = [sched EXCEPT !.rows = @ \ {r}]

MoverHandled(m) == sched' = [sched EXCEPT !.movers = @ \ {m}]

Abort == aborted' = TRUE

Happens(fault) ==
    /\ faults[fault] > 0
    /\ faults' = [faults EXCEPT ![fault] = @ - 1]

------------------------------------------------------------------------------
(* Scheduler::resAvail for a client's row.                                 *)

driveIsUsable(d, r) ==
    /\ ~drives[d].busy
    /\ drives[d].moveReq \in {NoKey, RowKey[r]}

UsableEmpty(r) == {d \in Drive : driveIsUsable(d, r) /\ MountedIn(d) = {}}

UsableLoaded(r) == {d \in Drive : driveIsUsable(d, r) /\ MountedIn(d) # {}}

MountTarget(r) == IF RowOp[r] \in {FORMAT, CHECK} THEN MOVE ELSE MOUNT

FreeMover == {m \in Mover : mover[m].pc = "free"}

(* A request has at most one tape movement under way: moveTape leaves      *)
(* everything alone if it has one.                                         *)
moveTape(r, d, c, op) ==
    \/ /\ requestExists(RowKey[r])
       /\ UNCHANGED <<drives, mover>>
    \/ /\ ~requestExists(RowKey[r])
       /\ drives' = [drives EXCEPT ![d].moveReq = RowKey[r]]
       /\ \E m \in FreeMover :
            /\ \A n \in FreeMover : m <= n
            /\ mover' = [mover EXCEPT ![m] = [pc |-> "add", op |-> op,
                                              drive |-> d, tape |-> c]]

(* Mutant of Dispatch: the row is not updated.                             *)
DispatchStaysNew(r, d, c) ==
    /\ makeUse(d, c)
    /\ req' = [req EXCEPT ![r] = [@ EXCEPT !.pc = "run", !.tape = c, !.drive = d]]

(* Scheduler::run: the row becomes INPROGRESS and its executor is started, *)
(* even if the row has been deleted since it was selected.                 *)
Dispatch(r, d, c) ==
    /\ makeUse(d, c)
    /\ req' = [req EXCEPT ![r] =
                  [@ EXCEPT !.state = IF req[r].state = "NONE" THEN "NONE" ELSE "INPROGRESS",
                            !.pc = "run", !.tape = c, !.drive = d]]

(* A mounted tape is taken: assert(drive->isBusy() == false) and           *)
(* assert(found == true) come before.                                      *)
TakeMounted(r, c) ==
    LET d == carts[c].slot IN
    \/ /\ d \in Drive /\ ~drives[d].busy
       /\ Dispatch(r, d, c)
       /\ UNCHANGED <<mover, aborted>>
    \/ /\ d \notin Drive \/ drives[d].busy
       /\ Abort
       /\ UNCHANGED <<drives, carts, req, mover>>

NothingToDo == UNCHANGED <<drives, carts, req, mover, aborted>>

MountTape(r, d, c) ==
    /\ moveTape(r, d, c, MountTarget(r))
    /\ UNCHANGED <<carts, req, aborted>>

(* Suspend: one drive whose toUnblock is above the operation.              *)
Suspend(r, c) ==
    \/ /\ \A d \in Drive : RowOp[r] >= drives[d].toUnblock
       /\ NothingToDo
    \/ \E d \in Drive :
        /\ RowOp[r] < drives[d].toUnblock
        /\ drives' = [drives EXCEPT ![d].toUnblock = RowOp[r]]
        /\ carts' = [carts EXCEPT ![c].requested = TRUE]
        /\ UNCHANGED <<req, mover, aborted>>

tapeResAvail(r) ==
    LET c == req[r].tape IN
    \/ /\ carts[c].state \in {"MOVING", "INUSE"}
       /\ NothingToDo
    \/ /\ carts[c].state = "MOUNTED"
       /\ TakeMounted(r, c)
    \/ /\ carts[c].state = "UNMOUNTED"
       /\ \E d \in UsableEmpty(r) : MountTape(r, d, c)
    \/ /\ carts[c].state = "UNMOUNTED" /\ UsableEmpty(r) = {}
       /\ \E d \in UsableLoaded(r) : \E old \in MountedIn(d) :
            moveTape(r, d, old, UNMOUNT)
       /\ carts' = [carts EXCEPT ![c].requested = FALSE]
       /\ UNCHANGED <<req, aborted>>
    \/ /\ carts[c].state = "UNMOUNTED"
       /\ UsableEmpty(r) = {} /\ UsableLoaded(r) = {}
       /\ \/ carts[c].requested /\ NothingToDo
          \/ ~carts[c].requested /\ Suspend(r, c)

PoolIn(r, state) == {c \in RowPool[r] : carts[c].state = state}

MountableInPool(r) == PoolIn(r, "UNMOUNTED") \cap room[r]

poolResAvail(r) ==
    LET ready == PoolIn(r, "MOUNTED") \cap room[r]
        toMount == IF UsableEmpty(r) = {} THEN {} ELSE MountableInPool(r)
        waiting == PoolIn(r, "UNMOUNTED") = {} \/ requestExists(RowKey[r])
    IN
    \/ \E c \in ready : TakeMounted(r, c)
    \/ /\ ready = {}
       /\ \E d \in UsableEmpty(r), c \in toMount : MountTape(r, d, c)
    \/ /\ ready = {} /\ toMount = {}
       /\ waiting \/ UsableLoaded(r) = {}
       /\ NothingToDo
    \/ /\ ready = {} /\ toMount = {} /\ ~waiting
       /\ \E d \in UsableLoaded(r) : \E old \in MountedIn(d) :
            moveTape(r, d, old, UNMOUNT)
       /\ UNCHANGED <<carts, req, aborted>>

(* One iteration of the loop of Scheduler::run for a client's row.         *)
HandleRow(r) ==
    /\ NextRow(r)
    /\ IF req[r].tape = NoCart THEN poolResAvail(r) ELSE tapeResAvail(r)
    /\ RowHandled(r)
    /\ UNCHANGED <<room, invoking, adds, faults>>

------------------------------------------------------------------------------
(* Scheduler::resAvailTapeMove and the dispatch of a mover.                *)

(* Mutants of resAvailTapeMove: the busy flag is not checked; an unmount   *)
(* looks at the slot of the tape but not at its state.                     *)
resAvailTapeMoveBusy(m) ==
    IF mover[m].op = UNMOUNT THEN mover[m].tape \in MountedIn(mover[m].drive)
                             ELSE MountedIn(mover[m].drive) = {}

resAvailTapeMoveInUse(m) ==
    IF mover[m].op = UNMOUNT THEN carts[mover[m].tape].slot = mover[m].drive
                             ELSE /\ ~drives[mover[m].drive].busy
                                  /\ MountedIn(mover[m].drive) = {}

resAvailTapeMove(m) ==
    LET d == mover[m].drive
        c == mover[m].tape
    IN  /\ ~drives[d].busy
        /\ IF mover[m].op = UNMOUNT THEN c \in MountedIn(d)
                                    ELSE MountedIn(d) = {}

HandleMover(m) ==
    /\ NextMover(m)
    /\ \/ /\ resAvailTapeMove(m)
          /\ makeUse(mover[m].drive, mover[m].tape)
          /\ mover' = [mover EXCEPT ![m].pc = "exec"]
       \/ /\ ~resAvailTapeMove(m)
          /\ UNCHANGED <<drives, carts, mover>>
    /\ MoverHandled(m)
    /\ UNCHANGED <<req, room, invoking, aborted, adds, faults>>

------------------------------------------------------------------------------
(* TapeMover::addRequest and TapeMover::execRequest.                       *)

MoverAddRequest(m) ==
    /\ mover[m].pc = "add"
    /\ mover' = [mover EXCEPT ![m].pc = "new"]
    /\ invoking' = TRUE
    /\ UNCHANGED <<drives, carts, req, room, sched, aborted, adds, faults>>

MoverExecRequest(m) ==
    /\ mover[m].pc = "exec"
    /\ setMoving(mover[m].tape)
    /\ mover' = [mover EXCEPT ![m].pc = "assert"]
    /\ UNCHANGED <<req, room, sched, invoking, aborted, adds, faults>>

(* The asserts at the top of LTFSDMInventory::mount and unmount.           *)
MoveAsserts(m) ==
    /\ drives[mover[m].drive].busy
    /\ carts[mover[m].tape].state = "MOVING"
    /\ mover[m].op = UNMOUNT => carts[mover[m].tape].slot = mover[m].drive

MoverAssert(m) ==
    /\ mover[m].pc = "assert"
    /\ \/ /\ MoveAsserts(m)
          /\ mover' = [mover EXCEPT ![m].pc = "op"]
          /\ UNCHANGED aborted
       \/ /\ ~MoveAsserts(m)
          /\ Abort
          /\ UNCHANGED mover
    /\ UNCHANGED <<drives, carts, req, room, sched, invoking, adds, faults>>

(* Mutant of MoverEnds: invoke is not called.                              *)
MoverEndsSilently(m) ==
    /\ mover' = [mover EXCEPT ![m] = NoMover]
    /\ UNCHANGED invoking

(* The end of TapeMover::execRequest: DELETE_REQUEST and invoke.           *)
MoverEnds(m) ==
    /\ mover' = [mover EXCEPT ![m] = NoMover]
    /\ invoking' = TRUE

MoverSucceeds(m) ==
    LET d == mover[m].drive
        c == mover[m].tape
    IN  /\ mover[m].pc = "op"
        /\ LibraryCanMove(mover[m].op, d, c)
        /\ IF mover[m].op = UNMOUNT THEN unmounted(d, c) ELSE mounted(d, c)
        /\ MoverEnds(m)
        /\ UNCHANGED <<req, room, sched, aborted, adds, faults>>

(* The library refuses, or fails; inventorize is called after setFree and  *)
(* without the lock in between.                                            *)
MoverFails(m) ==
    LET d == mover[m].drive
        c == mover[m].tape
    IN  /\ mover[m].pc = "op"
        /\ \/ /\ ~LibraryCanMove(mover[m].op, d, c)
              /\ UNCHANGED faults
           \/ /\ LibraryCanMove(mover[m].op, d, c)
              /\ Happens("library")
        /\ setFree(d)
        /\ mover' = [mover EXCEPT ![m].pc = "failed"]
        /\ UNCHANGED <<req, room, sched, invoking, aborted, adds>>

MoverInventorize(m) ==
    /\ mover[m].pc = "failed"
    /\ inventorize
    /\ MoverEnds(m)
    /\ UNCHANGED <<req, room, sched, aborted, adds, faults>>

------------------------------------------------------------------------------
(* Rows: added by a message handler or by the recall listener, executed.   *)

AddRequest(r) ==
    /\ RowOp[r] # TRARECALL
    /\ req[r].state = "NONE" /\ req[r].pc = "idle"
    /\ adds[r] > 0
    /\ adds' = [adds EXCEPT ![r] = @ - 1]
    /\ req' = [req EXCEPT ![r].state = "NEW"]
    /\ invoking' = TRUE
    /\ UNCHANGED <<drives, carts, mover, room, sched, aborted, faults>>

(* TransRecall::addJob: the row is added, or is NEW again.                 *)
AddJob(r) ==
    /\ RowOp[r] = TRARECALL
    /\ adds[r] > 0
    /\ adds' = [adds EXCEPT ![r] = @ - 1]
    /\ req' = [req EXCEPT ![r] = [@ EXCEPT !.state = "NEW", !.jobs = req[r].jobs \cup {"new"}]]
    /\ invoking' = TRUE
    /\ UNCHANGED <<drives, carts, mover, room, sched, aborted, faults>>

(* Migration::execRequest up to the release of the drive.  processFiles    *)
(* may stop early if an operation of higher priority wants the drive, and  *)
(* may leave files that do not fit; writing takes room from every row.     *)
MigrationReleases(r) ==
    LET d == req[r].drive
        c == req[r].tape
    IN  /\ RowOp[r] = MIGRATION /\ req[r].pc = "run"
        /\ \E outcome \in {"done", "suspended", "remaining"}, full \in SUBSET Row :
            /\ outcome = "suspended" => drives[d].toUnblock < MIGRATION
            /\ outcome = "remaining" => r \in full
            /\ req' = [req EXCEPT ![r] = [@ EXCEPT !.pc = "released", !.outcome = outcome]]
            /\ room' = [s \in Row |-> IF s \in full THEN room[s] \ {c} ELSE room[s]]
        /\ Release(d, c)
        /\ UNCHANGED <<mover, sched, invoking, aborted, adds, faults>>

(* Its call of Scheduler::invoke, then the second phase without a tape.    *)
MigrationInvokes(r) ==
    /\ RowOp[r] = MIGRATION /\ req[r].pc = "released"
    /\ sched.pc \in {"wait", "notified"}
    /\ sched' = [sched EXCEPT !.pc = "notified"]
    /\ req' = [req EXCEPT ![r].pc = "phase2"]
    /\ UNCHANGED <<drives, carts, mover, room, invoking, aborted, adds, faults>>

MigrationEnds(r) ==
    /\ RowOp[r] = MIGRATION /\ req[r].pc = "phase2"
    /\ req' = [req EXCEPT ![r] = [@ EXCEPT !.pc = "idle", !.drive = NoDrive, !.outcome = "done",
                  !.state = IF req[r].outcome = "done" THEN "COMPLETED" ELSE "NEW",
                  !.tape = IF req[r].outcome = "remaining" THEN NoCart ELSE req[r].tape]]
    /\ invoking' = (invoking \/ req[r].outcome # "done")
    /\ UNCHANGED <<drives, carts, mover, room, sched, aborted, adds, faults>>

(* SelRecall::execRequest stops early only for a transparent recall.       *)
SelRecallReleases(r) ==
    LET d == req[r].drive
    IN  /\ RowOp[r] = SELRECALL /\ req[r].pc = "run"
        /\ \E outcome \in {"done", "suspended"} :
            /\ outcome = "suspended" => drives[d].toUnblock = TRARECALL
            /\ req' = [req EXCEPT ![r] = [@ EXCEPT !.pc = "released", !.outcome = outcome]]
        /\ Release(d, req[r].tape)
        /\ UNCHANGED <<mover, room, sched, invoking, aborted, adds, faults>>

SelRecallEnds(r) ==
    /\ RowOp[r] = SELRECALL /\ req[r].pc = "released"
    /\ req' = [req EXCEPT ![r] = [@ EXCEPT !.pc = "idle", !.drive = NoDrive, !.outcome = "done",
                  !.state = IF req[r].outcome = "done" THEN "COMPLETED" ELSE "NEW"]]
    /\ invoking' = TRUE
    /\ UNCHANGED <<drives, carts, mover, room, sched, aborted, adds, faults>>

(* TransRecall::processFiles: SET_RECALLING takes the jobs there are now,  *)
(* DELETE_JOBS deletes them before the drive is released.                  *)
TransRecallStarts(r) ==
    /\ RowOp[r] = TRARECALL /\ req[r].pc = "run"
    /\ req' = [req EXCEPT ![r] =
                  [@ EXCEPT !.pc = "recall",
                            !.jobs = IF req[r].jobs = {} THEN {} ELSE {"recalling"}]]
    /\ UNCHANGED <<drives, carts, mover, room, sched, invoking, aborted, adds, faults>>

TransRecallReleases(r) ==
    /\ RowOp[r] = TRARECALL /\ req[r].pc = "recall"
    /\ req' = [req EXCEPT ![r] = [@ EXCEPT !.pc = "idle", !.drive = NoDrive,
                                           !.jobs = req[r].jobs \ {"recalling"},
                                           !.ending = req[r].ending + 1]]
    /\ ReleaseKeepingUnblock(req[r].drive, req[r].tape)
    /\ UNCHANGED <<mover, room, sched, invoking, aborted, adds, faults>>

(* The end of TransRecall::execRequest: the row is NEW again if there are  *)
(* jobs, its own or those of the next thread, and is deleted otherwise.    *)
TransRecallEnds(r) ==
    /\ RowOp[r] = TRARECALL /\ req[r].ending > 0
    /\ req' = [req EXCEPT ![r] =
                  [@ EXCEPT !.ending = req[r].ending - 1,
                            !.state = IF req[r].jobs = {} \/ req[r].state = "NONE"
                                      THEN "NONE" ELSE "NEW"]]
    /\ invoking' = TRUE
    /\ UNCHANGED <<drives, carts, mover, room, sched, aborted, adds, faults>>

(* TapeHandler::execRequest: if Format or Check works the tape goes to its *)
(* pool and the row is deleted, which COMPLETED stands for; otherwise the  *)
(* row stays INPROGRESS without a thread.                                  *)
TapeHandlerReleases(r) ==
    /\ RowOp[r] \in {FORMAT, CHECK} /\ req[r].pc = "run"
    /\ \/ /\ req' = [req EXCEPT ![r] = [@ EXCEPT !.pc = "released", !.state = "COMPLETED"]]
          /\ UNCHANGED faults
       \/ /\ Happens("library")
          /\ req' = [req EXCEPT ![r].pc = "released"]
    /\ Release(req[r].drive, req[r].tape)
    /\ UNCHANGED <<mover, room, sched, invoking, aborted, adds>>

TapeHandlerEnds(r) ==
    /\ RowOp[r] \in {FORMAT, CHECK} /\ req[r].pc = "released"
    /\ inventorize
    /\ req' = [req EXCEPT ![r] = [@ EXCEPT !.pc = "idle", !.drive = NoDrive]]
    /\ invoking' = TRUE
    /\ UNCHANGED <<mover, room, sched, aborted, adds, faults>>

(* A file on tape stays EBUSY for ten retries: statTapeRetry and           *)
(* openTapeRetry call updateCartridge in the middle of the operation.      *)
TapeStaysBusy(r) ==
    /\ RowOp[r] \in {TRARECALL, SELRECALL, MIGRATION} /\ req[r].pc \in Running
    /\ Happens("tapeBusy")
    /\ updateCartridge(req[r].tape)
    /\ UNCHANGED <<req, mover, room, sched, invoking, aborted, adds>>

(* MessageParser::retrieveMessage, which does not call invoke.             *)
retrieveMessage ==
    /\ Happens("retrieve")
    /\ inventorize
    /\ UNCHANGED <<req, mover, room, sched, invoking, aborted, adds>>

------------------------------------------------------------------------------
SchedulerStep ==
    \/ WakeUp
    \/ EndPass
    \/ \E r \in Row : HandleRow(r)
    \/ \E m \in Mover : HandleMover(m)

MoverStep(m) ==
    \/ MoverAddRequest(m)
    \/ MoverExecRequest(m)
    \/ MoverAssert(m)
    \/ MoverSucceeds(m)
    \/ MoverFails(m)
    \/ MoverInventorize(m)

RowStep(r) ==
    \/ MigrationReleases(r)
    \/ MigrationInvokes(r)
    \/ MigrationEnds(r)
    \/ SelRecallReleases(r)
    \/ SelRecallEnds(r)
    \/ TransRecallStarts(r)
    \/ TransRecallReleases(r)
    \/ TapeHandlerReleases(r)
    \/ TapeHandlerEnds(r)

Environment ==
    \/ \E r \in Row : AddRequest(r)
    \/ \E r \in Row : AddJob(r)
    \/ \E r \in Row : TapeStaysBusy(r)
    \/ retrieveMessage
    \/ SpuriousWakeUp

Next ==
    /\ ~aborted
    /\ \/ invoke
       \/ SchedulerStep
       \/ \E m \in Mover : MoverStep(m)
       \/ \E r \in Row : RowStep(r) \/ TransRecallEnds(r)
       \/ Environment

Spec == Init /\ [][Next]_vars

(* Threads are not stopped for ever and the library answers; nobody has to *)
(* send requests, and cond.wait need not wake up without a notification.   *)
Fairness ==
    /\ SF_vars(~aborted /\ invoke)
    /\ WF_vars(~aborted /\ SchedulerStep)
    /\ \A m \in Mover : WF_vars(~aborted /\ MoverStep(m))
    /\ \A r \in Row : SF_vars(~aborted /\ RowStep(r))
    /\ \A r \in Row : WF_vars(~aborted /\ TransRecallEnds(r))
    /\ <>[][~SpuriousWakeUp]_vars

FairSpec == Spec /\ Fairness

------------------------------------------------------------------------------
(* Correctness.                                                            *)

RowHolds(r, d) == req[r].pc \in Running /\ req[r].drive = d

MoverHolds(m, d) == mover[m].pc \in {"exec", "assert", "op"} /\ mover[m].drive = d

(* What the code relies on without a lock: a thread that runs has a drive  *)
(* and a tape, and, transparent recalls excepted, a row that is NEW has no *)
(* thread and the rows of a pass are still NEW when they are handled,      *)
(* although others change the table.                                       *)
ThreadsConsistent ==
    /\ \A r \in Row :
        /\ RowOp[r] # TRARECALL /\ req[r].state \in {"NONE", "NEW"} => req[r].pc = "idle"
        /\ req[r].pc \in Running => req[r].drive \in Drive /\ req[r].tape \in Cart
    /\ \A m \in Mover :
        mover[m].pc # "free" => mover[m].drive \in Drive /\ mover[m].tape \in Cart
    /\ \A r \in sched.rows : RowOp[r] # TRARECALL => req[r].state = "NEW"
    /\ \A m \in sched.movers : mover[m].pc = "new"

(* The busy flag is the lock of a drive: a drive is busy exactly while one *)
(* executor or one mover works with it, never two (makeUse, setFree).      *)
DriveExclusive ==
    \A d \in Drive :
        /\ drives[d].busy <=> \/ \E r \in Row : RowHolds(r, d)
                              \/ \E m \in Mover : MoverHolds(m, d)
        /\ \A r, s \in Row : RowHolds(r, d) /\ RowHolds(s, d) => r = s
        /\ \A m, n \in Mover : MoverHolds(m, d) /\ MoverHolds(n, d) => m = n
        /\ \A r \in Row, m \in Mover : ~(RowHolds(r, d) /\ MoverHolds(m, d))

(* A tape is in the drive of the executor that uses it, and in the drive   *)
(* the library takes it from: nobody moves it away in between, whatever    *)
(* its state is.                                                           *)
TapeInDrive ==
    /\ \A r \in Row : req[r].pc \in Running => carts[req[r].tape].slot = req[r].drive
    /\ \A m \in Mover : mover[m].pc = "op" /\ mover[m].op = UNMOUNT
                            => carts[mover[m].tape].slot = mover[m].drive

(* The inductive invariant behind DriveExclusive and NoMoveWhileInUse.     *)
DriveInv == TypeOK /\ ThreadsConsistent /\ DriveExclusive /\ TapeInDrive

(* While an executor reads or writes a tape, that tape is in its drive, no *)
(* other thread uses or moves it, and nobody else may take it (its state   *)
(* is INUSE).                                                              *)
TapeExclusive ==
    \A r \in Row :
        req[r].pc \in Running =>
            /\ carts[req[r].tape].slot = req[r].drive
            /\ carts[req[r].tape].state = "INUSE"
            /\ \A s \in Row \ {r} : req[s].pc \in Running => req[s].tape # req[r].tape
            /\ \A m \in Mover : mover[m].pc \in {"exec", "assert", "op"}
                                    => mover[m].tape # req[r].tape

(* No assert() of Scheduler, LTFSDMInventory::mount or unmount fails.      *)
NoAbort == ~aborted

(* A movement is under way for a request exactly while a drive is reserved *)
(* for it (setMoveReq, unsetMoveReq): no reservation is left behind when   *)
(* its mover is gone, and no drive has two movers.                         *)
MoveReqHasMover ==
    \A d \in Drive :
        /\ drives[d].moveReq # NoKey =>
              \E m \in Mover : mover[m].pc # "free" /\ mover[m].drive = d
        /\ \A m, n \in Mover :
              /\ mover[m].pc # "free" /\ mover[m].drive = d
              /\ mover[n].pc # "free" /\ mover[n].drive = d
              => m = n

(* Nobody is about to wake up the scheduler: it sits in cond.wait and no   *)
(* thread is on its way to Scheduler::invoke.                              *)
Quiet ==
    /\ sched.pc = "wait" /\ ~invoking
    /\ \A r \in Row : req[r].pc # "released" /\ req[r].ending = 0
    /\ \A m \in Mover : mover[m].pc \notin {"add", "failed"}

Schedulable(r) ==
    IF req[r].tape = NoCart THEN PoolIn(r, "MOUNTED") \cap room[r] # {}
    ELSE carts[req[r].tape].state = "MOUNTED"

NeedsMovement(r) ==
    /\ ~requestExists(RowKey[r])
    /\ IF req[r].tape = NoCart
       THEN /\ PoolIn(r, "UNMOUNTED") # {}
            /\ \/ UsableLoaded(r) # {}
               \/ UsableEmpty(r) # {} /\ MountableInPool(r) # {}
       ELSE /\ carts[req[r].tape].state = "UNMOUNTED"
            /\ UsableLoaded(r) \cup UsableEmpty(r) # {}

(* No wake-up is lost although cond.wait has no predicate: when the        *)
(* scheduler sleeps and nobody is about to call Scheduler::invoke, there   *)
(* is no row it could start and no tape it could move for one.             *)
NoLostWakeUp ==
    Quiet => /\ \A r \in Row : req[r].state = "NEW" => ~Schedulable(r) /\ ~NeedsMovement(r)
             /\ \A m \in Mover : mover[m].pc = "new" => ~resAvailTapeMove(m)

(* A tape leaves its drive, or enters one, only while no executor uses it, *)
(* although neither mount nor unmount looks at who uses the tape.          *)
NoMoveStep ==
    \A c \in Cart : carts'[c].slot # carts[c].slot
        => \A r \in Row : ~(req[r].pc \in Running /\ req[r].tape = c)

NoMoveWhileInUse == [][NoMoveStep]_vars

(* Every row that is added is executed to its end, it becomes COMPLETED or *)
(* is deleted, unless it is a migration whose pool has run out of room:    *)
(* suspensions, unmounts for other requests and errors of the library only *)
(* delay it.                                                               *)
RowsAreServed ==
    \A r \in Row : req[r].state = "NEW" ~>
        req[r].state \in {"COMPLETED", "NONE"} \/ (RowOp[r] = MIGRATION /\ room[r] = {})
==============================================================================
