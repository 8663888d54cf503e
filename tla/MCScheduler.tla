---------------------------- MODULE MCScheduler ----------------------------
(* Small instances of the scheduler for TLC.                               *)
EXTENDS Scheduler, TLC

CONSTANTS d1, d2, c1, c2, c3, mig, sel, tra, fmt, kmig, ksel, ktra, kfmt

AllOp   == (mig :> MIGRATION) @@ (sel :> SELRECALL) @@ (tra :> TRARECALL) @@ (fmt :> FORMAT)
AllKey  == (mig :> kmig) @@ (sel :> ksel) @@ (tra :> ktra) @@ (fmt :> kfmt)

MCOp == [r \in Row |-> AllOp[r]]
MCKey == [r \in Row |-> AllKey[r]]
Faults(library, tapeBusy, retrieve) ==
    [f \in Fault |-> CASE f = "library" -> library
                       [] f = "tapeBusy" -> tapeBusy
                       [] f = "retrieve" -> retrieve]

NoFaults == Faults(0, 0, 0)
OneLibraryFault == Faults(1, 0, 0)
OneOfEach == Faults(1, 1, 1)

Once == [r \in Row |-> 1]
RecallTwice == [r \in Row |-> IF r = tra THEN 2 ELSE 1]

(* A migration to c1 and c2, recalls from them, or a format of c2.         *)
SharedTape == [r \in Row |-> CASE r = mig -> NoCart [] r = sel -> c2 [] r = tra -> c1 [] r = fmt -> c2]
SharedPool == [r \in Row |-> IF r = mig THEN {c1, c2} ELSE {}]

(* The migration has one tape, which a recall wants too.                   *)
OneTapePool == [r \in Row |-> IF r = mig THEN {c1} ELSE {}]

(* No two requests want the same tape.                                     *)
OwnTape == [r \in Row |-> CASE r = mig -> NoCart [] r = sel -> c2 [] r = tra -> c3 [] r = fmt -> c2]
OwnPool == [r \in Row |-> IF r = mig THEN {c1, c2} ELSE {}]
=============================================================================
