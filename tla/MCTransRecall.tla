---------------------------- MODULE MCTransRecall ----------------------------
(* Two events for two files on one tape for TLC.                           *)
EXTENDS TransRecall, TLC

CONSTANTS e1, e2, f1, f2, t1

Files == e1 :> f1 @@ e2 :> f2
Tapes == [e \in Event |-> t1]
=============================================================================
