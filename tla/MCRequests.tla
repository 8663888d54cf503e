----------------------------- MODULE MCRequests -----------------------------
(* A migration and a recall that share a file, for TLC.                    *)
EXTENDS Requests, TLC

CONSTANTS c1, c2, f1, f2

MigAndRec == c1 :> "mig" @@ c2 :> "rec"
Shared == c1 :> {f1} @@ c2 :> {f1, f2}
Mixed == c1 :> {f1, f2} @@ c2 :> {}
AnyFirst == f1 :> {"resident", "premigrated"} @@ f2 :> {"migrated"}
OneOfEach == f1 :> {"resident"} @@ f2 :> {"premigrated"}
=============================================================================
