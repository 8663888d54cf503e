------------------------------ MODULE MCServer ------------------------------
(* Instances of Server: a client that stops the server and one that works. *)
EXTENDS Server, TLC

CONSTANTS a, b

MCKinds == a :> {"stop", "forced"} @@ b :> {"work", "format"}
=============================================================================
