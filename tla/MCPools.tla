------------------------------ MODULE MCPools -------------------------------
(* Two clients that add, format or check tapes, for TLC.                   *)
EXTENDS Pools, TLC

CONSTANTS c1, c2

FormatAndAll == c1 :> {"format"} @@ c2 :> {"plain", "format", "check"}
Handlers == c1 :> {"format"} @@ c2 :> {"check"}
=============================================================================
