---------------------------- MODULE MCThreadPool ----------------------------
(* Two users and a pool of two threads for TLC.                            *)
EXTENDS ThreadPool

CONSTANTS r1, r2
=============================================================================
