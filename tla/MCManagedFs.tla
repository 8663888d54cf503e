---------------------------- MODULE MCManagedFs ----------------------------
EXTENDS ManagedFs

(* The second file system is a copy of the first, as a snapshot is. *)
MCUuid == [f \in Fs |-> "uuid"]
=============================================================================
