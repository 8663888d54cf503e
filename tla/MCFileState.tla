---------------------------- MODULE MCFileState ----------------------------
(* Small instances of one file for TLC.                                    *)
EXTENDS FileState

CONSTANTS a1, a2, h1

(* Every application has opened the file itself, or they share one.        *)
OwnHandle == [a \in App |-> a]
SameHandle == [a \in App |-> h1]

EqualSize == [v \in Version |-> 1]
GrowingSize == [v \in Version |-> v + 1]
=============================================================================
