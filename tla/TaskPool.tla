------------------------------ MODULE TaskPool ------------------------------
(***************************************************************************)
(* What a thread pool promises its users, without threads, mutexes and     *)
(* condition variables: a task that is handed over runs once, never more   *)
(* than NumThrds tasks run together, enqueue returns when its task has     *)
(* been started, and waitCompletion returns when nothing that a request    *)
(* has enqueued is still to be done.                                       *)
(***************************************************************************)
EXTENDS Integers, FiniteSets

CONSTANTS Request,   (* request numbers                                     *)
          MaxTasks,  (* tasks per request                                   *)
          NumThrds   (* number of tasks that may run together               *)

VARIABLES state,     (* task -> how far it is                               *)
          returned,  (* tasks whose enqueue has returned                    *)
          over       (* requests whose waitCompletion has returned          *)

Task == Request \X (1 .. MaxTasks)

Init ==
    /\ state = [t \in Task |-> "new"]
    /\ returned = {}
    /\ over = {}

Enqueue(t) ==
    /\ state[t] = "new" /\ t[1] \notin over
    /\ state' = [state EXCEPT ![t] = "given"]
    /\ UNCHANGED <<returned, over>>

Start(t) ==
    /\ state[t] = "given"
    /\ Cardinality({u \in Task : state[u] = "running"}) < NumThrds
    /\ state' = [state EXCEPT ![t] = "running"]
    /\ UNCHANGED <<returned, over>>

Return(t) ==
    /\ t \notin returned /\ state[t] \in {"running", "done"}
    /\ returned' = returned \cup {t}
    /\ UNCHANGED <<state, over>>

Finish(t) ==
    /\ state[t] = "running"
    /\ state' = [state EXCEPT ![t] = "done"]
    /\ UNCHANGED <<returned, over>>

WaitCompletion(r) ==
    /\ r \notin over
    /\ \A t \in Task : t[1] = r => state[t] \in {"new", "done"}
    /\ over' = over \cup {r}
    /\ UNCHANGED <<state, returned>>

Next ==
    \/ \E t \in Task : Enqueue(t) \/ Start(t) \/ Return(t) \/ Finish(t)
    \/ \E r \in Request : WaitCompletion(r)

Spec == Init /\ [][Next]_<<state, returned, over>>
=============================================================================
