------------------------------ MODULE BoundedMap ------------------------------
(***************************************************************************)
(* What execute_parallel promises to the evaluation runtime: every item is *)
(* evaluated at most once, at most NWorkers of them at a time, and the     *)
(* call returns only when every item has a result.  An item may fail; the  *)
(* call may then raise, and the items still running finish on their own.   *)
(* Queue, markers and workers do not appear here.                          *)
(***************************************************************************)
EXTENDS Naturals, FiniteSets

CONSTANTS Items,      \* the evaluations of the set
          NWorkers    \* how many may run at a time

VARIABLES todo,       \* items not started
          running,    \* items being evaluated
          done,       \* items with a result
          failed,     \* items whose evaluation raised
          outcome     \* of the call: "pending", "returned" or "raised"

vars == <<todo, running, done, failed, outcome>>

Init ==
    /\ todo = Items
    /\ running = {}
    /\ done = {}
    /\ failed = {}
    /\ outcome = "pending"

Start(i) ==
    /\ i \in todo
    /\ Cardinality(running) < NWorkers
    /\ todo' = todo \ {i}
    /\ running' = running \cup {i}
    /\ UNCHANGED <<done, failed, outcome>>

Succeed(i) ==
    /\ i \in running
    /\ running' = running \ {i}
    /\ done' = done \cup {i}
    /\ UNCHANGED <<todo, failed, outcome>>

Fail(i) ==
    /\ i \in running
    /\ running' = running \ {i}
    /\ failed' = failed \cup {i}
    /\ UNCHANGED <<todo, done, outcome>>

Return ==
    /\ outcome = "pending"
    /\ done = Items
    /\ outcome' = "returned"
    /\ UNCHANGED <<todo, running, done, failed>>

Raise ==
    /\ outcome = "pending"
    /\ failed # {}
    /\ outcome' = "raised"
    /\ UNCHANGED <<todo, running, done, failed>>

Next ==
    \/ \E i \in Items : Start(i) \/ Succeed(i) \/ Fail(i)
    \/ Return
    \/ Raise

Spec == Init /\ [][Next]_vars
===============================================================================
