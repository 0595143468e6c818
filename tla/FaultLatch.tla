------------------------------ MODULE FaultLatch ------------------------------
(***************************************************************************)
(* What the bench controller promises its operator, whatever tasks, queues *)
(* and interrupts it is built from: a fault turns the output off and stays *)
(* latched, and the output comes back from a fault only by spending a      *)
(* reset request of the operator, each request at most once.  A fault that *)
(* merely goes away changes nothing.                                       *)
(***************************************************************************)
EXTENDS Naturals

CONSTANT Faults     \* the fault bits that can be latched

VARIABLES
    asked,      \* reset requests of the operator so far
    honoured,   \* recoveries so far
    latched,    \* the faults latched since the last recovery
    enabled     \* the controller's output decision

vars == <<asked, honoured, latched, enabled>>

Init ==
    /\ asked = 0
    /\ honoured = 0
    /\ latched = {}
    /\ enabled = FALSE

Ask ==
    /\ asked' = asked + 1
    /\ UNCHANGED <<honoured, latched, enabled>>

Trip ==
    /\ \E F \in (SUBSET Faults) \ {{}} : latched' = latched \cup F
    /\ enabled' = FALSE
    /\ UNCHANGED <<asked, honoured>>

Enable ==
    /\ latched = {}
    /\ enabled' = TRUE
    /\ UNCHANGED <<asked, honoured, latched>>

Recover ==
    /\ latched # {}
    /\ honoured < asked
    /\ honoured' = honoured + 1
    /\ latched' = {}
    /\ enabled' = TRUE
    /\ UNCHANGED asked

Next == Ask \/ Trip \/ Enable \/ Recover

Spec == Init /\ [][Next]_vars
=============================================================================
