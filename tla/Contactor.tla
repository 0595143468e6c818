------------------------------ MODULE Contactor ------------------------------
(***************************************************************************)
(* What the host simulation promises of the contactor: a fault opens it    *)
(* and keeps it open until the fault is cleared; a voltage fault locks it  *)
(* open, which no clearing undoes.                                         *)
(***************************************************************************)

VARIABLES
    closed,         \* the contactor carries current
    tripped,        \* a fault opened it and was not cleared
    locked          \* a voltage fault opened it for good

contactor_vars == <<closed, tripped, locked>>

Init == ~closed /\ ~tripped /\ ~locked

Close ==
    /\ ~tripped /\ ~locked
    /\ closed' = TRUE
    /\ UNCHANGED <<tripped, locked>>

Trip ==
    /\ closed' = FALSE
    /\ tripped' = TRUE
    /\ UNCHANGED locked

Lock ==
    /\ closed' = FALSE
    /\ tripped' = TRUE
    /\ locked' = TRUE

Clear ==
    /\ tripped' = FALSE
    /\ UNCHANGED <<closed, locked>>

Next == Close \/ Trip \/ Lock \/ Clear

Spec == Init /\ [][Next]_contactor_vars
=============================================================================
