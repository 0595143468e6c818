--------------------------------- MODULE Pid ---------------------------------
(***************************************************************************)
(* The PID controller of the host simulation (pid_controller.c), in exact  *)
(* integers, for gains that do not change and one time step.               *)
(*                                                                         *)
(* The units of temperature and of the output are such that a step of the  *)
(* error makes whole units of output: Kp is kp, Ki is ki * dt and Kd is    *)
(* kd / dt, in units of output for a step of error.  The integral is kept  *)
(* multiplied by ki.  ki must be positive, since PID_Init divides by it.   *)
(* The least output is 0, as in main.c.  The rounding of the floats is     *)
(* left out, and so are the answers to a null pointer and to a time step   *)
(* that is not positive, which no caller passes.                           *)
(*                                                                         *)
(* A definition with a suffix (Clamped_NotAbove) is a slip of the one it   *)
(* precedes.  No specification uses it: it stands beside the right one to  *)
(* show which property notices it.                                         *)
(***************************************************************************)
EXTENDS Integers

CONSTANTS
    Readings,       \* temperatures
    Setpoint,
    Kp, Ki, Kd,     \* output for a step of error, of its sum, of its change
    OutputMax       \* the least output is 0

ASSUME PidAssumption ==
    /\ Readings \subseteq Int /\ Setpoint \in Int
    /\ Kp \in Nat /\ Ki \in Nat \ {0} /\ Kd \in Nat
    /\ OutputMax \in Nat \ {0}

VARIABLES
    integral_sum,   \* times ki
    prev_error,
    output,
    unforgotten     \* history: OutputMax, less Ki times the errors since
                    \* the temperature was last below the setpoint

pid_vars == <<integral_sum, prev_error, output, unforgotten>>

Outputs == 0 .. OutputMax

PidTypeOK ==
    /\ integral_sum \in Outputs /\ output \in Outputs
    /\ prev_error \in Int
    /\ unforgotten \in Outputs

(* PID_Init.                                                               *)
PidInit ==
    /\ integral_sum = 0 /\ prev_error = 0 /\ output = 0
    /\ unforgotten = OutputMax

Between(x, low, high) == IF x > high THEN high ELSE IF x < low THEN low ELSE x

(* Anti-windup: the integral alone stays within the output's range.        *)
Clamped_NotAbove(sum) == IF sum < 0 THEN 0 ELSE sum
Clamped(sum) == Between(sum, 0, OutputMax)

Saturated_Below(sum) == IF sum > OutputMax THEN OutputMax ELSE sum
Saturated(sum) == Between(sum, 0, OutputMax)

PID_Compute(current_value) ==
    LET error == Setpoint - current_value
    IN  /\ integral_sum' = Clamped(integral_sum + Ki * error)
        /\ output' = Saturated(Kp * error + integral_sum' + Kd * (error - prev_error))
        /\ prev_error' = error
        /\ unforgotten' = IF error < 0 THEN Between(unforgotten + Ki * error, 0, OutputMax)
                                       ELSE OutputMax

PidNext == \E reading \in Readings : PID_Compute(reading)

PidSpec == PidInit /\ [][PidNext]_pid_vars

-----------------------------------------------------------------------------
(* Properties.                                                             *)

(* However long it was cold, the integral is gone when the errors of the   *)
(* opposite sign have made up for the output's range once: the time to     *)
(* unwind has a bound that does not depend on the past                     *)
(* (pid_controller.c:13-14, 30-33).                                        *)
Unwinds == integral_sum <= unforgotten

(* Above the setpoint, and not getting cooler, the output is never at its  *)
(* upper limit: it leaves the limit with the very call that sees the       *)
(* temperature pass (pid_controller.c:30-46).                              *)
LeavesLimit ==
    [][prev_error' < 0 /\ prev_error' <= prev_error => output' < OutputMax]_pid_vars
=============================================================================
