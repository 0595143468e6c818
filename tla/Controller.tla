------------------------------ MODULE Controller ------------------------------
(***************************************************************************)
(* The fault controller of the STM32F446 bench (controller.c): pure        *)
(* functions from a sample, the clock and the operator's requests to the   *)
(* next controller state.  Both firmware variants call them, bare metal    *)
(* from the main loop and FreeRTOS from control_task.                      *)
(*                                                                         *)
(* A fault word is the set of its bits.  uint32_t times are counted modulo *)
(* TimeModulus and the uint32_t transition counter modulo CountModulus     *)
(* (2^32 both in the firmware, small numbers in a model).  The null-pointer*)
(* guards of the C functions are left out: every caller passes the address *)
(* of an object.                                                           *)
(***************************************************************************)
EXTENDS Integers

CONSTANTS
    Cells,          \* indices of the monitored cells (BENCH_CELLS of them)
    StaleLimit,     \* oldest sample that still counts as fresh (250 ms)
    TimeModulus,    \* the millisecond clock wraps here
    CountModulus    \* the transition counter wraps here

ASSUME ControllerAssumption ==
    /\ StaleLimit \in Nat
    /\ TimeModulus \in Nat \ {0}
    /\ CountModulus \in Nat \ {0}

Times == 0 .. TimeModulus - 1
Counts == 0 .. CountModulus - 1

FaultBits == {"UNDER", "OVER", "TEMP", "SENSOR", "STALE", "INJECTED"}

(* bench_sample_t.  synthetic_cells is constant and read by nobody.        *)
Sample == [cells_mv          : [Cells -> Nat],
           temperature_centi : Int,
           sampled_ms        : Times,
           sensor_valid      : BOOLEAN,
           adc_valid         : BOOLEAN]

(* bench_control_t.                                                        *)
Control == [faults         : SUBSET FaultBits,
            transitions    : Counts,
            output_enabled : BOOLEAN,
            initialized    : BOOLEAN]

(* (uint32_t)(now - since): the difference modulo the width of the clock.  *)
Elapsed(now, since) == (now - since) % TimeModulus

control_init == [faults         |-> {},
                 transitions    |-> 0,
                 output_enabled |-> FALSE,
                 initialized    |-> FALSE]

(* Whether the sample, judged at now_ms, raises fault bit f.               *)
Raises(f, sample, now_ms) ==
    \/ f = "SENSOR" /\ ~(sample.sensor_valid /\ sample.adc_valid)
    \/ f = "STALE"  /\ Elapsed(now_ms, sample.sampled_ms) > StaleLimit
    \/ f = "TEMP"   /\ sample.temperature_centi > 6000
    \/ f = "UNDER"  /\ \E i \in Cells : sample.cells_mv[i] < 2800
    \/ f = "OVER"   /\ \E i \in Cells : sample.cells_mv[i] > 4200

sample_faults(sample, now_ms) ==
    {f \in FaultBits : Raises(f, sample, now_ms)}

(* What is latched after a step: active faults accumulate, and only a      *)
(* reset requested while nothing is active clears them.                    *)
LatchedAfter_ResetWins(faults, active, reset_requested) ==
    IF reset_requested THEN active ELSE faults \cup active

LatchedAfter(faults, active, reset_requested) ==
    IF active # {} THEN faults \cup active
    ELSE IF reset_requested THEN {} ELSE faults

control_step(control, sample, now_ms, reset_requested, injected_faults) ==
    LET active  == sample_faults(sample, now_ms) \cup injected_faults
        latched == LatchedAfter(control.faults, active, reset_requested)
        enabled == active = {} /\ latched = {}
    IN  [faults         |-> latched,
         transitions    |-> IF enabled # control.output_enabled
                            THEN (control.transitions + 1) % CountModulus
                            ELSE control.transitions,
         output_enabled |-> enabled,
         initialized    |-> TRUE]
=============================================================================
