------------------------------- MODULE BenchApp -------------------------------
(***************************************************************************)
(* What the two firmware variants share (bench_app.c): the operator's      *)
(* commands, and the sample that bench_acquire puts together.  Its bus     *)
(* transactions take time, so they are steps of the variants' own modules. *)
(*                                                                         *)
(* A definition with a suffix (Stamped_WithoutTime) is a slip of the one   *)
(* it precedes.  No specification uses it: it stands beside the right one  *)
(* to show which property notices it.                                      *)
(***************************************************************************)
EXTENDS Controller

(* bench_command_t.                                                        *)
Command == [injected : SUBSET FaultBits, reset : BOOLEAN]

ZeroCommand == [injected |-> {}, reset |-> FALSE]

(* The effect of one byte in bench_poll_commands.                          *)
Commanded_Unknown(cmd, c) ==
    CASE c = "0" -> [cmd EXCEPT !.injected = {}]
      [] c = "r" -> [cmd EXCEPT !.reset = TRUE]
      [] OTHER -> [cmd EXCEPT !.injected = @ \cup {c}]
Commanded(cmd, c) ==
    CASE c = "t" -> [cmd EXCEPT !.injected = @ \cup {"TEMP"}]
      [] c = "u" -> [cmd EXCEPT !.injected = @ \cup {"UNDER"}]
      [] c = "o" -> [cmd EXCEPT !.injected = @ \cup {"OVER"}]
      [] c = "s" -> [cmd EXCEPT !.injected = @ \cup {"INJECTED"}]
      [] c = "0" -> [cmd EXCEPT !.injected = {}]
      [] c = "r" -> [cmd EXCEPT !.reset = TRUE]
      [] OTHER -> cmd

(* A zero-initialised bench_sample_t stamped with time t.                  *)
ZeroSample(t) == [cells_mv          |-> [i \in Cells |-> 0],
                  temperature_centi |-> 0,
                  sampled_ms        |-> t,
                  sensor_valid      |-> FALSE,
                  adc_valid         |-> FALSE]

(* The sample bench_acquire starts from: the cells are a stimulus.         *)
NextSample == [ZeroSample(0) EXCEPT !.cells_mv = [i \in Cells |-> 3600]]

(* The end of bench_acquire.  How the ADC blocks and the clock decide      *)
(* adc_valid is left open here.                                            *)
Stamped_WithoutTime(s, adc_valid, now) == [s EXCEPT !.adc_valid = adc_valid]
Stamped(s, adc_valid, now) ==
    [s EXCEPT !.adc_valid = adc_valid, !.sampled_ms = now]
=============================================================================
