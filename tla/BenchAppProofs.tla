---------------------------- MODULE BenchAppProofs ----------------------------
(***************************************************************************)
(* Lemmas about the controller, the clock's arithmetic and the commands,   *)
(* for the proofs about the two firmware variants.                         *)
(***************************************************************************)
EXTENDS BenchApp, TLAPS

-----------------------------------------------------------------------------
(* Lemmas about the controller and the types of the tasks' data.           *)

(* A remainder lies below the modulus.                                     *)
LEMMA ModInRange ==
    ASSUME NEW a \in Int, NEW m \in Nat \ {0}
    PROVE  a % m \in 0 .. m - 1
  OBVIOUS

(* A number below the modulus is its own remainder.                        *)
LEMMA ModSmall ==
    ASSUME NEW m \in Nat \ {0}, NEW a \in 0 .. m - 1
    PROVE  a % m = a
  OBVIOUS

(* A negative difference of two counters wraps once.                       *)
LEMMA ModNegative ==
    ASSUME NEW m \in Nat \ {0}, NEW a \in 0 .. m - 1, NEW b \in 0 .. m - 1, a < b
    PROVE  (a - b) % m = a - b + m
  OBVIOUS

(* Initial and intermediate samples are samples.                           *)
LEMMA ZeroSampleType ==
    ASSUME NEW t \in Times
    PROVE  ZeroSample(t) \in Sample
  BY DEF ZeroSample, Sample

(* The clock of a freshly booted board is in range.                        *)
LEMMA ZeroInTimes == 0 \in Times
  BY ControllerAssumption DEF Times

(* The sample bench_acquire starts from is one, too.                       *)
LEMMA NextSampleType == NextSample \in Sample
  <1>1. ZeroSample(0) \in Sample /\ [i \in Cells |-> 3600] \in [Cells -> Nat]
    BY ZeroSampleType, ZeroInTimes
  <1> HIDE DEF ZeroSample
  <1> QED
    BY <1>1 DEF Sample, NextSample

(* A command byte makes a command of a command.                            *)
LEMMA CommandedType ==
    ASSUME NEW cmd \in Command, NEW c
    PROVE  Commanded(cmd, c) \in Command
  BY DEF Commanded, Command, FaultBits

(* sample_faults raises fault bits only.                                   *)
LEMMA SampleFaultsType ==
    ASSUME NEW s, NEW t
    PROVE  sample_faults(s, t) \subseteq FaultBits
  BY DEF sample_faults

(* control_step returns a controller state.                                *)
LEMMA ControlStepType ==
    ASSUME NEW ctl \in Control, NEW s, NEW t, NEW r \in BOOLEAN,
           NEW injected \in SUBSET FaultBits
    PROVE  control_step(ctl, s, t, r, injected) \in Control
  <1> DEFINE active  == sample_faults(s, t) \cup injected
             latched == LatchedAfter(ctl.faults, active, r)
             enabled == active = {} /\ latched = {}
             count   == IF enabled # ctl.output_enabled
                        THEN (ctl.transitions + 1) % CountModulus
                        ELSE ctl.transitions
  <1>1. latched \in SUBSET FaultBits
    BY SampleFaultsType DEF LatchedAfter, Control
  <1>2. count \in Counts
    <2>1. ctl.transitions \in 0 .. CountModulus - 1 /\ ctl.transitions + 1 \in Int
      BY ControllerAssumption DEF Counts, Control
    <2>2. (ctl.transitions + 1) % CountModulus \in 0 .. CountModulus - 1
      BY <2>1, ControllerAssumption, ModInRange
    <2> HIDE DEF enabled
    <2> QED
      BY <2>1, <2>2 DEF Counts
  <1>3. enabled \in BOOLEAN
    OBVIOUS
  <1>4. control_step(ctl, s, t, r, injected)
          = [faults |-> latched, transitions |-> count,
             output_enabled |-> enabled, initialized |-> TRUE]
    BY DEF control_step
  <1> HIDE DEF active, latched, enabled, count
  <1> QED
    BY <1>1, <1>2, <1>3, <1>4 DEF Control

-----------------------------------------------------------------------------
(* control_step clears latched faults only on a request, and only when     *)
(* nothing active is left.                                                 *)
LEMMA ClearingNeedsReset ==
    ASSUME NEW ctl \in Control, NEW s, NEW t, NEW r \in BOOLEAN,
           NEW injected \in SUBSET FaultBits,
           ctl.faults # {}, control_step(ctl, s, t, r, injected).faults = {}
    PROVE  r
  BY DEF control_step, LatchedAfter

(* Only the byte 'r' touches the reset request.                            *)
LEMMA CommandedReset ==
    ASSUME NEW cmd \in Command, NEW c, c # "r"
    PROVE  Commanded(cmd, c).reset = cmd.reset
  BY DEF Commanded, Command

-----------------------------------------------------------------------------
(* What control_step decides.                                              *)

(* No time has passed since now.                                           *)
LEMMA ElapsedSelf ==
    ASSUME NEW t \in Times
    PROVE  Elapsed(t, t) = 0
  <1>1. t - t = 0 /\ 0 \in 0 .. TimeModulus - 1
    BY ControllerAssumption DEF Times
  <1> QED
    BY <1>1, ModSmall, ControllerAssumption DEF Elapsed

(* A fault that shows when a sample is taken shows whenever it is judged.  *)
LEMMA FaultsStay ==
    ASSUME NEW s \in Sample, NEW t
    PROVE  sample_faults(s, s.sampled_ms) \subseteq sample_faults(s, t)
  <1>1. ~(Elapsed(s.sampled_ms, s.sampled_ms) > StaleLimit)
    BY ElapsedSelf, ControllerAssumption DEF Sample
  <1> QED
    BY <1>1 DEF sample_faults, Raises

(* After a step every active fault is latched, and the output is enabled   *)
(* only with none latched and none active.                                 *)
LEMMA StepLatches ==
    ASSUME NEW ctl \in Control, NEW s, NEW t, NEW r \in BOOLEAN,
           NEW injected \in SUBSET FaultBits
    PROVE  /\ sample_faults(s, t) \subseteq control_step(ctl, s, t, r, injected).faults
           /\ injected \subseteq control_step(ctl, s, t, r, injected).faults
           /\ control_step(ctl, s, t, r, injected).output_enabled
                => /\ control_step(ctl, s, t, r, injected).faults = {}
                   /\ sample_faults(s, t) = {}
  BY DEF control_step, LatchedAfter

-----------------------------------------------------------------------------
(* The age of a sample, wrapped or not.                                    *)
LEMMA ElapsedRange ==
    ASSUME NEW t \in Times, NEW since \in Times
    PROVE  Elapsed(t, since) = IF since <= t THEN t - since
                               ELSE t - since + TimeModulus
  <1>3. TimeModulus \in Nat \ {0}
    BY ControllerAssumption
  <1>4. CASE since <= t
    <2>1. t - since \in 0 .. TimeModulus - 1
      BY <1>3, <1>4 DEF Times
    <2> QED
      BY ModSmall, <1>3, <1>4, <2>1 DEF Elapsed
  <1>5. CASE t < since
    BY ModNegative, <1>3, <1>5 DEF Elapsed, Times
  <1> QED
    BY <1>4, <1>5, <1>3 DEF Times

(* It is a natural number.                                                 *)
LEMMA ElapsedType ==
    ASSUME NEW t \in Times, NEW since \in Times
    PROVE  Elapsed(t, since) \in Nat
  BY ElapsedRange, ControllerAssumption DEF Times

(* Counting on from a counter's value: to the next, or back to zero.       *)
LEMMA CountOn ==
    ASSUME NEW m \in Nat \ {0}, NEW a \in 0 .. m - 1
    PROVE  (a + 1) % m = IF a + 1 < m THEN a + 1 ELSE 0
  <1>1. CASE a + 1 < m
    BY <1>1
  <1>2. CASE a + 1 = m
    <2>1. m % m = 0
      OBVIOUS
    <2> QED
      BY <1>2, <2>1
  <1> QED
    BY <1>1, <1>2

(* A sample ages by at most one in a tick, across the wrap of the clock    *)
(* too.                                                                    *)
LEMMA AgesByOne ==
    ASSUME NEW t \in Times, NEW since \in Times
    PROVE  Elapsed((t + 1) % TimeModulus, since) <= Elapsed(t, since) + 1
  <1>1. TimeModulus \in Nat \ {0}
    BY ControllerAssumption
  <1>2. (t + 1) % TimeModulus = IF t + 1 < TimeModulus THEN t + 1 ELSE 0
    BY <1>1, CountOn DEF Times
  <1>3. (t + 1) % TimeModulus \in Times
    BY <1>1, <1>2 DEF Times
  <1> QED
    BY <1>1, <1>2, <1>3, ElapsedRange DEF Times

=============================================================================
