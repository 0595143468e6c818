------------------------------ MODULE HostProofs ------------------------------
(***************************************************************************)
(* Theorems about the host simulation: about HostSafety, for any cells,    *)
(* sensors and readings, and about Pid, for any gains, setpoint and        *)
(* readings.                                                               *)
(***************************************************************************)
EXTENDS HostSafety, Pid, TLAPS

(* What the simulated cells may be.                                        *)
SimulatedVoltages == 25000 .. 37500

(* The ripple and the mismatch of the simulated cells are small.           *)
LEMMA RippleRange ==
    ASSUME NEW a \in 0 .. 2, NEW b \in 0 .. 1
    PROVE  36500 + 500 * a - 200 * b \in SimulatedVoltages
  BY DEF SimulatedVoltages

(* A simulated cell is between 0 and 5 V.                                  *)
LEMMA SimulatedRange ==
    ASSUME NEW i \in Cells
    PROVE  Simulated(i) \in SimulatedVoltages
  <1>1. i \in Nat
    BY HostAssumption
  <1>2. i % 3 \in 0 .. 2 /\ i % 2 \in 0 .. 1
    BY <1>1
  <1> DEFINE normal == 36500 + 500 * (i % 3) - 200 * (i % 2)
  <1>3. normal \in SimulatedVoltages
    BY <1>2, RippleRange
  <1>4. 25000 \in SimulatedVoltages
    BY DEF SimulatedVoltages
  <1>5. CASE g_sim_undervolt /\ i = 5
    <2>1. Simulated(i) = 25000
      BY <1>5 DEF Simulated
    <2> QED
      BY <1>4, <2>1
  <1>6. CASE ~(g_sim_undervolt /\ i = 5)
    <2>1. Simulated(i) = normal
      BY <1>6 DEF Simulated
    <2> HIDE DEF normal
    <2> QED
      BY <1>3, <2>1
  <1> QED
    BY <1>5, <1>6

(* Its counts fit the converter's twelve bits.                             *)
LEMMA CountsRange ==
    ASSUME NEW v \in SimulatedVoltages
    PROVE  Counts(v) \in RawCounts
  BY DEF Counts, SimulatedVoltages, RawCounts

(* A count decodes to a finite reading.                                    *)
LEMMA VoltsType ==
    ASSUME NEW n \in RawCounts
    PROVE  Volts(n) \in Voltages
  BY DEF Volts, RawCounts, Voltages

(* A detected fault is one of a cell or one of a temperature.              *)
LEMMA DetectedSource ==
    ASSUME NEW voltages, NEW temps, NEW f \in Detected(voltages, temps)
    PROVE  \/ \E i \in Cells : f \in CellFaults(voltages[i])
           \/ \E i \in Sensors : f \in TemperatureFaults(temps[i])
  <1>1. f \in OfCells(voltages) \/ f \in OfSensors(temps)
    BY DEF Detected
  <1>2. CASE f \in OfCells(voltages)
    <2>1. PICK S \in {CellFaults(voltages[i]) : i \in Cells} : f \in S
      BY <1>2 DEF OfCells
    <2> QED
      BY <2>1
  <1>3. CASE f \in OfSensors(temps)
    <2>1. PICK S \in {TemperatureFaults(temps[i]) : i \in Sensors} : f \in S
      BY <1>3 DEF OfSensors
    <2> QED
      BY <2>1
  <1> QED
    BY <1>1, <1>2, <1>3

(* What is wrong with a cell or a temperature is one of the faults.        *)
LEMMA DetectedType ==
    ASSUME NEW voltages, NEW temps
    PROVE  Detected(voltages, temps) \subseteq Faults
  <1> SUFFICES ASSUME NEW f \in Detected(voltages, temps)
               PROVE  f \in Faults
    OBVIOUS
  <1>1. \A v : f \in CellFaults(v) => f \in Faults
    BY DEF CellFaults, Faults
  <1>2. \A t : f \in TemperatureFaults(t) => f \in Faults
    BY DEF TemperatureFaults, Faults
  <1> QED
    BY <1>1, <1>2, DetectedSource, Zenon

(* Every reachable state is well typed (adc_dma.c, timer_isr.c, main.c).   *)
THEOREM TypeCorrect == Spec => []TypeOK
  <1>1. Init => TypeOK
    <2> SUFFICES ASSUME Init PROVE TypeOK
      OBVIOUS
    <2>1. /\ g_adc_dma_buffer \in [Cells -> RawCounts]
          /\ cell_voltages \in [Cells -> Voltages]
          /\ temperatures \in [Sensors -> Int]
      BY DEF Init, Voltages, RawCounts
    <2>2. state \in {"NORMAL", "FAULT"} /\ active_faults \subseteq Faults
      BY DEF Init
    <2>3. /\ g_sim_overtemp \in BOOLEAN /\ g_sim_undervolt \in BOOLEAN
          /\ System_Is_Latched_Fault \in BOOLEAN /\ relay \in BOOLEAN
      BY DEF Init
    <2> QED
      BY <2>1, <2>2, <2>3 DEF TypeOK
  <1>2. TypeOK /\ [Next]_vars => TypeOK'
    <2> SUFFICES ASSUME TypeOK, [Next]_vars PROVE TypeOK'
      OBVIOUS
    <2> USE DEF stimulus_vars, cell_vars, decision_vars, Contactor_Control,
                DMA2_Stream0_IRQHandler
    <2>1. ASSUME NEW overtemp \in BOOLEAN, NEW undervolt \in BOOLEAN,
                 Inject(overtemp, undervolt)
          PROVE  TypeOK'
      BY <2>1 DEF Inject, TypeOK
    <2>2. ASSUME NEW i \in Cells, NEW v \in TestVoltages, WriteReading(i, v)
          PROVE  TypeOK'
      <3>1. v \in Voltages
        BY HostAssumption
      <3> QED
        BY <2>2, <3>1 DEF WriteReading, TypeOK
    <2>3. CASE ClearOvertemp
      <3>1. active_faults' \subseteq Faults /\ state' \in {"NORMAL", "FAULT"}
        BY <2>3 DEF ClearOvertemp, TypeOK
      <3>2. g_sim_overtemp' \in BOOLEAN
        BY <2>3 DEF ClearOvertemp
      <3> QED
        BY <2>3, <3>1, <3>2 DEF ClearOvertemp, TypeOK
    <2>4. CASE Simulate_ADC_Conversion
      <3>1. \A i \in Cells : Counts(Simulated(i)) \in RawCounts
        BY SimulatedRange, CountsRange, Zenon
      <3>2. g_adc_dma_buffer' \in [Cells -> RawCounts]
        BY <2>4, <3>1, Zenon DEF Simulate_ADC_Conversion
      <3>3. \A i \in Cells : Volts(g_adc_dma_buffer'[i]) \in Voltages
        BY <3>2, VoltsType
      <3>4. cell_voltages' \in [Cells -> Voltages]
        BY <2>4, <3>3, Zenon DEF Simulate_ADC_Conversion
      <3> QED
        BY <2>4, <3>2, <3>4 DEF Simulate_ADC_Conversion, TypeOK
    <2>5. CASE TIM2_IRQHandler
      <3>1. temperatures' \in [Sensors -> Int]
        BY <2>5 DEF TIM2_IRQHandler, I2C_Read_Temperature
      <3>2. active_faults' \subseteq Faults
        BY <2>5, DetectedType DEF TIM2_IRQHandler, TypeOK
      <3>3. /\ System_Is_Latched_Fault' \in {TRUE, System_Is_Latched_Fault}
            /\ state' \in {"FAULT", state}
            /\ relay' \in {FALSE, TRUE, relay}
        BY <2>5, Zenon DEF TIM2_IRQHandler, LatchedAfter
      <3>4. System_Is_Latched_Fault' \in BOOLEAN /\ relay' \in BOOLEAN
        <4>1. System_Is_Latched_Fault \in BOOLEAN /\ relay \in BOOLEAN
          BY DEF TypeOK
        <4> QED
          BY <3>3, <4>1
      <3>5. state' \in {"NORMAL", "FAULT"}
        BY <3>3 DEF TypeOK
      <3> QED
        BY <2>5, <3>1, <3>2, <3>4, <3>5 DEF TIM2_IRQHandler, TypeOK
    <2>6. CASE UNCHANGED vars
      BY <2>6 DEF vars, TypeOK
    <2> QED
      BY <2>1, <2>2, <2>3, <2>4, <2>5, <2>6 DEF Next
  <1>3. QED
    BY <1>1, <1>2, PTL DEF Spec

-----------------------------------------------------------------------------
(* A cell that is too low or makes no sense is out of the interlock's      *)
(* range: truncation to millivolts never lifts it over the limit.          *)
LEMMA LowIsOutOfRange ==
    ASSUME NEW v \in Voltages, CellFaults(v) \cap {"UNDERVOLT", "SENSOR_ERR"} # {}
    PROVE  OutOfRange(Millivolts(v))
  <1>1. CASE ~Plausible(v)
    BY <1>1 DEF Millivolts, OutOfRange
  <1>2. CASE Plausible(v)
    <2>1. v \in Int /\ v >= 0 /\ v < 28000
      BY <1>2, HostAssumption DEF Plausible, CellFaults, Voltages
    <2>2. v \div 10 < 2800
      BY <2>1
    <2> QED
      BY <1>2, <2>2 DEF Millivolts, OutOfRange
  <1> QED
    BY <1>1, <1>2

(* Every low or senseless cell that was ever found has latched the         *)
(* interlock (timer_isr.c:92-110, safety_interlock.c:32-42).               *)
THEOREM LowCellsLatched == Spec => []LowCellsLatch
  <1>1. Init => LowCellsLatch
    BY DEF Init, LowCellsLatch
  <1>2. TypeOK /\ LowCellsLatch /\ [Next]_vars => LowCellsLatch'
    <2> SUFFICES ASSUME TypeOK, LowCellsLatch, [Next]_vars PROVE LowCellsLatch'
      OBVIOUS
    <2> USE DEF stimulus_vars, cell_vars, decision_vars, Contactor_Control,
                DMA2_Stream0_IRQHandler
    <2>1. CASE TIM2_IRQHandler
      <3> DEFINE temps == [i \in Sensors |-> I2C_Read_Temperature(i)]
      <3>1. CASE Latches(cell_voltages)
        BY <2>1, <3>1 DEF TIM2_IRQHandler, LatchedAfter, LowCellsLatch
      <3>2. CASE ~Latches(cell_voltages)
        <4>1. \A i \in Cells :
                 CellFaults(cell_voltages[i]) \cap {"UNDERVOLT", "SENSOR_ERR"} = {}
          BY <3>2, LowIsOutOfRange DEF Latches, TypeOK
        <4>2. Detected(cell_voltages, temps) \cap {"UNDERVOLT", "SENSOR_ERR"} = {}
          <5>1. \A t : TemperatureFaults(t) \cap {"UNDERVOLT", "SENSOR_ERR"} = {}
            BY DEF TemperatureFaults
          <5> HIDE DEF temps
          <5> QED
            BY <4>1, <5>1, DetectedSource, Zenon
        <4>3. /\ active_faults' = active_faults \cup Detected(cell_voltages, temps)
              /\ System_Is_Latched_Fault' = System_Is_Latched_Fault
          BY <2>1, <3>2 DEF TIM2_IRQHandler, LatchedAfter
        <4> HIDE DEF temps
        <4> QED
          BY <4>2, <4>3 DEF LowCellsLatch
      <3> QED
        BY <3>1, <3>2
    <2>2. CASE ClearOvertemp
      BY <2>2 DEF ClearOvertemp, LowCellsLatch
    <2>3. CASE UNCHANGED decision_vars
      BY <2>3 DEF LowCellsLatch
    <2> QED
      BY <2>1, <2>2, <2>3 DEF Next, Inject, WriteReading,
         Simulate_ADC_Conversion, vars
  <1>3. QED
    BY <1>1, <1>2, TypeCorrect, PTL DEF Spec

-----------------------------------------------------------------------------
(* The simulation implements the contactor's promise: the timer interrupt  *)
(* closes, trips, locks or leaves it as it is, clearing the overtemperature *)
(* clears it, and nothing else touches it (main.c:47-52, timer_isr.c,      *)
(* safety_interlock.c).                                                    *)
THEOREM HostImplementsContactor == Spec => ImplementsContactor
  <1>1. Init => Abstract!Init
    BY DEF Init, Abstract!Init
  <1>2. TypeOK /\ [Next]_vars => [Abstract!Next]_(Abstract!contactor_vars)
    <2> SUFFICES ASSUME TypeOK, [Next]_vars
                 PROVE  [Abstract!Next]_(Abstract!contactor_vars)
      OBVIOUS
    <2> USE DEF stimulus_vars, cell_vars, decision_vars, Contactor_Control,
                DMA2_Stream0_IRQHandler
    <2>1. CASE TIM2_IRQHandler
      <3> DEFINE evaluated == SafetyInterlock_Evaluate(System_Is_Latched_Fault,
                                                       cell_voltages)
      <3>1. CASE state' = "FAULT" /\ relay' = FALSE
        <4>1. System_Is_Latched_Fault' = TRUE
              \/ System_Is_Latched_Fault' = System_Is_Latched_Fault
          BY <2>1 DEF TIM2_IRQHandler, LatchedAfter
        <4> QED
          BY <3>1, <4>1 DEF Abstract!Next, Abstract!Trip, Abstract!Lock
      <3>2. CASE evaluated = "CLOSED" /\ state = "NORMAL" /\ relay' = TRUE /\ state' = state
        <4>1. ~System_Is_Latched_Fault /\ ~Latches(cell_voltages)
          BY <3>2 DEF SafetyInterlock_Evaluate
        <4>2. System_Is_Latched_Fault' = System_Is_Latched_Fault
          BY <2>1, <4>1 DEF TIM2_IRQHandler, LatchedAfter
        <4> QED
          BY <3>2, <4>1, <4>2 DEF Abstract!Next, Abstract!Close
      <3>3. CASE evaluated = "CLOSED" /\ state' = state /\ relay' = relay
        <4>1. ~System_Is_Latched_Fault /\ ~Latches(cell_voltages)
          BY <3>3 DEF SafetyInterlock_Evaluate
        <4>2. System_Is_Latched_Fault' = System_Is_Latched_Fault
          BY <2>1, <4>1 DEF TIM2_IRQHandler, LatchedAfter
        <4> QED
          BY <3>3, <4>2 DEF Abstract!contactor_vars
      <3> QED
        BY <2>1, <3>1, <3>2, <3>3 DEF TIM2_IRQHandler, SafetyInterlock_Evaluate
    <2>2. CASE ClearOvertemp
      BY <2>2 DEF ClearOvertemp, Abstract!Next, Abstract!Clear
    <2>3. CASE UNCHANGED decision_vars
      BY <2>3 DEF Abstract!contactor_vars
    <2> QED
      BY <2>1, <2>2, <2>3 DEF Next, Inject, WriteReading,
         Simulate_ADC_Conversion, vars
  <1>3. QED
    BY <1>1, <1>2, TypeCorrect, PTL DEF Spec, ImplementsContactor, Abstract!Spec

-----------------------------------------------------------------------------
(* The PID controller.                                                     *)

(* What is kept between two limits is between them.                        *)
LEMMA BetweenRange ==
    ASSUME NEW x \in Int, NEW low \in Int, NEW high \in Int, low <= high
    PROVE  Between(x, low, high) \in low .. high
  BY DEF Between

(* Keeping two numbers between the same limits keeps their order.          *)
LEMMA BetweenMonotone ==
    ASSUME NEW x \in Int, NEW y \in Int, NEW low \in Int, NEW high \in Int,
           low <= high, x <= y
    PROVE  Between(x, low, high) <= Between(y, low, high)
  BY DEF Between

(* What a gain makes of an error.                                          *)
LEMMA PartOfOutput ==
    ASSUME NEW gain \in Nat, NEW error \in Int
    PROVE  /\ gain * error \in Int
           /\ error <= 0 => gain * error <= 0
           /\ error < 0 /\ gain # 0 => gain * error < 0
  OBVIOUS

(* Types.                                                                  *)
LEMMA PidTypeCorrect == PidSpec => []PidTypeOK
  <1>1. PidInit => PidTypeOK
    BY PidAssumption DEF PidInit, PidTypeOK, Outputs
  <1>2. PidTypeOK /\ [PidNext]_pid_vars => PidTypeOK'
    <2> SUFFICES ASSUME PidTypeOK, [PidNext]_pid_vars PROVE PidTypeOK'
      OBVIOUS
    <2> USE PidAssumption DEF PidTypeOK, Outputs
    <2>1. CASE PidNext
      <3>1. PICK reading \in Readings : PID_Compute(reading)
        BY <2>1 DEF PidNext
      <3> DEFINE error == Setpoint - reading
      <3>2. error \in Int
        OBVIOUS
      <3> DEFINE part == Ki * error
      <3>3. /\ integral_sum' = Clamped(integral_sum + part)
            /\ output' = Saturated(Kp * error + integral_sum' + Kd * (error - prev_error))
            /\ prev_error' = error
            /\ unforgotten' = IF error < 0 THEN Between(unforgotten + part, 0, OutputMax)
                                           ELSE OutputMax
        BY <3>1 DEF PID_Compute
      <3> HIDE DEF error
      <3>4. part \in Int
        BY <3>2, PartOfOutput
      <3> HIDE DEF part
      <3>5. integral_sum' \in Outputs
        BY <3>2, <3>3, <3>4, BetweenRange DEF Clamped
      <3>6. output' \in Outputs
        <4> DEFINE sum == Kp * error + integral_sum' + Kd * (error - prev_error)
        <4>1. sum \in Int
          <5>1. Kp * error \in Int
            BY <3>2, PartOfOutput
          <5>2. error - prev_error \in Int
            BY <3>2
          <5>3. Kd * (error - prev_error) \in Int
            BY <5>2, PartOfOutput
          <5> QED
            BY <3>5, <5>1, <5>3
        <4>2. output' = Between(sum, 0, OutputMax)
          BY <3>3 DEF Saturated
        <4> HIDE DEF sum
        <4> QED
          BY <4>1, <4>2, BetweenRange
      <3>7. unforgotten' \in Outputs
        BY <3>3, <3>4, BetweenRange
      <3> QED
        BY <3>2, <3>3, <3>5, <3>6, <3>7
    <2>2. CASE UNCHANGED pid_vars
      BY <2>2 DEF pid_vars
    <2> QED
      BY <2>1, <2>2
  <1> QED
    BY <1>1, <1>2, PTL DEF PidSpec

(* However long it was cold, the integral is paid back in a time that does *)
(* not depend on the past.  Inductive with the types.                      *)
THEOREM IntegralUnwinds == PidSpec => []Unwinds
  <1>1. PidInit => Unwinds
    BY PidAssumption DEF PidInit, Unwinds
  <1>2. PidTypeOK /\ Unwinds /\ [PidNext]_pid_vars => Unwinds'
    <2> SUFFICES ASSUME PidTypeOK, Unwinds, [PidNext]_pid_vars PROVE Unwinds'
      OBVIOUS
    <2> USE PidAssumption DEF PidTypeOK, Outputs, Unwinds
    <2>1. CASE PidNext
      <3>1. PICK reading \in Readings : PID_Compute(reading)
        BY <2>1 DEF PidNext
      <3> DEFINE error == Setpoint - reading
      <3>2. error \in Int
        OBVIOUS
      <3> DEFINE part == Ki * error
      <3>3. /\ integral_sum' = Between(integral_sum + part, 0, OutputMax)
            /\ unforgotten' = IF error < 0 THEN Between(unforgotten + part, 0, OutputMax)
                                           ELSE OutputMax
        BY <3>1 DEF PID_Compute, Clamped
      <3>4. part \in Int
        BY <3>2, PartOfOutput
      <3> HIDE DEF error, part
      <3>5. CASE error < 0
        BY <3>3, <3>4, <3>5, BetweenMonotone
      <3>6. CASE ~(error < 0)
        BY <3>3, <3>4, <3>6, BetweenRange
      <3> QED
        BY <3>5, <3>6
    <2>2. CASE UNCHANGED pid_vars
      BY <2>2 DEF pid_vars
    <2> QED
      BY <2>1, <2>2
  <1> QED
    BY <1>1, <1>2, PidTypeCorrect, PTL DEF PidSpec

(* An error below zero that does not rise: the integral by itself is below *)
(* the limit, for the error took something off, and the other two parts    *)
(* add nothing.                                                            *)
LEMMA OutputBelowLimit ==
    ASSUME NEW integral \in Outputs, NEW error \in Int, NEW change \in Int,
           error < 0, change <= 0
    PROVE  Saturated(Kp * error + Clamped(integral + Ki * error) + Kd * change) < OutputMax
  <1> USE PidAssumption
  <1> DEFINE p == Kp * error
             i == Ki * error
             d == Kd * change
  <1>1. p \in Int /\ p <= 0
    BY PartOfOutput
  <1>2. i \in Int /\ i < 0
    BY PartOfOutput
  <1>3. d \in Int /\ d <= 0
    BY PartOfOutput
  <1> HIDE DEF p, i, d
  <1>4. Clamped(integral + i) \in 0 .. OutputMax - 1
    BY <1>2 DEF Clamped, Between, Outputs
  <1>5. Saturated(p + Clamped(integral + i) + d) < OutputMax
    <2> DEFINE sum == p + Clamped(integral + i) + d
    <2>1. sum \in Int /\ sum < OutputMax
      BY <1>1, <1>3, <1>4
    <2> HIDE DEF sum
    <2>2. Saturated(sum) < OutputMax
      BY <2>1 DEF Saturated, Between
    <2> QED
      BY <2>2 DEF sum
  <1> QED
    BY <1>5 DEF p, i, d

(* Above the setpoint and not getting cooler, the output is below its      *)
(* limit.                                                                  *)
THEOREM OutputLeavesLimit == PidSpec => LeavesLimit
  <1>1. PidTypeOK /\ [PidNext]_pid_vars
           => [prev_error' < 0 /\ prev_error' <= prev_error => output' < OutputMax]_pid_vars
    <2> SUFFICES ASSUME PidTypeOK, PidNext, prev_error' < 0, prev_error' <= prev_error
                 PROVE  output' < OutputMax
      BY DEF pid_vars
    <2>1. PICK reading \in Readings : PID_Compute(reading)
      BY DEF PidNext
    <2> DEFINE error == Setpoint - reading
               change == error - prev_error
    <2>2. prev_error' = error
      BY <2>1 DEF PID_Compute
    <2>3. error \in Int /\ prev_error \in Int /\ integral_sum \in Outputs
      BY PidAssumption DEF PidTypeOK
    <2>4. output' = Saturated(Kp * error + Clamped(integral_sum + Ki * error) + Kd * change)
      BY <2>1 DEF PID_Compute
    <2> HIDE DEF error
    <2>5. change \in Int /\ change <= 0 /\ error < 0
      BY <2>2, <2>3
    <2> HIDE DEF change
    <2> QED
      BY <2>3, <2>4, <2>5, OutputBelowLimit
  <1> QED
    BY <1>1, PidTypeCorrect, PTL DEF PidSpec, LeavesLimit
=============================================================================
