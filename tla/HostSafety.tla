------------------------------ MODULE HostSafety ------------------------------
(***************************************************************************)
(* The safety logic of the host simulation: the ADC stimulus and its DMA   *)
(* interrupt (adc_dma.c), the timer interrupt that judges the readings and *)
(* drives the contactor (timer_isr.c), the interlock it consults           *)
(* (safety_interlock.c), and what main.c and the tests do to them.         *)
(*                                                                         *)
(* One thread calls everything, the interrupt handlers included, so a call *)
(* is an action.  main.c calls them in one order; here they come in any,   *)
(* as in the tests, which also write the readings.                         *)
(*                                                                         *)
(* Voltages are in tenths of a millivolt and temperatures in sixteenths of *)
(* a degree (the sensor's resolution).  Neither rounding of the floats nor *)
(* pack voltage and current matters to what is decided.                    *)
(***************************************************************************)
EXTENDS Integers

CONSTANTS
    Cells,          \* indices of the cells (0 .. 11)
    Sensors,        \* indices of the temperature sensors (0 .. 3)
    NotFinite,      \* a float that is a NaN or infinite
    TestVoltages    \* readings that the tests write

Voltages == Int \cup {NotFinite}
RawCounts == 0 .. 4095

ASSUME HostAssumption ==
    /\ Cells \subseteq Nat
    /\ Sensors \subseteq Nat
    /\ NotFinite \notin Int
    /\ TestVoltages \subseteq Voltages

VARIABLES
    g_sim_overtemp, g_sim_undervolt,    \* stimuli
    g_adc_dma_buffer,                   \* raw counts
    cell_voltages, temperatures,        \* g_bms_data
    state, active_faults,
    System_Is_Latched_Fault,
    relay                               \* pin PA5: contactor closed

stimulus_vars == <<g_sim_overtemp, g_sim_undervolt>>
cell_vars == <<g_adc_dma_buffer, cell_voltages>>
decision_vars == <<state, active_faults, System_Is_Latched_Fault, relay>>

vars == <<stimulus_vars, cell_vars, temperatures, decision_vars>>

Faults == {"OVERTEMP", "UNDERVOLT", "SENSOR_ERR", "OVERVOLTAGE"}

TypeOK ==
    /\ g_sim_overtemp \in BOOLEAN /\ g_sim_undervolt \in BOOLEAN
    /\ g_adc_dma_buffer \in [Cells -> RawCounts]
    /\ cell_voltages \in [Cells -> Voltages]
    /\ temperatures \in [Sensors -> Int]
    /\ state \in {"NORMAL", "FAULT"}
    /\ active_faults \subseteq Faults
    /\ System_Is_Latched_Fault \in BOOLEAN /\ relay \in BOOLEAN

(* After the calls of the initialisation functions.                        *)
Init ==
    /\ g_sim_overtemp = FALSE /\ g_sim_undervolt = FALSE
    /\ g_adc_dma_buffer = [i \in Cells |-> 0]
    /\ cell_voltages = [i \in Cells |-> 0]
    /\ temperatures = [i \in Sensors |-> 0]
    /\ state = "NORMAL" /\ active_faults = {}
    /\ System_Is_Latched_Fault = FALSE /\ relay = FALSE

-----------------------------------------------------------------------------
(* Stimuli: set by main.c and the tests.                                   *)

Inject(overtemp, undervolt) ==
    /\ g_sim_overtemp' = overtemp
    /\ g_sim_undervolt' = undervolt
    /\ UNCHANGED <<cell_vars, temperatures, decision_vars>>

WriteReading(i, v) ==
    /\ cell_voltages' = [cell_voltages EXCEPT ![i] = v]
    /\ UNCHANGED <<stimulus_vars, g_adc_dma_buffer, temperatures, decision_vars>>

(* The demonstration withdraws the stimulus, clears its fault, and sets    *)
(* the state back to normal whatever else is wrong.                        *)
ClearOvertemp ==
    /\ g_sim_overtemp' = FALSE
    /\ active_faults' = active_faults \ {"OVERTEMP"}
    /\ state' = "NORMAL"
    /\ UNCHANGED <<g_sim_undervolt, cell_vars, temperatures,
                   System_Is_Latched_Fault, relay>>

-----------------------------------------------------------------------------
(* ADC and DMA.  The ADC has 12 bits for 5 V.                              *)

Simulated(i) ==
    IF g_sim_undervolt /\ i = 5
    THEN 25000
    ELSE 36500 + 500 * (i % 3) - 200 * (i % 2)

Counts_WrongScale(v) == (v * 4095) \div 5000
Counts(v) == (v * 4095) \div 50000

Volts(counts) == (counts * 50000) \div 4095

DMA2_Stream0_IRQHandler(buffer) ==
    cell_voltages' = [i \in Cells |-> Volts(buffer[i])]

(* The end of the transfer interrupts, and the handler decodes the buffer. *)
Simulate_ADC_Conversion ==
    /\ g_adc_dma_buffer' = [i \in Cells |-> Counts(Simulated(i))]
    /\ DMA2_Stream0_IRQHandler(g_adc_dma_buffer')
    /\ UNCHANGED <<stimulus_vars, temperatures, decision_vars>>

-----------------------------------------------------------------------------
(* The timer interrupt.                                                    *)

I2C_Read_Temperature(i) == IF g_sim_overtemp /\ i = 0 THEN 1043 ELSE 392

Plausible(v) == IF v = NotFinite THEN FALSE ELSE v >= 0 /\ v <= 655350

(* What is wrong with one cell: at most one thing.                         *)
CellFaults(v) ==
    IF ~Plausible(v) THEN {"SENSOR_ERR"}
    ELSE IF v > 42000 THEN {"OVERVOLTAGE"}
    ELSE IF v < 28000 THEN {"UNDERVOLT"}
    ELSE {}

TemperatureFaults(t) == IF t > 960 THEN {"OVERTEMP"} ELSE {}

OfCells(voltages) == UNION {CellFaults(voltages[i]) : i \in Cells}
OfSensors(temps) == UNION {TemperatureFaults(temps[i]) : i \in Sensors}

Detected(voltages, temps) == OfCells(voltages) \cup OfSensors(temps)

(* The readings that the interlock is given: millivolts, truncated, and 0  *)
(* for one that makes no sense.                                            *)
Millivolts_Nearest(v) == IF Plausible(v) THEN (v + 5) \div 10 ELSE 0
Millivolts(v) == IF Plausible(v) THEN v \div 10 ELSE 0

OutOfRange(mv) == mv > 4200 \/ mv < 2800

(* SafetyInterlock_Evaluate, and what it leaves latched.  Its guards       *)
(* against a null pointer and a wrong number of cells never apply.         *)
Latches(voltages) == \E i \in Cells : OutOfRange(Millivolts(voltages[i]))

SafetyInterlock_Evaluate_Unlatched(latched, voltages) ==
    IF Latches(voltages) THEN "OPEN" ELSE "CLOSED"
SafetyInterlock_Evaluate(latched, voltages) ==
    IF latched \/ Latches(voltages) THEN "OPEN" ELSE "CLOSED"

LatchedAfter(latched, voltages) == IF Latches(voltages) THEN TRUE ELSE latched

Contactor_Control(close) == relay' = close

TIM2_IRQHandler ==
    LET temps == [i \in Sensors |-> I2C_Read_Temperature(i)]
        detected == Detected(cell_voltages, temps)
        evaluated == SafetyInterlock_Evaluate(System_Is_Latched_Fault, cell_voltages)
        fault == detected # {} \/ evaluated = "OPEN"
    IN  /\ temperatures' = temps
        /\ active_faults' = active_faults \cup detected
        /\ System_Is_Latched_Fault' =
              LatchedAfter(System_Is_Latched_Fault, cell_voltages)
        /\ \/ /\ fault
              /\ state' = "FAULT"
              /\ Contactor_Control(FALSE)
           \/ /\ ~fault /\ state = "NORMAL"
              /\ Contactor_Control(TRUE)
              /\ UNCHANGED state
           \/ /\ ~fault /\ state = "FAULT"
              /\ UNCHANGED <<state, relay>>
        /\ UNCHANGED <<stimulus_vars, cell_vars>>

Next ==
    \/ \E overtemp, undervolt \in BOOLEAN : Inject(overtemp, undervolt)
    \/ \E i \in Cells, v \in TestVoltages : WriteReading(i, v)
    \/ ClearOvertemp
    \/ Simulate_ADC_Conversion
    \/ TIM2_IRQHandler

Spec == Init /\ [][Next]_vars

-----------------------------------------------------------------------------
(* Properties.                                                             *)

(* The contactor opens on every fault and closes again only after          *)
(* clearing; after a voltage fault it never does, although the             *)
(* demonstration sets the state back to normal over the interlock's latch  *)
(* (main.c:47-52, timer_isr.c:111-127).                                    *)
Abstract == INSTANCE Contactor WITH
    closed <- relay,
    tripped <- (state = "FAULT"),
    locked <- System_Is_Latched_Fault

ImplementsContactor == Abstract!Spec

(* A cell that the timer interrupt found too low or without a sensible     *)
(* reading has latched the interlock, which judges the truncated reading   *)
(* by itself (timer_isr.c:92-110, safety_interlock.c:32-42).               *)
LowCellsLatch ==
    active_faults \cap {"UNDERVOLT", "SENSOR_ERR"} # {} => System_Is_Latched_Fault

(* The same of every voltage fault, as README.md:12-13 says of the safety  *)
(* controller ("over/undervoltage, ... and a voltage fault latch").        *)
VoltageFaultsLatch ==
    active_faults \cap {"UNDERVOLT", "OVERVOLTAGE"} # {} => System_Is_Latched_Fault
=============================================================================
