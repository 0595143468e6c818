------------------------- MODULE BaremetalBenchProofs -------------------------
(***************************************************************************)
(* Theorems about the bare-metal bench, for every value of its constants.  *)
(***************************************************************************)
EXTENDS BaremetalBench, BenchAppProofs

-----------------------------------------------------------------------------
(* Type correctness of every reachable state of the loop.                  *)
THEOREM TypeCorrect == Spec => []TypeOK
  <1> USE ControllerAssumption, BaremetalAssumption
  <1>1. Init => TypeOK
    <2> SUFFICES ASSUME Init PROVE TypeOK
      OBVIOUS
    <2>1. now \in Times
      <3>1. phase \in Int
        BY DEF Init
      <3> QED
        BY <3>1, ModInRange DEF Init, Times
    <2>2. ZeroSample(0) \in Sample
      BY ZeroSampleType, ZeroInTimes
    <2>3. ZeroCommand \in Command /\ control_init \in Control
      BY DEF ZeroCommand, Command, control_init, Control, Counts
    <2>4. /\ sample \in Sample /\ next \in Sample
          /\ command \in Command /\ control \in Control
      BY <2>2, <2>3 DEF Init
    <2>5. /\ phase \in 0 .. TimerPeriod - 1 /\ busy \in Nat
          /\ {pending_ticks, consumed} \subseteq 0 .. TickModulus - 1
          /\ asked \in Nat /\ honoured \in Nat
      BY DEF Init
    <2>6. /\ uif \in BOOLEAN /\ sensor_ready \in BOOLEAN /\ output \in BOOLEAN
          /\ pc = "poll"
      BY DEF Init
    <2> QED
      BY <2>1, <2>4, <2>5, <2>6 DEF TypeOK, Steps
  <1>2. TypeOK /\ [Next]_vars => TypeOK'
    <2> SUFFICES ASSUME TypeOK, [Next]_vars PROVE TypeOK'
      OBVIOUS
    <2> USE DEF clock_vars, acquire_vars, decision_vars
    <2>1. CASE Tick
      <3>1. now' \in Times /\ phase' \in 0 .. TimerPeriod - 1
        <4>1. now + 1 \in Int /\ phase + 1 \in Int
          BY DEF TypeOK, Times
        <4>2. (now + 1) % TimeModulus \in 0 .. TimeModulus - 1
          BY <4>1, ModInRange
        <4>3. (phase + 1) % TimerPeriod \in 0 .. TimerPeriod - 1
          BY <4>1, ModInRange
        <4> QED
          BY <2>1, <4>2, <4>3 DEF Tick, Times
      <3>2. uif' \in BOOLEAN /\ busy' \in Nat
        BY <2>1 DEF Tick, TypeOK
      <3> QED
        BY <2>1, <3>1, <3>2 DEF Tick, TypeOK
    <2>2. CASE TIM2_IRQHandler
      <3>1. (pending_ticks + 1) % TickModulus \in 0 .. TickModulus - 1
        <4>1. pending_ticks + 1 \in Int
          BY DEF TypeOK
        <4> QED
          BY <4>1, ModInRange
      <3>2. pc' \in Steps
        BY <2>2 DEF TIM2_IRQHandler, Woken, TypeOK, Steps
      <3> QED
        BY <2>2, <3>1, <3>2 DEF TIM2_IRQHandler, TypeOK
    <2>3. CASE OtherInterrupt
      BY <2>3 DEF OtherInterrupt, Woken, TypeOK, Steps
    <2>4. ASSUME NEW c \in Chars, Poll(c)
          PROVE  TypeOK'
      <3>1. command' \in Command
        BY <2>4, CommandedType DEF Poll, TypeOK
      <3>2. asked' \in Nat
        BY <2>4 DEF Poll, TypeOK
      <3> QED
        BY <2>4, <3>1, <3>2 DEF Poll, TypeOK
    <2>5. CASE PollDone
      BY <2>5 DEF PollDone, TypeOK, Steps
    <2>6. CASE Test
      BY <2>6 DEF Test, TypeOK, Steps
    <2>7. CASE Consume
      BY <2>7, NextSampleType DEF Consume, TypeOK, Steps
    <2>8. ASSUME NEW ok \in BOOLEAN, SensorInit(ok)
          PROVE  TypeOK'
      BY <2>8 DEF SensorInit, TypeOK, Steps
    <2>9. ASSUME NEW temperature \in Temperatures, ReadOk(temperature)
          PROVE  TypeOK'
      <3>1. next' \in Sample
        BY <2>9 DEF ReadOk, TypeOK, Sample
      <3> QED
        BY <2>9, <3>1 DEF ReadOk, TypeOK, Steps
    <2>10. CASE ReadFail
      BY <2>10 DEF ReadFail, TypeOK, Steps
    <2>11. ASSUME NEW adc_valid \in BOOLEAN, Adc(adc_valid)
          PROVE  TypeOK'
      <3>1. sample' \in Sample
        BY <2>11 DEF Adc, Stamped, TypeOK, Sample
      <3>2. next' \in Sample
        BY <2>11, ZeroSampleType, ZeroInTimes DEF Adc
      <3> QED
        BY <2>11, <3>1, <3>2 DEF Adc, TypeOK, Steps
    <2>12. CASE Step
      <3>1. control' \in Control
        <4>1. command.reset \in BOOLEAN /\ command.injected \in SUBSET FaultBits
          BY DEF TypeOK, Command
        <4> QED
          BY <2>12, <4>1, ControlStepType DEF Step, TypeOK
      <3>2. command' \in Command
        BY <2>12 DEF Step, Spent, TypeOK, Command
      <3>3. honoured' \in Nat
        BY <2>12 DEF Step, TypeOK
      <3> QED
        BY <2>12, <3>1, <3>2, <3>3 DEF Step, TypeOK, Steps
    <2>13. CASE Output
      BY <2>13 DEF Output, TypeOK, Steps, Control
    <2>14. CASE Sleep
      BY <2>14 DEF Sleep, TypeOK, Steps
    <2>15. CASE UNCHANGED vars
      BY <2>15 DEF vars, TypeOK
    <2> QED
      BY <2>1, <2>2, <2>3, <2>4, <2>5, <2>6, <2>7, <2>8, <2>9, <2>10, <2>11,
         <2>12, <2>13, <2>14, <2>15
      DEF Next, MainLoop
  <1>3. QED
    BY <1>1, <1>2, PTL DEF Spec

-----------------------------------------------------------------------------
(* What the refinement needs of every reachable state.                     *)
Decided == PaidInv /\ DecisionInv

(* No request is honoured twice, and the decision agrees with the latch.   *)
LEMMA DecisionInvariant == Spec => []Decided
  <1>1. Init => Decided
    <2> SUFFICES ASSUME Init PROVE Decided
      OBVIOUS
    <2>1. honoured = 0 /\ asked = 0 /\ ~command.reset
      BY DEF Init, ZeroCommand
    <2>2. ~control.output_enabled /\ output = control.output_enabled
      BY DEF Init, control_init
    <2> QED
      BY <2>1, <2>2 DEF Decided, PaidInv, DecisionInv, Counted
  <1>2. TypeOK /\ Decided /\ [Next]_vars => Decided'
    <2> SUFFICES ASSUME TypeOK, Decided, [Next]_vars PROVE Decided'
      OBVIOUS
    <2> USE DEF clock_vars, acquire_vars, decision_vars, Decided, PaidInv,
                DecisionInv, Counted
    <2>1. CASE Tick
      BY <2>1 DEF Tick
    <2>2. CASE TIM2_IRQHandler
      BY <2>2 DEF TIM2_IRQHandler, Woken
    <2>3. CASE OtherInterrupt
      BY <2>3 DEF OtherInterrupt, Woken
    <2>4. ASSUME NEW c \in Chars, Poll(c)
          PROVE  Decided'
      <3>1. CASE c = "r"
        BY <2>4, <3>1 DEF Poll, TypeOK
      <3>2. CASE c # "r"
        BY <2>4, <3>2, CommandedReset DEF Poll, TypeOK
      <3> QED
        BY <3>1, <3>2
    <2>5. CASE PollDone
      BY <2>5 DEF PollDone
    <2>6. CASE Test
      BY <2>6 DEF Test
    <2>7. CASE Consume
      BY <2>7 DEF Consume
    <2>8. ASSUME NEW ok \in BOOLEAN, SensorInit(ok)
          PROVE  Decided'
      BY <2>8 DEF SensorInit
    <2>9. ASSUME NEW temperature \in Temperatures, ReadOk(temperature)
          PROVE  Decided'
      BY <2>9 DEF ReadOk
    <2>10. CASE ReadFail
      BY <2>10 DEF ReadFail
    <2>11. ASSUME NEW adc_valid \in BOOLEAN, Adc(adc_valid)
          PROVE  Decided'
      BY <2>11 DEF Adc
    <2>12. CASE Step
      <3>1. /\ command.reset \in BOOLEAN /\ command.injected \in SUBSET FaultBits
            /\ control \in Control
        BY DEF TypeOK, Command
      <3>2. /\ control' = control_step(control, sample, now, command.reset,
                                       command.injected)
            /\ ~command'.reset /\ asked' = asked /\ pc' = "output"
        BY <2>12 DEF Step, Spent, TypeOK, Command
      <3>3. DecisionInv'
        <4>1. control'.output_enabled => control'.faults = {}
          BY <3>1, <3>2, StepLatches
        <4> QED
          BY <3>2, <4>1
      <3>4. PaidInv'
        <4>1. CASE control.faults # {} /\ control'.faults = {}
          <5>1. command.reset
            BY <3>1, <3>2, <4>1, ClearingNeedsReset DEF TypeOK
          <5> QED
            BY <2>12, <3>2, <4>1, <5>1 DEF Step, TypeOK
        <4>2. CASE ~(control.faults # {} /\ control'.faults = {})
          BY <2>12, <3>2, <4>2 DEF Step, TypeOK
        <4> QED
          BY <4>1, <4>2
      <3> QED
        BY <3>3, <3>4
    <2>13. CASE Output
      BY <2>13 DEF Output
    <2>14. CASE Sleep
      BY <2>14 DEF Sleep
    <2>15. CASE UNCHANGED vars
      BY <2>15 DEF vars
    <2> QED
      BY <2>1, <2>2, <2>3, <2>4, <2>5, <2>6, <2>7, <2>8, <2>9, <2>10, <2>11,
         <2>12, <2>13, <2>14, <2>15
      DEF Next, MainLoop
  <1>3. QED
    BY <1>1, <1>2, TypeCorrect, PTL DEF Spec

-----------------------------------------------------------------------------
(* The bare-metal bench implements the fault latch, too: Step trips,       *)
(* enables, recovers or stutters, Poll asks, and nothing else touches what *)
(* the latch is made of.                                                   *)
THEOREM BaremetalImplementsFaultLatch == Spec => ImplementsFaultLatch
  <1>1. Init => Latch!Init
    BY DEF Init, Latch!Init, control_init
  <1>2. TypeOK /\ Decided /\ [Next]_vars => [Latch!Next]_(Latch!vars)
    <2> SUFFICES ASSUME TypeOK, Decided, [Next]_vars
                 PROVE  Latch!Next \/ UNCHANGED Latch!vars
      BY DEF Latch!vars
    <2> USE DEF clock_vars, acquire_vars, decision_vars, Latch!vars
    <2>1. CASE Tick
      BY <2>1 DEF Tick
    <2>2. CASE TIM2_IRQHandler
      BY <2>2 DEF TIM2_IRQHandler
    <2>3. CASE OtherInterrupt
      BY <2>3 DEF OtherInterrupt
    <2>4. ASSUME NEW c \in Chars, Poll(c)
          PROVE  Latch!Next \/ UNCHANGED Latch!vars
      BY <2>4 DEF Poll, Latch!Next, Latch!Ask
    <2>5. CASE PollDone
      BY <2>5 DEF PollDone
    <2>6. CASE Test
      BY <2>6 DEF Test
    <2>7. CASE Consume
      BY <2>7 DEF Consume
    <2>8. ASSUME NEW ok \in BOOLEAN, SensorInit(ok)
          PROVE  Latch!Next \/ UNCHANGED Latch!vars
      BY <2>8 DEF SensorInit
    <2>9. ASSUME NEW temperature \in Temperatures, ReadOk(temperature)
          PROVE  Latch!Next \/ UNCHANGED Latch!vars
      BY <2>9 DEF ReadOk
    <2>10. CASE ReadFail
      BY <2>10 DEF ReadFail
    <2>11. ASSUME NEW adc_valid \in BOOLEAN, Adc(adc_valid)
          PROVE  Latch!Next \/ UNCHANGED Latch!vars
      BY <2>11 DEF Adc
    <2>12. CASE Step
      <3> DEFINE active == sample_faults(sample, now) \cup command.injected
      <3>1. /\ control' = control_step(control, sample, now, command.reset,
                                       command.injected)
            /\ asked' = asked
            /\ honoured' = IF control.faults # {} /\ control'.faults = {}
                           THEN honoured + 1 ELSE honoured
        BY <2>12 DEF Step
      <3>2. active \in SUBSET FaultBits
        BY SampleFaultsType DEF TypeOK, Command
      <3>3. /\ control'.faults = LatchedAfter(control.faults, active, command.reset)
            /\ control'.output_enabled = (active = {} /\ control'.faults = {})
        BY <3>1 DEF control_step
      <3>4. control.output_enabled => control.faults = {}
        BY DEF Decided, DecisionInv
      <3>5. control.output_enabled \in BOOLEAN
        BY DEF TypeOK, Control
      <3> HIDE DEF active
      <3>6. CASE active # {}
        <4>1. /\ control'.faults = control.faults \cup active
              /\ control'.output_enabled = FALSE /\ honoured' = honoured
          BY <3>1, <3>3, <3>6 DEF LatchedAfter
        <4>2. active \in (SUBSET FaultBits) \ {{}}
          BY <3>2, <3>6
        <4>3. Latch!Trip
          BY <3>1, <4>1, <4>2 DEF Latch!Trip
        <4> QED
          BY <4>3 DEF Latch!Next
      <3>7. CASE active = {} /\ control.faults = {}
        <4>1. /\ control'.faults = {} /\ control'.output_enabled = TRUE
              /\ honoured' = honoured
          BY <3>1, <3>3, <3>7 DEF LatchedAfter
        <4>2. Latch!Enable
          BY <3>1, <3>7, <4>1 DEF Latch!Enable
        <4> QED
          BY <4>2 DEF Latch!Next
      <3>8. CASE active = {} /\ control.faults # {} /\ command.reset
        <4>1. /\ control'.faults = {} /\ control'.output_enabled = TRUE
              /\ honoured' = honoured + 1
          BY <3>1, <3>3, <3>8 DEF LatchedAfter
        <4>2. honoured < asked
          BY <2>12, <3>8 DEF Step, Decided, PaidInv, Counted, TypeOK
        <4>3. Latch!Recover
          BY <3>1, <3>8, <4>1, <4>2 DEF Latch!Recover
        <4> QED
          BY <4>3 DEF Latch!Next
      <3>9. CASE active = {} /\ control.faults # {} /\ ~command.reset
        <4>1. /\ control'.faults = control.faults
              /\ control'.output_enabled = FALSE /\ honoured' = honoured
          BY <3>1, <3>3, <3>9 DEF LatchedAfter
        <4>2. control.output_enabled = FALSE
          BY <3>4, <3>5, <3>9
        <4> QED
          BY <3>1, <4>1, <4>2
      <3> QED
        BY <3>6, <3>7, <3>8, <3>9
    <2>13. CASE Output
      BY <2>13 DEF Output
    <2>14. CASE Sleep
      BY <2>14 DEF Sleep
    <2>15. CASE UNCHANGED vars
      BY <2>15 DEF vars
    <2> QED
      BY <2>1, <2>2, <2>3, <2>4, <2>5, <2>6, <2>7, <2>8, <2>9, <2>10, <2>11,
         <2>12, <2>13, <2>14, <2>15
      DEF Next, MainLoop
  <1>3. QED
    BY <1>1, <1>2, TypeCorrect, DecisionInvariant, PTL
    DEF Spec, ImplementsFaultLatch, Latch!Spec

-----------------------------------------------------------------------------
(* With the sensor lost the pin is off before it is initialised again.     *)
LEMMA SensorInvariant == Spec => []SensorInv
  <1>1. Init => SensorInv
    BY DEF Init, SensorInv
  <1>2. TypeOK /\ SensorInv /\ DecisionInv /\ [Next]_vars => SensorInv'
    <2> SUFFICES ASSUME TypeOK, SensorInv, DecisionInv, [Next]_vars PROVE SensorInv'
      OBVIOUS
    <2> USE DEF clock_vars, acquire_vars, decision_vars, SensorInv
    <2>1. CASE Tick
      BY <2>1 DEF Tick
    <2>2. CASE TIM2_IRQHandler
      BY <2>2 DEF TIM2_IRQHandler, Woken
    <2>3. CASE OtherInterrupt
      BY <2>3 DEF OtherInterrupt, Woken
    <2>4. ASSUME NEW c \in Chars, Poll(c)
          PROVE  SensorInv'
      BY <2>4 DEF Poll
    <2>5. CASE PollDone
      BY <2>5 DEF PollDone
    <2>6. CASE Test
      BY <2>6 DEF Test
    <2>7. CASE Consume
      <3>1. ~NextSample.sensor_valid
        BY DEF NextSample, ZeroSample
      <3> QED
        BY <2>7, <3>1 DEF Consume
    <2>8. ASSUME NEW ok \in BOOLEAN, SensorInit(ok)
          PROVE  SensorInv'
      BY <2>8 DEF SensorInit
    <2>9. ASSUME NEW temperature \in Temperatures, ReadOk(temperature)
          PROVE  SensorInv'
      BY <2>9 DEF ReadOk
    <2>10. CASE ReadFail
      BY <2>10 DEF ReadFail
    <2>11. ASSUME NEW adc_valid \in BOOLEAN, Adc(adc_valid)
          PROVE  SensorInv'
      <3>1. sample'.sensor_valid = next.sensor_valid
        BY <2>11 DEF Adc, Stamped, TypeOK, Sample
      <3> QED
        BY <2>11, <3>1 DEF Adc
    <2>12. CASE Step
      <3>1. ~sample.sensor_valid => "SENSOR" \in sample_faults(sample, now)
        BY DEF sample_faults, Raises, FaultBits
      <3>2. control'.output_enabled => sample_faults(sample, now) = {}
        <4>1. control \in Control /\ command.reset \in BOOLEAN
              /\ command.injected \in SUBSET FaultBits
          BY DEF TypeOK, Command
        <4> QED
          BY <2>12, <4>1, StepLatches DEF Step
      <3> QED
        BY <2>12, <3>1, <3>2 DEF Step
    <2>13. CASE Output
      BY <2>13 DEF Output, TypeOK, Control
    <2>14. CASE Sleep
      BY <2>14 DEF Sleep
    <2>15. CASE UNCHANGED vars
      BY <2>15 DEF vars
    <2> QED
      BY <2>1, <2>2, <2>3, <2>4, <2>5, <2>6, <2>7, <2>8, <2>9, <2>10, <2>11,
         <2>12, <2>13, <2>14, <2>15
      DEF Next, MainLoop
  <1>3. Decided => DecisionInv
    BY DEF Decided
  <1> QED
    BY <1>1, <1>2, <1>3, TypeCorrect, DecisionInvariant, PTL DEF Spec

-----------------------------------------------------------------------------
(* The ticks that wait.                                                    *)

(* The difference of two counters below the modulus.                       *)
LEMMA DifferenceIs ==
    ASSUME NEW m \in Nat \ {0}, NEW a \in 0 .. m - 1, NEW b \in 0 .. m - 1
    PROVE  (a - b) % m = IF b <= a THEN a - b ELSE a - b + m
  <1>1. CASE b <= a
    <2>1. a - b \in 0 .. m - 1
      BY <1>1
    <2> QED
      BY <1>1, <2>1, ModSmall
  <1>2. CASE a < b
    BY <1>2, ModNegative
  <1> QED
    BY <1>1, <1>2

(* No tick waits exactly when the counters agree.                          *)
LEMMA WaitingType ==
    ASSUME TypeOK
    PROVE  /\ Waiting \in 0 .. TickModulus - 1
           /\ Waiting = 0 <=> pending_ticks = consumed
           /\ Coalesced \in Nat
           /\ pending_ticks = consumed => Coalesced = 0
           /\ Progress \in 0 .. TimerPeriod
  <1>1. /\ TickModulus \in Nat \ {0} /\ TimerPeriod \in Nat \ {0}
        /\ pending_ticks \in 0 .. TickModulus - 1
        /\ consumed \in 0 .. TickModulus - 1
    BY BaremetalAssumption DEF TypeOK
  <1>2. /\ Waiting \in 0 .. TickModulus - 1
        /\ Waiting = 0 <=> pending_ticks = consumed
    BY <1>1, DifferenceIs DEF Waiting
  <1>3. Coalesced \in Nat
    BY <1>1, <1>2 DEF Coalesced
  <1>4. Waiting = 0 => Coalesced = 0
    BY <1>1 DEF Coalesced
  <1>5. Progress \in 0 .. TimerPeriod
    BY <1>1 DEF Progress, TypeOK
  <1> QED
    BY <1>2, <1>3, <1>4, <1>5

(* A tick adds to those that wait: they never come full circle.            *)
LEMMA OneMoreWaits ==
    ASSUME TypeOK, WaitingInv, TIM2_IRQHandler
    PROVE  Waiting' = Waiting + 1 /\ Coalesced' = Coalesced + TimerPeriod
  <1>1. /\ TickModulus \in Nat \ {0} /\ TimerPeriod \in Nat \ {0}
        /\ pending_ticks \in 0 .. TickModulus - 1
        /\ consumed \in 0 .. TickModulus - 1
    BY BaremetalAssumption DEF TypeOK
  <1>2. Waiting \in 0 .. TickModulus - 1 /\ Coalesced \in Nat
    BY WaitingType
  <1>3. Coalesced + TimerPeriod <= InitMax + ReadMax + 2 * TimerPeriod
    <2>1. busy \in Nat /\ InitMax \in Nat /\ ReadMax \in Nat /\ pc \in Steps
      BY BaremetalAssumption DEF TypeOK
    <2>2. uif /\ Progress = TimerPeriod
      BY DEF TIM2_IRQHandler, Progress
    <2> QED
      BY <1>1, <1>2, <2>1, <2>2 DEF WaitingInv, Steps
  <1>4. (Waiting + 1) * TimerPeriod = Coalesced + TimerPeriod
    BY <1>1, <1>2 DEF Coalesced
  <1>5. (Waiting + 1) * TimerPeriod < TickModulus * TimerPeriod
    <2>1. /\ InitMax \in Nat /\ ReadMax \in Nat
          /\ TickModulus * TimerPeriod \in Nat
      BY <1>1, BaremetalAssumption
    <2> QED
      BY <1>1, <1>2, <1>3, <1>4, <2>1, TickAssumption
  <1>6. Waiting + 1 < TickModulus
    <2> SUFFICES ASSUME Waiting + 1 >= TickModulus PROVE FALSE
      BY <1>1, <1>2
    <2>1. Waiting + 1 = TickModulus
      BY <1>1, <1>2
    <2> QED
      BY <1>1, <1>5, <2>1
  <1>7. (pending_ticks' - consumed) % TickModulus = Waiting + 1
    <2>1. /\ pending_ticks' = IF pending_ticks + 1 < TickModulus
                              THEN pending_ticks + 1 ELSE 0
          /\ pending_ticks' \in 0 .. TickModulus - 1
      BY <1>1, CountOn DEF TIM2_IRQHandler
    <2>2. (pending_ticks' - consumed) % TickModulus =
              IF consumed <= pending_ticks' THEN pending_ticks' - consumed
              ELSE pending_ticks' - consumed + TickModulus
      BY <1>1, <2>1, DifferenceIs
    <2>3. Waiting = IF consumed <= pending_ticks THEN pending_ticks - consumed
                    ELSE pending_ticks - consumed + TickModulus
      BY <1>1, DifferenceIs DEF Waiting
    <2> QED
      BY <1>1, <1>6, <2>1, <2>2, <2>3
  <1>8. Waiting' = Waiting + 1
    BY <1>7 DEF Waiting, TIM2_IRQHandler
  <1> QED
    BY <1>4, <1>8 DEF Coalesced

(* Nothing else adds to them.                                              *)
LEMMA WaitingSame ==
    ASSUME UNCHANGED <<pending_ticks, consumed>>
    PROVE  Waiting' = Waiting /\ Coalesced' = Coalesced
  BY DEF Waiting, Coalesced

(* As many ticks wait as the time since Consume allows.                    *)
LEMMA WaitingInvariant == Spec => []WaitingInv
  <1>1. Init => WaitingInv
    <2> SUFFICES ASSUME Init PROVE WaitingInv
      OBVIOUS
    <2>1. Coalesced = 0
      BY BaremetalAssumption DEF Init, Coalesced, Waiting
    <2> QED
      BY <2>1, BaremetalAssumption DEF Init, WaitingInv
  <1>2. TypeOK /\ WaitingInv /\ [Next]_vars => WaitingInv'
    <2> SUFFICES ASSUME TypeOK, WaitingInv, [Next]_vars PROVE WaitingInv'
      OBVIOUS
    <2>n. /\ TimerPeriod \in Nat \ {0} /\ InitMax \in Nat /\ ReadMax \in Nat
          /\ busy \in Nat /\ phase \in 0 .. TimerPeriod - 1 /\ uif \in BOOLEAN
          /\ Coalesced \in Nat
      BY WaitingType, BaremetalAssumption DEF TypeOK
    <2> USE <2>n DEF clock_vars, acquire_vars, decision_vars, WaitingInv, Progress
    <2>1. CASE Tick
      <3>1. /\ phase' = IF phase + 1 < TimerPeriod THEN phase + 1 ELSE 0
            /\ uif' = (phase' = 0)
        BY <2>1, CountOn DEF Tick
      <3>2. Coalesced' = Coalesced
        BY <2>1, WaitingSame DEF Tick
      <3> QED
        BY <2>1, <3>1, <3>2 DEF Tick, TimeMayPass
    <2>2. CASE TIM2_IRQHandler
      <3>1. Coalesced' = Coalesced + TimerPeriod
        BY <2>2, OneMoreWaits
      <3> QED
        BY <2>2, <3>1 DEF TIM2_IRQHandler, Woken
    <2>3. CASE OtherInterrupt
      <3>1. Coalesced' = Coalesced
        BY <2>3, WaitingSame DEF OtherInterrupt
      <3> QED
        BY <2>3, <3>1 DEF OtherInterrupt, Woken
    <2>4. ASSUME NEW c \in Chars, Poll(c)
          PROVE  WaitingInv'
      <3>1. Coalesced' = Coalesced
        BY <2>4, WaitingSame DEF Poll
      <3> QED
        BY <2>4, <3>1 DEF Poll
    <2>5. CASE PollDone
      <3>1. Coalesced' = Coalesced
        BY <2>5, WaitingSame DEF PollDone
      <3> QED
        BY <2>5, <3>1 DEF PollDone
    <2>6. CASE Test
      <3>1. Coalesced' = Coalesced
        BY <2>6, WaitingSame DEF Test
      <3>2. pending_ticks = consumed => Coalesced = 0
        BY WaitingType
      <3> QED
        BY <2>6, <3>1, <3>2 DEF Test, TickPending
    <2>7. CASE Consume
      <3>1. Coalesced' = 0
        <4>1. pending_ticks' = pending_ticks /\ consumed' = pending_ticks
              /\ pending_ticks \in Nat /\ TickModulus \in Nat \ {0}
          BY <2>7, BaremetalAssumption DEF Consume, TypeOK
        <4> QED
          BY <4>1 DEF Coalesced, Waiting
      <3> QED
        BY <2>7, <3>1 DEF Consume
    <2>8. ASSUME NEW ok \in BOOLEAN, SensorInit(ok)
          PROVE  WaitingInv'
      <3>1. Coalesced' = Coalesced
        BY <2>8, WaitingSame DEF SensorInit
      <3> QED
        BY <2>8, <3>1 DEF SensorInit
    <2>9. ASSUME NEW temperature \in Temperatures, ReadOk(temperature)
          PROVE  WaitingInv'
      <3>1. Coalesced' = Coalesced
        BY <2>9, WaitingSame DEF ReadOk
      <3> QED
        BY <2>9, <3>1 DEF ReadOk
    <2>10. CASE ReadFail
      <3>1. Coalesced' = Coalesced
        BY <2>10, WaitingSame DEF ReadFail
      <3> QED
        BY <2>10, <3>1 DEF ReadFail
    <2>11. ASSUME NEW adc_valid \in BOOLEAN, Adc(adc_valid)
          PROVE  WaitingInv'
      <3>1. Coalesced' = Coalesced
        BY <2>11, WaitingSame DEF Adc
      <3> QED
        BY <2>11, <3>1 DEF Adc
    <2>12. CASE Step
      <3>1. Coalesced' = Coalesced
        BY <2>12, WaitingSame DEF Step
      <3> QED
        BY <2>12, <3>1 DEF Step
    <2>13. CASE Output
      <3>1. Coalesced' = Coalesced
        BY <2>13, WaitingSame DEF Output
      <3> QED
        BY <2>13, <3>1 DEF Output
    <2>14. CASE Sleep
      <3>1. Coalesced' = Coalesced
        BY <2>14, WaitingSame DEF Sleep
      <3> QED
        BY <2>14, <3>1 DEF Sleep
    <2>15. CASE UNCHANGED vars
      <3>1. Coalesced' = Coalesced
        BY <2>15, WaitingSame DEF vars
      <3> QED
        BY <2>15, <3>1 DEF vars
    <2> QED
      BY <2>1, <2>2, <2>3, <2>4, <2>5, <2>6, <2>7, <2>8, <2>9, <2>10, <2>11,
         <2>12, <2>13, <2>14, <2>15
      DEF Next, MainLoop
  <1> QED
    BY <1>1, <1>2, TypeCorrect, PTL DEF Spec

-----------------------------------------------------------------------------
(* The age of the sample behind the pin.                                   *)

(* A step that leaves clock and sample alone leaves the age alone.         *)
LEMMA AgeSame ==
    ASSUME UNCHANGED <<now, sample>>
    PROVE  Age' = Age
  BY DEF Age

(* How old the sample is at each statement of the loop.                    *)
LEMMA AgeInvariant == Spec => []AgeInv
  <1>1. Init => AgeInv
    <2> SUFFICES ASSUME Init PROVE AgeInv
      OBVIOUS
    <2>1. phase \in Nat /\ TimeModulus \in Nat \ {0} /\ TimerPeriod \in Nat \ {0}
          /\ phase < TimerPeriod
      BY ControllerAssumption, BaremetalAssumption DEF Init
    <2>2. sample.sampled_ms = 0 /\ now = phase % TimeModulus
      BY DEF Init, ZeroSample
    <2>3. now \in 0 .. TimeModulus - 1 /\ now <= phase
      BY <2>1, <2>2
    <2>4. Age = now
      BY <2>1, <2>2, <2>3, ModSmall DEF Age, Elapsed
    <2> QED
      BY <2>1, <2>3, <2>4 DEF Init, AgeInv, Progress
  <1>2. TypeOK /\ AgeInv /\ WaitingInv /\ SensorInv /\ [Next]_vars => AgeInv'
    <2> SUFFICES ASSUME TypeOK, AgeInv, WaitingInv, SensorInv, [Next]_vars
                 PROVE  AgeInv'
      OBVIOUS
    <2>n. /\ TimerPeriod \in Nat \ {0} /\ ReadMax \in Nat /\ busy \in Nat
          /\ phase \in 0 .. TimerPeriod - 1 /\ uif \in BOOLEAN
          /\ Waiting \in Nat /\ Age \in Nat
          /\ Waiting = 0 <=> pending_ticks = consumed
      BY WaitingType, BaremetalAssumption, ElapsedType DEF TypeOK, Age, Sample
    <2> USE <2>n DEF clock_vars, acquire_vars, decision_vars, AgeInv, Progress
    <2>1. CASE Tick
      <3>1. /\ phase' = IF phase + 1 < TimerPeriod THEN phase + 1 ELSE 0
            /\ uif' = (phase' = 0)
        BY <2>1, CountOn DEF Tick
      <3>2. Age' <= Age + 1 /\ Age' \in Nat
        <4>1. now \in Times /\ now' \in Times /\ sample.sampled_ms \in Times
          BY <2>1, ModInRange, ControllerAssumption DEF Tick, TypeOK, Sample, Times
        <4>2. now' = (now + 1) % TimeModulus /\ sample' = sample
          BY <2>1 DEF Tick
        <4> QED
          BY <4>1, <4>2, AgesByOne, ElapsedType DEF Age
      <3>3. Waiting' = Waiting
        BY <2>1, WaitingSame DEF Tick
      <3>4. /\ pc' = pc /\ output' = output /\ ~uif
            /\ (pc = "read" => busy' = busy + 1)
            /\ pc \in {"sleep", "init", "read"}
        BY <2>1 DEF Tick, TimeMayPass
      <3>5. Progress' = Progress + 1
        <4>1. Progress = phase /\ Progress' = IF uif' THEN TimerPeriod ELSE phase'
          BY <3>4
        <4>2. CASE phase + 1 < TimerPeriod
          <5>1. phase' = phase + 1 /\ phase' # 0
            BY <3>1, <4>2
          <5>2. ~uif'
            BY <3>1, <5>1, Zenon
          <5>3. Progress' = phase'
            BY <4>1, <5>2, Zenon
          <5> QED
            BY <4>1, <5>1, <5>3
        <4>3. CASE ~(phase + 1 < TimerPeriod)
          <5>1. phase' = 0 /\ TimerPeriod = phase + 1
            BY <3>1, <4>3
          <5>2. uif'
            BY <3>1, <5>1, Zenon
          <5>3. Progress' = TimerPeriod
            BY <4>1, <5>2, Zenon
          <5> QED
            BY <4>1, <5>1, <5>3
        <4> QED
          BY <4>2, <4>3
      <3>8. Progress \in Nat
        BY <2>n
      <3> HIDE DEF Progress
      <3>6. Age <= Progress => Age' <= Progress'
        BY <3>2, <3>8, <3>5
      <3>7. Age <= TimerPeriod + Progress => Age' <= TimerPeriod + Progress'
        BY <3>2, <3>8, <3>5
      <3> QED
        BY <3>2, <3>3, <3>4, <3>6, <3>7 DEF SensorInv
    <2>2. CASE TIM2_IRQHandler
      <3>1. Waiting' = Waiting + 1
        BY <2>2, OneMoreWaits
      <3>2. Age' = Age
        BY <2>2, AgeSame DEF TIM2_IRQHandler
      <3> QED
        BY <2>2, <3>1, <3>2 DEF TIM2_IRQHandler, Woken, WaitingInv
    <2>3. CASE OtherInterrupt
      <3>1. Waiting' = Waiting /\ Age' = Age
        BY <2>3, WaitingSame, AgeSame DEF OtherInterrupt
      <3> QED
        BY <2>3, <3>1 DEF OtherInterrupt, Woken
    <2>4. ASSUME NEW c \in Chars, Poll(c)
          PROVE  AgeInv'
      <3>1. Waiting' = Waiting /\ Age' = Age
        BY <2>4, WaitingSame, AgeSame DEF Poll
      <3> QED
        BY <2>4, <3>1 DEF Poll
    <2>5. CASE PollDone
      <3>1. Waiting' = Waiting /\ Age' = Age
        BY <2>5, WaitingSame, AgeSame DEF PollDone
      <3> QED
        BY <2>5, <3>1 DEF PollDone
    <2>6. CASE Test
      <3>1. Waiting' = Waiting /\ Age' = Age
        BY <2>6, WaitingSame, AgeSame DEF Test
      <3> QED
        BY <2>6, <3>1 DEF Test, TickPending
    <2>7. CASE Consume
      <3>1. Age' = Age
        BY <2>7, AgeSame DEF Consume
      <3>2. pc' = IF sensor_ready THEN "read" ELSE "init"
        BY <2>7 DEF Consume
      <3> QED
        BY <2>7, <3>1, <3>2 DEF Consume, SensorInv
    <2>8. ASSUME NEW ok \in BOOLEAN, SensorInit(ok)
          PROVE  AgeInv'
      <3>1. Waiting' = Waiting /\ Age' = Age
        BY <2>8, WaitingSame, AgeSame DEF SensorInit
      <3> QED
        BY <2>8, <3>1 DEF SensorInit, SensorInv
    <2>9. ASSUME NEW temperature \in Temperatures, ReadOk(temperature)
          PROVE  AgeInv'
      <3>1. Waiting' = Waiting /\ Age' = Age
        BY <2>9, WaitingSame, AgeSame DEF ReadOk
      <3> QED
        BY <2>9, <3>1 DEF ReadOk, WaitingInv
    <2>10. CASE ReadFail
      <3>1. Waiting' = Waiting /\ Age' = Age
        BY <2>10, WaitingSame, AgeSame DEF ReadFail
      <3> QED
        BY <2>10, <3>1 DEF ReadFail, WaitingInv
    <2>11. ASSUME NEW adc_valid \in BOOLEAN, Adc(adc_valid)
          PROVE  AgeInv'
      <3>1. Age' = 0
        <4>1. sample'.sampled_ms = now /\ now' = now /\ now \in Times
          BY <2>11 DEF Adc, Stamped, TypeOK, Sample
        <4> QED
          BY <4>1, ElapsedSelf DEF Age
      <3> QED
        BY <2>11, <3>1 DEF Adc
    <2>12. CASE Step
      <3>1. Waiting' = Waiting /\ Age' = Age
        BY <2>12, WaitingSame, AgeSame DEF Step
      <3> QED
        BY <2>12, <3>1 DEF Step
    <2>13. CASE Output
      <3>1. Waiting' = Waiting /\ Age' = Age
        BY <2>13, WaitingSame, AgeSame DEF Output
      <3> QED
        BY <2>13, <3>1 DEF Output
    <2>14. CASE Sleep
      <3>1. Waiting' = Waiting /\ Age' = Age
        BY <2>14, WaitingSame, AgeSame DEF Sleep
      <3> QED
        BY <2>14, <3>1 DEF Sleep
    <2>15. CASE UNCHANGED vars
      <3>1. Waiting' = Waiting /\ Age' = Age
        BY <2>15, WaitingSame, AgeSame DEF vars
      <3> QED
        BY <2>15, <3>1 DEF vars
    <2> QED
      BY <2>1, <2>2, <2>3, <2>4, <2>5, <2>6, <2>7, <2>8, <2>9, <2>10, <2>11,
         <2>12, <2>13, <2>14, <2>15
      DEF Next, MainLoop
  <1> QED
    BY <1>1, <1>2, TypeCorrect, WaitingInvariant, SensorInvariant, PTL DEF Spec

(* The pin is never on with a sample older than two timer periods and a    *)
(* bus read.                                                               *)
THEOREM PinIsBounded == Spec => []PinBounded
  <1>1. TypeOK /\ AgeInv /\ WaitingInv /\ SensorInv => PinBounded
    <2> SUFFICES ASSUME TypeOK, AgeInv, WaitingInv, SensorInv, output
                 PROVE  Age <= 2 * TimerPeriod + ReadMax
      BY DEF PinBounded, Age
    <2>1. /\ TimerPeriod \in Nat \ {0} /\ ReadMax \in Nat /\ busy \in Nat
          /\ Progress \in 0 .. TimerPeriod /\ Age \in Nat /\ pc \in Steps
      BY WaitingType, BaremetalAssumption, ElapsedType DEF TypeOK, Age, Sample
    <2> QED
      BY <2>1 DEF AgeInv, WaitingInv, SensorInv, Steps
  <1> QED
    BY <1>1, TypeCorrect, AgeInvariant, WaitingInvariant, SensorInvariant, PTL
=============================================================================
