-------------------------- MODULE FreeRtosBenchProofs -------------------------
(***************************************************************************)
(* Theorems about the FreeRTOS bench, for every value of its constants.    *)
(***************************************************************************)
EXTENDS FreeRtosBench, BenchAppProofs

-----------------------------------------------------------------------------
(* Type correctness of every reachable state: every step of every task and *)
(* of the interrupt keeps the shared data, the queue's length, the drop    *)
(* counter and the tasks' locals in their types.                           *)
THEOREM TypeCorrect == Spec => []TypeOK
  <1>1. Init => TypeOK
    <2> SUFFICES ASSUME Init PROVE TypeOK
      OBVIOUS
    <2>1. now \in Times /\ phase \in 0 .. TimerPeriod - 1
      BY ControllerAssumption, BenchAssumption, ModInRange DEF Init, Times
    <2>2. latest \in Sample /\ sample \in Sample /\ seen \in Sample
      BY ZeroSampleType, ZeroInTimes DEF Init
    <2>3. control \in Control /\ bench_log_queue_drops \in Counts
      BY ControllerAssumption DEF Init, control_init, Control, Counts
    <2>4. command \in Command /\ incoming \in Command /\ current \in Command
      BY DEF Init, ZeroCommand, Command
    <2>5. log_queue \in 0 .. LogLength /\ busy \in Nat /\ due \in Int
          /\ asked \in Nat /\ honoured \in Nat
      BY BenchAssumption DEF Init
    <2> QED
      BY <2>1, <2>2, <2>3, <2>4, <2>5
      DEF Init, TypeOK, SensorSteps, ControlSteps
  <1>2. TypeOK /\ [Next]_vars => TypeOK'
    <2> SUFFICES ASSUME TypeOK, [Next]_vars PROVE TypeOK'
      OBVIOUS
    <2> USE DEF clock_vars, kernel_vars, shared_vars, sensor_vars,
                control_vars, history_vars
    <2>1. CASE Tick
      <3>1. now' \in Times /\ phase' \in 0 .. TimerPeriod - 1
        BY <2>1, ControllerAssumption, BenchAssumption, ModInRange
        DEF Tick, TypeOK, Times
      <3>2. uif' \in BOOLEAN /\ due' \in Int /\ busy' \in Nat
        BY <2>1 DEF Tick, TypeOK
      <3> QED
        BY <2>1, <3>1, <3>2 DEF Tick, TypeOK
    <2>2. CASE TIM2_IRQHandler
      BY <2>2 DEF TIM2_IRQHandler, TypeOK, board_timer_event_from_isr
    <2>3. CASE SensorTake
      <3>1. NextSample \in Sample
        BY NextSampleType
      <3>2. ZeroSample(now) \in Sample
        BY ZeroSampleType DEF TypeOK
      <3>3. sample' \in Sample
        BY <2>3, <3>1, <3>2 DEF SensorTake
      <3> QED
        BY <2>3, <3>3 DEF SensorTake, TypeOK, SensorSteps
    <2>4. ASSUME NEW ok \in BOOLEAN, SensorInit(ok) PROVE TypeOK'
      BY <2>4 DEF SensorInit, TypeOK, SensorSteps
    <2>5. ASSUME NEW temperature \in Temperatures, SensorReadOk(temperature)
          PROVE  TypeOK'
      <3>1. sample' \in Sample
        BY <2>5, BenchAssumption DEF SensorReadOk, TypeOK, Sample
      <3> QED
        BY <2>5, <3>1 DEF SensorReadOk, TypeOK, SensorSteps
    <2>6. CASE SensorReadFail
      BY <2>6 DEF SensorReadFail, TypeOK, SensorSteps
    <2>7. ASSUME NEW adc_valid \in BOOLEAN, SensorAdc(adc_valid) PROVE TypeOK'
      <3>1. sample' \in Sample
        BY <2>7 DEF SensorAdc, Stamped, TypeOK, Sample
      <3> QED
        BY <2>7, <3>1 DEF SensorAdc, TypeOK, SensorSteps
    <2>8. CASE SensorCommand
      <3>1. incoming' \in Command
        BY <2>8 DEF SensorCommand, FreshCopy, TypeOK, Command
      <3> QED
        BY <2>8, <3>1 DEF SensorCommand, TypeOK, SensorSteps
    <2>9. ASSUME NEW c \in Chars, SensorPoll(c) PROVE TypeOK'
      <3>1. incoming' \in Command
        BY <2>9, CommandedType DEF SensorPoll, TypeOK
      <3> QED
        BY <2>9, <3>1 DEF SensorPoll, TypeOK
    <2>10. CASE SensorPollDone
      BY <2>10 DEF SensorPollDone, TypeOK, SensorSteps
    <2>11. CASE SensorPublish
      <3>1. command' \in Command /\ incoming' \in Command
        BY <2>11 DEF SensorPublish, Merged, ZeroCommand, TypeOK, Command
      <3>2. sample' \in Sample
        BY <2>11, ZeroSampleType, ZeroInTimes DEF SensorPublish
      <3> QED
        BY <2>11, <3>1, <3>2 DEF SensorPublish, TypeOK, SensorSteps
    <2>12. CASE SensorGive
      BY <2>12 DEF SensorGive, TypeOK, SensorSteps
    <2>13. CASE SensorDelay
      BY <2>13, BenchAssumption DEF SensorDelay, TypeOK, SensorSteps
    <2>14. CASE SensorWake
      BY <2>14 DEF SensorWake, TypeOK, SensorSteps
    <2>15. CASE ControlTake
      BY <2>15 DEF ControlTake, TypeOK, ControlSteps
    <2>16. CASE ControlCopy
      <3>1. command' \in Command
        BY <2>16 DEF ControlCopy, Consumed, TypeOK, Command
      <3> QED
        BY <2>16, <3>1 DEF ControlCopy, TypeOK, ControlSteps
    <2>17. CASE ControlStep
      <3>1. control' \in Control
        BY <2>17, ControlStepType DEF ControlStep, TypeOK, Command
      <3> QED
        BY <2>17, <3>1 DEF ControlStep, TypeOK, ControlSteps
    <2>18. CASE ControlOutput
      BY <2>18 DEF ControlOutput, TypeOK, ControlSteps, Control
    <2>19. CASE ControlSend
      <3>1. seen' \in Sample /\ current' \in Command
        BY <2>19, ZeroSampleType, ZeroInTimes
        DEF ControlSend, ZeroCommand, Command
      <3>2. log_queue' \in 0 .. LogLength
        BY <2>19, BenchAssumption DEF ControlSend, SendRecord, LogHasRoom, TypeOK
      <3>3. bench_log_queue_drops' \in Counts
        BY <2>19, ControllerAssumption, ModInRange
        DEF ControlSend, SendRecord, TypeOK, Counts
      <3> QED
        BY <2>19, <3>1, <3>2, <3>3 DEF ControlSend, TypeOK, ControlSteps
    <2>20. CASE LoggerReceive
      BY <2>20, BenchAssumption DEF LoggerReceive, TypeOK
    <2>21. CASE LoggerLog
      BY <2>21 DEF LoggerLog, TypeOK
    <2>22. CASE UNCHANGED vars
      BY <2>22 DEF vars, TypeOK
    <2>23. QED
      BY <2>1, <2>2, <2>3, <2>4, <2>5, <2>6, <2>7, <2>8, <2>9, <2>10, <2>11,
         <2>12, <2>13, <2>14, <2>15, <2>16, <2>17, <2>18, <2>19, <2>20,
         <2>21, <2>22
      DEF Next, SensorTask, ControlTask
  <1>3. QED
    BY <1>1, <1>2, PTL DEF Spec

-----------------------------------------------------------------------------
(* No reset request is honoured twice: each one that was asked for is in   *)
(* at most one of incoming, command and current at a time, and leaves it   *)
(* when it is honoured.                                                    *)
LEMMA PaidInvariant == Spec => []PaidInv
  <1>1. Init => PaidInv
    BY DEF Init, PaidInv, Counted, ZeroCommand
  <1>2. TypeOK /\ PaidInv /\ [Next]_vars => PaidInv'
    <2> SUFFICES ASSUME TypeOK, PaidInv, [Next]_vars PROVE PaidInv'
      OBVIOUS
    <2> USE DEF clock_vars, kernel_vars, shared_vars, sensor_vars,
                control_vars, history_vars
    <2>1. CASE Tick
      BY <2>1 DEF Tick, TypeOK, PaidInv, Counted
    <2>2. CASE TIM2_IRQHandler
      BY <2>2 DEF TIM2_IRQHandler, TypeOK, PaidInv, Counted
    <2>3. CASE SensorTake
      BY <2>3 DEF SensorTake, TypeOK, PaidInv, Counted
    <2>4. ASSUME NEW ok \in BOOLEAN, SensorInit(ok) PROVE PaidInv'
      BY <2>4 DEF SensorInit, TypeOK, PaidInv, Counted
    <2>5. ASSUME NEW temperature \in Temperatures, SensorReadOk(temperature) PROVE PaidInv'
      BY <2>5 DEF SensorReadOk, TypeOK, PaidInv, Counted
    <2>6. CASE SensorReadFail
      BY <2>6 DEF SensorReadFail, TypeOK, PaidInv, Counted
    <2>7. ASSUME NEW adc_valid \in BOOLEAN, SensorAdc(adc_valid) PROVE PaidInv'
      BY <2>7 DEF SensorAdc, TypeOK, PaidInv, Counted
    <2>8. CASE SensorCommand
      BY <2>8 DEF SensorCommand, FreshCopy, TypeOK, Command, PaidInv, Counted
    <2>9. ASSUME NEW c \in Chars, SensorPoll(c) PROVE PaidInv'
      <3>1. CASE c = "r"
        <4>1. asked' = asked + 1
          BY <2>9, <3>1 DEF SensorPoll
        <4>2. Counted(incoming.reset') <= 1 + Counted(incoming.reset)
          BY DEF Counted
        <4> QED
          BY <2>9, <4>1, <4>2 DEF SensorPoll, TypeOK, PaidInv, Counted
      <3>2. CASE c # "r"
        <4>1. incoming'.reset = incoming.reset /\ asked' = asked
          BY <2>9, <3>2, CommandedReset DEF SensorPoll, TypeOK
        <4> QED
          BY <2>9, <4>1 DEF SensorPoll, TypeOK, PaidInv, Counted
      <3> QED
        BY <3>1, <3>2
    <2>10. CASE SensorPollDone
      BY <2>10 DEF SensorPollDone, TypeOK, PaidInv, Counted
    <2>11. CASE SensorPublish
      BY <2>11 DEF SensorPublish, Merged, ZeroCommand, TypeOK, Command, PaidInv,
              Counted
    <2>12. CASE SensorGive
      BY <2>12 DEF SensorGive, TypeOK, PaidInv, Counted
    <2>13. CASE SensorDelay
      BY <2>13 DEF SensorDelay, TypeOK, PaidInv, Counted
    <2>14. CASE SensorWake
      BY <2>14 DEF SensorWake, TypeOK, PaidInv, Counted
    <2>15. CASE ControlTake
      BY <2>15 DEF ControlTake, TypeOK, PaidInv, Counted
    <2>16. CASE ControlCopy
      BY <2>16 DEF ControlCopy, Consumed, TypeOK, Command, PaidInv, Counted
    <2>17. CASE ControlStep
      <3>1. honoured' <= honoured + Counted(current.reset)
        <4>1. CASE control.faults # {} /\ control'.faults = {}
          <5>1. current.reset
            BY <2>17, <4>1, ClearingNeedsReset DEF ControlStep, TypeOK, Command
          <5> QED
            BY <2>17, <4>1, <5>1 DEF ControlStep, TypeOK, Counted
        <4>2. CASE ~(control.faults # {} /\ control'.faults = {})
          BY <2>17, <4>2 DEF ControlStep, TypeOK, Counted
        <4> QED
          BY <4>1, <4>2
      <3> QED
        BY <2>17, <3>1 DEF ControlStep, TypeOK, PaidInv, Counted
    <2>18. CASE ControlOutput
      BY <2>18 DEF ControlOutput, TypeOK, PaidInv, Counted
    <2>19. CASE ControlSend
      BY <2>19 DEF ControlSend, TypeOK, PaidInv, Counted
    <2>20. CASE LoggerReceive
      BY <2>20 DEF LoggerReceive, TypeOK, PaidInv, Counted
    <2>21. CASE LoggerLog
      BY <2>21 DEF LoggerLog, TypeOK, PaidInv, Counted
    <2>22. CASE UNCHANGED vars
      BY <2>22 DEF vars, TypeOK, PaidInv, Counted
    <2>23. QED
      BY <2>1, <2>2, <2>3, <2>4, <2>5, <2>6, <2>7, <2>8, <2>9, <2>10, <2>11,
         <2>12, <2>13, <2>14, <2>15, <2>16, <2>17, <2>18, <2>19, <2>20,
         <2>21, <2>22
      DEF Next, SensorTask, ControlTask
  <1>3. QED
    BY <1>1, <1>2, TypeCorrect, PTL DEF Spec

(* Hence there are never more recoveries than requests.                    *)
THEOREM RecoveriesPaid == Spec => []RecoveryPaid
  <1>1. TypeOK /\ PaidInv => RecoveryPaid
    BY DEF PaidInv, RecoveryPaid, Counted, TypeOK
  <1> QED
    BY <1>1, PaidInvariant, TypeCorrect, PTL

-----------------------------------------------------------------------------
(* The inductive invariant of what control_task decides and drives.        *)
Decided == DecisionInv /\ CopyInv /\ JudgedInv

(* What control_task has decided after ControlStep: whatever is active in  *)
(* the sample and the stimuli it took is latched, and the output is        *)
(* enabled only with nothing latched.                                      *)
LEMMA ControlStepDecides ==
    ASSUME TypeOK, ControlStep
    PROVE  /\ sample_faults(seen, now) \subseteq control'.faults
           /\ current.injected \subseteq control'.faults
           /\ control'.output_enabled => control'.faults = {}
  <1>1. /\ control \in Control /\ current.reset \in BOOLEAN
        /\ current.injected \in SUBSET FaultBits
    BY DEF TypeOK, Command
  <1> DEFINE stepped == control_step(control, seen, now, current.reset,
                                     current.injected)
  <1>2. control' = stepped
    BY DEF ControlStep
  <1>3. sample_faults(seen, now) \subseteq stepped.faults
    BY <1>1, StepLatches
  <1>4. current.injected \subseteq stepped.faults
    BY <1>1, StepLatches
  <1>5. stepped.output_enabled => stepped.faults = {}
    BY <1>1, StepLatches, Zenon
  <1> HIDE DEF stepped
  <1> QED
    BY <1>2, <1>3, <1>4, <1>5, Zenon

(* It holds in every reachable state.                                      *)
LEMMA DecisionInvariant == Spec => []Decided
  <1>1. Init => Decided
    <2> SUFFICES ASSUME Init PROVE Decided
      OBVIOUS
    <2>1. control.output_enabled = FALSE
      BY DEF Init, control_init
    <2> QED
      BY <2>1 DEF Init, Decided, DecisionInv, CopyInv, JudgedInv, ControlReady
  <1>2. TypeOK /\ Decided /\ [Next]_vars => Decided'
    <2> SUFFICES ASSUME TypeOK, Decided, [Next]_vars PROVE Decided'
      OBVIOUS
    <2> USE DEF clock_vars, kernel_vars, shared_vars, sensor_vars,
                control_vars, history_vars, Decided
    <2>1. CASE Tick
      BY <2>1 DEF Tick, TimeMayPass, DecisionInv, CopyInv, JudgedInv, ControlReady
    <2>2. CASE TIM2_IRQHandler
      BY <2>2 DEF TIM2_IRQHandler, board_timer_event_from_isr, DecisionInv,
              CopyInv, JudgedInv, ControlReady
    <2>3. CASE SensorTake
      BY <2>3 DEF SensorTake, DecisionInv, CopyInv, JudgedInv, ControlReady,
              SensorRuns
    <2>4. ASSUME NEW ok \in BOOLEAN, SensorInit(ok) PROVE Decided'
      BY <2>4 DEF SensorInit, DecisionInv, CopyInv, JudgedInv, ControlReady,
              SensorRuns
    <2>5. ASSUME NEW temperature \in Temperatures, SensorReadOk(temperature) PROVE Decided'
      BY <2>5 DEF SensorReadOk, DecisionInv, CopyInv, JudgedInv, ControlReady,
              SensorRuns
    <2>6. CASE SensorReadFail
      BY <2>6 DEF SensorReadFail, DecisionInv, CopyInv, JudgedInv, ControlReady,
              SensorRuns
    <2>7. ASSUME NEW adc_valid \in BOOLEAN, SensorAdc(adc_valid) PROVE Decided'
      BY <2>7 DEF SensorAdc, DecisionInv, CopyInv, JudgedInv, ControlReady,
              SensorRuns
    <2>8. CASE SensorCommand
      BY <2>8 DEF SensorCommand, DecisionInv, CopyInv, JudgedInv, ControlReady,
              SensorRuns
    <2>9. ASSUME NEW c \in Chars, SensorPoll(c) PROVE Decided'
      BY <2>9 DEF SensorPoll, DecisionInv, CopyInv, JudgedInv, ControlReady,
              SensorRuns
    <2>10. CASE SensorPollDone
      BY <2>10 DEF SensorPollDone, DecisionInv, CopyInv, JudgedInv, ControlReady,
              SensorRuns
    <2>11. CASE SensorPublish
      BY <2>11 DEF SensorPublish, DecisionInv, CopyInv, JudgedInv, ControlReady,
              SensorRuns
    <2>12. CASE SensorGive
      BY <2>12 DEF SensorGive, DecisionInv, CopyInv, JudgedInv, ControlReady,
              SensorRuns
    <2>13. CASE SensorDelay
      BY <2>13 DEF SensorDelay, DecisionInv, CopyInv, JudgedInv, ControlReady,
              SensorRuns
    <2>14. CASE SensorWake
      BY <2>14 DEF SensorWake, DecisionInv, CopyInv, JudgedInv, ControlReady,
              SensorRuns
    <2>15. CASE ControlTake
      BY <2>15 DEF ControlTake, DecisionInv, CopyInv, JudgedInv, ControlReady
    <2>16. CASE ControlCopy
      BY <2>16 DEF ControlCopy, Consumed, TypeOK, Command, DecisionInv, CopyInv,
              JudgedInv, ControlReady
    <2>17. CASE ControlStep
      <3>2. /\ sample_faults(seen, now) \subseteq control'.faults
            /\ current.injected \subseteq control'.faults
            /\ control'.output_enabled => control'.faults = {}
        BY <2>17, ControlStepDecides
      <3>4. JudgedInv'
        <4>1. sample_faults(latest, latest.sampled_ms) \subseteq sample_faults(seen, now)
          BY <2>17, FaultsStay DEF ControlStep, CopyInv, TypeOK
        <4>2. command.injected = current.injected /\ ~command.reset
          BY <2>17 DEF ControlStep, CopyInv
        <4> QED
          BY <2>17, <3>2, <4>1, <4>2 DEF ControlStep, JudgedInv, sample_faults, Raises
      <3>5. DecisionInv' /\ CopyInv'
        BY <2>17, <3>2 DEF ControlStep, DecisionInv, CopyInv, ControlReady
      <3> QED
        BY <3>4, <3>5
    <2>18. CASE ControlOutput
      BY <2>18 DEF ControlOutput, DecisionInv, CopyInv, JudgedInv, ControlReady
    <2>19. CASE ControlSend
      BY <2>19 DEF ControlSend, DecisionInv, CopyInv, JudgedInv, ControlReady
    <2>20. CASE LoggerReceive
      BY <2>20 DEF LoggerReceive, DecisionInv, CopyInv, JudgedInv, ControlReady
    <2>21. CASE LoggerLog
      BY <2>21 DEF LoggerLog, DecisionInv, CopyInv, JudgedInv, ControlReady
    <2>22. CASE UNCHANGED vars
      BY <2>22 DEF vars, DecisionInv, CopyInv, JudgedInv, ControlReady,
              SensorRuns
    <2>23. QED
      BY <2>1, <2>2, <2>3, <2>4, <2>5, <2>6, <2>7, <2>8, <2>9, <2>10, <2>11,
         <2>12, <2>13, <2>14, <2>15, <2>16, <2>17, <2>18, <2>19, <2>20,
         <2>21, <2>22
      DEF Next, SensorTask, ControlTask
  <1>3. QED
    BY <1>1, <1>2, TypeCorrect, PTL DEF Spec

(* Once control_task has settled, everything published is latched, the pin *)
(* agrees with the decision and no reset request waits.                    *)
THEOREM DecisionsSettle == Spec => []SettledDecision
  <1>1. Decided => SettledDecision
    BY DEF Decided, DecisionInv, CopyInv, JudgedInv, SettledDecision, Settled,
           ControlReady
  <1> QED
    BY <1>1, DecisionInvariant, PTL

-----------------------------------------------------------------------------
(* What reaches control_task was acquired: the mutex is never missing, and *)
(* nothing wakes control_task before the first publication.                *)
LEMMA AcquiredInvariant == Spec => []AcquiredInv
  <1>1. Init => AcquiredInv
    BY DEF Init, AcquiredInv
  <1>2. TypeOK /\ CopyInv /\ AcquiredInv /\ [Next]_vars => AcquiredInv'
    <2> SUFFICES ASSUME TypeOK, CopyInv, AcquiredInv, [Next]_vars
                 PROVE  AcquiredInv'
      OBVIOUS
    <2> USE DEF clock_vars, kernel_vars, shared_vars, sensor_vars,
                control_vars, history_vars, AcquiredInv
    <2>1. CASE Tick
      BY <2>1 DEF Tick
    <2>2. CASE TIM2_IRQHandler
      BY <2>2 DEF TIM2_IRQHandler
    <2>3. CASE SensorTake
      <3>1. Acquired(NextSample)
        BY DEF Acquired, NextSample
      <3> QED
        BY <2>3, <3>1 DEF SensorTake
    <2>4. ASSUME NEW ok \in BOOLEAN, SensorInit(ok) PROVE AcquiredInv'
      BY <2>4 DEF SensorInit
    <2>5. ASSUME NEW temperature \in Temperatures, SensorReadOk(temperature)
          PROVE  AcquiredInv'
      <3>1. Acquired(sample) => Acquired(sample')
        BY <2>5 DEF SensorReadOk, Acquired, TypeOK, Sample
      <3> QED
        BY <2>5, <3>1 DEF SensorReadOk
    <2>6. CASE SensorReadFail
      BY <2>6 DEF SensorReadFail
    <2>7. ASSUME NEW adc_valid \in BOOLEAN, SensorAdc(adc_valid)
          PROVE  AcquiredInv'
      <3>1. Acquired(sample) => Acquired(sample')
        BY <2>7 DEF SensorAdc, Acquired, Stamped, TypeOK, Sample
      <3> QED
        BY <2>7, <3>1 DEF SensorAdc
    <2>8. CASE SensorCommand
      BY <2>8 DEF SensorCommand
    <2>9. ASSUME NEW c \in Chars, SensorPoll(c) PROVE AcquiredInv'
      BY <2>9 DEF SensorPoll
    <2>10. CASE SensorPollDone
      BY <2>10 DEF SensorPollDone
    <2>11. CASE SensorPublish
      BY <2>11 DEF SensorPublish
    <2>12. CASE SensorGive
      BY <2>12 DEF SensorGive
    <2>13. CASE SensorDelay
      BY <2>13 DEF SensorDelay
    <2>14. CASE SensorWake
      BY <2>14 DEF SensorWake
    <2>15. CASE ControlTask
      BY <2>15 DEF ControlTask, ControlTake, ControlCopy, ControlStep,
               ControlOutput, ControlSend
    <2>16. CASE LoggerReceive
      BY <2>16 DEF LoggerReceive
    <2>17. CASE LoggerLog
      BY <2>17 DEF LoggerLog
    <2>18. CASE UNCHANGED vars
      BY <2>18 DEF vars
    <2> QED
      BY <2>1, <2>2, <2>3, <2>4, <2>5, <2>6, <2>7, <2>8, <2>9, <2>10, <2>11,
         <2>12, <2>13, <2>14, <2>15, <2>16, <2>17, <2>18
      DEF Next, SensorTask
  <1>3. Decided => CopyInv
    BY DEF Decided
  <1> QED
    BY <1>1, <1>2, <1>3, TypeCorrect, DecisionInvariant, PTL DEF Spec

(* control_task never judges a sample that nobody acquired.                *)
THEOREM SamplesAreAcquired == Spec => []ControlSeesSample
  <1>1. Decided /\ AcquiredInv => ControlSeesSample
    <2>1. Decided /\ AcquiredInv /\ cpc = "step" => Acquired(seen)
      BY DEF Decided, CopyInv, ControlReady, AcquiredInv
    <2>2. (cpc = "step" => Acquired(seen)) => ControlSeesSample
      BY Zenon DEF Acquired, ControlSeesSample
    <2> QED
      BY <2>1, <2>2
  <1> QED
    BY <1>1, DecisionInvariant, AcquiredInvariant, PTL

-----------------------------------------------------------------------------
(* The bench implements the fault latch: ControlStep trips, enables,       *)
(* recovers or stutters, SensorPoll asks, and nothing else touches what    *)
(* the latch is made of.                                                   *)
THEOREM BenchImplementsFaultLatch == Spec => ImplementsFaultLatch
  <1>1. Init => Latch!Init
    BY DEF Init, Latch!Init, control_init
  <1>2. TypeOK /\ PaidInv /\ Decided /\ [Next]_vars => [Latch!Next]_(Latch!vars)
    <2> SUFFICES ASSUME TypeOK, PaidInv, Decided, [Next]_vars
                 PROVE  Latch!Next \/ UNCHANGED Latch!vars
      BY DEF Latch!vars
    <2> USE DEF clock_vars, kernel_vars, shared_vars, sensor_vars,
                control_vars, history_vars, Latch!vars
    <2>1. CASE Tick
      BY <2>1 DEF Tick
    <2>2. CASE TIM2_IRQHandler
      BY <2>2 DEF TIM2_IRQHandler
    <2>3. CASE SensorTake
      BY <2>3 DEF SensorTake
    <2>4. ASSUME NEW ok \in BOOLEAN, SensorInit(ok)
          PROVE  Latch!Next \/ UNCHANGED Latch!vars
      BY <2>4 DEF SensorInit
    <2>5. ASSUME NEW temperature \in Temperatures, SensorReadOk(temperature)
          PROVE  Latch!Next \/ UNCHANGED Latch!vars
      BY <2>5 DEF SensorReadOk
    <2>6. CASE SensorReadFail
      BY <2>6 DEF SensorReadFail
    <2>7. ASSUME NEW adc_valid \in BOOLEAN, SensorAdc(adc_valid)
          PROVE  Latch!Next \/ UNCHANGED Latch!vars
      BY <2>7 DEF SensorAdc
    <2>8. CASE SensorCommand
      BY <2>8 DEF SensorCommand
    <2>9. ASSUME NEW c \in Chars, SensorPoll(c)
          PROVE  Latch!Next \/ UNCHANGED Latch!vars
      BY <2>9 DEF SensorPoll, Latch!Next, Latch!Ask
    <2>10. CASE SensorPollDone
      BY <2>10 DEF SensorPollDone
    <2>11. CASE SensorPublish
      BY <2>11 DEF SensorPublish
    <2>12. CASE SensorGive
      BY <2>12 DEF SensorGive
    <2>13. CASE SensorDelay
      BY <2>13 DEF SensorDelay
    <2>14. CASE SensorWake
      BY <2>14 DEF SensorWake
    <2>15. CASE ControlTake
      BY <2>15 DEF ControlTake
    <2>16. CASE ControlCopy
      BY <2>16 DEF ControlCopy
    <2>17. CASE ControlStep
      <3> DEFINE active == sample_faults(seen, now) \cup current.injected
      <3>1. /\ control' = control_step(control, seen, now, current.reset,
                                       current.injected)
            /\ asked' = asked
            /\ honoured' = IF control.faults # {} /\ control'.faults = {}
                           THEN honoured + 1 ELSE honoured
        BY <2>17 DEF ControlStep
      <3>2. active \in SUBSET FaultBits
        BY SampleFaultsType DEF TypeOK, Command
      <3>3. /\ control'.faults = LatchedAfter(control.faults, active, current.reset)
            /\ control'.output_enabled = (active = {} /\ control'.faults = {})
        BY <3>1 DEF control_step
      <3>4. control.output_enabled => control.faults = {}
        BY DEF Decided, DecisionInv
      <3>5. control.output_enabled \in BOOLEAN
        BY DEF TypeOK, Control
      <3> HIDE DEF active
      <3>6. CASE active # {}
        <4>1. /\ control'.faults = control.faults \cup active
              /\ control'.output_enabled = FALSE /\ honoured' = honoured
          BY <3>1, <3>3, <3>6 DEF LatchedAfter
        <4>2. active \in (SUBSET FaultBits) \ {{}}
          BY <3>2, <3>6
        <4>3. Latch!Trip
          BY <3>1, <4>1, <4>2 DEF Latch!Trip
        <4> QED
          BY <4>3 DEF Latch!Next
      <3>7. CASE active = {} /\ control.faults = {}
        <4>1. /\ control'.faults = {} /\ control'.output_enabled = TRUE
              /\ honoured' = honoured
          BY <3>1, <3>3, <3>7 DEF LatchedAfter
        <4>2. Latch!Enable
          BY <3>1, <3>7, <4>1 DEF Latch!Enable
        <4> QED
          BY <4>2 DEF Latch!Next
      <3>8. CASE active = {} /\ control.faults # {} /\ current.reset
        <4>1. /\ control'.faults = {} /\ control'.output_enabled = TRUE
              /\ honoured' = honoured + 1
          BY <3>1, <3>3, <3>8 DEF LatchedAfter
        <4>2. honoured < asked
          BY <2>17, <3>8 DEF ControlStep, PaidInv, Counted, TypeOK
        <4>3. Latch!Recover
          BY <3>1, <3>8, <4>1, <4>2 DEF Latch!Recover
        <4> QED
          BY <4>3 DEF Latch!Next
      <3>9. CASE active = {} /\ control.faults # {} /\ ~current.reset
        <4>1. /\ control'.faults = control.faults
              /\ control'.output_enabled = FALSE /\ honoured' = honoured
          BY <3>1, <3>3, <3>9 DEF LatchedAfter
        <4>2. control.output_enabled = FALSE
          BY <3>4, <3>5, <3>9
        <4> QED
          BY <3>1, <4>1, <4>2
      <3> QED
        BY <3>6, <3>7, <3>8, <3>9
    <2>18. CASE ControlOutput
      BY <2>18 DEF ControlOutput
    <2>19. CASE ControlSend
      BY <2>19 DEF ControlSend
    <2>20. CASE LoggerReceive
      BY <2>20 DEF LoggerReceive
    <2>21. CASE LoggerLog
      BY <2>21 DEF LoggerLog
    <2>22. CASE UNCHANGED vars
      BY <2>22 DEF vars
    <2>23. QED
      BY <2>1, <2>2, <2>3, <2>4, <2>5, <2>6, <2>7, <2>8, <2>9, <2>10, <2>11,
         <2>12, <2>13, <2>14, <2>15, <2>16, <2>17, <2>18, <2>19, <2>20,
         <2>21, <2>22
      DEF Next, SensorTask, ControlTask
  <1>3. QED
    BY <1>1, <1>2, TypeCorrect, PaidInvariant, DecisionInvariant, PTL
    DEF Spec, ImplementsFaultLatch, Latch!Spec

-----------------------------------------------------------------------------
(* How old a sample can be while the pin is on.                            *)

(* The age of the published sample is a number.                            *)
LEMMA AgeType ==
    ASSUME TypeOK
    PROVE  Age \in Nat
  <1>1. now \in Times /\ latest.sampled_ms \in Times
    BY DEF TypeOK, Sample
  <1> QED
    BY <1>1, ElapsedType DEF Age

(* The age of the sample behind an enabled output, in every state.         *)
LEMMA FreshInvariant == Spec => []FreshInv
  <1>1. Init => FreshInv
    BY DEF Init, FreshInv, control_init
  <1>2. TypeOK /\ Decided /\ FreshInv /\ [Next]_vars => FreshInv'
    <2> SUFFICES ASSUME TypeOK, Decided, FreshInv, [Next]_vars PROVE FreshInv'
      OBVIOUS
    <2> USE DEF clock_vars, kernel_vars, shared_vars, sensor_vars,
                control_vars, history_vars
    <2>a. /\ StaleLimit \in Nat /\ TimerPeriod \in Nat \ {0}
          /\ phase \in 0 .. TimerPeriod - 1 /\ Age \in Nat
      BY ControllerAssumption, BenchAssumption, AgeType DEF TypeOK
    <2>b. now \in Times /\ latest.sampled_ms \in Times
      BY DEF TypeOK, Sample
    <2>1. CASE Tick
      <3>1. cpc = "wait" /\ ~fault_event /\ ~uif
            /\ spc \notin {"command", "poll", "publish"}
        BY <2>1 DEF Tick, TimeMayPass, ControlReady, SensorReady
      <3>2. Age' <= Age + 1 /\ Age' \in Nat
        <4>1. now' = (now + 1) % TimeModulus /\ latest' = latest
          BY <2>1 DEF Tick
        <4>2. (now + 1) % TimeModulus \in Times
          BY <2>b, ControllerAssumption, ModInRange DEF Times
        <4> QED
          BY <2>b, <4>1, <4>2, AgesByOne, ElapsedType DEF Age
      <3>3. phase' = IF phase + 1 < TimerPeriod THEN phase + 1 ELSE 0
        BY <2>1, <2>a, CountOn DEF Tick
      <3>4. spc' = spc /\ cpc' = cpc /\ control' = control /\ output' = output
        BY <2>1 DEF Tick
      <3>5. (uif' => phase' = 0) /\ (phase' = 0 => uif')
        BY <2>1 DEF Tick
      <3>6. control.output_enabled \/ output => Age <= StaleLimit + phase
        BY <3>1, <2>a DEF FreshInv, TimerOutstanding
      <3>7. CASE phase + 1 < TimerPeriod
        <4>1. phase' = phase + 1 /\ phase' # 0
          BY <2>a, <3>3, <3>7
        <4>2. ~uif'
          BY <3>5, <4>1
        <4>3. control'.output_enabled \/ output' => Age' <= StaleLimit + phase'
          BY <2>a, <3>2, <3>4, <3>6, <4>1
        <4> HIDE DEF Age
        <4> QED
          BY <3>1, <3>4, <4>1, <4>2, <4>3 DEF FreshInv
      <3>8. CASE phase + 1 = TimerPeriod
        <4>1. phase' = 0 /\ uif'
          BY <2>a, <3>3, <3>8, <3>5
        <4>2. control'.output_enabled \/ output' => Age' <= StaleLimit + TimerPeriod
          BY <2>a, <3>2, <3>4, <3>6, <3>8
        <4> HIDE DEF Age
        <4> QED
          BY <3>1, <3>4, <4>1, <4>2 DEF FreshInv, TimerOutstanding
      <3> QED
        BY <2>a, <3>7, <3>8
    <2>2. CASE TIM2_IRQHandler
      <3>1. CASE scheduler_ready
        BY <2>2, <2>a, <3>1
        DEF TIM2_IRQHandler, board_timer_event_from_isr, FreshInv,
            TimerOutstanding, Age
      <3>2. CASE ~scheduler_ready
        <4>1. ~control.output_enabled /\ ~output
          BY <3>2 DEF Decided, CopyInv, DecisionInv, ControlReady
        <4> QED
          BY <2>2, <4>1 DEF TIM2_IRQHandler, FreshInv
      <3> QED
        BY <3>1, <3>2
    <2>3. CASE SensorTake
      <3>1. sample'.sampled_ms = now \/ spc' \in {"read", "init"}
        BY <2>3 DEF SensorTake, ZeroSample, NextSample
      <3> QED
        BY <2>3, <3>1, <2>a DEF SensorTake, SensorRuns, FreshInv, TimerOutstanding, Age
    <2>4. ASSUME NEW ok \in BOOLEAN, SensorInit(ok) PROVE FreshInv'
      BY <2>4, <2>a DEF SensorInit, FreshInv, TimerOutstanding, Age
    <2>5. ASSUME NEW temperature \in Temperatures, SensorReadOk(temperature) PROVE FreshInv'
      BY <2>5, <2>a DEF SensorReadOk, FreshInv, TimerOutstanding, Age
    <2>6. CASE SensorReadFail
      BY <2>6, <2>a DEF SensorReadFail, FreshInv, TimerOutstanding, Age
    <2>7. ASSUME NEW adc_valid \in BOOLEAN, SensorAdc(adc_valid) PROVE FreshInv'
      <3>1. sample'.sampled_ms = now
        BY <2>7 DEF SensorAdc, Stamped, TypeOK, Sample
      <3> QED
        BY <2>7, <3>1, <2>a DEF SensorAdc, FreshInv, TimerOutstanding, Age
    <2>8. CASE SensorCommand
      BY <2>8, <2>a DEF SensorCommand, FreshInv, TimerOutstanding, Age
    <2>9. ASSUME NEW c \in Chars, SensorPoll(c) PROVE FreshInv'
      BY <2>9, <2>a DEF SensorPoll, FreshInv, TimerOutstanding, Age
    <2>10. CASE SensorPollDone
      BY <2>10, <2>a DEF SensorPollDone, FreshInv, TimerOutstanding, Age
    <2>11. CASE SensorPublish
      <3>1. latest'.sampled_ms = now /\ now' = now
        BY <2>11 DEF SensorPublish, FreshInv
      <3>2. Age' = 0
        BY <2>b, <3>1, ElapsedSelf DEF Age
      <3>3. cpc = "wait" /\ cpc' = cpc /\ spc' = "give" /\ uif' = uif
            /\ phase' = phase
        BY <2>11 DEF SensorPublish, SensorRuns, ControlReady
      <3> HIDE DEF Age
      <3> QED
        BY <2>a, <3>2, <3>3 DEF FreshInv
    <2>12. CASE SensorGive
      BY <2>12, <2>a DEF SensorGive, FreshInv, TimerOutstanding, Age
    <2>13. CASE SensorDelay
      BY <2>13, <2>a DEF SensorDelay, FreshInv, TimerOutstanding, Age
    <2>14. CASE SensorWake
      BY <2>14, <2>a DEF SensorWake, FreshInv, TimerOutstanding, Age
    <2>15. CASE ControlTake
      BY <2>15, <2>a DEF ControlTake, FreshInv, TimerOutstanding, Age
    <2>16. CASE ControlCopy
      BY <2>16, <2>a DEF ControlCopy, FreshInv, TimerOutstanding, Age
    <2>17. CASE ControlStep
      <3>1. control'.output_enabled => Age <= StaleLimit
        <4>1. seen = latest
          BY <2>17 DEF ControlStep, Decided, CopyInv
        <4>2. control'.output_enabled => sample_faults(seen, now) = {}
          BY <2>17, StepLatches DEF ControlStep, TypeOK, Command
        <4>3. ~Raises("STALE", seen, now) => Age <= StaleLimit
          BY <4>1, <2>a DEF Raises, Age
        <4> QED
          BY <4>2, <4>3 DEF sample_faults, FaultBits
      <3>2. UNCHANGED <<now, phase, uif, latest, spc, sample, output>>
            /\ cpc = "step" /\ cpc' = "output"
        BY <2>17 DEF ControlStep
      <3>3. Age' = Age
        BY <3>2 DEF Age
      <3> HIDE DEF Age
      <3> QED
        BY <2>a, <3>1, <3>2, <3>3 DEF FreshInv, TimerOutstanding
    <2>18. CASE ControlOutput
      <3>1. UNCHANGED <<now, phase, uif, latest, spc, sample, control>>
            /\ cpc = "output" /\ cpc' = "send" /\ output' = control.output_enabled
        BY <2>18 DEF ControlOutput
      <3>2. Age' = Age
        BY <3>1 DEF Age
      <3> HIDE DEF Age
      <3> QED
        BY <2>a, <3>1, <3>2 DEF FreshInv
    <2>19. CASE ControlSend
      <3>1. UNCHANGED <<now, phase, uif, latest, spc, sample, control, output>>
            /\ cpc = "send" /\ cpc' = "wait"
        BY <2>19 DEF ControlSend
      <3>2. Age' = Age /\ output = control.output_enabled
        BY <3>1 DEF Age, Decided, DecisionInv
      <3> HIDE DEF Age
      <3> QED
        BY <2>a, <3>1, <3>2 DEF FreshInv
    <2>20. CASE LoggerReceive
      BY <2>20, <2>a DEF LoggerReceive, FreshInv, TimerOutstanding, Age
    <2>21. CASE LoggerLog
      BY <2>21, <2>a DEF LoggerLog, FreshInv, TimerOutstanding, Age
    <2>22. CASE UNCHANGED vars
      BY <2>22, <2>a DEF vars, FreshInv, TimerOutstanding, Age
    <2>23. QED
      BY <2>1, <2>2, <2>3, <2>4, <2>5, <2>6, <2>7, <2>8, <2>9, <2>10, <2>11,
         <2>12, <2>13, <2>14, <2>15, <2>16, <2>17, <2>18, <2>19, <2>20,
         <2>21, <2>22
      DEF Next, SensorTask, ControlTask
  <1>3. QED
    BY <1>1, <1>2, TypeCorrect, DecisionInvariant, PTL DEF Spec

(* The pin is on only with a sample younger than the stale limit plus one  *)
(* timer period, whatever the bus does to the sensor task: no bound on     *)
(* ReadMax or InitMax is assumed.                                          *)
THEOREM PinIsFresh == Spec => []PinFresh
  <1>1. TypeOK /\ FreshInv => PinFresh
    <2> SUFFICES ASSUME TypeOK, FreshInv, output
                 PROVE  Age <= StaleLimit + TimerPeriod
      BY DEF PinFresh, Age
    <2>1. /\ StaleLimit \in Nat /\ TimerPeriod \in Nat \ {0}
          /\ phase \in 0 .. TimerPeriod - 1 /\ Age \in Nat
      BY ControllerAssumption, BenchAssumption, AgeType DEF TypeOK
    <2> HIDE DEF Age
    <2> QED
      BY <2>1 DEF FreshInv
  <1> QED
    BY <1>1, FreshInvariant, TypeCorrect, PTL
-----------------------------------------------------------------------------
(* Staleness only with the loss of the sensor.                             *)

(* No character injects staleness.                                         *)
LEMMA InjectedInvariant == Spec => []InjectedInv
  <1>1. Init => InjectedInv
    BY DEF Init, InjectedInv, ZeroCommand
  <1>2. TypeOK /\ InjectedInv /\ [Next]_vars => InjectedInv'
    <2> SUFFICES ASSUME TypeOK, InjectedInv, [Next]_vars PROVE InjectedInv'
      OBVIOUS
    <2> USE DEF clock_vars, kernel_vars, shared_vars, sensor_vars,
                control_vars, history_vars, InjectedInv
    <2>1. CASE Tick
      BY <2>1 DEF Tick
    <2>2. CASE TIM2_IRQHandler
      BY <2>2 DEF TIM2_IRQHandler
    <2>3. CASE SensorTake
      BY <2>3 DEF SensorTake
    <2>4. ASSUME NEW ok \in BOOLEAN, SensorInit(ok)
          PROVE  InjectedInv'
      BY <2>4 DEF SensorInit
    <2>5. ASSUME NEW temperature \in Temperatures, SensorReadOk(temperature)
          PROVE  InjectedInv'
      BY <2>5 DEF SensorReadOk
    <2>6. CASE SensorReadFail
      BY <2>6 DEF SensorReadFail
    <2>7. ASSUME NEW adc_valid \in BOOLEAN, SensorAdc(adc_valid)
          PROVE  InjectedInv'
      BY <2>7 DEF SensorAdc
    <2>8. CASE SensorCommand
      BY <2>8 DEF SensorCommand, FreshCopy, TypeOK, Command
    <2>9. ASSUME NEW c \in Chars, SensorPoll(c)
          PROVE  InjectedInv'
      <3>1. "STALE" \notin Commanded(incoming, c).injected
        BY DEF Commanded, TypeOK, Command
      <3> QED
        BY <2>9, <3>1 DEF SensorPoll
    <2>10. CASE SensorPollDone
      BY <2>10 DEF SensorPollDone
    <2>11. CASE SensorPublish
      BY <2>11 DEF SensorPublish, Merged, ZeroCommand
    <2>12. CASE SensorGive
      BY <2>12 DEF SensorGive
    <2>13. CASE SensorDelay
      BY <2>13 DEF SensorDelay
    <2>14. CASE SensorWake
      BY <2>14 DEF SensorWake
    <2>15. CASE ControlTask
      BY <2>15 DEF ControlTask, ControlTake, ControlCopy, ControlStep,
               ControlOutput, ControlSend, Consumed, ZeroCommand, TypeOK, Command
    <2>16. CASE LoggerReceive
      BY <2>16 DEF LoggerReceive
    <2>17. CASE LoggerLog
      BY <2>17 DEF LoggerLog
    <2>18. CASE UNCHANGED vars
      BY <2>18 DEF vars
    <2> QED
      BY <2>1, <2>2, <2>3, <2>4, <2>5, <2>6, <2>7, <2>8, <2>9, <2>10, <2>11,
         <2>12, <2>13, <2>14, <2>15, <2>16, <2>17, <2>18
      DEF Next, SensorTask
  <1> QED
    BY <1>1, <1>2, TypeCorrect, PTL DEF Spec

(* A valid sample is the latest only while the sensor is initialised.      *)
LEMMA ReadyInvariant == Spec => []ReadyInv
  <1>1. Init => ReadyInv
    BY DEF Init, ReadyInv, ZeroSample
  <1>2. TypeOK /\ ReadyInv /\ [Next]_vars => ReadyInv'
    <2> SUFFICES ASSUME TypeOK, ReadyInv, [Next]_vars PROVE ReadyInv'
      OBVIOUS
    <2> USE DEF clock_vars, kernel_vars, shared_vars, sensor_vars,
                control_vars, history_vars, ReadyInv
    <2>1. CASE Tick
      BY <2>1 DEF Tick
    <2>2. CASE TIM2_IRQHandler
      BY <2>2 DEF TIM2_IRQHandler
    <2>3. CASE SensorTake
      <3>1. ~NextSample.sensor_valid /\ ~ZeroSample(now).sensor_valid
        BY DEF NextSample, ZeroSample
      <3> QED
        BY <2>3, <3>1 DEF SensorTake
    <2>4. ASSUME NEW ok \in BOOLEAN, SensorInit(ok)
          PROVE  ReadyInv'
      BY <2>4 DEF SensorInit
    <2>5. ASSUME NEW temperature \in Temperatures, SensorReadOk(temperature)
          PROVE  ReadyInv'
      BY <2>5 DEF SensorReadOk, TypeOK, Sample
    <2>6. CASE SensorReadFail
      BY <2>6 DEF SensorReadFail
    <2>7. ASSUME NEW adc_valid \in BOOLEAN, SensorAdc(adc_valid)
          PROVE  ReadyInv'
      <3>1. sample'.sensor_valid = sample.sensor_valid
        BY <2>7 DEF SensorAdc, Stamped, TypeOK, Sample
      <3> QED
        BY <2>7, <3>1 DEF SensorAdc
    <2>8. CASE SensorCommand
      BY <2>8 DEF SensorCommand
    <2>9. ASSUME NEW c \in Chars, SensorPoll(c)
          PROVE  ReadyInv'
      BY <2>9 DEF SensorPoll
    <2>10. CASE SensorPollDone
      BY <2>10 DEF SensorPollDone
    <2>11. CASE SensorPublish
      BY <2>11 DEF SensorPublish
    <2>12. CASE SensorGive
      BY <2>12 DEF SensorGive
    <2>13. CASE SensorDelay
      BY <2>13 DEF SensorDelay
    <2>14. CASE SensorWake
      BY <2>14 DEF SensorWake
    <2>15. CASE ControlTask
      BY <2>15 DEF ControlTask, ControlTake, ControlCopy, ControlStep,
               ControlOutput, ControlSend
    <2>16. CASE LoggerReceive
      BY <2>16 DEF LoggerReceive
    <2>17. CASE LoggerLog
      BY <2>17 DEF LoggerLog
    <2>18. CASE UNCHANGED vars
      BY <2>18 DEF vars
    <2> QED
      BY <2>1, <2>2, <2>3, <2>4, <2>5, <2>6, <2>7, <2>8, <2>9, <2>10, <2>11,
         <2>12, <2>13, <2>14, <2>15, <2>16, <2>17, <2>18
      DEF Next, SensorTask
  <1> QED
    BY <1>1, <1>2, TypeCorrect, PTL DEF Spec

(* While the deadline d lies ahead the age grows as d shrinks.             *)
LEMMA DeadlineNears ==
    ASSUME NEW p \in Nat, NEW a \in Nat, NEW b \in Nat, NEW d \in Int,
           b <= a + 1, d > 0, a + d <= p
    PROVE  b + (d - 1) <= p /\ b <= p
  OBVIOUS

(* How old a valid sample is at each step of sensor_task.                  *)
LEMMA TimelyInvariant == Spec => []TimelyInv
  <1>1. Init => TimelyInv
    BY BenchAssumption DEF Init, TimelyInv, ZeroSample
  <1>2. TypeOK /\ ReadyInv /\ FreshInv /\ TimelyInv /\ [Next]_vars => TimelyInv'
    <2> SUFFICES ASSUME TypeOK, ReadyInv, FreshInv, TimelyInv, [Next]_vars
                 PROVE  TimelyInv'
      OBVIOUS
    <2> USE DEF clock_vars, kernel_vars, shared_vars, sensor_vars,
                control_vars, history_vars, TimelyInv
    <2>a. /\ SamplePeriod \in Nat \ {0} /\ ReadMax \in Nat
          /\ busy \in Nat /\ due \in Int /\ Age \in Nat
      BY BenchAssumption, AgeType DEF TypeOK
    <2>b. now \in Times /\ latest.sampled_ms \in Times
      BY DEF TypeOK, Sample
    <2>1. CASE Tick
      <3>1. Age' <= Age + 1 /\ Age' \in Nat
        <4>1. now' = (now + 1) % TimeModulus /\ latest' = latest
          BY <2>1 DEF Tick
        <4>2. (now + 1) % TimeModulus \in Times
          BY <2>b, ControllerAssumption, ModInRange DEF Times
        <4> QED
          BY <2>b, <4>1, <4>2, AgesByOne, ElapsedType DEF Age
      <3>2. UNCHANGED <<spc, latest>> /\ due' = due - 1
        BY <2>1 DEF Tick
      <3>3. \/ spc = "sleep" /\ due > 0 /\ busy' = busy
            \/ spc = "init" /\ sensor_ready = FALSE
            \/ spc = "read" /\ busy < ReadMax /\ busy' = busy + 1
        BY <2>1 DEF Tick, TimeMayPass, SensorReady, ReadyInv, TypeOK
      <3>4. spc = "init" => ~latest.sensor_valid
        BY DEF ReadyInv
      <3> HIDE DEF Age
      <3>5. CASE spc = "sleep" /\ due > 0
        <4>1. latest.sensor_valid => Age + due <= SamplePeriod
          BY <3>5
        <4>2. latest.sensor_valid =>
                 Age' + due' <= SamplePeriod /\ Age' <= SamplePeriod
          <5> HIDE DEF TimelyInv
          <5> SUFFICES ASSUME latest.sensor_valid
                       PROVE  Age' + due' <= SamplePeriod /\ Age' <= SamplePeriod
            OBVIOUS
          <5>1. due' \in Int /\ due' = due - 1 /\ Age + due <= SamplePeriod
            BY <2>a, <3>2, <4>1
          <5> QED
            BY <2>a, <3>1, <3>5, <5>1, DeadlineNears
        <4>3. spc' = "sleep" /\ latest' = latest
          BY <3>2, <3>5
        <4> QED
          BY <4>2, <4>3
      <3>6. CASE spc = "init"
        BY <2>a, <3>2, <3>4, <3>6
      <3>7. CASE spc = "read" /\ busy < ReadMax /\ busy' = busy + 1
        BY <2>a, <3>1, <3>2, <3>7
      <3> QED
        BY <3>3, <3>5, <3>6, <3>7
    <2>2. CASE TIM2_IRQHandler
      <3>1. Age' = Age
        BY <2>2 DEF TIM2_IRQHandler, Age
      <3> HIDE DEF Age
      <3> QED
        BY <2>2, <3>1, <2>a DEF TIM2_IRQHandler
    <2>3. CASE SensorTake
      <3>1. Age' = Age
        BY <2>3 DEF SensorTake, Age
      <3>2. latest.sensor_valid => spc' # "init"
        BY <2>3 DEF SensorTake, ReadyInv
      <3> HIDE DEF Age
      <3> QED
        BY <2>3, <3>1, <3>2, <2>a DEF SensorTake
    <2>4. ASSUME NEW ok \in BOOLEAN, SensorInit(ok)
          PROVE  TimelyInv'
      <3>1. ~latest.sensor_valid
        BY <2>4 DEF SensorInit, ReadyInv
      <3> HIDE DEF Age
      <3> QED
        BY <2>4, <3>1, <2>a DEF SensorInit
    <2>5. ASSUME NEW temperature \in Temperatures, SensorReadOk(temperature)
          PROVE  TimelyInv'
      <3>1. Age' = Age
        BY <2>5 DEF SensorReadOk, Age
      <3> HIDE DEF Age
      <3> QED
        BY <2>5, <3>1, <2>a DEF SensorReadOk
    <2>6. CASE SensorReadFail
      <3>1. Age' = Age
        BY <2>6 DEF SensorReadFail, Age
      <3> HIDE DEF Age
      <3> QED
        BY <2>6, <3>1, <2>a DEF SensorReadFail
    <2>7. ASSUME NEW adc_valid \in BOOLEAN, SensorAdc(adc_valid)
          PROVE  TimelyInv'
      <3>1. Age' = Age
        BY <2>7 DEF SensorAdc, Age
      <3> HIDE DEF Age
      <3> QED
        BY <2>7, <3>1, <2>a DEF SensorAdc
    <2>8. CASE SensorCommand
      <3>1. Age' = Age
        BY <2>8 DEF SensorCommand, Age
      <3> HIDE DEF Age
      <3> QED
        BY <2>8, <3>1, <2>a DEF SensorCommand
    <2>9. ASSUME NEW c \in Chars, SensorPoll(c)
          PROVE  TimelyInv'
      <3>1. Age' = Age
        BY <2>9 DEF SensorPoll, Age
      <3> HIDE DEF Age
      <3> QED
        BY <2>9, <3>1, <2>a DEF SensorPoll
    <2>10. CASE SensorPollDone
      <3>1. Age' = Age
        BY <2>10 DEF SensorPollDone, Age
      <3> HIDE DEF Age
      <3> QED
        BY <2>10, <3>1, <2>a DEF SensorPollDone
    <2>11. CASE SensorPublish
      <3>1. latest'.sampled_ms = now /\ now' = now
        BY <2>11 DEF SensorPublish, FreshInv
      <3>2. Age' = 0
        BY <2>b, <3>1, ElapsedSelf DEF Age
      <3>3. spc' = "give" /\ due' = due /\ spc = "publish"
        BY <2>11 DEF SensorPublish
      <3> HIDE DEF Age
      <3> QED
        BY <2>a, <3>2, <3>3
    <2>12. CASE SensorGive
      <3>1. Age' = Age
        BY <2>12 DEF SensorGive, Age
      <3> HIDE DEF Age
      <3> QED
        BY <2>12, <3>1, <2>a DEF SensorGive
    <2>13. CASE SensorDelay
      <3>1. Age' = Age
        BY <2>13 DEF SensorDelay, Age
      <3> HIDE DEF Age
      <3> QED
        BY <2>13, <3>1, <2>a DEF SensorDelay
    <2>14. CASE SensorWake
      <3>1. Age' = Age
        BY <2>14 DEF SensorWake, Age
      <3> HIDE DEF Age
      <3> QED
        BY <2>14, <3>1, <2>a DEF SensorWake, SensorRuns, SensorReady
    <2>15. CASE ControlTask
      <3>1. UNCHANGED <<now, latest, spc, due, busy>>
        BY <2>15 DEF ControlTask, ControlTake, ControlCopy, ControlStep,
                 ControlOutput, ControlSend
      <3>2. Age' = Age
        BY <3>1 DEF Age
      <3> HIDE DEF Age
      <3> QED
        BY <3>1, <3>2
    <2>16. CASE LoggerReceive
      <3>1. Age' = Age
        BY <2>16 DEF LoggerReceive, Age
      <3> HIDE DEF Age
      <3> QED
        BY <2>16, <3>1, <2>a DEF LoggerReceive
    <2>17. CASE LoggerLog
      <3>1. Age' = Age
        BY <2>17 DEF LoggerLog, Age
      <3> HIDE DEF Age
      <3> QED
        BY <2>17, <3>1, <2>a DEF LoggerLog
    <2>18. CASE UNCHANGED vars
      BY <2>18 DEF vars, Age
    <2> QED
      BY <2>1, <2>2, <2>3, <2>4, <2>5, <2>6, <2>7, <2>8, <2>9, <2>10, <2>11,
         <2>12, <2>13, <2>14, <2>15, <2>16, <2>17, <2>18
      DEF Next, SensorTask
  <1> QED
    BY <1>1, <1>2, TypeCorrect, ReadyInvariant, FreshInvariant, PTL DEF Spec

(* If a period of sensor_task and a read fit in the stale limit, a sample  *)
(* is found stale only with the loss of the sensor: neither the timer, nor *)
(* a deadline that is caught up, nor the wrap of the clock makes a valid   *)
(* one stale, and initialisations may last as long as they like            *)
(* (bench_app.c:9-14, controller.c:10).                                    *)
THEOREM NeverSpuriouslyStale ==
    ASSUME SamplePeriod + ReadMax <= StaleLimit
    PROVE  Spec => []NoSpuriousStale
  <1> DEFINE IInv == TypeOK /\ Decided /\ ReadyInv /\ TimelyInv /\ InjectedInv
  <1>1. Init => NoSpuriousStale
    BY DEF Init, NoSpuriousStale, control_init
  <1>2. IInv /\ NoSpuriousStale /\ [Next]_vars => NoSpuriousStale'
    <2> SUFFICES ASSUME IInv, NoSpuriousStale, [Next]_vars PROVE NoSpuriousStale'
      OBVIOUS
    <2>1. CASE ControlStep
      <3> DEFINE active == sample_faults(seen, now) \cup current.injected
      <3>1. control'.faults = LatchedAfter(control.faults, active, current.reset)
        BY <2>1 DEF ControlStep, control_step
      <3>2. "STALE" \in active => "SENSOR" \in active
        <4> SUFFICES ASSUME "STALE" \in active PROVE "SENSOR" \in active
          OBVIOUS
        <4>1. seen = latest
          BY <2>1 DEF ControlStep, Decided, CopyInv
        <4>2. Raises("STALE", seen, now)
          BY DEF InjectedInv, sample_faults
        <4>3. Age > StaleLimit
          BY <4>1, <4>2 DEF Raises, Age
        <4>4. ~latest.sensor_valid
          <5>1. /\ SamplePeriod \in Nat \ {0} /\ ReadMax \in Nat
                /\ StaleLimit \in Nat /\ busy \in Nat /\ Age \in Nat
            BY BenchAssumption, ControllerAssumption, AgeType DEF TypeOK
          <5>2. spc \in SensorSteps
            BY DEF TypeOK
          <5>3. spc = "init" => ~latest.sensor_valid
            BY DEF ReadyInv
          <5> HIDE DEF Age
          <5> QED
            BY <4>3, <5>1, <5>2, <5>3 DEF SensorSteps, TimelyInv
        <4>5. Raises("SENSOR", seen, now)
          BY <4>1, <4>4 DEF Raises
        <4> QED
          BY <4>5 DEF sample_faults, FaultBits
      <3> HIDE DEF active
      <3> QED
        BY <3>1, <3>2 DEF NoSpuriousStale, LatchedAfter
    <2>2. CASE UNCHANGED control
      BY <2>2 DEF NoSpuriousStale
    <2>3. ControlStep \/ UNCHANGED control
      BY Zenon DEF Next, vars, control_vars, Tick, TIM2_IRQHandler, SensorTask,
             SensorTake, SensorInit, SensorReadOk, SensorReadFail, SensorAdc,
             SensorCommand, SensorPoll, SensorPollDone, SensorPublish,
             SensorGive, SensorDelay, SensorWake, ControlTask, ControlTake,
             ControlCopy, ControlOutput, ControlSend, LoggerReceive, LoggerLog
    <2> QED
      BY <2>1, <2>2, <2>3
  <1> QED
    BY <1>1, <1>2, TypeCorrect, DecisionInvariant, ReadyInvariant,
       TimelyInvariant, InjectedInvariant, PTL DEF Spec
=============================================================================
