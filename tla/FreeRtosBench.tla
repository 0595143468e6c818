---------------------------- MODULE FreeRtosBench ----------------------------
(***************************************************************************)
(* The FreeRTOS variant of the STM32F446 bench (freertos_main.c): three    *)
(* tasks under the preemptive kernel, the TIM2 interrupt, and what they    *)
(* share.                                                                  *)
(*                                                                         *)
(*   sensor_task (3)  acquires a sample, polls the operator's bytes,       *)
(*                    publishes both and gives fault_event, every 50 ms    *)
(*   control_task (4) takes fault_event, copies what was published, runs   *)
(*                    control_step, drives pin PA5, sends a log record     *)
(*   logger_task (1)  receives log records and writes them to the UART     *)
(*   TIM2 (interrupt) every 100 ms: gives fault_event too, so that         *)
(*                    control_task judges staleness without the sensor     *)
(*                                                                         *)
(* Priorities are the enabling conditions: a task takes a step only when   *)
(* no task above it is ready; the interrupt may come between any two       *)
(* steps.  A step is what the interrupt mask makes atomic (a critical      *)
(* section, a kernel call) or touches nothing shared.                      *)
(*                                                                         *)
(* A definition with a suffix (Consumed_KeepsReset) is a slip of the one   *)
(* it precedes.  No specification uses it: it stands beside the right one  *)
(* to show which property notices it.                                      *)
(*                                                                         *)
(* Time advances by Tick.  The computations of a task take no time next to *)
(* the unit of the model; the bus transactions of mpu_init and mpu_read    *)
(* take any time up to InitMax and ReadMax.                                *)
(***************************************************************************)
EXTENDS BenchApp

CONSTANTS
    SamplePeriod,   \* period of sensor_task (50 ms)
    TimerPeriod,    \* period of TIM2 (100 ms)
    InitDelay,      \* power-up delay inside mpu_init (100 ms)
    InitMax,        \* longest mpu_init
    ReadMax,        \* longest mpu_read
    LogLength,      \* length of log_queue (8)
    Temperatures,   \* what the sensor may measure, in 1/100 degree
    Chars,          \* the operator's command characters
    MaxAsked,       \* bound of the model: reset requests of the operator
    MaxLag          \* bound of the model: how far sensor_task falls behind

ASSUME BenchAssumption ==
    /\ SamplePeriod \in Nat \ {0}
    /\ TimerPeriod \in Nat \ {0}
    /\ InitDelay \in Nat /\ InitMax \in Nat /\ ReadMax \in Nat
    /\ InitDelay <= InitMax
    /\ LogLength \in Nat \ {0}
    /\ Temperatures \subseteq Int
    /\ MaxAsked \in Nat /\ MaxLag \in Nat

VARIABLES
    now,                    \* board_now_ms()
    phase,                  \* the timer's counter
    uif,                    \* its update flag: the interrupt is pending
    scheduler_ready, fault_event, i2c_mutex,
    latest, command, control,
    log_queue,              \* number of records waiting
    bench_log_queue_drops,
    output,                 \* pin PA5
    spc, sensor_ready, sample, incoming,
    busy,                   \* time spent in the current bus transaction
    due,                    \* time left until the deadline "next"
    cpc, seen, current,
    lpc,
    asked,                  \* history: reset requests read from the UART
    honoured                \* history: resets that cleared latched faults

clock_vars == <<now, phase, uif>>
kernel_vars == <<fault_event, i2c_mutex, log_queue>>
shared_vars == <<latest, command, scheduler_ready>>
sensor_vars == <<spc, sensor_ready, sample, incoming, busy, due>>
control_vars == <<cpc, seen, current, control, output, bench_log_queue_drops>>
history_vars == <<asked, honoured>>

vars == <<clock_vars, kernel_vars, shared_vars, sensor_vars, control_vars,
          lpc, history_vars>>

-----------------------------------------------------------------------------
(* Types.                                                                  *)

SensorSteps == {"take", "init", "read", "adc", "command", "poll", "publish",
                "give", "delay", "sleep"}
ControlSteps == {"wait", "copy", "step", "output", "send"}

TypeOK ==
    /\ now \in Times /\ phase \in 0 .. TimerPeriod - 1 /\ uif \in BOOLEAN
    /\ scheduler_ready \in BOOLEAN
    /\ fault_event \in BOOLEAN /\ i2c_mutex \in BOOLEAN
    /\ latest \in Sample /\ command \in Command /\ control \in Control
    /\ log_queue \in 0 .. LogLength
    /\ bench_log_queue_drops \in Counts
    /\ output \in BOOLEAN
    /\ spc \in SensorSteps /\ sensor_ready \in BOOLEAN
    /\ sample \in Sample /\ incoming \in Command
    /\ busy \in Nat /\ due \in Int
    /\ cpc \in ControlSteps /\ seen \in Sample /\ current \in Command
    /\ lpc \in {"receive", "log"}
    /\ asked \in Nat /\ honoured \in Nat

-----------------------------------------------------------------------------
(* The kernel's choice of the running task.                                *)

ControlReady == cpc # "wait" \/ fault_event
SensorReady == spc # "sleep" \/ due <= 0

SensorRuns == SensorReady /\ ~ControlReady
LoggerRuns == ~SensorReady /\ ~ControlReady

-----------------------------------------------------------------------------
(* The main program has started the timer, with interrupts masked from its *)
(* first kernel call until the scheduler runs.                             *)
Init ==
    /\ phase \in 0 .. TimerPeriod - 1
    /\ now = phase % TimeModulus
    /\ uif \in BOOLEAN /\ (uif => phase = 0)
    /\ scheduler_ready = FALSE
    /\ fault_event = FALSE /\ i2c_mutex = TRUE /\ log_queue = 0
    /\ latest = ZeroSample(0) /\ command = ZeroCommand
    /\ control = control_init /\ output = FALSE
    /\ bench_log_queue_drops = 0
    /\ spc = "take" /\ sensor_ready = FALSE
    /\ sample = ZeroSample(0) /\ incoming = ZeroCommand
    /\ busy = 0 /\ due = 0
    /\ cpc = "wait" /\ seen = ZeroSample(0) /\ current = ZeroCommand
    /\ lpc = "receive"
    /\ asked = 0 /\ honoured = 0

-----------------------------------------------------------------------------
(* Time and the timer interrupt.                                           *)

(* The sensor task sleeps until its deadline or waits for the bus.         *)
TimeMayPass ==
    /\ ~uif
    /\ ~ControlReady
    /\ due > -MaxLag
    /\ \/ ~SensorReady
       \/ spc = "init" /\ busy < InitMax
       \/ spc = "read" /\ busy < ReadMax

Tick ==
    /\ TimeMayPass
    /\ now' = (now + 1) % TimeModulus
    /\ phase' = (phase + 1) % TimerPeriod
    /\ uif' = (phase' = 0)
    /\ due' = due - 1
    /\ busy' = IF spc \in {"init", "read"} THEN busy + 1 ELSE busy
    /\ UNCHANGED <<kernel_vars, shared_vars, spc, sensor_ready, sample,
                   incoming, control_vars, lpc, history_vars>>

(* board_timer_event_from_isr: the value of fault_event after it.          *)
board_timer_event_from_isr_Unguarded == TRUE
board_timer_event_from_isr_Silent == fault_event
board_timer_event_from_isr == fault_event \/ scheduler_ready

TIM2_IRQHandler ==
    /\ uif
    /\ uif' = FALSE
    /\ fault_event' = board_timer_event_from_isr
    /\ UNCHANGED <<now, phase, i2c_mutex, log_queue, shared_vars, sensor_vars,
                   control_vars, lpc, history_vars>>

-----------------------------------------------------------------------------
(* sensor_task.                                                            *)

(* Take i2c_mutex, or after 10 ms go on with a zero sample.                *)
SensorTake ==
    /\ SensorRuns /\ spc = "take"
    /\ IF i2c_mutex
       THEN /\ i2c_mutex' = FALSE
            /\ sample' = NextSample
            /\ spc' = IF sensor_ready THEN "read" ELSE "init"
       ELSE /\ sample' = ZeroSample(now)
            /\ spc' = "command"
            /\ UNCHANGED i2c_mutex
    /\ busy' = 0
    /\ UNCHANGED <<clock_vars, fault_event, log_queue, shared_vars, sensor_ready,
                   incoming, due, control_vars, lpc, history_vars>>

(* mpu_init: success includes the power-up delay, failure may come early.  *)
SensorInit(ok) ==
    /\ SensorRuns /\ spc = "init"
    /\ ok => busy >= InitDelay
    /\ sensor_ready' = ok
    /\ spc' = IF ok THEN "read" ELSE "adc"
    /\ busy' = 0
    /\ UNCHANGED <<clock_vars, kernel_vars, shared_vars, sample, incoming, due,
                   control_vars, lpc, history_vars>>

SensorReadOk(temperature) ==
    /\ SensorRuns /\ spc = "read"
    /\ sample' = [sample EXCEPT !.temperature_centi = temperature,
                                !.sensor_valid = TRUE]
    /\ spc' = "adc"
    /\ busy' = 0
    /\ UNCHANGED <<clock_vars, kernel_vars, shared_vars, sensor_ready, incoming,
                   due, control_vars, lpc, history_vars>>

SensorReadFail ==
    /\ SensorRuns /\ spc = "read"
    /\ sensor_ready' = FALSE
    /\ spc' = "adc"
    /\ busy' = 0
    /\ UNCHANGED <<clock_vars, kernel_vars, shared_vars, sample, incoming, due,
                   control_vars, lpc, history_vars>>

(* The end of bench_acquire, and the mutex given back.                     *)
SensorAdc(adc_valid) ==
    /\ SensorRuns /\ spc = "adc"
    /\ sample' = Stamped(sample, adc_valid, now)
    /\ i2c_mutex' = TRUE
    /\ spc' = "command"
    /\ UNCHANGED <<clock_vars, fault_event, log_queue, shared_vars, sensor_ready,
                   incoming, busy, due, control_vars, lpc, history_vars>>

(* The copy of command, with only new reset requests to be published.      *)
FreshCopy(cmd) == [cmd EXCEPT !.reset = FALSE]

SensorCommand ==
    /\ SensorRuns /\ spc = "command"
    /\ incoming' = FreshCopy(command)
    /\ spc' = "poll"
    /\ UNCHANGED <<clock_vars, kernel_vars, shared_vars, sensor_ready, sample,
                   busy, due, control_vars, lpc, history_vars>>

(* One byte of bench_poll_commands.                                        *)
SensorPoll(c) ==
    /\ SensorRuns /\ spc = "poll"
    /\ incoming' = Commanded(incoming, c)
    /\ IF c = "r" THEN asked < MaxAsked /\ asked' = asked + 1
                  ELSE UNCHANGED asked
    /\ UNCHANGED <<clock_vars, kernel_vars, shared_vars, spc, sensor_ready,
                   sample, busy, due, control_vars, lpc, honoured>>

SensorPollDone ==
    /\ SensorRuns /\ spc = "poll"
    /\ spc' = "publish"
    /\ UNCHANGED <<clock_vars, kernel_vars, shared_vars, sensor_ready, sample,
                   incoming, busy, due, control_vars, lpc, history_vars>>

(* What is published: the sample, the injected faults as they stand, and   *)
(* a reset request on top of one that still waits.                         *)
Merged(cmd, new) == [injected |-> new.injected, reset |-> cmd.reset \/ new.reset]

SensorPublish ==
    /\ SensorRuns /\ spc = "publish"
    /\ latest' = sample
    /\ command' = Merged(command, incoming)
    /\ scheduler_ready' = TRUE
    /\ sample' = ZeroSample(0) /\ incoming' = ZeroCommand
    /\ spc' = "give"
    /\ UNCHANGED <<clock_vars, kernel_vars, sensor_ready, busy, due,
                   control_vars, lpc, history_vars>>

SensorGive_Forgotten ==
    /\ SensorRuns /\ spc = "give"
    /\ spc' = "delay"
    /\ UNCHANGED <<clock_vars, kernel_vars, shared_vars, sensor_ready, sample,
                   incoming, busy, due, control_vars, lpc, history_vars>>

SensorGive ==
    /\ SensorRuns /\ spc = "give"
    /\ fault_event' = TRUE
    /\ spc' = "delay"
    /\ UNCHANGED <<clock_vars, i2c_mutex, log_queue, shared_vars, sensor_ready,
                   sample, incoming, busy, due, control_vars, lpc, history_vars>>

(* xTaskDelayUntil: the deadline moves by one period from the last one, so *)
(* a late task does not sleep until it has caught up.                      *)
SensorDelay ==
    /\ SensorRuns /\ spc = "delay"
    /\ due' = due + SamplePeriod
    /\ spc' = "sleep"
    /\ UNCHANGED <<clock_vars, kernel_vars, shared_vars, sensor_ready, sample,
                   incoming, busy, control_vars, lpc, history_vars>>

SensorWake ==
    /\ SensorRuns /\ spc = "sleep"
    /\ spc' = "take"
    /\ UNCHANGED <<clock_vars, kernel_vars, shared_vars, sensor_ready, sample,
                   incoming, busy, due, control_vars, lpc, history_vars>>

SensorTask ==
    \/ SensorTake
    \/ \E ok \in BOOLEAN : SensorInit(ok)
    \/ \E temperature \in Temperatures : SensorReadOk(temperature)
    \/ SensorReadFail
    \/ \E adc_valid \in BOOLEAN : SensorAdc(adc_valid)
    \/ SensorCommand
    \/ \E c \in Chars : SensorPoll(c)
    \/ SensorPollDone
    \/ SensorPublish
    \/ SensorGive
    \/ SensorDelay
    \/ SensorWake

-----------------------------------------------------------------------------
(* control_task: the highest priority, so nothing but the interrupt comes  *)
(* between its steps.                                                      *)

ControlTake ==
    /\ cpc = "wait" /\ fault_event
    /\ fault_event' = FALSE
    /\ cpc' = "copy"
    /\ UNCHANGED <<clock_vars, i2c_mutex, log_queue, shared_vars, sensor_vars,
                   seen, current, control, output, bench_log_queue_drops, lpc,
                   history_vars>>

(* The command left behind when control_task takes its copy.               *)
Consumed_KeepsReset(cmd) == cmd
Consumed(cmd) == [cmd EXCEPT !.reset = FALSE]

ControlCopy ==
    /\ cpc = "copy"
    /\ seen' = latest /\ current' = command
    /\ command' = Consumed(command)
    /\ cpc' = "step"
    /\ UNCHANGED <<clock_vars, kernel_vars, latest, scheduler_ready, sensor_vars,
                   control, output, bench_log_queue_drops, lpc, history_vars>>

ControlStep ==
    /\ cpc = "step"
    /\ control' = control_step(control, seen, now, current.reset, current.injected)
    /\ honoured' = IF control.faults # {} /\ control'.faults = {}
                   THEN honoured + 1 ELSE honoured
    /\ cpc' = "output"
    /\ UNCHANGED <<clock_vars, kernel_vars, shared_vars, sensor_vars, seen,
                   current, output, bench_log_queue_drops, lpc, asked>>

(* board_output.                                                           *)
ControlOutput ==
    /\ cpc = "output"
    /\ output' = control.output_enabled
    /\ cpc' = "send"
    /\ UNCHANGED <<clock_vars, kernel_vars, shared_vars, sensor_vars, seen,
                   current, control, bench_log_queue_drops, lpc, history_vars>>

(* xQueueSend without waiting: a record that finds no room is counted.     *)
LogHasRoom_Overrun == log_queue <= LogLength
LogHasRoom == log_queue < LogLength

SendRecord_Waiting ==
    /\ LogHasRoom
    /\ log_queue' = log_queue + 1
    /\ UNCHANGED bench_log_queue_drops

SendRecord ==
    IF LogHasRoom
    THEN /\ log_queue' = log_queue + 1
         /\ UNCHANGED bench_log_queue_drops
    ELSE /\ bench_log_queue_drops' = (bench_log_queue_drops + 1) % CountModulus
         /\ UNCHANGED log_queue

(* The locals of the loop go out of scope.                                 *)
ControlSend ==
    /\ cpc = "send"
    /\ SendRecord
    /\ seen' = ZeroSample(0) /\ current' = ZeroCommand
    /\ cpc' = "wait"
    /\ UNCHANGED <<clock_vars, fault_event, i2c_mutex, shared_vars, sensor_vars,
                   control, output, lpc, history_vars>>

ControlTask == ControlTake \/ ControlCopy \/ ControlStep \/ ControlOutput
                     \/ ControlSend

-----------------------------------------------------------------------------
(* logger_task: whatever bench_log writes, it changes none of this state.  *)

LoggerReceive ==
    /\ LoggerRuns /\ lpc = "receive" /\ log_queue > 0
    /\ log_queue' = log_queue - 1
    /\ lpc' = "log"
    /\ UNCHANGED <<clock_vars, fault_event, i2c_mutex, shared_vars, sensor_vars,
                   control_vars, history_vars>>

LoggerLog ==
    /\ LoggerRuns /\ lpc = "log"
    /\ lpc' = "receive"
    /\ UNCHANGED <<clock_vars, kernel_vars, shared_vars, sensor_vars,
                   control_vars, history_vars>>

-----------------------------------------------------------------------------
Next ==
    \/ Tick
    \/ TIM2_IRQHandler
    \/ SensorTask
    \/ ControlTask
    \/ LoggerReceive
    \/ LoggerLog

Spec == Init /\ [][Next]_vars

(* What the hardware and the kernel grant: the clock runs, the interrupt   *)
(* is served, and the two tasks above logger_task run when ready.  Nothing *)
(* is assumed of logger_task.  Bytes arrive slower than they are polled,   *)
(* so a poll loop ends.                                                    *)
Fairness ==
    /\ WF_vars(Tick)
    /\ WF_vars(TIM2_IRQHandler)
    /\ WF_vars(ControlTask)
    /\ WF_vars(SensorTask)
    /\ SF_vars(SensorPollDone)

FairSpec == Spec /\ Fairness

-----------------------------------------------------------------------------
(* Properties.                                                             *)

(* Every recovery from a fault is paid for by a reset request of its own:  *)
(* no request is honoured twice, although it passes through the UART loop, *)
(* incoming, command and current, and two tasks and a timer race for it    *)
(* (freertos_main.c:39, 44, 60).                                           *)
RecoveryPaid == honoured <= asked

(* control_task waits and nothing it was notified of is outstanding.       *)
Settled == ~ControlReady /\ spc # "give" /\ scheduler_ready

(* Whenever control_task has settled, everything published was judged:     *)
(* each fault of the latest sample and each injected fault is latched, the *)
(* pin agrees with the decision, and no reset request is kept for later,   *)
(* when the inputs may have become safe (freertos_main.c:41-48, 56-63).    *)
SettledDecision ==
    Settled =>
        /\ command.injected \subseteq control.faults
        /\ sample_faults(latest, latest.sampled_ms) \subseteq control.faults
        /\ output = control.output_enabled
        /\ ~command.reset

(* The pin is never on with a sample older than the stale limit plus one   *)
(* timer period, however long the sensor task hangs on the bus: the timer  *)
(* is the watchdog (freertos_main.c:15-21, controller.c:10).               *)
PinFresh ==
    output => Elapsed(now, latest.sampled_ms) <= StaleLimit + TimerPeriod

(* control_task never judges a sample nobody acquired: the timer does not  *)
(* wake it before the first one is published ("First sample exists before  *)
(* the timer can notify", freertos_main.c:45) and the mutex, which has one *)
(* user, never times out (freertos_main.c:31-34).                          *)
ControlSeesSample ==
    cpc = "step" => \A i \in Cells : seen.cells_mv[i] > 0

(* The bus time-outs leave room for the stale limit: a sample is found     *)
(* stale only during a re-initialisation of the sensor, when the loss of   *)
(* the sensor is latched already.                                          *)
NoSpuriousStale == "STALE" \in control.faults => "SENSOR" \in control.faults

(* The tasks implement the fault latch promised to the operator.           *)
Latch == INSTANCE FaultLatch WITH
    Faults <- FaultBits,
    latched <- control.faults,
    enabled <- control.output_enabled

ImplementsFaultLatch == Latch!Spec

(* The control task keeps judging even if logger_task never runs again and *)
(* its queue stays full ("control continues during logging congestion",    *)
(* README.md:38-39 of the bench; freertos_main.c:65).                      *)
KeepsJudging == []<>(cpc = "step")

-----------------------------------------------------------------------------
(* Strengthenings of the properties above that every step preserves.       *)

Counted(pending) == IF pending THEN 1 ELSE 0

(* Where a request that was asked for and not honoured yet can be.         *)
PaidInv ==
    honoured + Counted(incoming.reset) + Counted(command.reset)
             + Counted(cpc = "step" /\ current.reset) <= asked

(* The decision never contradicts the latched faults, and between          *)
(* ControlStep and ControlOutput alone the pin may lag behind it.          *)
DecisionInv ==
    /\ control.output_enabled => control.faults = {}
    /\ cpc # "output" => output = control.output_enabled

(* Until the first sample is published control_task is not woken; while it *)
(* computes, what it copied is what is published.                          *)
CopyInv ==
    /\ ~scheduler_ready => ~ControlReady /\ ~control.output_enabled /\ spc # "give"
    /\ cpc = "step" => /\ seen = latest
                       /\ current.injected = command.injected
                       /\ ~command.reset

(* Whatever is on its way to control_task was acquired: the mutex is free  *)
(* when sensor_task wants it.                                              *)
Acquired(s) == \A i \in Cells : s.cells_mv[i] > 0

AcquiredInv ==
    /\ i2c_mutex = (spc \notin {"init", "read", "adc"})
    /\ spc \in {"init", "read", "adc", "command", "poll", "publish"} => Acquired(sample)
    /\ scheduler_ready => Acquired(latest)

(* What is published was judged, unless its notification is outstanding.   *)
JudgedInv ==
    \/ ~scheduler_ready \/ fault_event \/ spc = "give" \/ cpc \in {"copy", "step"}
    \/ /\ command.injected \subseteq control.faults
       /\ sample_faults(latest, latest.sampled_ms) \subseteq control.faults
       /\ ~command.reset

(* A sample on its way to latest was stamped now.  A decision to enable is *)
(* as old as the timer's counter says, and one period older while the      *)
(* timer's notification is outstanding.                                    *)
Age == Elapsed(now, latest.sampled_ms)
TimerOutstanding == uif \/ fault_event \/ cpc \in {"copy", "step"}

FreshInv ==
    /\ spc \in {"command", "poll", "publish"} => sample.sampled_ms = now
    /\ uif => phase = 0
    /\ control.output_enabled \/ output =>
          Age <= StaleLimit + (IF phase = 0 /\ (TimerOutstanding \/ cpc = "output")
                               THEN TimerPeriod ELSE phase)
    /\ control.output_enabled /\ cpc \in {"output", "send"} => Age <= StaleLimit

(* No character injects staleness.                                         *)
InjectedInv ==
    "STALE" \notin command.injected \cup incoming.injected \cup current.injected

(* While a valid sample is the latest, the sensor stays initialised until  *)
(* a read fails, and the failed read's sample is not valid.                *)
ReadyInv ==
    /\ spc \in {"init", "read"} => ~sample.sensor_valid
    /\ spc \in {"adc", "command", "poll", "publish"} /\ sample.sensor_valid =>
          sensor_ready
    /\ spc \notin {"adc", "command", "poll", "publish"} /\ latest.sensor_valid =>
          sensor_ready
    /\ spc = "init" => ~sensor_ready
    /\ spc = "read" => sensor_ready

(* How old it is then: sensor_task sleeps no longer than a period, also    *)
(* when it has to catch up, and the next read is the only wait.            *)
TimelyInv ==
    /\ spc # "sleep" => due <= 0
    /\ spc = "read" => busy <= ReadMax
    /\ latest.sensor_valid =>
          /\ spc \in {"give", "delay"} => Age = 0
          /\ spc = "sleep" => Age + due <= SamplePeriod
          /\ spc \in {"sleep", "take"} => Age <= SamplePeriod
          /\ spc = "read" => Age <= SamplePeriod + busy
          /\ spc \in {"adc", "command", "poll", "publish"} =>
                Age <= SamplePeriod + ReadMax
=============================================================================
