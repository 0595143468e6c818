---------------------------- MODULE BaremetalBench ----------------------------
(***************************************************************************)
(* The bare-metal variant of the STM32F446 bench (baremetal_main.c): one   *)
(* loop that polls the operator's bytes, judges a new sample once per tick *)
(* of TIM2, and sleeps in __WFI until the next interrupt.                  *)
(*                                                                         *)
(* The interrupt may come between any two steps of the loop, in particular *)
(* between the test for a tick and __WFI: the loop then sleeps with a tick *)
(* pending until the next interrupt, of whatever device.  Ticks that come  *)
(* while the loop is busy are coalesced.                                   *)
(*                                                                         *)
(* Time advances by Tick while the loop sleeps or waits on the bus; what   *)
(* it computes takes no time next to the unit of the model.                *)
(***************************************************************************)
EXTENDS BenchApp

CONSTANTS
    TimerPeriod,    \* period of TIM2 (100 ms)
    TickModulus,    \* the uint32_t tick counters wrap here
    InitDelay,      \* power-up delay inside mpu_init (100 ms)
    InitMax,        \* longest mpu_init
    ReadMax,        \* longest mpu_read
    Temperatures,   \* what the sensor may measure, in 1/100 degree
    Chars,          \* the operator's command characters
    MaxAsked        \* bound of the model: reset requests of the operator

ASSUME BaremetalAssumption ==
    /\ TimerPeriod \in Nat \ {0}
    /\ TickModulus \in Nat \ {0}
    /\ InitDelay \in Nat /\ InitMax \in Nat /\ ReadMax \in Nat
    /\ InitDelay <= InitMax
    /\ Temperatures \subseteq Int
    /\ MaxAsked \in Nat

(* The counters of ticks do not come full circle while ticks coalesce.     *)
ASSUME TickAssumption ==
    TickModulus * TimerPeriod > InitMax + ReadMax + 2 * TimerPeriod

VARIABLES
    now,            \* board_now_ms
    phase, uif,     \* TIM2: counter and update flag (interrupt pending)
    pending_ticks,  \* ticks so far, counted by the interrupt
    pc,             \* the statement the loop is about to execute
    consumed,       \* the ticks taken over by the loop
    sensor_ready,
    next,           \* bench_acquire's local
    busy,           \* time spent in the current bus transaction
    sample, command, control,
    output,         \* pin PA5
    asked,          \* history: reset requests read from the UART
    honoured        \* history: resets that cleared latched faults

clock_vars == <<now, phase, uif>>
acquire_vars == <<sensor_ready, next, busy>>
decision_vars == <<control, output, honoured>>

vars == <<clock_vars, pending_ticks, pc, consumed, acquire_vars, sample,
          command, asked, decision_vars>>

Steps == {"poll", "test", "consume", "init", "read", "adc", "step", "output",
          "wfi", "sleep"}

TypeOK ==
    /\ now \in Times /\ phase \in 0 .. TimerPeriod - 1 /\ uif \in BOOLEAN
    /\ {pending_ticks, consumed} \subseteq 0 .. TickModulus - 1
    /\ pc \in Steps
    /\ sensor_ready \in BOOLEAN /\ next \in Sample /\ busy \in Nat
    /\ sample \in Sample /\ command \in Command /\ control \in Control
    /\ output \in BOOLEAN
    /\ asked \in Nat /\ honoured \in Nat

-----------------------------------------------------------------------------
(* The timer has been started, and the CAN test takes less than a period.  *)
Init ==
    /\ phase \in 0 .. TimerPeriod - 1
    /\ now = phase % TimeModulus
    /\ uif = FALSE
    /\ pending_ticks = 0 /\ consumed = 0
    /\ pc = "poll"
    /\ sensor_ready = FALSE /\ next = ZeroSample(0) /\ busy = 0
    /\ sample = ZeroSample(0) /\ command = ZeroCommand
    /\ control = control_init /\ output = FALSE
    /\ asked = 0 /\ honoured = 0

-----------------------------------------------------------------------------
(* Time and interrupts.                                                    *)

TimeMayPass ==
    /\ ~uif
    /\ \/ pc = "sleep"
       \/ pc = "init" /\ busy < InitMax
       \/ pc = "read" /\ busy < ReadMax

Tick ==
    /\ TimeMayPass
    /\ now' = (now + 1) % TimeModulus
    /\ phase' = (phase + 1) % TimerPeriod
    /\ uif' = (phase' = 0)
    /\ busy' = IF pc \in {"init", "read"} THEN busy + 1 ELSE busy
    /\ UNCHANGED <<pending_ticks, pc, consumed, sensor_ready, next, sample,
                   command, asked, decision_vars>>

(* Any interrupt ends __WFI.                                               *)
Woken == IF pc = "sleep" THEN "poll" ELSE pc

TIM2_IRQHandler ==
    /\ uif
    /\ uif' = FALSE
    /\ pending_ticks' = (pending_ticks + 1) % TickModulus
    /\ pc' = Woken
    /\ UNCHANGED <<now, phase, consumed, acquire_vars, sample, command, asked,
                   decision_vars>>

(* An interrupt of the UART or of the ADC's DMA.  The latter comes every   *)
(* 8 ms until a transfer error stops the stream.                           *)
OtherInterrupt ==
    /\ pc = "sleep"
    /\ pc' = Woken
    /\ UNCHANGED <<clock_vars, pending_ticks, consumed, acquire_vars, sample,
                   command, asked, decision_vars>>

-----------------------------------------------------------------------------
(* The loop.                                                               *)

(* One byte of bench_poll_commands.                                        *)
Poll(c) ==
    /\ pc = "poll"
    /\ command' = Commanded(command, c)
    /\ IF c = "r" THEN asked < MaxAsked /\ asked' = asked + 1
                  ELSE UNCHANGED asked
    /\ UNCHANGED <<clock_vars, pending_ticks, pc, consumed, acquire_vars,
                   sample, decision_vars>>

PollDone ==
    /\ pc = "poll"
    /\ pc' = "test"
    /\ UNCHANGED <<clock_vars, pending_ticks, consumed, acquire_vars, sample,
                   command, asked, decision_vars>>

(* The counters are compared for difference: they wrap.                    *)
TickPending_Greater == pending_ticks > consumed
TickPending == pending_ticks # consumed

Test ==
    /\ pc = "test"
    /\ pc' = IF TickPending THEN "consume" ELSE "wfi"
    /\ UNCHANGED <<clock_vars, pending_ticks, consumed, acquire_vars, sample,
                   command, asked, decision_vars>>

(* pending_ticks is read again, and bench_acquire entered.                 *)
Consume ==
    /\ pc = "consume"
    /\ consumed' = pending_ticks
    /\ next' = NextSample
    /\ busy' = 0
    /\ pc' = IF sensor_ready THEN "read" ELSE "init"
    /\ UNCHANGED <<clock_vars, pending_ticks, sensor_ready, sample, command,
                   asked, decision_vars>>

(* mpu_init: success includes the power-up delay, failure may come early.  *)
SensorInit(ok) ==
    /\ pc = "init"
    /\ ok => busy >= InitDelay
    /\ sensor_ready' = ok
    /\ busy' = 0
    /\ pc' = IF ok THEN "read" ELSE "adc"
    /\ UNCHANGED <<clock_vars, pending_ticks, consumed, next, sample, command,
                   asked, decision_vars>>

ReadOk(temperature) ==
    /\ pc = "read"
    /\ next' = [next EXCEPT !.temperature_centi = temperature,
                            !.sensor_valid = TRUE]
    /\ busy' = 0
    /\ pc' = "adc"
    /\ UNCHANGED <<clock_vars, pending_ticks, consumed, sensor_ready, sample,
                   command, asked, decision_vars>>

(* After a failed read the sensor is initialised again, at the next tick.  *)
ReadFail_Retries ==
    /\ pc = "read"
    /\ sensor_ready' = FALSE
    /\ busy' = 0
    /\ pc' = "init"
    /\ UNCHANGED <<clock_vars, pending_ticks, consumed, next, sample, command,
                   asked, decision_vars>>

ReadFail ==
    /\ pc = "read"
    /\ sensor_ready' = FALSE
    /\ busy' = 0
    /\ pc' = "adc"
    /\ UNCHANGED <<clock_vars, pending_ticks, consumed, next, sample, command,
                   asked, decision_vars>>

Adc(adc_valid) ==
    /\ pc = "adc"
    /\ sample' = Stamped(next, adc_valid, now)
    /\ next' = ZeroSample(0)
    /\ pc' = "step"
    /\ UNCHANGED <<clock_vars, pending_ticks, consumed, sensor_ready, busy,
                   command, asked, decision_vars>>

(* A reset request is spent by the step it meets.                          *)
Spent_KeepsReset(cmd) == cmd
Spent(cmd) == [cmd EXCEPT !.reset = FALSE]

Step ==
    /\ pc = "step"
    /\ control' = control_step(control, sample, now, command.reset, command.injected)
    /\ command' = Spent(command)
    /\ honoured' = IF control.faults # {} /\ control'.faults = {}
                   THEN honoured + 1 ELSE honoured
    /\ pc' = "output"
    /\ UNCHANGED <<clock_vars, pending_ticks, consumed, acquire_vars, sample,
                   output, asked>>

(* board_output; bench_log changes nothing modelled here.                  *)
Output ==
    /\ pc = "output"
    /\ output' = control.output_enabled
    /\ pc' = "wfi"
    /\ UNCHANGED <<clock_vars, pending_ticks, consumed, acquire_vars, sample,
                   command, asked, control, honoured>>

Sleep ==
    /\ pc = "wfi"
    /\ pc' = "sleep"
    /\ UNCHANGED <<clock_vars, pending_ticks, consumed, acquire_vars, sample,
                   command, asked, decision_vars>>

MainLoop ==
    \/ \E c \in Chars : Poll(c)
    \/ PollDone
    \/ Test
    \/ Consume
    \/ \E ok \in BOOLEAN : SensorInit(ok)
    \/ \E temperature \in Temperatures : ReadOk(temperature)
    \/ ReadFail
    \/ \E adc_valid \in BOOLEAN : Adc(adc_valid)
    \/ Step
    \/ Output
    \/ Sleep

Next == Tick \/ TIM2_IRQHandler \/ OtherInterrupt \/ MainLoop

Spec == Init /\ [][Next]_vars

(* The processor runs, the timer's interrupt is served, and bytes arrive   *)
(* slower than they are polled.  Time passes however often the loop is     *)
(* woken: the other interrupts are far apart next to an iteration.         *)
(* Nothing is assumed of them.                                             *)
Fairness ==
    /\ SF_vars(Tick)
    /\ WF_vars(TIM2_IRQHandler)
    /\ WF_vars(MainLoop)
    /\ WF_vars(PollDone)

FairSpec == Spec /\ Fairness

-----------------------------------------------------------------------------
(* Properties.                                                             *)

(* The loop implements the fault latch promised to the operator, as the    *)
(* tasks of the FreeRTOS variant do.                                       *)
Latch == INSTANCE FaultLatch WITH
    Faults <- FaultBits,
    latched <- control.faults,
    enabled <- control.output_enabled

ImplementsFaultLatch == Latch!Spec

(* The pin is never on with a sample older than two timer periods and a    *)
(* bus read: one period between ticks, one more when a tick comes between  *)
(* the test and __WFI and no other interrupt wakes the loop, and the read  *)
(* of the next sample (baremetal_main.c:18-26).  A re-initialisation of    *)
(* the sensor does not count: the pin is off by then.                      *)
PinBounded ==
    output => Elapsed(now, sample.sampled_ms) <= 2 * TimerPeriod + ReadMax

(* An injected stimulus turns the pin off unless it is withdrawn, although *)
(* ticks are coalesced, their counter wraps, and a tick may find the loop  *)
(* on its way to sleep (baremetal_main.c:18-19, 26).                       *)
InjectionServed == command.injected # {} ~> ~output \/ command.injected = {}
-----------------------------------------------------------------------------
(* Strengthenings of the properties above that every step preserves.       *)

Counted(pending) == IF pending THEN 1 ELSE 0

(* A request that was asked for and not honoured waits in command.         *)
PaidInv == honoured + Counted(command.reset) <= asked

(* The decision never contradicts the latched faults, and the pin lags     *)
(* behind it only between Step and Output.                                 *)
DecisionInv ==
    /\ control.output_enabled => control.faults = {}
    /\ pc # "output" => output = control.output_enabled

(* While the sensor is initialised the pin is off: a read that failed left *)
(* no valid sample, and the step that judged it latched the fault.         *)
SensorInv ==
    /\ output => pc # "init"
    /\ output /\ pc \in {"poll", "test", "consume", "wfi", "sleep"} => sensor_ready
    /\ pc = "read" => sensor_ready
    /\ pc \in {"init", "read"} => ~next.sensor_valid
    /\ pc = "adc" /\ ~sensor_ready => ~next.sensor_valid
    /\ pc = "step" /\ ~sensor_ready => ~sample.sensor_valid
    /\ pc = "output" /\ ~sensor_ready => ~control.output_enabled

(* Ticks that the loop has not taken over, the time they stand for, and    *)
(* the time since the last one that was counted.                           *)
Waiting == (pending_ticks - consumed) % TickModulus
Coalesced == Waiting * TimerPeriod
Progress == IF uif THEN TimerPeriod ELSE phase

(* As many ticks wait as the time since Consume allows.                    *)
WaitingInv ==
    /\ uif => phase = 0
    /\ pc = "init" => busy <= InitMax
    /\ pc = "read" => busy <= ReadMax
    /\ pc = "init" => Coalesced + Progress <= busy + TimerPeriod
    /\ pc = "read" => Coalesced + Progress <= InitMax + busy + TimerPeriod
    /\ pc \in {"adc", "step", "output", "wfi"} =>
          Coalesced + Progress <= InitMax + ReadMax + TimerPeriod
    /\ pc = "sleep" => Coalesced <= InitMax + ReadMax + TimerPeriod
    /\ pc \in {"poll", "test", "consume"} =>
          Coalesced + (IF uif THEN TimerPeriod ELSE 0)
              <= InitMax + ReadMax + 2 * TimerPeriod

(* With no tick waiting the sample is as old as the timer's counter; the   *)
(* loop goes to sleep with at most one period, and wakes within another.   *)
Age == Elapsed(now, sample.sampled_ms)

AgeInv ==
    /\ pc \in {"step", "output"} => Age = 0
    /\ Waiting = 0 /\ pc \notin {"init", "read", "adc"} => Age <= Progress
    /\ pc = "wfi" => Age <= TimerPeriod
    /\ pc = "sleep" => Age <= TimerPeriod + Progress
    /\ pc \in {"poll", "test", "consume"} => Age <= 2 * TimerPeriod
    /\ output /\ pc = "read" => Age <= 2 * TimerPeriod + busy
    /\ output /\ pc = "adc" => Age <= 2 * TimerPeriod + ReadMax
=============================================================================
