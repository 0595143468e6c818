# Verification of the embedded BMS firmware

TLA+ modules, TLC configurations and TLAPS proofs for the programs of this
repository: the STM32F446 bench firmware in its FreeRTOS and bare-metal variants
(`firmware/stm32f446-bench`) and the host simulation (`src/`, `inc/`). Paths in
this document are relative to the repository.

## 1. Inventory

### Bench firmware (`firmware/stm32f446-bench`)

| Component | State it keeps | Operations | What makes it correct |
|---|---|---|---|
| Fault controller, `src/controller.c` | `bench_control_t`: latched faults, transition counter, output decision (held by the caller) | `control_init`, `sample_faults`, `control_step` | A fault latches and disables; only a reset requested while nothing is active clears; the age of a sample is right across the wrap of the clock |
| FreeRTOS variant, `src/freertos_main.c` | `latest`, `command`, `control`, `scheduler_ready`, `fault_event`, `i2c_mutex`, `log_queue`, drop counter | `sensor_task` (priority 3, 50 ms), `control_task` (4), `logger_task` (1), `board_timer_event_from_isr` (100 ms) | Every publication is judged; no reset is honoured twice or kept for later; a hung sensor task turns the pin off; the first event comes after the first sample; logging never stops control |
| Bare-metal variant, `src/baremetal_main.c` | `pending_ticks`, `consumed`, `sample`, `command`, `control` | main loop: poll, judge once per tick, sleep in `__WFI` | Ticks may be coalesced but the latest is always judged; same fault latch as the FreeRTOS variant |
| Bench application, `src/bench_app.c` | none of its own | `bench_acquire`, `bench_poll_commands`, `bench_log` | A failed read clears `sensor_ready`; the ADC is judged fresh only when it is |
| Clock and TIM2, `src/board.c` 198-212, 237-248 | `clock_ms`, TIM2's counter and overflow flag | `board_now_ms`, `TIM2_IRQHandler`, `board_timer_start` | A reading is the true time at some moment of the call, although it takes three accesses |
| UART rings, `src/board.c` 145-197 | `tx_buffer`, `rx_buffer`, four indices, drop counters, TXEIE | `board_uart_write`, `board_uart_get`, `USART2_IRQHandler` | FIFO order; messages whole or dropped; no bytes stranded with the interrupt off |
| ADC and DMA, `src/board.c` 213-236, 277-296 | `adc_buffer`, `adc_data` | circular DMA, half/full interrupts, `board_adc_snapshot` | A pair comes from one scan; an overrun is counted as an error; ages never wrap |
| I2C master, `src/board.c` 42-144 | I2C1 registers (START, STOP, ACK, POS, flags) | register read of 1, 2 or n bytes, register write, abort | Terminates within its time-outs; returns the device's bytes or an error; the bus is usable after an abort |
| MPU6050 driver, `src/mpu6050.c` | none of its own (the device's power state) | `mpu_init`, `mpu_read`, decoding | No partial sample on an error; decoded temperature is right for every raw value |
| CAN loop-back, start-up, fatal stop, `src/board.c` 37-41, 249-320 | `bench_can_result` | `board_can_loopback`, `board_init`, `board_fatal` | Start-up order; the pin is off after a fatal stop |
| Runtime, `src/runtime.c` | heap pointer | `_sbrk` | - |
| FreeRTOS V11.1.0, CMSIS (vendored) | - | - | taken by its effect on the bench |

### Host simulation (`src/`, `inc/`)

| Component | State it keeps | Operations | What makes it correct |
|---|---|---|---|
| Safety interlock, `src/safety_interlock.c` | `System_Is_Latched_Fault` | `SafetyInterlock_Evaluate` | One voltage out of range keeps the relay open for ever |
| Timer interrupt, `src/timer_isr.c` | `g_bms_data` (state, faults, temperatures), the relay pin | `TIM2_IRQHandler`, `Contactor_Control` | The relay is closed only in NORMAL with nothing detected |
| Main loop, `src/main.c` | cycle | inject at cycle 8, clear at 18 | Clearing does not bypass the interlock |
| ADC stimulus, `src/adc_dma.c` | `g_adc_dma_buffer`, DMA flag | `Simulate_ADC_Conversion`, `DMA2_Stream0_IRQHandler` | The flag is cleared; volts follow the counts |
| UART, `src/uart_ringbuf.c` | receive ring, `g_head`, `g_tail`, the mock's data register and flag | `RingBuf_Write`, `RingBuf_Read`, `RingBuf_GetCount`, interrupt, `UART_SendChar` | Lock-free FIFO for one producer and one consumer; a count can be relied on |
| PID, `src/pid_controller.c` | integral, previous error | `PID_Init`, `PID_Compute` | The integral unwinds in bounded time; the output leaves its limit when the temperature passes |
| TMP102 mock, `src/i2c_sensor.c`; CAN stub, `src/can_driver.c` | mock registers; an initialised flag | - | - |

### How they interact

The interrupts (TIM2, USART2, DMA2 stream 0) all have priority 6 and never nest;
`irq_lock` and the kernel's critical sections mask all three. Tasks share
`latest` and `command` through critical sections, wake each other through
`fault_event`, and reach the UART ring and the ADC snapshot under `irq_lock`. The
driver of the sensor calls the I2C master through function pointers. In the host
simulation everything is called from one loop, the interrupt handlers included.

### What is hard

Priority scheduling and the timer interrupt between any two steps of two tasks; a
request that is copied through four places; bus transactions that last from
nothing to several periods, or hang; a deadline that is caught up; a bounded log
queue below everybody; readings of hardware that moves in between; rings shared
with interrupt handlers; clocks and counters that wrap. `PROJECT.json` lists each
hazard at its line under `hazards`, with the properties that cover it.

## 2. Modules

| Module | Models | Kind |
|---|---|---|
| `Controller` | `controller.c` as operators | pure functions |
| `BenchApp` | what the two variants take from `bench_app.c`: commands, the sample put together | pure functions, extends `Controller` |
| `FaultLatch` | what the bench promises the operator | abstract specification |
| `FreeRtosBench` | `freertos_main.c` with `bench_app.c`, the TIM2 interrupt and the kernel calls it makes | state machine, extends `BenchApp`, implements `FaultLatch` |
| `BaremetalBench` | `baremetal_main.c` with `bench_app.c` and the interrupts | state machine, extends `BenchApp`, implements `FaultLatch` |
| `BoardClock` | `board_now_ms` and the TIM2 interrupt, `board.c` 198-212 | state machine |
| `Ring` | indices and contents of a ring, common to `board.c` and `uart_ringbuf.c` | pure functions |
| `UartRing` | the UART rings and their interrupt, `board.c` 145-197 | state machine, extends `Ring` |
| `AdcDma` | the ADC's circular buffer, its interrupt, the snapshot and the freshness test of `bench_acquire` | state machine |
| `I2cMaster` | the transactions of `board.c` 42-144, with the peripheral and a device | actions, composed by `Mpu6050` |
| `Mpu6050` | `mpu_init` and `mpu_read` over the I2C master, and the retries of `bench_acquire` | state machine, extends `I2cMaster` |
| `ByteQueue` | what a receive ring promises its users | abstract specification |
| `SpscRing` | `uart_ringbuf.c`, access by access | state machine, extends `Ring`, implements `ByteQueue` |
| `Pid` | `pid_controller.c`, for any gains | state machine |
| `Contactor` | what the host simulation promises of the contactor | abstract specification |
| `HostSafety` | `safety_interlock.c`, `timer_isr.c`, `adc_dma.c` and what `main.c` and the tests do to them | state machine, implements `Contactor` |
| `MC...` | one instance for each state machine, durations in units of the model | TLC instances |
| `BenchAppProofs`, `FreeRtosBenchProofs`, `BaremetalBenchProofs`, `BoardClockProofs`, `AdcDmaProofs`, `Mpu6050Proofs` | lemmas and theorems about the module of that name | proofs |
| `RingProofs` | the same about both rings, `UartRing` and `SpscRing` | proofs |
| `HostProofs` | the same about `HostSafety` and `Pid` | proofs |

The modules of the bench meet at the calls between its parts, and each takes the others
by what they were shown to do:

* The two variants and `AdcDma` use the clock as one atomic reading; `ReadsTrueTime` of
  `BoardClock` is why they may.
* Command bytes reach the variants in any number at any time, which is what
  `board_uart_get` of `UartRing` can return.
* `adc_valid` is either value in every sample of the variants; `AdcDma` says when it is
  which.
* A read or initialisation of the sensor ends in success or failure after any time up to
  a bound (`ReadMax`, `InitMax`); `PhasesBounded` of `I2cMaster` is where the bounds come
  from: 5 ms for each phase, 20 phases for a sample (100 ms), 26 for an initialisation
  (130 ms, and 100 ms of delay after the wake-up).

A module whose theorems stand beside those of another one has its own names for the parts of
its specification (`SpscSpec`, `SpscTypeOK`; `PidSpec`, `PidTypeOK`).

A definition with a suffix after an underscore that is not in the source
(`Cleared_All`) is a plausible slip in the definition it precedes. No
specification uses it; it is there to show which property notices that slip.

### FreeRtosBench

*State.* The shared objects keep their names. `spc`, `cpc` and `lpc` say which
statement each task is about to execute; `sample`, `incoming`, `seen` and
`current` are the tasks' locals (`seen` is `control_task`'s copy named `sample` in
the code). `now`, `phase` and `uif` are the millisecond clock, the counter of TIM2
and its pending flag; `due` is how far the deadline `next` lies ahead of the
kernel's tick and `busy` how long the current bus transaction has lasted. `asked`
and `honoured` are history: resets read from the UART, and resets that cleared a
latched fault.

*Actions.* One per statement that touches shared state. A critical section is one
action (`SensorCommand`, `SensorPublish`, `ControlCopy`), and so is a kernel call
(`SensorTake`, `SensorGive`, `SensorDelay`, `ControlTake`, `ControlSend`,
`LoggerReceive`). `bench_acquire` is split at the bus transactions (`SensorInit`,
`SensorReadOk`, `SensorReadFail`) and at the clock reading (`SensorAdc`);
`bench_poll_commands` takes one action per byte.

*Scheduling.* `ControlReady`, `SensorReady` and `LoggerRuns` are the kernel's choice
of the highest-priority ready task: a lower task takes no step while a higher one
could. `TIM2_IRQHandler` may come between any two steps, also of `control_task`.

*Time.* `Tick` advances the clock by one unit. It is enabled only when every task
sleeps or the sensor task waits on the bus, and never while the interrupt is
pending: computations, and the latency of an interrupt, are short next to the unit
(50 ms in the runs). `mpu_init` lasts up to `InitMax` and succeeds only after
`InitDelay`; `mpu_read` lasts up to `ReadMax`.

*Left open.* Whether the ADC is valid, what the log line says, and the ring the
command bytes come from.

### BaremetalBench

One action per statement of the loop that touches shared state; `pc` names the
next. `bench_acquire` is split as in the FreeRTOS variant. `TIM2_IRQHandler` may come
between any two steps: `Test` reads `pending_ticks`, `Consume` reads it again and takes
over every tick so far, and a tick that comes between `Test` and `Sleep` is found only
after the next interrupt, which may be the timer's own, a period later
(`OtherInterrupt` is every other one, and nothing forces it to come). Time passes in
`__WFI` and on the bus. A sample is judged in the iteration that took it, so its age
is what the clock moved since: the bound on the age of the sample behind an enabled
pin (`PinBounded`) comes from the loop, not from the stale limit.

### BoardClock

One action per access: `ReadBase`, `ReadCounter`, `ReadFlag` and, after a pending
update, `ReadAgain`, with the interrupt masked from `Lock` to `Unlock`; `ClearFlag` and
`AddPeriod` are the handler. `Tick` moves the counter between any two of them. `time`
counts milliseconds without wrapping and is what a reading is compared with.
`board_now_ms` is called by tasks and by the DMA handler, but never by two at once:
tasks call it masked, and the handlers do not nest. One period of the timer is
assumed never to pass masked (100 ms; the longest masked section copies one line).
Left out is `board_timer_start`: the DMA handler cannot read the clock between its
lines, since the first half-buffer is complete only some milliseconds later.

### UartRing

`board_uart_write` and `board_uart_get` run masked and are one action each, `length`
standing for a message. The handler is three actions, `ReadStatus`, `Receive` and
`Transmit`, because the line does not wait for it: `Arrive` and `ShiftOut` are the
peripheral, with the rules of its reference manual for the flags (a byte that finds
the last one unread is lost and sets the overrun flag; reading SR, then DR, clears
what SR showed). Bytes are numbered so that order, loss and duplication show.
`accepted`, `sent`, `arrived`, `broken`, `got` and `calls` are history.

### AdcDma

Time is counted in conversions, and the result of a conversion is the time of its
completion: the age of every value can be read off it, and the two values of a scan are
consecutive numbers. `Convert` is the ADC and the DMA stream together; it goes on between
any two steps of the program. The handler is one action per access: `ReadStatus`,
`ClearFlags` (which ends it after an error), `ReadTemperature`, `ReadVref`, `Stamp`. It
may come up to `LatencyMax` conversions after its flag, more than a half-buffer, and a flag
raised between the reading of LISR and its clearing stays. `Fail` raises one of the three
error flags (a transfer error also stops the stream; the FIFO error has its interrupt
disabled), `Stall` stops the conversions without a flag. `TakeSnapshot` and `Judge` are
the two accesses of `bench_acquire`.

A run of the handler lasts up to `HandlerMax` conversions, less than a half-buffer. A half
that becomes full during a run waits for its end before its own latency begins, so a block
can be two runs older than the latency alone would say: the bound of `ValidIsFresh`.

### I2cMaster and Mpu6050

`I2cMaster` has the driver's side of a transaction: one action per wait together with the
accesses that follow it, and one per access where the order matters (`ClearAck`,
`ClearReadAddress`, `SetStop`, and `ReadCr1` and `WriteCr1` for the two read-modify-writes
at the end of a read). `Abandon` is a failed wait, with the abort and the re-configuration
that every one of them leads to. The peripheral and the device are external, modelled as
the driver relies on them: bytes are clocked while there is room, however long the driver
is delayed, but not within the accesses made with interrupts masked; a byte is
acknowledged as ACK says when it is clocked, with POS one byte later. What the device
answers is the number of the register, so order, loss and a byte of the idle bus (255)
show. `Fault`, a late flag, `PowerOff`, and a STOP that is sent between the reading and
the writing of CR1 and so requested twice (`Unlucky`) are faults, at most `MaxFaults` of
them; `DropStop` is what the reference manual leaves open. A bus that a device holds down
for ever is left out: nothing succeeds on it, and its time-outs are those of the phase
`busy`.

`Mpu6050` extends it with the sequence of calls: `mpu_init` reads the identity and
writes three settings, `mpu_read` reads the sample, and after any failure the next sample
starts with `mpu_init`. `awake` and `lapse` are history: whether the sensor was configured
when its sample was read, and whether it lost its settings since the last failure. The
sensor's loss of power between two successful reads is not noticed by the driver, which
`ConfiguredSample` says openly.

### SpscRing

The handler of USART1 and one reading thread interleave access by access (test, slot,
index on either side), with the sequentially consistent atomics of
`uart_ringbuf.c:23-24`. A byte may arrive at any moment, also during the handler, whose
`ClearFlag` then takes the new byte's flag with it. The mock has one data register for
both directions, so `UART_SendChar` puts a logged character in place of a received one
that was not fetched. `written`, `answer` and `promised` are what `ByteQueue` and
`CountReadable` speak of. `ByteQueue` is offered a byte before it stores or refuses it, and
`Offered` is the handler's byte from its call of `RingBuf_Write` until it is known what
becomes of it: what is stored is what was fetched from DR, and once.

### Pid

The controller in exact integers. The gains are constants, `Kp`, `Ki` and `Kd`: what a step
of the error, of its sum and of its change add to the output, the time step included.
`PidAssumption` grants that none is negative and that `Ki` is positive, since `PID_Init`
divides by `ki`. The integral is kept multiplied by `ki`. The lower limit of the output is 0
and the upper one positive (0 to 150 A in `main.c`). The run has the gains and the time step
of `main.c` (0.5, 0.1, 0.01, 0.1 s): with errors in sixteenths of a degree, a step of the
sensor, and outputs in 1/1600 A, they are 50, 1 and 10. What is lost is the rounding of the
floats.

### HostSafety

One thread calls everything, so a call is an action: `Simulate_ADC_Conversion` with the
DMA handler it triggers, `TIM2_IRQHandler` with the sensors it reads and the interlock
it asks, and what `main.c` and the tests do between them (`Inject`, `WriteReading`,
`ClearOvertemp`). `main.c` runs these in one order; the model allows any, which
includes the orders of the tests and an interrupt before the first conversion (all
cells 0 mV, which latches for good). Voltages are integers in tenths of a millivolt,
fine enough to fall between a limit in volts and the same limit in truncated
millivolts; `NotFinite` stands for a NaN or an infinity. A temperature is never not
finite, since the sensor's reading is decoded from an integer. The contactor's pin
stands for the load current as well, which is set with it.

## 3. Runs

The runs of the bench use one or two cells, counters that wrap at 2 and, for the tasks,
a queue of one or two records (eight in the firmware): the behaviours that matter
(full, not full) are there with one.

| Run | Question | Bounds |
|---|---|---|
| `bench_safety` | `TypeOK`; `RecoveryPaid`: no reset honoured twice; `SettledDecision`: everything published was judged and no reset is kept; `ControlSeesSample`: no judgement before the first sample; `ImplementsFaultLatch` | stale limit of 1 unit so that staleness occurs within a period and a read of one unit each; a healthy sensor at 25.00 degrees that may fail; stimulus `t`, withdrawn by `0`; two resets |
| `bench_timing` | `NoSpuriousStale`: the durations of the firmware fit its stale limit | units of 50 ms, real limits: 250 ms, `mpu_init` 100 to 250 ms (its phases and delay come to 230 at most), `mpu_read` up to 100 ms; lag of up to 350 ms |
| `bench_hung_bus` | `PinFresh`: the timer turns the pin off when the sensor task hangs; `KeepsJudging`: control goes on with a full log queue | a read of up to 4 units against a stale limit of 1; fairness for all but `logger_task` |
| `baremetal` | `TypeOK`; `PinBounded`: the sample behind an enabled pin is never older than two periods and a read; `ImplementsFaultLatch`; `InjectionServed`: a stimulus turns the pin off unless withdrawn | units of 50 ms, real durations; the tick counter wraps at 6, one more than the ticks that a read or initialisation can coalesce; one reset; an unknown byte `x` |
| `clock` | `TypeOK`; `ReadsTrueTime`: a reading is the time of a moment of the call | period of 4, a clock that wraps at 10 (not a multiple of the period, as 2^32 is not of 100), six periods: two wraps, and every count of the first access |
| `uart` | `TypeOK`; `TxWhole`: messages leave whole, once, in order; `TxDelivers`: nothing is left in the ring; `RxOrder`, `RxIntact`: bytes are handed out in order, once, and no damaged one; `RxLossCounted`: with both counters zero nothing was lost | rings of 4 slots; two messages of 3 (all there is room for) or 4 bytes (too long), so that the indices go round; four bytes: the ring overflows and the receiver overruns |
| `adc` | `TypeOK`; `BlockIntact`: the two values of a block are of one scan; `LossCounted`: no half is lost silently; `ValidIsFresh`, `NoFalseAlarm`: the verdict on the ADC in both directions | halves of 4 conversions (two scans); a handler up to 5 conversions late, one and a quarter halves, that runs for up to 2; an age limit of one half; 18 conversions, two rounds of the buffer, with a clock that wraps at 15, just above the bound of `ValidIsFresh`; errors of every kind until one was counted |
| `sensor_bus` | `TypeOK`, with the bytes stored within the caller's buffer; `ReadExact`; `NoByteTooMany`: the bus is not clocked past the read; `PhasesBounded`; `ConfiguredSample`: a valid sample is of a configured sensor; `Recovers`: when faults end, sampling goes on | reads of 1, 2 and 5 bytes (the three ways of `i2c_register_read`, its loop taken twice); three faults |
| `host_receive` | `SpscTypeOK`; `CountReadable`; `ImplementsByteQueue` | 4 slots, two characters |
| `pid` | `PidTypeOK`; `Unwinds`: the integral is paid back in a time that does not depend on the past; `LeavesLimit`: the output leaves its limit with the call that sees the temperature pass | the gains and the setpoint of `main.c` and the two temperatures of its sensor; an upper limit of 5 A for 150 A, so that the integral reaches it within 25 calls |
| `host_safety` | `TypeOK`; `LowCellsLatch`: what the interrupt finds low or senseless, the interlock has latched; `ImplementsContactor`: the contactor opens on a fault until cleared, and for good on a latched one | cell 5, which the stimulus drops, and one other; readings at and just past each limit |
| `host_voltage_latch` | `VoltageFaultsLatch`, which TLC refutes (below) | the same |

`host_voltage_latch` shows a disagreement between the documentation and the code.
`README.md:12-13` lists "over/undervoltage" and "a voltage fault latch". A cell between
4.2000 and 4.2010 V is an overvoltage to the interrupt, which judges volts
(`timer_isr.c:97`), and within range to the interlock, which judges truncated
millivolts (`timer_isr.c:109`, `safety_interlock.c:36`): the contactor opens and nothing
latches. Below the lower limit truncation errs on the safe side, as `LowCellsLatch`
shows. The simulated conversions never reach 4.2 V; readings written as the tests
write them do, and so does the count 3440.

`TimeModulus` is larger than any age that occurs, and small, so that the clock
wraps in every run of the bench. `MaxAsked` bounds the requests and `MaxLag` how far the
deadline may fall behind: `Tick` waits for the sensor task there.

*Fairness* (`FairSpec`). The clock runs and the interrupt is served: hardware.
`control_task` and `sensor_task` are scheduled when ready: the kernel runs the
highest ready task, and nothing above them is ready for ever. The poll loop ends
(strong fairness of `SensorPollDone`, since a wake-up of `control_task` interrupts
it): at 115200 baud bytes arrive slower than the loop takes them out. Nothing is
assumed of `logger_task`, which the tasks above may starve.

In `BaremetalBench` the processor runs (weak fairness of the loop), the timer's
interrupt is served, and the poll loop ends for the same reason as above. The clock
moves (strong fairness of `Tick`: an iteration is short next to the unit, and the
other interrupts are far apart, so waking the loop does not stop time). Nothing is
assumed of the other interrupts. In `UartRing` the transmitter shifts its byte out, and
the interrupt is served and ends; nothing is assumed of the tasks or of arriving bytes.
The UART run does not check for deadlock: the line and the tasks may simply stop. In
`Mpu6050` the peripheral takes its next step (a byte takes 90 us, a time-out 5 ms), the
task that acquires runs, and a sensor without power gets it back; faults are finite in
number, and none is fair.

## 4. Proofs

`BenchAppProofs` holds the lemmas about `Controller` and `BenchApp` that both variants
use: types, what `control_step` can do to the latch, and how ages grow.
`FreeRtosBenchProofs` proves, for every value of the constants that satisfies
`ControllerAssumption` and `BenchAssumption`:

* `TypeCorrect`: `TypeOK`.
* `RecoveriesPaid`: `RecoveryPaid`. Not inductive by itself: it does not say where
  requests are. `PaidInv` adds the ones under way in `incoming`, `command` and
  `current` (the last only until it is used); every step moves, drops or honours
  one.
* `DecisionsSettle`: `SettledDecision`, from `Decided`, the conjunction of
  `DecisionInv` (the decision never contradicts the latch, and the pin follows it),
  `CopyInv` (what `control_task` computes with is what is published, since nothing
  below it runs) and `JudgedInv` (what is published was judged, or a notification
  is outstanding).
* `BenchImplementsFaultLatch`: the refinement `ImplementsFaultLatch`. `ControlStep`
  maps to `Trip`, `Enable`, `Recover` or a stutter, `SensorPoll` to `Ask` or a
  stutter; `PaidInv` pays for `Recover`.
* `PinIsFresh`: `PinFresh`, from `FreshInv`: the sample behind an enabled output is
  at most `StaleLimit` plus the timer's counter old, and a full `TimerPeriod` more
  only while the timer's notification is outstanding. No bound on the bus is
  assumed, and the clock may wrap (`ElapsedRange`, `AgesByOne`).
* `SamplesAreAcquired`: `ControlSeesSample`, from `AcquiredInv`: what is on its way to
  `control_task` was acquired, since the mutex is free whenever `sensor_task` wants it
  (the zero sample of a missed mutex is never published), and the timer's event is held
  back until the first publication.
* `NeverSpuriouslyStale`: `NoSpuriousStale`, if `SamplePeriod + ReadMax <= StaleLimit` (150
  and 250 ms in the firmware; `bench_hung_bus` breaks it on purpose, so it is a hypothesis
  of the theorem and not of the module). `ReadyInv` ties a valid latest sample to an
  initialised sensor, so no initialisation, however long, comes between it and the next
  read; `TimelyInv` bounds its age at each step of `sensor_task`, and needs the deadline
  for it: age and time left add up to at most a period. `InjectedInv` says that no
  character injects staleness.

`BaremetalBenchProofs` proves `TypeCorrect`, and `BaremetalImplementsFaultLatch` from
`PaidInv` (here a request is under way in `command` only) and `DecisionInv` (the pin
lags behind the decision only between `Step` and `Output`). `PinIsBounded` proves
`PinBounded` by `AgeInv`, the age of the sample at each statement of the loop: with no
tick waiting it is the time since the last tick that was counted, so the loop goes to
sleep with at most one period and wakes within another. "No tick waiting" is
`pending_ticks = consumed`, which tells the truth only while fewer ticks are coalesced
than the counter has values. `TickAssumption` grants that (2^32 ticks in the firmware),
and `WaitingInv` uses it, bounding the waiting ticks by the time since `Consume`.
`SensorInv` excludes a long initialisation with the pin on.

`BoardClockProofs` proves, for every period and every width of the clock that holds
one period (`ClockAssumption`), `TypeCorrect` and `ClockReadsTrueTime`. `SyncInv` says
that the software count, the counter, the pending flag and the half-served interrupt
add up to the true time modulo the width; `ReadInv` what each local holds: before the
flag is read, `base` is current and `counter` is a count of this period unless an update
is pending; after it, base and counter are of the same period. `SyncInv` alone does not
bound when a counter was read, `ReadInv` alone does not tie base to the time. The
lemmas before them are the modular arithmetic that the SMT solver does not find.

`HostProofs` proves, for any set of cells, sensors and written readings,
`TypeCorrect`, `LowCellsLatched` (inductive with `TypeOK`; `LowIsOutOfRange` is the
arithmetic of the truncation) and `HostImplementsContactor`: the interrupt maps to
`Close`, `Trip`, `Lock` or a stutter, and `Close` is possible only because the interlock
answered with nothing latched.

About `Pid`, for any gains that `PidAssumption` allows, any setpoint, any set of readings and any positive limit of the output, it proves
`IntegralUnwinds`, inductive with the types, which the lemma `PidTypeCorrect` proves from
the two clamps alone, and `OutputLeavesLimit`: above the setpoint and not getting cooler,
the integral by itself is below the limit, since the error took something off, and the
other two parts add nothing. `PartOfOutput` says of a product with a gain what they need.

`RingProofs` starts with lemmas about `Ring` that both programs' rings need: what one byte
more, one taken out, or a message of several does to `Content`, for every size and
wherever the indices stand. About `UartRing` it proves `TypeCorrect`, `MessagesLeaveWhole`,
`BytesInOrder`, `BytesIntact` and `LossesCounted`, for every size of the rings, every set
of lengths and any number of messages and bytes. The line goes on while the handler runs,
so none of these is inductive without what the handler's copy of SR still tells:
`EmptySeen` (a transmitter seen empty stays empty until the handler fills it) and
`ByteKnown` (the error of the byte in DR is in the flag still up and in the SR that was
read). `ByteNew` adds that it came after all that were received before. Losses are
counted because a step that leaves both counters zero and no flag up started from such a
state (`SilentBefore`).

About `SpscRing` it proves `SpscTypeCorrect`, `CountsAreReadable` and
`RingImplementsByteQueue`. The handler's entry with a byte maps to `Offer`, the write of
the head to `Put`, the test that finds the ring full to `Refuse`, the write of the tail to
`Take`, the empty test to `Miss`, every other access to a stutter; `WriterInv` and `ReaderInv` say that what a side has tested and copied remains
true until its last access, whatever the other side does.

`AdcDmaProofs` proves, for every size of the buffer, any latency, any handler that ends
within a half-buffer, any age limit and any width of the clock, every property of `AdcDma`:

* `BlocksIntact`: `BlockIntact`. It says nothing of a handler half-way. `StreamInv` gives the
  value of every slot, of this round of the buffer or of the one before. `HandlerInv` says how
  far the stream can be when the handler has read a flag: still in the other half, or out
  of it during this run, and then the other flag is up. Since a run is shorter than a half,
  the stream has not reached the slots that are being read, and `DataInv` knows what was
  read. `FlagInv` adds that a flag up alone is of the half filled last; that is where
  the handler's test for both flags enters.
* `LossesAreCounted`: `LossCounted`, from `LossInv`, which counts in the moments between the
  reading of LISR and the clearing too.
* `ValidMeansFresh`: `ValidIsFresh`. `LatencyInv` bounds how long a half waits, and `StampInv`
  carries the moment of the stamp, which no variable keeps, with the snapshot; `WrappedAge`
  is the arithmetic of the wrapped clock. A bound with one run of the handler, which holds
  while runs take at most one conversion, did not survive the proof: a half that becomes full
  during a run is taken after that run and another one.
* `InvalidHasReason`: `NoFalseAlarm`, from the same invariant: a stamp is not older than its
  values, and lies before the snapshot.

`Mpu6050Proofs` proves, for reads of every length, any number of faults and any delay of the
driver, every safety property of `I2cMaster` and `Mpu6050`:

* `TypeCorrect` and `NoByteIsTooMany`: `TypeOK`, with a read never storing past its caller's
  buffer, and `NoByteTooMany`, from `TransferInv`. Its three parts need each other:
  `BitsInv` (START, ACK and POS at each step of the driver), `BusInv` (where the bus can be
  then, also when a STOP left over by an earlier call frees it in the middle) and `CountInv`
  (the bytes clocked are those stored and those that wait, and one is refused only as the
  last).
* `CallsAreBounded`: `PhasesBounded`, from `WaitsInv`, which has the exact number of phases at
  each step. It uses `CountInv`, since the loop's steps depend on what is stored.
* `ReadsAreExact`: `ReadExact`. `DeviceInv` says that a device which kept its power has been
  told the register and listens as the transfer assumes, and `DataInv` that the bytes stored,
  and those that wait behind them, are of consecutive registers.
* `SamplesAreConfigured`: `ConfiguredSample`, from `SettingsInv`: at each step of `mpu_init`
  the settings before it are written, unless lost since the last failure.

The invariants were checked with TLC before they were proved, for reads of 1, 2, 3 and 5
bytes and three faults.

Only model-checked is liveness (`KeepsJudging`, `InjectionServed`, `TxDelivers`,
`Recovers`), which is out of the prover's reach, as ENABLED and with it fairness are. Every
invariant and every action property of the runs, and all four refinements, are proved.
`VoltageFaultsLatch` is refuted by its run, not proved. The theorems speak of the
specifications without fairness, which the ones with it imply, and of any bounds of the model
(`MaxTime`, `MaxFaults` and the like), so a bound leaves nothing out.

## 5. Not modelled

* Start-up, the fatal stop and the CAN loop-back of `board.c`: register writes and polls
  in one thread before any interrupt or task exists, and an endless loop with interrupts
  masked. Nothing interleaves with them, and they leave no state that later code depends
  on, but for a number in the log line.
* The start of TIM2: nothing reads the clock before it runs. The DMA handler cannot:
  the first half-buffer is complete only some milliseconds later.
* The contents of the log line, the decoding of the MPU6050's bytes, the delay after its
  wake-up (time in the variants), and what the two ADC channels measure.
* The registers of the TMP102 mock, whose polls succeed by construction, the CAN stub,
  which prints, `_sbrk`, and the vendored kernel, headers and start-up code, except for
  what the bench uses of the kernel.
* Null-pointer guards and other checks of arguments that no caller fails.
* The order of cycles in the host's `main`: `HostSafety` allows every order.

What could follow: the rounding of the floats in `Pid`, and the contents of the log line.
