-------------------------------- MODULE AdcDma --------------------------------
(***************************************************************************)
(* The ADC of the bench (board.c): it converts two channels in turn, DMA2  *)
(* stores the results in a circular buffer and raises a flag at the middle *)
(* and at the end of it, the interrupt handler takes the last scan of the  *)
(* half just filled, and bench_acquire (bench_app.c) decides whether what  *)
(* the handler took is fresh.                                              *)
(*                                                                         *)
(* Time is counted in conversions, and a conversion's result is the time   *)
(* of its completion: the age of every stored value can be read off it.    *)
(* The hardware goes on between any two steps of the program.  Interrupts  *)
(* are masked for up to LatencyMax conversions, which may be more than a   *)
(* half-buffer; a handler that runs ends within HandlerMax.                *)
(*                                                                         *)
(* A definition with a suffix (Cleared_All) is a slip of the one it        *)
(* precedes.  No specification uses it: it stands beside the right one to  *)
(* show which property notices it.                                         *)
(***************************************************************************)
EXTENDS Integers, FiniteSets

CONSTANTS
    Half,           \* conversions that fill half of adc_buffer (32)
    LatencyMax,     \* conversions before the handler runs
    HandlerMax,     \* conversions while it runs
    AgeLimit,       \* oldest snapshot taken for valid (100 ms)
    TimeModulus,    \* uint32_t times wrap here
    MaxTime,        \* bound of the model: conversions
    MaxErrors       \* bound of the model: errors counted before the last one

ASSUME AdcAssumption ==
    /\ Half \in Nat /\ Half > 1 /\ Half % 2 = 0
    /\ LatencyMax \in Nat /\ HandlerMax \in Nat /\ HandlerMax < Half
    /\ AgeLimit \in Nat /\ TimeModulus \in Nat /\ AgeLimit < TimeModulus
    /\ MaxTime \in Nat /\ MaxErrors \in Nat

VARIABLES
    time,
    running,        \* DMA: the stream is enabled and the ADC requests transfers
    adc_buffer, pos,
    flags,          \* DMA: what LISR shows
    isr, status,    \* DMA2_Stream0_IRQHandler: next step, and the LISR it read
    since,          \* history: when it was raised, or has begun to run
    adc_data,
    rpc, adc,       \* bench_acquire: next step, and its snapshot
    began,          \* history: when it took the snapshot
    adc_valid,
    halves          \* history: halves filled

stream_vars == <<time, running, adc_buffer, pos, flags, halves>>
isr_vars == <<isr, status, adc_data>>
reader_vars == <<rpc, adc, began, adc_valid>>

vars == <<stream_vars, since, isr_vars, reader_vars>>

Entries == 0 .. 2 * Half - 1
ErrorFlags == {"TE", "DME", "FE"}
Flags == {"HT", "TC"} \cup ErrorFlags
Enabled == Flags \ {"FE"}       \* FEIE is not set

Times == 0 .. TimeModulus - 1

(* adc_snapshot_t.                                                         *)
Snapshot == [temperature_raw : Nat, vref_raw : Nat, sampled_ms : Times,
             completed_blocks : Nat, errors : Nat]

ZeroSnapshot == [temperature_raw |-> 0, vref_raw |-> 0, sampled_ms |-> 0,
                 completed_blocks |-> 0, errors |-> 0]

TypeOK ==
    /\ time \in Nat /\ running \in BOOLEAN
    /\ adc_buffer \in [Entries -> Nat] /\ pos \in Entries
    /\ flags \subseteq Flags /\ halves \in Nat
    /\ isr \in {"idle", "clear", "temperature", "vref", "stamp"}
    /\ status \subseteq Flags /\ since \in Nat
    /\ adc_data \in Snapshot
    /\ rpc \in {"snapshot", "judge"} /\ adc \in Snapshot
    /\ began \in Nat /\ adc_valid \in BOOLEAN

Init ==
    /\ time = 0 /\ running = TRUE
    /\ adc_buffer = [i \in Entries |-> 0] /\ pos = 0
    /\ flags = {} /\ halves = 0
    /\ isr = "idle" /\ status = {} /\ since = 0
    /\ adc_data = ZeroSnapshot
    /\ rpc = "snapshot" /\ adc = ZeroSnapshot
    /\ began = 0 /\ adc_valid = FALSE

-----------------------------------------------------------------------------
(* ADC1 and DMA2 stream 0.                                                 *)

Raised == flags \cap Enabled # {}

TimeMayPass ==
    /\ time < MaxTime
    /\ isr # "idle" => time - since < HandlerMax
    /\ isr = "idle" /\ Raised => time - since < LatencyMax

(* The handler's latency is counted from the first flag.                   *)
Since(t) == IF isr = "idle" /\ ~Raised THEN t ELSE since

NextPos_NoWrap == pos + 1
NextPos == (pos + 1) % (2 * Half)

(* A conversion completes and is stored.                                   *)
Convert ==
    /\ TimeMayPass /\ running
    /\ time' = time + 1
    /\ adc_buffer' = [adc_buffer EXCEPT ![pos] = time + 1]
    /\ pos' = NextPos
    /\ flags' = flags \cup (IF pos' = Half THEN {"HT"} ELSE {})
                      \cup (IF pos' = 0 THEN {"TC"} ELSE {})
    /\ halves' = IF pos' \in {0, Half} THEN halves + 1 ELSE halves
    /\ since' = Since(time + 1)
    /\ UNCHANGED <<running, isr_vars, reader_vars>>

(* Nothing is stored any more.                                             *)
Idle ==
    /\ TimeMayPass /\ ~running
    /\ time' = time + 1
    /\ UNCHANGED <<running, adc_buffer, pos, flags, halves, since, isr_vars,
                   reader_vars>>

(* A transfer error also disables the stream.                              *)
Fail(error) ==
    /\ running /\ error \notin flags /\ adc_data.errors < MaxErrors
    /\ flags' = flags \cup {error}
    /\ running' = (error # "TE")
    /\ since' = Since(time)
    /\ UNCHANGED <<time, adc_buffer, pos, halves, isr_vars, reader_vars>>

(* The ADC stops requesting transfers, as after an overrun of its own, and *)
(* no flag of the DMA says so.                                             *)
Stall ==
    /\ running
    /\ running' = FALSE
    /\ UNCHANGED <<time, adc_buffer, pos, flags, halves, since, isr_vars,
                   reader_vars>>

-----------------------------------------------------------------------------
(* DMA2_Stream0_IRQHandler.                                                *)

ReadStatus ==
    /\ isr = "idle"
    /\ Raised
    /\ status' = flags
    /\ since' = time
    /\ isr' = "clear"
    /\ UNCHANGED <<stream_vars, adc_data, reader_vars>>

(* An error flag, or both halves: the handler came a half too late.        *)
Bad_TakesLate == status \cap ErrorFlags # {}
Bad == status \cap ErrorFlags # {} \/ {"HT", "TC"} \subseteq status

(* Only the flags that were seen are cleared.                              *)
Cleared_All == {}
Cleared == flags \ status

ClearFlags ==
    /\ isr = "clear"
    /\ flags' = Cleared
    /\ IF Bad THEN /\ adc_data' = [adc_data EXCEPT !.errors = @ + 1]
                   /\ isr' = "idle" /\ since' = time
              ELSE /\ isr' = "temperature"
                   /\ UNCHANGED <<adc_data, since>>
    /\ UNCHANGED <<time, running, adc_buffer, pos, halves, status, reader_vars>>

(* The last scan of the half that is full.                                 *)
Offset == IF "HT" \in status THEN Half - 2 ELSE 2 * Half - 2

ReadTemperature ==
    /\ isr = "temperature"
    /\ adc_data' = [adc_data EXCEPT !.temperature_raw = adc_buffer[Offset]]
    /\ isr' = "vref"
    /\ UNCHANGED <<stream_vars, status, since, reader_vars>>

ReadVref ==
    /\ isr = "vref"
    /\ adc_data' = [adc_data EXCEPT !.vref_raw = adc_buffer[Offset + 1]]
    /\ isr' = "stamp"
    /\ UNCHANGED <<stream_vars, status, since, reader_vars>>

Stamp ==
    /\ isr = "stamp"
    /\ adc_data' = [adc_data EXCEPT !.sampled_ms = time % TimeModulus, !.completed_blocks = @ + 1]
    /\ isr' = "idle" /\ since' = time
    /\ UNCHANGED <<stream_vars, status, reader_vars>>

-----------------------------------------------------------------------------
(* The ADC's part of bench_acquire, which the handler may interrupt.       *)

(* board_adc_snapshot masks interrupts: the handler is not half-way.       *)
TakeSnapshot ==
    /\ isr = "idle" /\ rpc = "snapshot"
    /\ adc' = adc_data
    /\ began' = time
    /\ rpc' = "judge"
    /\ adc_valid' = FALSE
    /\ UNCHANGED <<stream_vars, since, isr_vars>>

(* now - adc.sampled_ms in uint32_t.  The slip reads the clock before it   *)
(* takes the snapshot.                                                     *)
Age_ClockFirst == (began - adc_data.sampled_ms) % TimeModulus
Age == (time - adc.sampled_ms) % TimeModulus

Valid_Ageless == adc.completed_blocks > 0 /\ adc.errors = 0
Valid == adc.completed_blocks > 0 /\ adc.errors = 0 /\ Age <= AgeLimit

Judge ==
    /\ isr = "idle" /\ rpc = "judge"
    /\ adc_valid' = Valid
    /\ rpc' = "snapshot"
    /\ UNCHANGED <<stream_vars, since, isr_vars, adc, began>>

-----------------------------------------------------------------------------
Handler ==
    \/ ReadStatus
    \/ ClearFlags
    \/ ReadTemperature
    \/ ReadVref
    \/ Stamp

Next ==
    \/ Convert
    \/ Idle
    \/ \E error \in ErrorFlags : Fail(error)
    \/ Stall
    \/ Handler
    \/ TakeSnapshot
    \/ Judge

Spec == Init /\ [][Next]_vars

-----------------------------------------------------------------------------
(* Properties.                                                             *)

(* The two values of a block are of one scan, the last of its half: the    *)
(* DMA does not overtake the handler between its reads, unless it notices  *)
(* and counts an error instead (board.c:227-235).                          *)
BlockIntact ==
    adc_data.completed_blocks > 0 /\ isr \in {"idle", "clear"} =>
        /\ adc_data.vref_raw = adc_data.temperature_raw + 1
        /\ adc_data.vref_raw % Half = 0

InHandler == IF isr \in {"temperature", "vref", "stamp"} THEN 1 ELSE 0

(* No half is lost silently: with no error counted, every half that was    *)
(* filled was taken, is being taken or has its flag up, and a handler that *)
(* comes too late finds both flags up (board.c:221-227).                   *)
LossCounted ==
    adc_data.errors = 0 /\ isr # "clear" =>
        \/ flags \cap ErrorFlags # {} \/ {"HT", "TC"} \subseteq flags
        \/ halves = adc_data.completed_blocks + InHandler
                    + Cardinality(flags \cap {"HT", "TC"})

(* A verdict that the ADC is valid vouches for the values themselves: as   *)
(* long as the clock has not wrapped since, they are no older than the age *)
(* limit, the handler's delay and two runs of the handler (the half may    *)
(* become full during the first of them), also when the conversions stop   *)
(* without a flag (board.c:232-234, bench_app.c:15-18).                    *)
ValidIsFresh ==
    [][Judge /\ adc_valid' /\ time - adc.vref_raw < TimeModulus =>
          time - adc.vref_raw <= AgeLimit + LatencyMax + 2 * HandlerMax]_vars

(* The ADC is found invalid only for a reason: no block yet, an error, or  *)
(* a snapshot too old.  A block taken between the snapshot and the clock   *)
(* is no reason (bench_app.c:15-18).                                       *)
NoFalseAlarm ==
    [][Judge /\ ~adc_valid' =>
          \/ adc.completed_blocks = 0 \/ adc.errors > 0
          \/ time - adc.vref_raw > AgeLimit]_vars
=============================================================================
