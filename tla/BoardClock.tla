------------------------------ MODULE BoardClock ------------------------------
(***************************************************************************)
(* The millisecond clock of the bench (board.c): clock_ms counts the       *)
(* periods of TIM2 in software, TIM2's counter the milliseconds of the     *)
(* current one, and the update flag says that a period has ended that the  *)
(* interrupt has not counted yet.  board_now_ms reads the three one after  *)
(* the other while the counter runs.                                       *)
(*                                                                         *)
(* One reader is enough: a call runs with interrupts masked, and the       *)
(* interrupt handlers, one of which (DMA) reads the clock as well, have    *)
(* one priority, so no two calls overlap.  The hardware does not stop.     *)
(*                                                                         *)
(* Interrupts are never masked for a whole period, so that an update is    *)
(* counted before the next one.                                            *)
(***************************************************************************)
EXTENDS Integers

CONSTANTS
    Period,         \* counts of TIM2 in a period (100)
    TimeModulus,    \* uint32_t times wrap here
    MaxTime         \* bound of the model: milliseconds since the start

ASSUME ClockAssumption ==
    /\ Period \in Nat \ {0}
    /\ TimeModulus \in Nat
    /\ Period <= TimeModulus

VARIABLES
    time,           \* the true time: counts of TIM2 since its start
    cnt, uif,       \* TIM2: CNT and the flag UIF of SR
    clock_ms,
    isr,            \* TIM2_IRQHandler: "idle", or "add" with UIF cleared
    rpc,            \* the access board_now_ms is about to make
    base, counter,  \* its locals
    began           \* history: when the call began

timer_vars == <<time, cnt, uif>>
isr_vars == <<clock_ms, isr>>
reader_vars == <<rpc, base, counter, began>>

vars == <<timer_vars, isr_vars, reader_vars>>

Times == 0 .. TimeModulus - 1

(* The accesses made with interrupts masked.                               *)
Accesses == {"base", "counter", "flag", "again", "unlock"}

Masked_Never == FALSE
Masked == rpc \in Accesses

(* The handler is never half-way when interrupts are masked.               *)
TypeOK ==
    /\ time \in Nat /\ cnt \in 0 .. Period - 1 /\ uif \in BOOLEAN
    /\ clock_ms \in Times /\ isr \in {"idle", "add"}
    /\ rpc \in Accesses \cup {"idle", "done"}
    /\ base \in Times /\ counter \in 0 .. Period - 1
    /\ began \in 0 .. time
    /\ rpc \in Accesses => isr = "idle"

Init ==
    /\ time = 0 /\ cnt = 0 /\ uif = FALSE
    /\ clock_ms = 0 /\ isr = "idle"
    /\ rpc = "idle" /\ base = 0 /\ counter = 0 /\ began = 0

-----------------------------------------------------------------------------
(* TIM2.                                                                   *)

Tick ==
    /\ time < MaxTime
    /\ ~(uif /\ cnt = Period - 1)
    /\ time' = time + 1
    /\ IF cnt = Period - 1 THEN cnt' = 0 /\ uif' = TRUE
                           ELSE cnt' = cnt + 1 /\ UNCHANGED uif
    /\ UNCHANGED <<isr_vars, reader_vars>>

(* TIM2_IRQHandler clears the flag, then counts the period.                *)
ClearFlag ==
    /\ uif /\ isr = "idle" /\ ~Masked
    /\ uif' = FALSE
    /\ isr' = "add"
    /\ UNCHANGED <<time, cnt, clock_ms, reader_vars>>

AddPeriod ==
    /\ isr = "add"
    /\ clock_ms' = (clock_ms + Period) % TimeModulus
    /\ isr' = "idle"
    /\ UNCHANGED <<timer_vars, reader_vars>>

-----------------------------------------------------------------------------
(* board_now_ms.                                                           *)

Lock ==
    /\ rpc = "idle" /\ isr = "idle"
    /\ began' = time
    /\ rpc' = "base"
    /\ UNCHANGED <<timer_vars, isr_vars, base, counter>>

ReadBase ==
    /\ rpc = "base"
    /\ base' = clock_ms
    /\ rpc' = "counter"
    /\ UNCHANGED <<timer_vars, isr_vars, counter, began>>

ReadCounter ==
    /\ rpc = "counter"
    /\ counter' = cnt
    /\ rpc' = "flag"
    /\ UNCHANGED <<timer_vars, isr_vars, base, began>>

(* An update that was not counted yet: count it here, and read the counter *)
(* again, which may have been read before the update.                      *)
ReadFlag_KeepsCounter ==
    /\ rpc = "flag"
    /\ base' = IF uif THEN (base + Period) % TimeModulus ELSE base
    /\ rpc' = "unlock"
    /\ UNCHANGED <<timer_vars, isr_vars, counter, began>>

ReadFlag ==
    /\ rpc = "flag"
    /\ IF uif THEN /\ base' = (base + Period) % TimeModulus
                   /\ rpc' = "again"
              ELSE /\ rpc' = "unlock"
                   /\ UNCHANGED base
    /\ UNCHANGED <<timer_vars, isr_vars, counter, began>>

ReadAgain ==
    /\ rpc = "again"
    /\ counter' = cnt
    /\ rpc' = "unlock"
    /\ UNCHANGED <<timer_vars, isr_vars, base, began>>

Unlock ==
    /\ rpc = "unlock"
    /\ rpc' = "done"
    /\ UNCHANGED <<timer_vars, isr_vars, base, counter, began>>

Result == (base + counter) % TimeModulus

Return ==
    /\ rpc = "done" /\ isr = "idle"
    /\ rpc' = "idle"
    /\ UNCHANGED <<timer_vars, isr_vars, base, counter, began>>

Next ==
    \/ Tick \/ ClearFlag \/ AddPeriod
    \/ Lock \/ ReadBase \/ ReadCounter \/ ReadFlag \/ ReadAgain \/ Unlock \/ Return

Spec == Init /\ [][Next]_vars

-----------------------------------------------------------------------------
(* Properties.                                                             *)

(* What board_now_ms returns was the true time at some moment of the call, *)
(* modulo the width of the clock, although the counter may wrap between    *)
(* any two of the accesses and an update may be pending when the call      *)
(* begins (board.c:198-205).                                               *)
ReadsTrueTime ==
    rpc = "done" => \E t \in began .. time : Result = t % TimeModulus

-----------------------------------------------------------------------------
(* Strengthenings that every step preserves.                               *)

PeriodIf(b) == IF b THEN Period ELSE 0

(* Software count, hardware count and uncounted updates add up.            *)
SyncInv ==
    \E q \in Nat : time = q * TimeModulus + clock_ms + cnt + PeriodIf(uif)
                                          + PeriodIf(isr = "add")

(* What the call has read is right as long as no update comes in between.  *)
ReadInv ==
    /\ rpc \in {"counter", "flag"} => base = clock_ms
    /\ rpc = "flag" /\ ~uif => counter <= cnt /\ began <= time - (cnt - counter)
    /\ rpc = "again" => uif /\ base = (clock_ms + Period) % TimeModulus
    /\ rpc \in {"unlock", "done"} =>
          \E t \in began .. time : Result = t % TimeModulus
=============================================================================
