--------------------------- MODULE BoardClockProofs ---------------------------
(***************************************************************************)
(* The clock of the bench reads the true time, for every period and every  *)
(* width of the clock.                                                     *)
(***************************************************************************)
EXTENDS BoardClock, TLAPS

(* A remainder lies below the modulus.                                     *)
LEMMA ModInRange ==
    ASSUME NEW a \in Int, NEW m \in Nat \ {0}
    PROVE  a % m \in 0 .. m - 1
  OBVIOUS

(* What is below the modulus is the remainder.                             *)
LEMMA ModUnique ==
    ASSUME NEW m \in Nat \ {0}, NEW q \in Nat, NEW r \in 0 .. m - 1
    PROVE  (q * m + r) % m = r
  OBVIOUS

(* One modulus more makes one more in the quotient.                        *)
LEMMA NextMultiple ==
    ASSUME NEW m \in Nat, NEW q \in Nat
    PROVE  (q + 1) * m = q * m + m /\ q + 1 \in Nat /\ q * m \in Nat
  OBVIOUS

(* A sum of a counter's value and a number up to the modulus wraps once.   *)
LEMMA ModAdd ==
    ASSUME NEW m \in Nat \ {0}, NEW a \in 0 .. m - 1, NEW b \in 0 .. m
    PROVE  (a + b) % m = IF a + b < m THEN a + b ELSE a + b - m
  <1>1. CASE a + b < m
    <2>1. a + b \in 0 .. m - 1 /\ 0 * m = 0
      BY <1>1
    <2>2. (0 * m + (a + b)) % m = a + b
      BY <2>1, ModUnique
    <2> QED
      BY <1>1, <2>1, <2>2
  <1>2. CASE a + b >= m
    <2>1. a + b - m \in 0 .. m - 1 /\ 1 * m = m
      BY <1>2
    <2>2. (1 * m + (a + b - m)) % m = a + b - m
      BY <2>1, ModUnique
    <2>3. 1 * m + (a + b - m) = a + b
      BY <2>1
    <2> QED
      BY <1>2, <2>2, <2>3
  <1> QED
    BY <1>1, <1>2

(* So does a time that lies whole turns of the clock ahead.                *)
LEMMA ModTurns ==
    ASSUME NEW m \in Nat \ {0}, NEW q \in Nat, NEW a \in 0 .. m - 1, NEW b \in 0 .. m
    PROVE  (q * m + a + b) % m = (a + b) % m
  <1>0. q * m \in Nat
    BY NextMultiple
  <1>1. CASE a + b < m
    <2>1. a + b \in 0 .. m - 1 /\ q * m + (a + b) = q * m + a + b
      BY <1>0, <1>1
    <2>2. (q * m + (a + b)) % m = a + b
      BY <2>1, ModUnique
    <2> QED
      BY <1>1, <2>1, <2>2, ModAdd
  <1>2. CASE a + b >= m
    <2> DEFINE r == a + b - m
    <2>1. r \in 0 .. m - 1
      BY <1>2
    <2>2. (q + 1) * m = q * m + m /\ q + 1 \in Nat
      BY NextMultiple
    <2>3. ((q + 1) * m + r) % m = r
      BY <2>1, <2>2, ModUnique
    <2>4. (q + 1) * m + r = q * m + a + b
      BY <1>0, <2>2
    <2>5. (a + b) % m = r
      <3>1. (a + b) % m = IF a + b < m THEN a + b ELSE a + b - m
        BY ModAdd
      <3> QED
        BY <1>2, <3>1
    <2> QED
      BY <2>3, <2>4, <2>5
  <1> QED
    BY <1>1, <1>2

-----------------------------------------------------------------------------
(* Type correctness, with the interrupt handler never half-way while       *)
(* interrupts are masked.                                                  *)
THEOREM TypeCorrect == Spec => []TypeOK
  <1> USE ClockAssumption DEF TypeOK, Times, Accesses, Masked, timer_vars,
          isr_vars, reader_vars
  <1>1. Init => TypeOK
    <2> SUFFICES ASSUME Init PROVE TypeOK
      OBVIOUS
    <2>1. /\ time = 0 /\ cnt = 0 /\ clock_ms = 0 /\ base = 0 /\ counter = 0
          /\ began = 0 /\ 0 \in 0 .. Period - 1 /\ 0 \in 0 .. TimeModulus - 1
      BY DEF Init
    <2>2. uif \in BOOLEAN /\ isr = "idle" /\ rpc = "idle"
      BY DEF Init
    <2> QED
      BY <2>1, <2>2
  <1>2. TypeOK /\ [Next]_vars => TypeOK'
    <2> SUFFICES ASSUME TypeOK, [Next]_vars PROVE TypeOK'
      OBVIOUS
    <2>1. CASE Tick
      <3>1. time' \in Nat /\ cnt' \in 0 .. Period - 1 /\ began' \in 0 .. time'
        BY <2>1 DEF Tick
      <3>2. uif' \in BOOLEAN
        BY <2>1 DEF Tick
      <3> QED
        BY <2>1, <3>1, <3>2 DEF Tick
    <2>2. CASE ClearFlag
      BY <2>2 DEF ClearFlag
    <2>3. CASE AddPeriod
      <3>1. (clock_ms + Period) % TimeModulus \in 0 .. TimeModulus - 1
        BY ModInRange
      <3> QED
        BY <2>3, <3>1 DEF AddPeriod
    <2>4. CASE Lock
      BY <2>4 DEF Lock
    <2>5. CASE ReadBase
      BY <2>5 DEF ReadBase
    <2>6. CASE ReadCounter
      BY <2>6 DEF ReadCounter
    <2>7. CASE ReadFlag
      <3>1. (base + Period) % TimeModulus \in 0 .. TimeModulus - 1
        BY ModInRange
      <3> QED
        BY <2>7, <3>1 DEF ReadFlag
    <2>8. CASE ReadAgain
      BY <2>8 DEF ReadAgain
    <2>9. CASE Unlock
      BY <2>9 DEF Unlock
    <2>10. CASE Return
      BY <2>10 DEF Return
    <2>11. CASE UNCHANGED vars
      BY <2>11 DEF vars
    <2> QED
      BY <2>1, <2>2, <2>3, <2>4, <2>5, <2>6, <2>7, <2>8, <2>9, <2>10, <2>11
      DEF Next
  <1>3. QED
    BY <1>1, <1>2, PTL DEF Spec

-----------------------------------------------------------------------------
(* The software count, the counter and the updates not counted yet make up *)
(* the true time, but for whole turns of the clock.                        *)
LEMMA SyncInvariant == Spec => []SyncInv
  <1> USE ClockAssumption DEF timer_vars, isr_vars, reader_vars
  <1>1. Init => SyncInv
    <2> SUFFICES ASSUME Init PROVE SyncInv
      OBVIOUS
    <2>1. time = 0 * TimeModulus + clock_ms + cnt + PeriodIf(uif)
                                 + PeriodIf(isr = "add")
      BY DEF Init, PeriodIf
    <2> QED
      BY <2>1 DEF SyncInv
  <1>2. TypeOK /\ SyncInv /\ [Next]_vars => SyncInv'
    <2> SUFFICES ASSUME TypeOK, SyncInv, [Next]_vars PROVE SyncInv'
      OBVIOUS
    <2>1. PICK q \in Nat : time = q * TimeModulus + clock_ms + cnt
                                  + PeriodIf(uif) + PeriodIf(isr = "add")
      BY DEF SyncInv
    <2>2. q * TimeModulus \in Nat
      BY NextMultiple
    <2>3. /\ time \in Nat /\ cnt \in 0 .. Period - 1 /\ uif \in BOOLEAN
          /\ clock_ms \in 0 .. TimeModulus - 1
      BY DEF TypeOK, Times
    <2>4. CASE Tick
      <3>1. time' = q * TimeModulus + clock_ms' + cnt' + PeriodIf(uif')
                                    + PeriodIf((isr = "add")')
        BY <2>1, <2>2, <2>3, <2>4 DEF Tick, PeriodIf
      <3> QED
        BY <3>1 DEF SyncInv
    <2>5. CASE ClearFlag
      <3>1. time' = q * TimeModulus + clock_ms' + cnt' + PeriodIf(uif')
                                    + PeriodIf((isr = "add")')
        BY <2>1, <2>2, <2>3, <2>5 DEF ClearFlag, PeriodIf
      <3> QED
        BY <3>1 DEF SyncInv
    <2>6. CASE AddPeriod
      <3>1. clock_ms' = IF clock_ms + Period < TimeModulus THEN clock_ms + Period
                        ELSE clock_ms + Period - TimeModulus
        <4>1. Period \in 0 .. TimeModulus /\ TimeModulus \in Nat \ {0}
          OBVIOUS
        <4>2. (clock_ms + Period) % TimeModulus
                = IF clock_ms + Period < TimeModulus THEN clock_ms + Period
                  ELSE clock_ms + Period - TimeModulus
          BY <2>3, <4>1, ModAdd
        <4> QED
          BY <2>6, <4>2 DEF AddPeriod
      <3>2. UNCHANGED timer_vars /\ isr = "add" /\ isr' = "idle"
        BY <2>6 DEF AddPeriod
      <3>3. CASE clock_ms + Period < TimeModulus
        <4>1. time' = q * TimeModulus + clock_ms' + cnt' + PeriodIf(uif')
                                      + PeriodIf((isr = "add")')
          BY <2>1, <2>2, <2>3, <3>1, <3>2, <3>3 DEF PeriodIf
        <4> QED
          BY <4>1 DEF SyncInv
      <3>4. CASE clock_ms + Period >= TimeModulus
        <4>1. (q + 1) * TimeModulus = q * TimeModulus + TimeModulus /\ q + 1 \in Nat
          BY NextMultiple
        <4>2. time' = (q + 1) * TimeModulus + clock_ms' + cnt' + PeriodIf(uif')
                                            + PeriodIf((isr = "add")')
          BY <2>1, <2>2, <2>3, <3>1, <3>2, <3>4, <4>1 DEF PeriodIf
        <4> QED
          BY <4>1, <4>2 DEF SyncInv
      <3> QED
        BY <2>3, <3>3, <3>4
    <2>7. CASE UNCHANGED <<timer_vars, isr_vars>>
      BY <2>7 DEF SyncInv, PeriodIf
    <2> QED
      BY <2>4, <2>5, <2>6, <2>7 DEF Next, vars, Lock, ReadBase, ReadCounter,
         ReadFlag, ReadAgain, Unlock, Return
  <1>3. QED
    BY <1>1, <1>2, TypeCorrect, PTL DEF Spec

-----------------------------------------------------------------------------
(* The time of a state in terms of what is read, whatever the turn of the  *)
(* clock.                                                                  *)
LEMMA TrueTime ==
    ASSUME TypeOK, SyncInv, isr = "idle", NEW k \in 0 .. cnt
    PROVE  (time - k) % TimeModulus
             = IF uif THEN (((clock_ms + Period) % TimeModulus) + (cnt - k)) % TimeModulus
               ELSE (clock_ms + (cnt - k)) % TimeModulus
  <1>1. PICK q \in Nat : time = q * TimeModulus + clock_ms + cnt
                                + PeriodIf(uif) + PeriodIf(isr = "add")
    BY DEF SyncInv
  <1>2. /\ q * TimeModulus \in Nat /\ TimeModulus \in Nat \ {0}
        /\ clock_ms \in 0 .. TimeModulus - 1 /\ cnt - k \in 0 .. TimeModulus
        /\ Period \in 0 .. TimeModulus /\ k \in Nat /\ cnt \in Nat
    BY NextMultiple, ClockAssumption DEF TypeOK, Times
  <1>3. CASE ~uif
    <2>1. time - k = q * TimeModulus + clock_ms + (cnt - k)
      BY <1>1, <1>2, <1>3 DEF PeriodIf
    <2>2. (q * TimeModulus + clock_ms + (cnt - k)) % TimeModulus
            = (clock_ms + (cnt - k)) % TimeModulus
      BY <1>2, ModTurns
    <2> QED
      BY <1>3, <2>1, <2>2
  <1>4. CASE uif
    <2> DEFINE c == (clock_ms + Period) % TimeModulus
    <2>1. time - k = q * TimeModulus + clock_ms + Period + (cnt - k)
      BY <1>1, <1>2, <1>4 DEF PeriodIf
    <2>2. c = IF clock_ms + Period < TimeModulus THEN clock_ms + Period
              ELSE clock_ms + Period - TimeModulus
      BY <1>2, ModAdd
    <2>3. c \in 0 .. TimeModulus - 1
      BY <1>2, <2>2
    <2> HIDE DEF c
    <2>4. CASE clock_ms + Period < TimeModulus
      <3>1. time - k = q * TimeModulus + c + (cnt - k)
        BY <1>2, <2>1, <2>2, <2>4
      <3>2. (q * TimeModulus + c + (cnt - k)) % TimeModulus
              = (c + (cnt - k)) % TimeModulus
        BY <1>2, <2>3, ModTurns
      <3> QED
        BY <1>4, <3>1, <3>2 DEF c
    <2>5. CASE clock_ms + Period >= TimeModulus
      <3>1. (q + 1) * TimeModulus = q * TimeModulus + TimeModulus /\ q + 1 \in Nat
        BY <1>2, NextMultiple
      <3>2. time - k = (q + 1) * TimeModulus + c + (cnt - k)
        BY <1>2, <2>1, <2>2, <2>5, <3>1
      <3>3. ((q + 1) * TimeModulus + c + (cnt - k)) % TimeModulus
              = (c + (cnt - k)) % TimeModulus
        BY <1>2, <2>3, <3>1, ModTurns
      <3> QED
        BY <1>4, <3>2, <3>3 DEF c
    <2> QED
      BY <1>2, <2>4, <2>5
  <1> QED
    BY <1>3, <1>4

(* What a call has read so far fits the time at some moment of it.         *)
LEMMA ReadInvariant == Spec => []ReadInv
  <1> USE ClockAssumption DEF timer_vars, isr_vars
  <1>1. Init => ReadInv
    BY DEF Init, ReadInv
  <1>2. TypeOK /\ SyncInv /\ ReadInv /\ [Next]_vars => ReadInv'
    <2> SUFFICES ASSUME TypeOK, SyncInv, ReadInv, [Next]_vars PROVE ReadInv'
      OBVIOUS
    <2>0. /\ time \in Nat /\ cnt \in 0 .. Period - 1 /\ counter \in 0 .. Period - 1
          /\ began \in 0 .. time /\ (rpc \in Accesses => isr = "idle")
      BY DEF TypeOK
    <2>1. CASE Tick
      <3>1. UNCHANGED <<isr_vars, reader_vars>> /\ time' = time + 1
        BY <2>1 DEF Tick
      <3>2. rpc = "flag" /\ ~uif' => counter <= cnt' /\ began <= time' - (cnt' - counter)
        BY <2>0, <2>1 DEF Tick, ReadInv
      <3>3. uif => uif'
        BY <2>1 DEF Tick
      <3>4. began .. time \subseteq began .. time'
        BY <2>0, <3>1
      <3>5. rpc \in {"unlock", "done"}
              => \E t \in began .. time' : Result = t % TimeModulus
        BY <3>4 DEF ReadInv
      <3>6. Result' = Result
        BY <3>1 DEF Result, reader_vars
      <3> QED
        BY <3>1, <3>2, <3>3, <3>5, <3>6 DEF ReadInv, reader_vars
    <2>2. CASE ClearFlag
      BY <2>2 DEF ClearFlag, Masked, Accesses, ReadInv, reader_vars, Result
    <2>3. CASE AddPeriod
      BY <2>0, <2>3 DEF AddPeriod, Accesses, ReadInv, reader_vars, Result
    <2>4. CASE Lock
      BY <2>4 DEF Lock, ReadInv
    <2>5. CASE ReadBase
      BY <2>5 DEF ReadBase, ReadInv
    <2>6. CASE ReadCounter
      BY <2>0, <2>6 DEF ReadCounter, ReadInv
    <2>7. CASE ReadFlag /\ uif
      BY <2>7 DEF ReadFlag, ReadInv
    <2>8. CASE ReadFlag /\ ~uif
      <3>1. /\ counter <= cnt /\ began <= time - (cnt - counter)
            /\ base = clock_ms /\ isr = "idle"
        BY <2>0, <2>8 DEF ReadFlag, ReadInv, Accesses
      <3>2. cnt - counter \in 0 .. cnt /\ cnt - (cnt - counter) = counter
        BY <2>0, <3>1
      <3>3. (time - (cnt - counter)) % TimeModulus
              = (clock_ms + (cnt - (cnt - counter))) % TimeModulus
        BY <2>8, <3>1, <3>2, TrueTime
      <3>4. Result' = (time - (cnt - counter)) % TimeModulus
        BY <2>8, <3>1, <3>2, <3>3 DEF ReadFlag, Result
      <3>5. time - (cnt - counter) \in began .. time
        BY <2>0, <3>1
      <3>6. rpc' = "unlock" /\ UNCHANGED <<time, began>>
        BY <2>8 DEF ReadFlag
      <3> QED
        BY <3>4, <3>5, <3>6 DEF ReadInv
    <2>9. CASE ReadAgain
      <3>1. uif /\ base = (clock_ms + Period) % TimeModulus /\ isr = "idle"
        BY <2>0, <2>9 DEF ReadAgain, ReadInv, Accesses
      <3>2. 0 \in 0 .. cnt /\ time - 0 = time /\ cnt - 0 = cnt /\ time \in began .. time
        BY <2>0
      <3>3. (time - 0) % TimeModulus
              = (((clock_ms + Period) % TimeModulus) + (cnt - 0)) % TimeModulus
        BY <3>1, <3>2, TrueTime
      <3>4. Result' = time % TimeModulus
        BY <2>9, <3>1, <3>2, <3>3 DEF ReadAgain, Result
      <3>5. rpc' = "unlock" /\ UNCHANGED <<time, began>>
        BY <2>9 DEF ReadAgain
      <3> QED
        BY <3>2, <3>4, <3>5 DEF ReadInv
    <2>10. CASE Unlock
      BY <2>10 DEF Unlock, ReadInv, Result
    <2>11. CASE Return
      BY <2>11 DEF Return, ReadInv
    <2>12. CASE UNCHANGED vars
      BY <2>12 DEF vars, ReadInv, reader_vars, Result
    <2> QED
      BY <2>1, <2>2, <2>3, <2>4, <2>5, <2>6, <2>7, <2>8, <2>9, <2>10, <2>11, <2>12
      DEF Next
  <1>3. QED
    BY <1>1, <1>2, TypeCorrect, SyncInvariant, PTL DEF Spec

(* Every reading of the clock is the true time of a moment of the call,    *)
(* whatever the timer and its interrupt do meanwhile.                      *)
THEOREM ClockReadsTrueTime == Spec => []ReadsTrueTime
  <1>1. ReadInv => ReadsTrueTime
    BY DEF ReadInv, ReadsTrueTime
  <1> QED
    BY <1>1, ReadInvariant, PTL
=============================================================================
