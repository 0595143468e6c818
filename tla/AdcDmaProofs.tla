----------------------------- MODULE AdcDmaProofs -----------------------------
(***************************************************************************)
(* Theorems about AdcDma, for every size of the buffer, any delay of the   *)
(* handler, any age limit and any width of the clock.                      *)
(***************************************************************************)
EXTENDS AdcDma, FiniteSetTheorems, TLAPS

-----------------------------------------------------------------------------
(* Invariants.                                                             *)

(* Conversions that filled n halves.                                       *)
Filled(n) == Half * n

(* The conversion before the first one of this round of the buffer.        *)
Lap == Filled(halves) - (IF pos < Half THEN 0 ELSE Half)

(* The conversions are stored in turn, so a slot that is not overwritten   *)
(* yet holds a value of the round before.                                  *)
StreamInv ==
    /\ Lap >= 0
    /\ running => time = Lap + pos
    /\ Lap + pos <= time
    /\ \A i \in Entries :
          /\ i < pos => adc_buffer[i] = Lap + i + 1
          /\ pos <= i /\ Lap > 0 => adc_buffer[i] = Lap - 2 * Half + i + 1
    /\ since <= time

(* One of the two flags is up, and not the other.                          *)
OnlyHalf(lisr) == "HT" \in lisr /\ "TC" \notin lisr
OnlyEnd(lisr) == "TC" \in lisr /\ "HT" \notin lisr

(* A flag that is up alone is of the half that was filled last.            *)
FlagInv ==
    /\ "TC" \in flags => Lap > 0
    /\ OnlyHalf(flags) => pos >= Half
    /\ OnlyEnd(flags) => pos < Half

(* The handler has read one of the two flags.  Either the stream is still  *)
(* in the other half, or it left that half while the handler ran, and the  *)
(* flag of that is up.                                                     *)
Overtaken == Filled(halves) > since
HandlerInv ==
    isr # "idle" =>
        /\ time - since <= HandlerMax
        /\ status \cap Enabled # {}
        /\ isr = "clear" => status \subseteq flags
        /\ isr # "clear" => ~Bad /\ {"HT", "TC"} \cap status \cap flags = {}
        /\ OnlyHalf(status) =>
              \/ pos >= Half /\ "TC" \notin flags
              \/ pos < Half /\ "TC" \in flags /\ Overtaken
        /\ OnlyEnd(status) =>
              /\ Lap > 0
              /\ \/ pos < Half /\ "HT" \notin flags
                 \/ pos >= Half /\ "HT" \in flags /\ Overtaken

ProtocolInv == StreamInv /\ FlagInv /\ HandlerInv

(* The conversion that filled the half the handler takes.                  *)
Taken == IF OnlyHalf(status) <=> pos >= Half THEN Filled(halves)
                                             ELSE Filled(halves) - Half

(* What the handler has copied is of that half's last scan.                *)
DataInv ==
    /\ BlockIntact
    /\ isr \in {"vref", "stamp"} => adc_data.temperature_raw = Taken - 1
    /\ isr = "stamp" => adc_data.vref_raw = Taken

(* While the handler has read the flags and not cleared them, they count.  *)
LossInv ==
    /\ LossCounted
    /\ adc_data.errors = 0 /\ isr = "clear" /\ ~Bad =>
          halves = adc_data.completed_blocks + Cardinality(flags \cap {"HT", "TC"})

(* The handler's delay, as long as no error was counted.  A half that      *)
(* became full during a run of the handler has waited for its end.         *)
LatencyInv ==
    adc_data.errors = 0 =>
        /\ isr = "idle" /\ Raised => time - since <= LatencyMax
        /\ isr = "idle" /\ (OnlyHalf(flags) \/ OnlyEnd(flags)) =>
              since - Filled(halves) <= HandlerMax
        /\ isr # "idle" /\ ~Bad => since - Taken <= LatencyMax + HandlerMax

(* A block was stamped when its values were not much older than that.      *)
StampedAt(d, s) ==
    /\ d.vref_raw <= s /\ s <= time
    /\ s <= d.vref_raw + LatencyMax + 2 * HandlerMax
    /\ d.sampled_ms = s % TimeModulus
Stamped(d) ==
    d.completed_blocks > 0 /\ d.errors = 0 => \E s \in Nat : StampedAt(d, s)
StampInv ==
    /\ isr \in {"idle", "clear"} => Stamped(adc_data)
    /\ rpc = "judge" => Stamped(adc)

-----------------------------------------------------------------------------
(* Lemmas.                                                                 *)

(* Whole halves.                                                           *)
LEMMA FilledNext ==
    ASSUME NEW n \in Nat
    PROVE  /\ Filled(n) \in Nat /\ Filled(n) >= 0
           /\ Filled(n + 1) = Filled(n) + Half
           /\ Filled(n) % Half = 0 /\ (Filled(n) - Half) % Half = 0
  <1>1. /\ Filled(n) \in Nat /\ Filled(n) >= 0
        /\ Filled(n + 1) = Filled(n) + Half
    BY AdcAssumption DEF Filled
  <1>2. \A h \in Nat \ {0}, q \in Int : (q * h + 0) % h = 0
    OBVIOUS
  <1>3. Filled(n) = n * Half + 0 /\ Filled(n) - Half = (n - 1) * Half + 0
    BY AdcAssumption DEF Filled
  <1>4. Half \in Nat \ {0} /\ n \in Int /\ n - 1 \in Int
    BY AdcAssumption
  <1> QED
    BY <1>1, <1>2, <1>3, <1>4

(* How many of the two flags are up.                                       *)
LEMMA UpCount ==
    ASSUME NEW lisr
    PROVE  Cardinality(lisr \cap {"HT", "TC"}) =
               (IF "HT" \in lisr THEN 1 ELSE 0) + (IF "TC" \in lisr THEN 1 ELSE 0)
  <1>1. CASE "HT" \in lisr /\ "TC" \in lisr
    <2>1. lisr \cap {"HT", "TC"} = {"HT"} \cup {"TC"}
      BY <1>1
    <2>2. Cardinality({"HT"} \cup {"TC"}) = Cardinality({"HT"}) + 1
      BY FS_Singleton, FS_AddElement, "TC" \notin {"HT"}
    <2> QED
      BY <1>1, <2>1, <2>2, FS_Singleton
  <1>2. CASE "HT" \in lisr /\ "TC" \notin lisr
    <2>1. lisr \cap {"HT", "TC"} = {"HT"}
      BY <1>2
    <2> QED
      BY <1>2, <2>1, FS_Singleton
  <1>3. CASE "HT" \notin lisr /\ "TC" \in lisr
    <2>1. lisr \cap {"HT", "TC"} = {"TC"}
      BY <1>3
    <2> QED
      BY <1>3, <2>1, FS_Singleton
  <1>4. CASE "HT" \notin lisr /\ "TC" \notin lisr
    <2>1. lisr \cap {"HT", "TC"} = {}
      BY <1>4
    <2> QED
      BY <1>4, <2>1, FS_EmptySet
  <1> QED
    BY <1>1, <1>2, <1>3, <1>4

(* The next slot.                                                          *)
LEMMA NextPosIs ==
    ASSUME pos \in Entries
    PROVE  NextPos \in Entries /\ NextPos = IF pos + 1 = 2 * Half THEN 0 ELSE pos + 1
  <1>1. \A m \in Nat \ {0} : m % m = 0
    OBVIOUS
  <1>2. \A m \in Nat \ {0}, k \in Nat : k < m => k % m = k
    OBVIOUS
  <1>3. 2 * Half \in Nat \ {0} /\ pos + 1 \in Nat /\ pos + 1 <= 2 * Half
    BY AdcAssumption DEF Entries
  <1>4. CASE pos + 1 = 2 * Half
    BY <1>1, <1>3, <1>4 DEF NextPos, Entries
  <1>5. CASE pos + 1 # 2 * Half
    BY <1>2, <1>3, <1>5 DEF NextPos, Entries
  <1> QED
    BY <1>4, <1>5

-----------------------------------------------------------------------------
(* Type correctness.                                                       *)
THEOREM TypeCorrect == Spec => []TypeOK
  <1>1. Init => TypeOK
    <2>1. 0 \in Entries /\ ZeroSnapshot \in Snapshot
      BY AdcAssumption DEF Entries, Snapshot, ZeroSnapshot, Times
    <2> SUFFICES ASSUME Init PROVE TypeOK
      OBVIOUS
    <2>2. adc_buffer \in [Entries -> Nat] /\ flags \subseteq Flags /\ status \subseteq Flags
      BY DEF Init
    <2> QED
      BY <2>1, <2>2 DEF Init, TypeOK
  <1>2. TypeOK /\ [Next]_vars => TypeOK'
    <2> SUFFICES ASSUME TypeOK, [Next]_vars PROVE TypeOK'
      OBVIOUS
    <2> USE DEF TypeOK, stream_vars, isr_vars, reader_vars
    <2>0. \A t \in Nat : Since(t) \in Nat
      BY DEF Since
    <2>1. CASE Convert
      <3>1. pos' \in Entries
        BY <2>1, NextPosIs DEF Convert
      <3>2. since' \in Nat /\ time' \in Nat /\ halves' \in Nat
        BY <2>0, <2>1 DEF Convert
      <3>3. flags' \subseteq Flags
        BY <2>1 DEF Convert, Flags
      <3>4. adc_buffer' \in [Entries -> Nat]
        BY <2>1 DEF Convert
      <3> QED
        BY <2>1, <3>1, <3>2, <3>3, <3>4 DEF Convert
    <2>2. CASE Idle
      BY <2>2 DEF Idle
    <2>3. CASE \E error \in ErrorFlags : Fail(error)
      <3>1. PICK error \in ErrorFlags : Fail(error)
        BY <2>3
      <3>2. flags' \subseteq Flags
        BY <3>1 DEF Fail, Flags
      <3>3. since' \in Nat
        BY <2>0, <3>1 DEF Fail
      <3> QED
        BY <3>1, <3>2, <3>3 DEF Fail
    <2>4. CASE Stall
      BY <2>4 DEF Stall
    <2>5. CASE ReadStatus
      BY <2>5 DEF ReadStatus
    <2>6. CASE ClearFlags
      <3>1. adc_data' \in Snapshot
        BY <2>6 DEF ClearFlags, Snapshot
      <3>2. since' \in Nat
        BY <2>6 DEF ClearFlags
      <3> QED
        BY <2>6, <3>1, <3>2 DEF ClearFlags, Cleared
    <2>7. CASE ReadTemperature
      <3>1. Offset \in Entries
        BY AdcAssumption DEF Offset, Entries
      <3>2. adc_data' \in Snapshot
        BY <2>7, <3>1 DEF ReadTemperature, Snapshot
      <3> QED
        BY <2>7, <3>2 DEF ReadTemperature
    <2>8. CASE ReadVref
      <3>1. Offset + 1 \in Entries
        BY AdcAssumption DEF Offset, Entries
      <3>2. adc_data' \in Snapshot
        BY <2>8, <3>1 DEF ReadVref, Snapshot
      <3> QED
        BY <2>8, <3>2 DEF ReadVref
    <2>9. CASE Stamp
      <3> DEFINE ms == time % TimeModulus
      <3>1. ms \in Times
        BY AdcAssumption DEF Times
      <3>2. adc_data' = [adc_data EXCEPT !.sampled_ms = ms, !.completed_blocks = @ + 1]
        BY <2>9 DEF Stamp
      <3> HIDE DEF ms
      <3>3. adc_data' \in Snapshot
        <4> DEFINE stamped == [adc_data EXCEPT !.sampled_ms = ms]
        <4>1. stamped \in Snapshot
          BY <3>1 DEF Snapshot
        <4>2. adc_data' = [stamped EXCEPT !.completed_blocks = @ + 1]
          BY <3>2 DEF Snapshot
        <4> HIDE DEF stamped
        <4> QED
          BY <4>1, <4>2 DEF Snapshot
      <3> QED
        BY <2>9, <3>3 DEF Stamp
    <2>10. CASE TakeSnapshot
      BY <2>10 DEF TakeSnapshot
    <2>11. CASE Judge
      BY <2>11 DEF Judge, Valid
    <2>12. CASE UNCHANGED vars
      BY <2>12 DEF vars
    <2> QED
      BY <2>1, <2>2, <2>3, <2>4, <2>5, <2>6, <2>7, <2>8, <2>9, <2>10, <2>11, <2>12
         DEF Next, Handler
  <1> QED
    BY <1>1, <1>2, PTL DEF Spec

-----------------------------------------------------------------------------
(* The stream and its interrupt.                                           *)

(* Where a conversion takes the stream: on, into the second half, or back  *)
(* to the first.                                                           *)
LEMMA ConvertMoves ==
    ASSUME TypeOK, StreamInv, Convert
    PROVE  /\ time' = time + 1 /\ time = Lap + pos
           /\ \/ /\ pos + 1 # Half /\ pos + 1 # 2 * Half
                 /\ pos' = pos + 1 /\ UNCHANGED <<flags, halves, Lap>>
                 /\ pos' < Half <=> pos < Half
              \/ /\ pos + 1 = Half /\ pos' = Half
                 /\ flags' = flags \cup {"HT"} /\ halves' = halves + 1
                 /\ Lap' = Lap /\ Filled(halves') = time + 1
              \/ /\ pos + 1 = 2 * Half /\ pos' = 0
                 /\ flags' = flags \cup {"TC"} /\ halves' = halves + 1
                 /\ Lap' = Lap + 2 * Half /\ Filled(halves') = time + 1
  <1> USE AdcAssumption
  <1>1. /\ time' = time + 1 /\ time = Lap + pos
        /\ pos \in Nat /\ pos < 2 * Half /\ halves \in Nat
    BY DEF Convert, TypeOK, StreamInv, Entries
  <1>2. pos' = IF pos + 1 = 2 * Half THEN 0 ELSE pos + 1
    BY NextPosIs DEF Convert, TypeOK
  <1>3. /\ flags' = flags \cup (IF pos' = Half THEN {"HT"} ELSE {})
                          \cup (IF pos' = 0 THEN {"TC"} ELSE {})
        /\ halves' = IF pos' \in {0, Half} THEN halves + 1 ELSE halves
    BY DEF Convert
  <1>4. Filled(halves) \in Nat /\ Filled(halves + 1) = Filled(halves) + Half
    BY <1>1, FilledNext
  <1>5. /\ Lap = Filled(halves) - (IF pos < Half THEN 0 ELSE Half)
        /\ Lap' = Filled(halves') - (IF pos' < Half THEN 0 ELSE Half)
    BY DEF Lap, Filled
  <1>6. CASE pos + 1 # Half /\ pos + 1 # 2 * Half
    <2>1. pos' = pos + 1 /\ pos' # Half /\ pos' # 0
      BY <1>1, <1>2, <1>6
    <2>2. flags' = flags /\ halves' = halves
      BY <1>3, <2>1
    <2>3. pos' < Half <=> pos < Half
      BY <1>1, <1>6, <2>1
    <2>4. Lap' = Lap
      BY <1>5, <2>2, <2>3
    <2> QED
      BY <1>1, <1>6, <2>1, <2>2, <2>3, <2>4
  <1>7. CASE pos + 1 = Half
    <2>1. pos' = Half /\ pos' # 0 /\ pos < Half
      BY <1>1, <1>2, <1>7
    <2>2. flags' = flags \cup {"HT"} /\ halves' = halves + 1
      BY <1>3, <2>1
    <2>3. Lap = Filled(halves) /\ Lap' = Filled(halves) + Half - Half
      BY <1>4, <1>5, <2>1, <2>2
    <2>4. Lap' = Lap /\ Filled(halves') = time + 1
      BY <1>1, <1>4, <1>7, <2>2, <2>3
    <2> QED
      BY <1>1, <1>7, <2>1, <2>2, <2>4
  <1>8. CASE pos + 1 = 2 * Half
    <2>1. pos' = 0 /\ pos' # Half /\ ~(pos < Half)
      BY <1>1, <1>2, <1>8
    <2>2. flags' = flags \cup {"TC"} /\ halves' = halves + 1
      BY <1>3, <2>1
    <2>3. Lap = Filled(halves) - Half /\ Lap' = Filled(halves) + Half
      BY <1>4, <1>5, <2>1, <2>2
    <2>4. Lap' = Lap + 2 * Half /\ Filled(halves') = time + 1
      BY <1>1, <1>4, <1>8, <2>2, <2>3
    <2> QED
      BY <1>1, <1>8, <2>1, <2>2, <2>4
  <1> QED
    BY <1>6, <1>7, <1>8

(* The stream itself.                                                      *)
LEMMA StreamInvariant == Spec => []StreamInv
  <1> USE AdcAssumption
  <1>1. Init => StreamInv
    <2> SUFFICES ASSUME Init PROVE StreamInv
      OBVIOUS
    <2>1. Lap = 0
      BY DEF Init, Lap, Filled
    <2> QED
      BY <2>1 DEF Init, StreamInv, Entries
  <1>2. TypeOK /\ StreamInv /\ [Next]_vars => StreamInv'
    <2> SUFFICES ASSUME TypeOK, StreamInv, [Next]_vars PROVE StreamInv'
      OBVIOUS
    <2> USE DEF stream_vars, isr_vars, reader_vars
    <2>0. Lap \in Int /\ time \in Nat /\ since \in Nat /\ pos \in Nat
      <3>1. halves \in Nat /\ pos \in Nat
        BY DEF TypeOK, Entries
      <3>2. Filled(halves) \in Nat
        BY <3>1, FilledNext
      <3>3. Lap \in Int
        BY <3>1, <3>2 DEF Lap
      <3> QED
        BY <3>1, <3>3 DEF TypeOK
    <2>a. \A t \in Nat : t >= since => Since(t) <= t
      BY <2>0 DEF Since
    <2>1. CASE Convert
      <3>1. since' <= time'
        <4>1. time + 1 \in Nat /\ time + 1 >= since /\ time' = time + 1 /\ since' = Since(time + 1)
          BY <2>0, <2>1 DEF Convert, StreamInv
        <4> QED
          BY <4>1, <2>a
      <3>2. /\ adc_buffer' = [adc_buffer EXCEPT ![pos] = time + 1]
            /\ pos \in Entries /\ adc_buffer \in [Entries -> Nat]
        BY <2>1 DEF Convert, TypeOK
      <3>3. /\ time' = time + 1 /\ time = Lap + pos
            /\ \/ pos' = pos + 1 /\ Lap' = Lap
               \/ pos + 1 = 2 * Half /\ pos' = 0 /\ Lap' = Lap + 2 * Half
        BY <2>1, ConvertMoves DEF Lap
      <3>4. Lap >= 0 /\ \A i \in Entries :
                /\ i < pos => adc_buffer[i] = Lap + i + 1
                /\ pos <= i /\ Lap > 0 => adc_buffer[i] = Lap - 2 * Half + i + 1
        BY DEF StreamInv
      <3>5. Lap' >= 0 /\ Lap' + pos' = time'
        BY <2>0, <3>3, <3>4
      <3>6. ASSUME NEW i \in Entries
            PROVE  /\ i < pos' => adc_buffer'[i] = Lap' + i + 1
                   /\ pos' <= i /\ Lap' > 0 => adc_buffer'[i] = Lap' - 2 * Half + i + 1
        <4>0. i \in Nat /\ i < 2 * Half
          BY DEF Entries
        <4>1. adc_buffer'[i] = IF i = pos THEN time + 1 ELSE adc_buffer[i]
          BY <3>2
        <4>2. /\ i < pos => adc_buffer[i] = Lap + i + 1
              /\ pos <= i /\ Lap > 0 => adc_buffer[i] = Lap - 2 * Half + i + 1
          BY <3>4
        <4> HIDE DEF Lap
        <4>3. CASE pos' = pos + 1 /\ Lap' = Lap
          BY <2>0, <3>3, <4>0, <4>1, <4>2, <4>3
        <4>4. CASE pos + 1 = 2 * Half /\ pos' = 0 /\ Lap' = Lap + 2 * Half
          BY <2>0, <3>3, <4>0, <4>1, <4>2, <4>4
        <4> QED
          BY <3>3, <4>3, <4>4
      <3>7. running' => time' = Lap' + pos'
        BY <3>5
      <3>8. Lap' + pos' <= time'
        BY <2>0, <3>3, <3>5
      <3> QED
        BY <3>1, <3>5, <3>6, <3>7, <3>8 DEF StreamInv, Entries
    <2>2. ASSUME UNCHANGED <<pos, halves, adc_buffer>>, time' \in Nat, time' >= time,
                 since' <= time', running' => running /\ time' = time
          PROVE  StreamInv'
      <3>1. Lap' = Lap
        BY <2>2 DEF Lap, Filled
      <3>2. /\ Lap >= 0 /\ (running => time = Lap + pos) /\ Lap + pos <= time
            /\ \A i \in Entries :
                /\ i < pos => adc_buffer[i] = Lap + i + 1
                /\ pos <= i /\ Lap > 0 => adc_buffer[i] = Lap - 2 * Half + i + 1
        BY DEF StreamInv
      <3>3. Lap' + pos' <= time'
        BY <2>0, <2>2, <3>1, <3>2
      <3> QED
        BY <2>0, <2>2, <3>1, <3>2, <3>3 DEF StreamInv, Entries
    <2>3. CASE Idle
      BY <2>0, <2>2, <2>3 DEF Idle, StreamInv
    <2>4. CASE \E error \in ErrorFlags : Fail(error)
      BY <2>0, <2>a, <2>2, <2>4 DEF Fail, StreamInv
    <2>5. CASE Stall
      BY <2>0, <2>2, <2>5 DEF Stall, StreamInv
    <2>6. CASE ReadStatus
      BY <2>0, <2>2, <2>6 DEF ReadStatus, StreamInv
    <2>7. CASE ClearFlags
      BY <2>0, <2>2, <2>7 DEF ClearFlags, StreamInv
    <2>8. CASE ReadTemperature \/ ReadVref
      BY <2>0, <2>2, <2>8 DEF ReadTemperature, ReadVref, StreamInv
    <2>9. CASE Stamp
      BY <2>0, <2>2, <2>9 DEF Stamp, StreamInv
    <2>10. CASE TakeSnapshot \/ Judge
      BY <2>0, <2>2, <2>10 DEF TakeSnapshot, Judge, StreamInv
    <2>11. CASE UNCHANGED vars
      BY <2>0, <2>2, <2>11 DEF vars, StreamInv
    <2> QED
      BY <2>1, <2>3, <2>4, <2>5, <2>6, <2>7, <2>8, <2>9, <2>10, <2>11 DEF Next, Handler
  <1> QED
    BY <1>1, <1>2, TypeCorrect, PTL DEF Spec

(* Where the stream is, in integers.                                       *)
LEMMA StreamType ==
    ASSUME TypeOK
    PROVE  /\ time \in Nat /\ since \in Nat /\ pos \in Nat /\ pos < 2 * Half
           /\ halves \in Nat /\ Filled(halves) \in Nat /\ Lap \in Int
           /\ pos < Half => Lap = Filled(halves)
           /\ pos >= Half => Lap = Filled(halves) - Half
  <1> USE AdcAssumption
  <1>1. time \in Nat /\ since \in Nat /\ pos \in Nat /\ pos < 2 * Half /\ halves \in Nat
    BY DEF TypeOK, Entries
  <1>2. Filled(halves) \in Nat
    BY <1>1, FilledNext
  <1>3. /\ pos < Half => Lap = Filled(halves)
        /\ pos >= Half => Lap = Filled(halves) - Half
        /\ Lap \in Int
    BY <1>1, <1>2 DEF Lap
  <1> QED
    BY <1>1, <1>2, <1>3

(* While the handler runs the stream fills less than a half: the one that  *)
(* overtook it is far from the end of the next half.                       *)
LEMMA NoSecondHalf ==
    ASSUME TypeOK, StreamInv, Convert, isr # "idle", Overtaken
    PROVE  /\ pos < Half => pos + 1 < Half
           /\ pos >= Half => pos + 1 < 2 * Half
  <1>1. time - since < HandlerMax /\ time = Lap + pos /\ Filled(halves) > since
    BY DEF Convert, TimeMayPass, StreamInv, Overtaken
  <1> QED
    BY <1>1, StreamType, AdcAssumption

(* A conversion keeps what ties the flags, the halves and the handler.     *)
LEMMA ConvertKeepsProtocol ==
    ASSUME TypeOK, ProtocolInv, Convert
    PROVE  FlagInv' /\ HandlerInv'
  <1> USE AdcAssumption
  <1>0. StreamInv /\ FlagInv /\ HandlerInv
    BY DEF ProtocolInv
  <1>1. /\ time \in Nat /\ since \in Nat /\ pos \in Nat /\ pos < 2 * Half
        /\ Filled(halves) \in Nat /\ Lap \in Int /\ Lap >= 0 /\ since <= time
    BY <1>0, StreamType DEF StreamInv
  <1>2. /\ time' = time + 1 /\ status' = status /\ isr' = isr
        /\ isr # "idle" => time - since < HandlerMax /\ since' = since
    BY DEF Convert, isr_vars, TimeMayPass, Since
  <1>3. HandlerInv' = (isr # "idle" =>
        /\ time' - since' <= HandlerMax
        /\ status \cap Enabled # {}
        /\ isr = "clear" => status \subseteq flags'
        /\ isr # "clear" => ~Bad /\ {"HT", "TC"} \cap status \cap flags' = {}
        /\ OnlyHalf(status) =>
              \/ pos' >= Half /\ "TC" \notin flags'
              \/ pos' < Half /\ "TC" \in flags' /\ Filled(halves') > since'
        /\ OnlyEnd(status) =>
              /\ Lap' > 0
              /\ \/ pos' < Half /\ "HT" \notin flags'
                 \/ pos' >= Half /\ "HT" \in flags' /\ Filled(halves') > since')
    BY <1>2 DEF HandlerInv, OnlyHalf, OnlyEnd, Bad, Overtaken, Filled
  <1>4. CASE /\ pos' = pos + 1 /\ UNCHANGED <<flags, halves, Lap>>
             /\ pos' < Half <=> pos < Half
    <2>1. FlagInv'
      BY <1>0, <1>1, <1>4 DEF FlagInv, OnlyHalf, OnlyEnd
    <2>2. ASSUME isr # "idle"
          PROVE  time' - since' <= HandlerMax /\ Filled(halves') = Filled(halves) /\ since' = since
      BY <1>1, <1>2, <1>4, <2>2 DEF Filled
    <2> HIDE DEF Lap
    <2>3. pos' >= Half <=> pos >= Half
      BY <1>1, <1>4
    <2>4. HandlerInv'
      BY <1>0, <1>1, <1>3, <1>4, <2>2, <2>3 DEF HandlerInv, Overtaken
    <2> QED
      BY <2>1, <2>4
  <1>5. CASE /\ pos + 1 = Half /\ pos' = Half
             /\ flags' = flags \cup {"HT"} /\ Lap' = Lap /\ Filled(halves') = time + 1
    <2>1. FlagInv'
      BY <1>0, <1>5 DEF FlagInv, OnlyHalf, OnlyEnd
    <2>2. ASSUME isr # "idle" PROVE "HT" \notin status \/ {"HT", "TC"} \subseteq status
      <3>1. SUFFICES ASSUME OnlyHalf(status) PROVE FALSE
        BY DEF OnlyHalf
      <3>2. Overtaken /\ pos < Half
        BY <1>0, <1>1, <1>5, <2>2, <3>1 DEF HandlerInv
      <3> QED
        BY <1>0, <1>1, <1>5, <2>2, <3>2, NoSecondHalf
    <2>3. ASSUME isr # "idle"
          PROVE  time' - since' <= HandlerMax /\ since' < time + 1
      BY <1>1, <1>2, <2>3
    <2>4. HandlerInv'
      BY <1>0, <1>1, <1>3, <1>5, <2>2, <2>3 DEF HandlerInv, OnlyHalf, OnlyEnd, Bad
    <2> QED
      BY <2>1, <2>4
  <1>6. CASE /\ pos + 1 = 2 * Half /\ pos' = 0
             /\ flags' = flags \cup {"TC"} /\ Lap' = Lap + 2 * Half /\ Filled(halves') = time + 1
    <2>0. Lap' > 0
      BY <1>1, <1>6
    <2>1. FlagInv'
      BY <1>0, <1>1, <1>6, <2>0 DEF FlagInv, OnlyHalf, OnlyEnd
    <2>2. ASSUME isr # "idle" PROVE "TC" \notin status \/ {"HT", "TC"} \subseteq status
      <3>1. SUFFICES ASSUME OnlyEnd(status) PROVE FALSE
        BY DEF OnlyEnd
      <3>2. Overtaken /\ pos >= Half
        BY <1>0, <1>1, <1>6, <2>2, <3>1 DEF HandlerInv
      <3> QED
        BY <1>0, <1>1, <1>6, <2>2, <3>2, NoSecondHalf
    <2>3. ASSUME isr # "idle"
          PROVE  time' - since' <= HandlerMax /\ since' < time + 1
      BY <1>1, <1>2, <2>3
    <2>4. HandlerInv'
      BY <1>0, <1>1, <1>3, <1>6, <2>0, <2>2, <2>3 DEF HandlerInv, OnlyHalf, OnlyEnd, Bad
    <2> QED
      BY <2>1, <2>4
  <1> QED
    BY <1>0, <1>4, <1>5, <1>6, ConvertMoves

(* Clearing what was read leaves a flag that was raised since.             *)
LEMMA ClearKeepsProtocol ==
    ASSUME TypeOK, ProtocolInv, ClearFlags
    PROVE  FlagInv' /\ HandlerInv'
  <1>0. StreamInv /\ FlagInv /\ HandlerInv
    BY DEF ProtocolInv
  <1>1. /\ isr = "clear" /\ flags' = flags \ status
        /\ UNCHANGED <<time, pos, halves, status>> /\ Lap' = Lap
    BY DEF ClearFlags, Cleared, Lap, Filled
  <1>2. pos \in Nat /\ Half \in Nat
    BY StreamType, AdcAssumption
  <1>3. FlagInv'
    BY <1>0, <1>1, <1>2 DEF FlagInv, HandlerInv, OnlyHalf, OnlyEnd
  <1>4. CASE Bad
    BY <1>3, <1>4 DEF ClearFlags, HandlerInv
  <1>5. CASE ~Bad
    <2>1. isr' = "temperature" /\ since' = since /\ ~Bad' /\ (Overtaken' <=> Overtaken)
      BY <1>1, <1>5 DEF ClearFlags, Bad, Overtaken, Filled
    <2>2. HandlerInv'
      BY <1>0, <1>1, <2>1 DEF HandlerInv, OnlyHalf, OnlyEnd
    <2> QED
      BY <1>3, <2>2
  <1> QED
    BY <1>4, <1>5

(* The flags tell the truth about the stream, also while the handler runs. *)
LEMMA ProtocolInvariant == Spec => []ProtocolInv
  <1>1. Init => FlagInv /\ HandlerInv
    BY DEF Init, FlagInv, HandlerInv, OnlyHalf, OnlyEnd
  <1>2. TypeOK /\ StreamInv /\ FlagInv /\ HandlerInv /\ [Next]_vars => FlagInv' /\ HandlerInv'
    <2> SUFFICES ASSUME TypeOK, StreamInv, FlagInv, HandlerInv, [Next]_vars
                 PROVE  FlagInv' /\ HandlerInv'
      OBVIOUS
    <2> USE DEF stream_vars, isr_vars, reader_vars
    <2>0. ProtocolInv /\ time \in Nat /\ since \in Nat /\ HandlerMax \in Nat
      BY AdcAssumption DEF ProtocolInv, TypeOK
    <2>a. UNCHANGED <<pos, halves>> => Lap' = Lap
      BY DEF Lap, Filled
    <2>b. UNCHANGED <<halves, since>> => Overtaken' = Overtaken
      BY DEF Overtaken, Filled
    <2>1. CASE Convert
      BY <2>0, <2>1, ConvertKeepsProtocol
    <2>2. CASE ClearFlags
      BY <2>0, <2>2, ClearKeepsProtocol
    <2>3. ASSUME UNCHANGED <<pos, halves>>, flags \subseteq flags',
                 flags' \cap {"HT", "TC"} = flags \cap {"HT", "TC"}
          PROVE  FlagInv'
      BY <2>3, <2>a DEF FlagInv, OnlyHalf, OnlyEnd
    <2>4. ASSUME UNCHANGED <<pos, halves, status>>, flags \subseteq flags',
                 flags' \cap {"HT", "TC"} = flags \cap {"HT", "TC"},
                 isr' # "idle" => /\ isr # "idle" /\ since' = since
                                  /\ time' - since' <= HandlerMax
                                  /\ isr' = "clear" <=> isr = "clear"
          PROVE  HandlerInv'
      <3> SUFFICES ASSUME isr' # "idle" PROVE HandlerInv'
        BY DEF HandlerInv
      <3>1. isr # "idle" /\ Overtaken' = Overtaken /\ Lap' = Lap /\ Bad' = Bad
        BY <2>4, <2>a, <2>b DEF Bad
      <3>2. HandlerInv
        OBVIOUS
      <3> QED
        BY <2>4, <3>1, <3>2 DEF HandlerInv, OnlyHalf, OnlyEnd
    <2>5. CASE Idle
      <3>1. isr # "idle" => time' - since' <= HandlerMax
        BY <2>0, <2>5 DEF Idle, TimeMayPass
      <3> QED
        BY <2>3, <2>4, <2>5, <3>1 DEF Idle
    <2>6. CASE \E error \in ErrorFlags : Fail(error)
      <3>1. PICK error \in ErrorFlags : Fail(error)
        BY <2>6
      <3>2. /\ flags \subseteq flags'
            /\ flags' \cap {"HT", "TC"} = flags \cap {"HT", "TC"}
            /\ UNCHANGED <<pos, halves, status, isr, time>>
            /\ isr # "idle" => since' = since
        BY <3>1 DEF Fail, ErrorFlags, Since
      <3> QED
        BY <2>3, <2>4, <3>2 DEF HandlerInv
    <2>7. CASE Stall
      BY <2>3, <2>4, <2>7 DEF Stall, HandlerInv
    <2>8. CASE ReadStatus
      <3>1. FlagInv'
        BY <2>3, <2>8 DEF ReadStatus
      <3>2. /\ isr' = "clear" /\ status' = flags /\ flags' = flags /\ since' = time
            /\ UNCHANGED <<time, pos, halves>> /\ Lap' = Lap /\ flags \cap Enabled # {}
        BY <2>8, <2>a DEF ReadStatus, Raised
      <3>3. time' - since' <= HandlerMax
        BY <2>0, <3>2
      <3>4. /\ OnlyHalf(status') => pos' >= Half /\ "TC" \notin flags'
            /\ OnlyEnd(status') => Lap' > 0 /\ pos' < Half /\ "HT" \notin flags'
        BY <3>2 DEF FlagInv, OnlyHalf, OnlyEnd
      <3> QED
        BY <3>1, <3>2, <3>3, <3>4 DEF HandlerInv, OnlyHalf, OnlyEnd
    <2>9. CASE ReadTemperature \/ ReadVref
      BY <2>3, <2>4, <2>9 DEF ReadTemperature, ReadVref, HandlerInv
    <2>10. CASE Stamp
      BY <2>3, <2>4, <2>10 DEF Stamp
    <2>11. CASE TakeSnapshot \/ Judge
      BY <2>3, <2>4, <2>11 DEF TakeSnapshot, Judge
    <2>12. CASE UNCHANGED vars
      BY <2>3, <2>4, <2>12 DEF vars, HandlerInv
    <2> QED
      BY <2>1, <2>2, <2>5, <2>6, <2>7, <2>8, <2>9, <2>10, <2>11, <2>12 DEF Next, Handler
  <1> QED
    BY <1>1, <1>2, TypeCorrect, StreamInvariant, PTL DEF Spec, ProtocolInv

-----------------------------------------------------------------------------
(* What the handler takes.                                                 *)

(* A handler that goes on has read one flag.                               *)
LEMMA OneFlag ==
    ASSUME TypeOK, HandlerInv, isr # "idle", ~Bad
    PROVE  OnlyHalf(status) \/ OnlyEnd(status)
  BY DEF HandlerInv, Bad, OnlyHalf, OnlyEnd, TypeOK, Enabled, Flags, ErrorFlags

(* It finds the last scan of its half still in the buffer.                 *)
LEMMA SlotsTaken ==
    ASSUME TypeOK, ProtocolInv, isr \in {"temperature", "vref", "stamp"}
    PROVE  /\ adc_buffer[Offset] = Taken - 1
           /\ adc_buffer[Offset + 1] = Taken
  <1> USE AdcAssumption
  <1>0. StreamInv /\ FlagInv /\ HandlerInv /\ isr # "idle" /\ isr # "clear"
    BY DEF ProtocolInv
  <1>1. OnlyHalf(status) \/ OnlyEnd(status)
    BY <1>0, OneFlag DEF HandlerInv
  <1>2. time - since <= HandlerMax /\ Lap + pos <= time
    BY <1>0 DEF HandlerInv, StreamInv
  <1>3. \A i \in Entries :
           /\ i < pos => adc_buffer[i] = Lap + i + 1
           /\ pos <= i /\ Lap > 0 => adc_buffer[i] = Lap - 2 * Half + i + 1
    BY <1>0 DEF StreamInv
  <1>4. CASE OnlyHalf(status)
    <2>1. /\ Offset = Half - 2 /\ Offset + 1 = Half - 1
          /\ Half - 2 \in Entries /\ Half - 1 \in Entries
      BY <1>4 DEF Offset, OnlyHalf, Entries
    <2>2. CASE pos >= Half
      <3>1. Taken = Filled(halves)
        BY <1>4, <2>2 DEF Taken
      <3> QED
        BY <1>3, <2>1, <2>2, <3>1, StreamType
    <2>3. CASE ~(pos >= Half)
      <3>1. Taken = Filled(halves) - Half
        BY <1>4, <2>3 DEF Taken
      <3>2. Lap > 0 /\ Filled(halves) > since
        BY <1>0, <1>4, <2>3 DEF HandlerInv, FlagInv, Overtaken
      <3>3. Lap = Filled(halves) /\ pos < Half - 1
        BY <1>2, <2>3, <3>2, StreamType
      <3> QED
        BY <1>3, <2>1, <3>1, <3>2, <3>3, StreamType
    <2> QED
      BY <2>2, <2>3
  <1>5. CASE OnlyEnd(status)
    <2>1. /\ Offset = 2 * Half - 2 /\ Offset + 1 = 2 * Half - 1 /\ ~OnlyHalf(status)
          /\ 2 * Half - 2 \in Entries /\ 2 * Half - 1 \in Entries /\ Lap > 0
      BY <1>0, <1>5 DEF Offset, OnlyEnd, OnlyHalf, Entries, HandlerInv
    <2>2. CASE pos >= Half
      <3>1. Taken = Filled(halves) - Half
        BY <2>1, <2>2 DEF Taken
      <3>2. Filled(halves) > since
        BY <1>0, <1>5, <2>2, StreamType DEF HandlerInv, Overtaken
      <3>3. Lap = Filled(halves) - Half /\ pos < 2 * Half - 1
        BY <1>2, <2>2, <3>2, StreamType
      <3> QED
        BY <1>3, <2>1, <3>1, <3>3, StreamType
    <2>3. CASE ~(pos >= Half)
      <3>1. Taken = Filled(halves)
        BY <2>1, <2>3 DEF Taken
      <3>2. Lap = Filled(halves) /\ pos < Half
        BY <2>3, StreamType
      <3> QED
        BY <1>3, <2>1, <3>1, <3>2, StreamType
    <2> QED
      BY <2>2, <2>3
  <1> QED
    BY <1>1, <1>4, <1>5

(* That half is the same whatever the stream does meanwhile.               *)
LEMMA TakenStays ==
    ASSUME TypeOK, ProtocolInv, isr # "idle", ~Bad, Convert
    PROVE  Taken' = Taken
  <1> USE AdcAssumption
  <1>0. StreamInv /\ HandlerInv /\ status' = status
    BY DEF ProtocolInv, Convert, isr_vars
  <1>1. OnlyHalf(status) \/ OnlyEnd(status)
    BY <1>0, OneFlag
  <1>2. Taken = (IF OnlyHalf(status) <=> pos >= Half THEN Filled(halves) ELSE Filled(halves) - Half)
    BY DEF Taken
  <1>3. Taken' = (IF OnlyHalf(status) <=> pos' >= Half THEN Filled(halves') ELSE Filled(halves') - Half)
    BY <1>0 DEF Taken, OnlyHalf, Filled
  <1>4. /\ OnlyHalf(status) /\ pos < Half => pos + 1 < Half
        /\ OnlyEnd(status) /\ pos >= Half => pos + 1 < 2 * Half
    BY <1>0, NoSecondHalf, StreamType DEF HandlerInv
  <1>5. halves' = halves + 1 => Filled(halves') = Filled(halves) + Half
    BY FilledNext, StreamType
  <1>6. pos' = pos + 1 /\ halves' = halves /\ (pos' < Half <=> pos < Half) => Taken' = Taken
    BY <1>2, <1>3, StreamType
  <1>7. pos + 1 = Half /\ pos' = Half /\ halves' = halves + 1 => Taken' = Taken
    BY <1>1, <1>2, <1>3, <1>4, <1>5, StreamType DEF OnlyHalf, OnlyEnd
  <1>8. pos + 1 = 2 * Half /\ pos' = 0 /\ halves' = halves + 1 => Taken' = Taken
    BY <1>1, <1>2, <1>3, <1>4, <1>5, StreamType DEF OnlyHalf, OnlyEnd
  <1> QED
    BY <1>0, <1>6, <1>7, <1>8, ConvertMoves

(* It ends with a whole half.                                              *)
LEMMA TakenWhole ==
    ASSUME TypeOK
    PROVE  Taken \in Int /\ Taken % Half = 0
  <1>1. /\ Filled(halves) \in Nat /\ Filled(halves) - Half \in Int
        /\ Filled(halves) % Half = 0 /\ (Filled(halves) - Half) % Half = 0
    BY StreamType, FilledNext, AdcAssumption
  <1>2. Taken = Filled(halves) \/ Taken = Filled(halves) - Half
    BY DEF Taken
  <1> QED
    BY <1>1, <1>2

(* The block in adc_data is of the samples it was built from.              *)
LEMMA DataInvariant == Spec => []DataInv
  <1>1. Init => DataInv
    BY DEF Init, DataInv, BlockIntact, ZeroSnapshot
  <1>2. TypeOK /\ ProtocolInv /\ DataInv /\ [Next]_vars => DataInv'
    <2> SUFFICES ASSUME TypeOK, ProtocolInv, DataInv, [Next]_vars PROVE DataInv'
      OBVIOUS
    <2> USE DEF stream_vars, isr_vars, reader_vars
    <2>0. HandlerInv
      BY DEF ProtocolInv
    <2>1. ASSUME UNCHANGED <<isr, adc_data>>, isr \in {"vref", "stamp"} => Taken' = Taken
          PROVE  DataInv'
      BY <2>1 DEF DataInv, BlockIntact
    <2>2. CASE UNCHANGED <<isr, adc_data, status, pos, halves>>
      <3>1. Taken' = Taken
        BY <2>2 DEF Taken, OnlyHalf, Filled
      <3> QED
        BY <2>1, <2>2, <3>1
    <2>3. CASE Convert
      <3>1. isr \in {"vref", "stamp"} => Taken' = Taken
        BY <2>0, <2>3, TakenStays DEF HandlerInv
      <3> QED
        BY <2>1, <2>3, <3>1 DEF Convert
    <2>4. CASE ReadStatus
      BY <2>4 DEF ReadStatus, DataInv, BlockIntact
    <2>5. CASE ClearFlags
      <3>1. isr = "clear" /\ isr' \in {"idle", "temperature"}
            /\ adc_data' \in {adc_data, [adc_data EXCEPT !.errors = @ + 1]}
        BY <2>5 DEF ClearFlags
      <3>2. adc_data \in Snapshot
        BY DEF TypeOK
      <3>3. UNCHANGED <<adc_data.completed_blocks, adc_data.vref_raw, adc_data.temperature_raw>>
        BY <3>1, <3>2 DEF Snapshot
      <3> QED
        BY <3>1, <3>3 DEF DataInv, BlockIntact
    <2>6. CASE ReadTemperature
      <3>1. /\ isr = "temperature" /\ isr' = "vref"
            /\ adc_data' = [adc_data EXCEPT !.temperature_raw = adc_buffer[Offset]]
            /\ UNCHANGED <<status, pos, halves>>
        BY <2>6 DEF ReadTemperature
      <3>2. adc_buffer[Offset] = Taken - 1 /\ Taken' = Taken
        BY <3>1, SlotsTaken DEF Taken, OnlyHalf, Filled
      <3>3. adc_data'.temperature_raw = adc_buffer[Offset]
        BY <3>1 DEF TypeOK, Snapshot
      <3> QED
        BY <3>1, <3>2, <3>3 DEF DataInv, BlockIntact
    <2>7. CASE ReadVref
      <3>1. /\ isr = "vref" /\ isr' = "stamp"
            /\ adc_data' = [adc_data EXCEPT !.vref_raw = adc_buffer[Offset + 1]]
            /\ UNCHANGED <<status, pos, halves>>
        BY <2>7 DEF ReadVref
      <3>2. adc_buffer[Offset + 1] = Taken /\ Taken' = Taken
        BY <3>1, SlotsTaken DEF Taken, OnlyHalf, Filled
      <3>3. /\ adc_data'.vref_raw = adc_buffer[Offset + 1]
            /\ adc_data'.temperature_raw = adc_data.temperature_raw
        BY <3>1 DEF TypeOK, Snapshot
      <3> QED
        BY <3>1, <3>2, <3>3 DEF DataInv, BlockIntact
    <2>8. CASE Stamp
      <3>1. isr = "stamp" /\ isr' = "idle"
        BY <2>8 DEF Stamp
      <3>2. UNCHANGED <<adc_data.vref_raw, adc_data.temperature_raw>>
        BY <2>8 DEF Stamp, TypeOK, Snapshot
      <3>3. adc_data.temperature_raw = Taken - 1 /\ adc_data.vref_raw = Taken
        BY <3>1 DEF DataInv
      <3>4. Taken \in Int /\ Taken % Half = 0
        BY TakenWhole
      <3>5. BlockIntact'
        BY <3>2, <3>3, <3>4 DEF BlockIntact
      <3> QED
        BY <3>1, <3>5 DEF DataInv
    <2>9. CASE \E error \in ErrorFlags : Fail(error)
      BY <2>2, <2>9 DEF Fail
    <2>10. CASE Idle \/ Stall \/ TakeSnapshot \/ Judge
      BY <2>2, <2>10 DEF Idle, Stall, TakeSnapshot, Judge
    <2>11. CASE UNCHANGED vars
      BY <2>2, <2>11 DEF vars
    <2> QED
      BY <2>3, <2>4, <2>5, <2>6, <2>7, <2>8, <2>9, <2>10, <2>11 DEF Next, Handler
  <1> QED
    BY <1>1, <1>2, TypeCorrect, ProtocolInvariant, PTL DEF Spec

(* The two values of a block are of one scan, the last of its half.        *)
THEOREM BlocksIntact == Spec => []BlockIntact
  BY DataInvariant, PTL DEF DataInv

-----------------------------------------------------------------------------
(* Halves that were lost.                                                  *)

(* A half that becomes full finds its flag down, unless both are up.       *)
LEMMA FlagWasDown ==
    ASSUME TypeOK, ProtocolInv, Convert,
           (isr = "clear" /\ ~Bad) \/ ~({"HT", "TC"} \subseteq flags)
    PROVE  /\ pos + 1 = Half => "HT" \notin flags
           /\ pos + 1 = 2 * Half => "TC" \notin flags
  <1> USE AdcAssumption
  <1>0. StreamInv /\ FlagInv /\ HandlerInv
    BY DEF ProtocolInv
  <1>1. CASE ~({"HT", "TC"} \subseteq flags)
    BY <1>0, <1>1, StreamType DEF FlagInv, OnlyHalf, OnlyEnd
  <1>2. CASE isr = "clear" /\ ~Bad
    <2>1. OnlyHalf(status) \/ OnlyEnd(status)
      BY <1>0, <1>2, OneFlag
    <2>2. Overtaken => /\ pos < Half => pos + 1 < Half
                       /\ pos >= Half => pos + 1 < 2 * Half
      BY <1>0, <1>2, NoSecondHalf
    <2>3. /\ OnlyHalf(status) => \/ pos >= Half /\ "TC" \notin flags
                                 \/ pos < Half /\ Overtaken
          /\ OnlyEnd(status) => \/ pos < Half /\ "HT" \notin flags
                                \/ pos >= Half /\ Overtaken
      BY <1>0, <1>2 DEF HandlerInv
    <2> QED
      BY <2>1, <2>2, <2>3, StreamType
  <1> QED
    BY <1>1, <1>2

(* A half that was lost has left an error, or is about to.                 *)
LEMMA LossInvariant == Spec => []LossInv
  <1> DEFINE Up(lisr) == (IF "HT" \in lisr THEN 1 ELSE 0) + (IF "TC" \in lisr THEN 1 ELSE 0)
  <1>0. LossInv <=> (adc_data.errors = 0 =>
            /\ isr # "clear" =>
                  \/ flags \cap ErrorFlags # {} \/ {"HT", "TC"} \subseteq flags
                  \/ halves = adc_data.completed_blocks + InHandler + Up(flags)
            /\ isr = "clear" /\ ~Bad => halves = adc_data.completed_blocks + Up(flags))
    BY UpCount DEF LossInv, LossCounted
  <1>1. Init => LossInv
    <2> SUFFICES ASSUME Init PROVE LossInv
      OBVIOUS
    <2>1. Up(flags) = 0 /\ InHandler = 0 /\ halves = 0 /\ isr = "idle"
      BY DEF Init, InHandler
    <2>2. adc_data.completed_blocks = 0
      BY DEF Init, ZeroSnapshot
    <2> HIDE DEF Up
    <2> QED
      BY <1>0, <2>1, <2>2
  <1>2. TypeOK /\ ProtocolInv /\ LossInv /\ [Next]_vars => LossInv'
    <2> SUFFICES ASSUME TypeOK, ProtocolInv, LossInv, [Next]_vars PROVE LossInv'
      OBVIOUS
    <2> USE DEF stream_vars, isr_vars, reader_vars
    <2>0. LossInv' <=> (adc_data'.errors = 0 =>
            /\ isr' # "clear" =>
                  \/ flags' \cap ErrorFlags # {} \/ {"HT", "TC"} \subseteq flags'
                  \/ halves' = adc_data'.completed_blocks + InHandler' + Up(flags')
            /\ isr' = "clear" /\ ~Bad' => halves' = adc_data'.completed_blocks + Up(flags'))
      BY UpCount DEF LossInv, LossCounted
    <2>a. halves \in Nat /\ adc_data.completed_blocks \in Nat /\ adc_data.errors \in Nat
          /\ InHandler \in Nat /\ Up(flags) \in Nat
      BY DEF TypeOK, Snapshot, InHandler
    <2>b. UNCHANGED isr => InHandler' = InHandler
      BY DEF InHandler
    <2>c. UNCHANGED status => Bad' = Bad
      BY DEF Bad
    <2>d. HandlerInv
      BY DEF ProtocolInv
    <2>1. ASSUME UNCHANGED <<halves, isr, status>>,
                 adc_data'.completed_blocks = adc_data.completed_blocks,
                 adc_data'.errors = adc_data.errors,
                 flags \subseteq flags', flags' \cap {"HT", "TC"} = flags \cap {"HT", "TC"}
          PROVE  LossInv'
      <3>1. Up(flags') = Up(flags)
        BY <2>1
      <3>2. flags \cap ErrorFlags # {} => flags' \cap ErrorFlags # {}
        BY <2>1
      <3>3. {"HT", "TC"} \subseteq flags => {"HT", "TC"} \subseteq flags'
        BY <2>1
      <3> HIDE DEF Up
      <3> QED
        BY <1>0, <2>0, <2>b, <2>c, <2>1, <3>1, <3>2, <3>3
    <2>2. CASE Convert
      <3>0. UNCHANGED <<isr, status, adc_data>>
        BY <2>2 DEF Convert
      <3>1. CASE {"HT", "TC"} \subseteq flags /\ ~(isr = "clear" /\ ~Bad)
        <4>1. {"HT", "TC"} \subseteq flags' /\ ~(isr' = "clear" /\ ~Bad')
          BY <2>2, <2>c, <3>0, <3>1 DEF Convert
        <4> QED
          BY <2>0, <4>1
      <3>2. CASE (isr = "clear" /\ ~Bad) \/ ~({"HT", "TC"} \subseteq flags)
        <4>1. /\ pos + 1 = Half => "HT" \notin flags
              /\ pos + 1 = 2 * Half => "TC" \notin flags
          BY <2>2, <3>2, FlagWasDown
        <4>2. \/ flags' = flags /\ halves' = halves
              \/ pos + 1 = Half /\ flags' = flags \cup {"HT"} /\ halves' = halves + 1
              \/ pos + 1 = 2 * Half /\ flags' = flags \cup {"TC"} /\ halves' = halves + 1
          BY <2>2, ConvertMoves DEF ProtocolInv
        <4>3. Up(flags') - Up(flags) = halves' - halves /\ flags \subseteq flags'
              /\ Up(flags') \in Nat /\ halves' \in Nat
          BY <2>a, <4>1, <4>2
        <4>4. flags \cap ErrorFlags # {} => flags' \cap ErrorFlags # {}
          BY <4>3
        <4>5. {"HT", "TC"} \subseteq flags => {"HT", "TC"} \subseteq flags'
          BY <4>3
        <4> HIDE DEF Up
        <4>6. \A n \in Nat : halves = n + Up(flags) => halves' = n + Up(flags')
          BY <2>a, <4>3
        <4>7. adc_data.completed_blocks + InHandler \in Nat
          BY <2>a
        <4> QED
          BY <1>0, <2>0, <2>a, <2>b, <2>c, <3>0, <4>4, <4>5, <4>6, <4>7
      <3> QED
        BY <3>1, <3>2
    <2>3. CASE \E error \in ErrorFlags : Fail(error)
      <3>1. PICK error \in ErrorFlags : Fail(error)
        BY <2>3
      <3>2. /\ flags \subseteq flags'
            /\ flags' \cap {"HT", "TC"} = flags \cap {"HT", "TC"}
            /\ UNCHANGED <<halves, isr, status, adc_data>>
        BY <3>1 DEF Fail, ErrorFlags
      <3> QED
        BY <2>1, <3>2
    <2>4. CASE ReadStatus
      <3>1. /\ isr = "idle" /\ isr' = "clear" /\ status' = flags
            /\ UNCHANGED <<flags, halves, adc_data>> /\ InHandler = 0
        BY <2>4 DEF ReadStatus, InHandler
      <3>2. Bad' <=> flags \cap ErrorFlags # {} \/ {"HT", "TC"} \subseteq flags
        BY <3>1 DEF Bad
      <3> HIDE DEF Up
      <3> QED
        BY <1>0, <2>0, <2>a, <3>1, <3>2
    <2>5. CASE ClearFlags
      <3>1. CASE Bad
        <4>1. adc_data' = [adc_data EXCEPT !.errors = @ + 1]
          BY <2>5, <3>1 DEF ClearFlags
        <4>2. adc_data'.errors = adc_data.errors + 1
          BY <4>1 DEF TypeOK, Snapshot
        <4>3. adc_data'.errors # 0
          BY <2>a, <4>2
        <4> HIDE DEF Up
        <4> QED
          BY <2>0, <4>3
      <3>2. CASE ~Bad
        <4>1. /\ isr = "clear" /\ isr' = "temperature" /\ flags' = flags \ status
              /\ UNCHANGED <<halves, adc_data>> /\ InHandler' = 1
          BY <2>5, <3>2 DEF ClearFlags, Cleared, InHandler
        <4>2. OnlyHalf(status) \/ OnlyEnd(status)
          BY <2>d, <3>2, <4>1, OneFlag
        <4>3. status \subseteq flags
          BY <2>d, <4>1 DEF HandlerInv
        <4>4. Up(flags) = 1 + Up(flags') /\ Up(flags') \in Nat
          BY <4>1, <4>2, <4>3 DEF OnlyHalf, OnlyEnd
        <4>5. adc_data.errors = 0 => halves = adc_data.completed_blocks + Up(flags)
          BY <1>0, <3>2, <4>1
        <4> HIDE DEF Up
        <4> QED
          BY <2>0, <2>a, <4>1, <4>4, <4>5
      <3> QED
        BY <3>1, <3>2
    <2>6. CASE ReadTemperature \/ ReadVref
      <3>1. /\ isr \in {"temperature", "vref"} /\ isr' \in {"vref", "stamp"}
            /\ UNCHANGED <<halves, flags>>
        BY <2>6 DEF ReadTemperature, ReadVref
      <3>2. UNCHANGED <<adc_data.completed_blocks, adc_data.errors>>
        BY <2>6 DEF ReadTemperature, ReadVref, TypeOK, Snapshot
      <3>3. InHandler' = InHandler
        BY <3>1 DEF InHandler
      <3> HIDE DEF Up
      <3> QED
        BY <1>0, <2>0, <3>1, <3>2, <3>3
    <2>7. CASE Stamp
      <3>1. isr = "stamp" /\ isr' = "idle" /\ UNCHANGED <<halves, flags>>
        BY <2>7 DEF Stamp
      <3>2. /\ adc_data'.completed_blocks = adc_data.completed_blocks + 1
            /\ adc_data'.errors = adc_data.errors
        BY <2>7 DEF Stamp, TypeOK, Snapshot
      <3>3. InHandler = 1 /\ InHandler' = 0
        BY <3>1 DEF InHandler
      <3> HIDE DEF Up
      <3> QED
        BY <1>0, <2>0, <2>a, <3>1, <3>2, <3>3
    <2>8. CASE Idle \/ Stall \/ TakeSnapshot \/ Judge
      BY <2>1, <2>8 DEF Idle, Stall, TakeSnapshot, Judge
    <2>9. CASE UNCHANGED vars
      BY <2>1, <2>9 DEF vars
    <2> QED
      BY <2>2, <2>3, <2>4, <2>5, <2>6, <2>7, <2>8, <2>9 DEF Next, Handler
  <1> QED
    BY <1>1, <1>2, TypeCorrect, ProtocolInvariant, PTL DEF Spec

(* No half is lost silently.                                               *)
THEOREM LossesAreCounted == Spec => []LossCounted
  BY LossInvariant, PTL DEF LossInv

-----------------------------------------------------------------------------
(* How old a block is.                                                     *)

(* A handler that just ended is late by nothing.                           *)
LEMMA NoWait ==
    ASSUME NEW now \in Nat, NEW then, then = now, NEW bound \in Nat
    PROVE  now - then <= bound
  OBVIOUS

(* How long a filled half can have waited.                                 *)
LEMMA LatencyInvariant == Spec => []LatencyInv
  <1> USE AdcAssumption
  <1>1. Init => LatencyInv
    BY DEF Init, LatencyInv, Raised, OnlyHalf, OnlyEnd
  <1>2. TypeOK /\ ProtocolInv /\ LatencyInv /\ [Next]_vars => LatencyInv'
    <2> SUFFICES ASSUME TypeOK, ProtocolInv, LatencyInv, [Next]_vars PROVE LatencyInv'
      OBVIOUS
    <2> USE DEF stream_vars, isr_vars, reader_vars
    <2>0. StreamInv /\ FlagInv /\ HandlerInv /\ since <= time
      BY DEF ProtocolInv, StreamInv
    <2>a. /\ time \in Nat /\ since \in Nat /\ adc_data.errors \in Nat
          /\ LatencyMax \in Nat /\ HandlerMax \in Nat
          /\ Filled(halves) \in Nat /\ Taken \in Int
      BY StreamType, TakenWhole DEF TypeOK, Snapshot
    <2>b. OnlyHalf(flags) \/ OnlyEnd(flags) => Raised
      BY DEF OnlyHalf, OnlyEnd, Raised, Enabled, Flags, ErrorFlags
    <2>c. UNCHANGED halves => Filled(halves') = Filled(halves)
      BY DEF Filled
    <2>d. UNCHANGED <<status, pos, halves>> => Taken' = Taken
      BY DEF Taken, OnlyHalf, Filled
    <2>e. UNCHANGED status => Bad' = Bad
      BY DEF Bad
    <2>1. ASSUME UNCHANGED <<since, isr, flags, status, pos, halves>>,
                 adc_data'.errors = adc_data.errors,
                 isr = "idle" /\ Raised => time' - since <= LatencyMax
          PROVE  LatencyInv'
      <3>1. Raised' = Raised /\ (OnlyHalf(flags') \/ OnlyEnd(flags') <=> OnlyHalf(flags) \/ OnlyEnd(flags))
        BY <2>1 DEF Raised
      <3> QED
        BY <2>1, <2>c, <2>d, <2>e, <3>1 DEF LatencyInv
    <2>2. ASSUME isr' = "idle", since' = time',
                 OnlyHalf(flags') \/ OnlyEnd(flags') => time' - Filled(halves') <= HandlerMax,
                 time' \in Nat
          PROVE  LatencyInv'
      <3>1. since' = time' /\ time' \in Nat
        BY Zenon, <2>2
      <3>2. time' - since' <= LatencyMax
        BY <3>1, <2>a, NoWait, Zenon
      <3> QED
        BY <2>2, <3>2 DEF LatencyInv
    <2>3. CASE Convert
      <3>1. UNCHANGED <<isr, status, adc_data>> /\ time' = time + 1 /\ TimeMayPass
            /\ since' = Since(time + 1)
        BY <2>3 DEF Convert
      <3>2. \/ flags' = flags /\ halves' = halves
            \/ Filled(halves') = time + 1
        BY <2>0, <2>3, ConvertMoves
      <3>3. CASE isr # "idle"
        <4>1. since' = since
          BY <3>1, <3>3 DEF Since
        <4>2. ~Bad => Taken' = Taken
          BY <2>3, <3>3, TakenStays
        <4> QED
          BY <2>e, <3>1, <3>3, <4>1, <4>2 DEF LatencyInv
      <3>4. CASE isr = "idle" /\ Raised
        <4>1. since' = since /\ time' - since' <= LatencyMax
          BY <2>a, <3>1, <3>4 DEF Since, TimeMayPass
        <4>2. ASSUME adc_data.errors = 0, OnlyHalf(flags') \/ OnlyEnd(flags')
              PROVE  since' - Filled(halves') <= HandlerMax
          <5>1. CASE flags' = flags /\ halves' = halves
            BY <2>c, <3>4, <4>1, <4>2, <5>1 DEF LatencyInv
          <5>2. CASE Filled(halves') = time + 1
            BY <2>0, <2>a, <4>1, <5>2
          <5> QED
            BY <3>2, <5>1, <5>2
        <4> QED
          BY <3>1, <3>4, <4>1, <4>2 DEF LatencyInv
      <3>5. CASE isr = "idle" /\ ~Raised
        <4>1. since' = time' /\ isr' = "idle" /\ time' \in Nat
          BY <2>a, <3>1, <3>5 DEF Since
        <4>2. OnlyHalf(flags') \/ OnlyEnd(flags') => Filled(halves') = time'
          BY <2>b, <3>1, <3>2, <3>5
        <4>3. OnlyHalf(flags') \/ OnlyEnd(flags') => time' - Filled(halves') <= HandlerMax
          BY <4>1, <4>2
        <4> QED
          BY <2>2, <4>1, <4>3
      <3> QED
        BY <3>3, <3>4, <3>5
    <2>4. CASE Idle
      <3>1. isr = "idle" /\ Raised => time' - since <= LatencyMax
        BY <2>4, <2>a DEF Idle, TimeMayPass
      <3> QED
        BY <2>1, <2>4, <3>1 DEF Idle
    <2>5. CASE \E error \in ErrorFlags : Fail(error)
      <3>1. PICK error \in ErrorFlags : Fail(error)
        BY <2>5
      <3>2. /\ (OnlyHalf(flags') <=> OnlyHalf(flags)) /\ (OnlyEnd(flags') <=> OnlyEnd(flags))
            /\ UNCHANGED <<time, isr, status, adc_data, pos, halves>>
            /\ since' = Since(time)
        BY <3>1 DEF Fail, ErrorFlags, OnlyHalf, OnlyEnd
      <3>3. CASE isr = "idle" /\ ~Raised
        <4>1. since' = time' /\ isr' = "idle" /\ time' \in Nat
          BY <2>a, <3>2, <3>3 DEF Since
        <4> QED
          BY <2>2, <2>b, <3>2, <3>3, <4>1
      <3>4. CASE isr # "idle" \/ Raised
        <4>1. since' = since
          BY <3>2, <3>4 DEF Since
        <4> QED
          BY <2>c, <2>d, <2>e, <3>2, <3>4, <4>1 DEF LatencyInv
      <3> QED
        BY <3>3, <3>4
    <2>6. CASE Stall
      <3>1. UNCHANGED <<time, since, isr, flags, status, pos, halves, adc_data>>
        BY <2>6 DEF Stall
      <3>2. adc_data.errors = 0 /\ isr = "idle" /\ Raised => time' - since <= LatencyMax
        BY <3>1 DEF LatencyInv
      <3> QED
        BY <2>1, <3>1, <3>2 DEF LatencyInv
    <2>7. CASE ReadStatus
      <3>1. /\ isr = "idle" /\ Raised /\ isr' = "clear" /\ status' = flags /\ since' = time
            /\ UNCHANGED <<time, flags, pos, halves, adc_data>>
        BY <2>7 DEF ReadStatus
      <3>2. ASSUME ~Bad' PROVE OnlyHalf(flags) \/ OnlyEnd(flags)
        <4>1. flags \cap Enabled # {} /\ flags \cap ErrorFlags = {} /\ ~({"HT", "TC"} \subseteq flags)
          BY <3>1, <3>2 DEF Bad, Raised
        <4> QED
          BY <4>1 DEF OnlyHalf, OnlyEnd, Enabled, Flags, TypeOK
      <3>3. OnlyHalf(flags) \/ OnlyEnd(flags) => Taken' = Filled(halves)
        <4>1. Taken' = IF OnlyHalf(flags) <=> pos >= Half THEN Filled(halves)
                                                          ELSE Filled(halves) - Half
          BY <3>1 DEF Taken, OnlyHalf, Filled
        <4>2. OnlyHalf(flags) => pos >= Half
          BY <2>0 DEF FlagInv
        <4>3. OnlyEnd(flags) => ~(pos >= Half) /\ ~OnlyHalf(flags)
          BY <2>0, StreamType DEF FlagInv, OnlyHalf, OnlyEnd
        <4> QED
          BY <4>1, <4>2, <4>3
      <3>4. ASSUME adc_data.errors = 0, ~Bad'
            PROVE  since' - Taken' <= LatencyMax + HandlerMax
        <4>1. time - since <= LatencyMax /\ since - Filled(halves) <= HandlerMax
          BY <3>1, <3>2, <3>4 DEF LatencyInv
        <4> QED
          BY <2>a, <3>1, <3>2, <3>3, <3>4, <4>1
      <3> QED
        BY <3>1, <3>4 DEF LatencyInv
    <2>8. CASE ClearFlags
      <3>1. CASE Bad
        <4>1. adc_data'.errors = adc_data.errors + 1
          BY <2>8, <3>1 DEF ClearFlags, TypeOK, Snapshot
        <4>2. adc_data'.errors # 0
          BY <2>a, <4>1
        <4> QED
          BY <4>2 DEF LatencyInv
      <3>2. CASE ~Bad
        <4>1. /\ isr = "clear" /\ isr' = "temperature"
              /\ UNCHANGED <<since, status, pos, halves, adc_data>>
          BY <2>8, <3>2 DEF ClearFlags
        <4> QED
          BY <2>d, <2>e, <4>1 DEF LatencyInv
      <3> QED
        BY <3>1, <3>2
    <2>9. CASE ReadTemperature \/ ReadVref
      <3>1. /\ isr # "idle" /\ isr' # "idle" /\ UNCHANGED <<since, status, pos, halves>>
            /\ adc_data'.errors = adc_data.errors
        BY <2>9 DEF ReadTemperature, ReadVref, TypeOK, Snapshot
      <3> QED
        BY <2>d, <2>e, <3>1 DEF LatencyInv
    <2>10. CASE Stamp
      <3>1. /\ isr = "stamp" /\ isr' = "idle" /\ since' = time
            /\ UNCHANGED <<time, flags, pos, halves>>
        BY <2>10 DEF Stamp
      <3>2. ~Bad /\ {"HT", "TC"} \cap status \cap flags = {} /\ time - since <= HandlerMax
        BY <2>0, <3>1 DEF HandlerInv
      <3>3. OnlyHalf(status) \/ OnlyEnd(status)
        BY <2>0, <3>1, <3>2, OneFlag
      <3>4. OnlyHalf(flags) \/ OnlyEnd(flags) => Filled(halves) > since
        BY <2>0, <3>1, <3>2, <3>3 DEF HandlerInv, OnlyHalf, OnlyEnd, Overtaken
      <3>5. OnlyHalf(flags') \/ OnlyEnd(flags') => time' - Filled(halves') <= HandlerMax
        BY <2>a, <2>c, <3>1, <3>2, <3>4
      <3> QED
        BY <2>2, <2>a, <3>1, <3>5
    <2>11. CASE TakeSnapshot \/ Judge \/ UNCHANGED vars
      <3>1. UNCHANGED <<time, since, isr, flags, status, pos, halves, adc_data>>
        BY <2>11 DEF TakeSnapshot, Judge, vars
      <3>2. Raised' = Raised /\ (OnlyHalf(flags') \/ OnlyEnd(flags') <=> OnlyHalf(flags) \/ OnlyEnd(flags))
        BY <3>1 DEF Raised
      <3> QED
        BY <2>c, <2>d, <2>e, <3>1, <3>2 DEF LatencyInv
    <2> QED
      BY <2>3, <2>4, <2>5, <2>6, <2>7, <2>8, <2>9, <2>10, <2>11 DEF Next, Handler
  <1> QED
    BY <1>1, <1>2, TypeCorrect, ProtocolInvariant, PTL DEF Spec

(* Time does not unmake a stamp.                                           *)
LEMMA StampedLater ==
    ASSUME NEW d, Stamped(d), time \in Nat, time' \in Nat, time <= time'
    PROVE  d.completed_blocks > 0 /\ d.errors = 0 => \E s \in Nat : StampedAt(d, s)'
  <1> SUFFICES ASSUME d.completed_blocks > 0, d.errors = 0
               PROVE  \E s \in Nat : StampedAt(d, s)'
    OBVIOUS
  <1>1. PICK s \in Nat : StampedAt(d, s)
    BY DEF Stamped
  <1>2. StampedAt(d, s)'
    BY <1>1 DEF StampedAt
  <1> QED
    BY <1>2

(* How much older than its stamp a block can be.                           *)
LEMMA StampInvariant == Spec => []StampInv
  <1> USE AdcAssumption
  <1>1. Init => StampInv
    BY DEF Init, StampInv, Stamped, ZeroSnapshot
  <1>2. /\ TypeOK /\ ProtocolInv /\ DataInv /\ LatencyInv /\ StampInv /\ [Next]_vars
        /\ TypeOK'
        => StampInv'
    <2> SUFFICES ASSUME TypeOK, ProtocolInv, DataInv, LatencyInv, StampInv, [Next]_vars,
                        TypeOK'
                 PROVE  StampInv'
      OBVIOUS
    <2> USE DEF stream_vars, isr_vars, reader_vars
    <2>0. /\ time \in Nat /\ time' \in Nat /\ since \in Nat
          /\ adc_data.errors \in Nat /\ HandlerMax \in Nat /\ LatencyMax \in Nat
      BY DEF TypeOK, Snapshot
    <2>1. time <= time'
      <3>1. time' \in {time, time + 1}
        BY Zenon DEF Next, Handler, Convert, Idle, Fail, Stall, ReadStatus, ClearFlags,
                     ReadTemperature, ReadVref, Stamp, TakeSnapshot, Judge, vars
      <3> QED
        BY <2>0, <3>1
    <2>2. ASSUME Stamped(adc_data), adc_data' = adc_data PROVE Stamped(adc_data)'
      BY <2>0, <2>1, <2>2, StampedLater DEF Stamped
    <2>3. ASSUME Stamped(adc), adc' = adc PROVE Stamped(adc)'
      BY <2>0, <2>1, <2>3, StampedLater DEF Stamped
    <2>4. ASSUME isr' \in {"idle", "clear"} => isr \in {"idle", "clear"} /\ adc_data' = adc_data,
                 rpc' = "judge" => rpc = "judge" /\ adc' = adc
          PROVE  StampInv'
      <3>1. StampInv
        OBVIOUS
      <3> QED
        BY <2>2, <2>3, <2>4, <3>1 DEF StampInv
    <2>5. CASE ClearFlags
      <3>1. CASE Bad
        <4>1. adc_data'.errors = adc_data.errors + 1 /\ UNCHANGED <<rpc, adc>>
          BY <2>5, <3>1 DEF ClearFlags, TypeOK, Snapshot
        <4>2. adc_data'.errors # 0
          BY <2>0, <4>1
        <4>3. Stamped(adc_data)'
          BY <4>2 DEF Stamped
        <4> QED
          BY <2>3, <4>1, <4>3 DEF StampInv
      <3>2. CASE ~Bad
        BY <2>4, <2>5, <3>2 DEF ClearFlags
      <3> QED
        BY <3>1, <3>2
    <2>6. CASE Stamp
      <3>1. isr = "stamp" /\ time' = time /\ UNCHANGED <<rpc, adc>>
        BY <2>6 DEF Stamp
      <3>2. /\ adc_data'.vref_raw = adc_data.vref_raw
            /\ adc_data'.errors = adc_data.errors
            /\ adc_data'.sampled_ms = time % TimeModulus
        BY <2>6 DEF Stamp, TypeOK, Snapshot
      <3>3. ASSUME adc_data.errors = 0 PROVE \E s \in Nat : StampedAt(adc_data, s)'
        <4>1. /\ adc_data.vref_raw = Taken /\ Taken \in Int
              /\ HandlerInv /\ StreamInv
          BY <3>1, TakenWhole DEF DataInv, ProtocolInv
        <4>2. time - since <= HandlerMax /\ since - Taken <= LatencyMax + HandlerMax
          BY <3>1, <3>3, <4>1 DEF HandlerInv, LatencyInv
        <4>3. Taken <= time
          <5>1. Filled(halves) <= time
            BY <4>1, StreamType DEF StreamInv
          <5> QED
            BY <5>1, StreamType DEF Taken
        <4>4. time <= Taken + LatencyMax + 2 * HandlerMax
          BY <2>0, <4>1, <4>2
        <4>5. StampedAt(adc_data, time)'
          BY <2>0, <3>1, <3>2, <4>1, <4>3, <4>4 DEF StampedAt
        <4> QED
          BY <2>0, <3>1, <4>5
      <3>4. Stamped(adc_data)'
        BY <3>2, <3>3 DEF Stamped
      <3> QED
        BY <2>3, <3>1, <3>4 DEF StampInv
    <2>7. CASE TakeSnapshot
      <3>1. /\ isr = "idle" /\ adc' = adc_data /\ UNCHANGED <<adc_data, isr, time>>
        BY <2>7 DEF TakeSnapshot
      <3>2. Stamped(adc_data)
        BY <3>1 DEF StampInv
      <3>3. Stamped(adc_data)' /\ Stamped(adc)'
        BY <2>2, <3>1, <3>2 DEF Stamped, StampedAt
      <3> QED
        BY <3>3 DEF StampInv
    <2>8. CASE Convert \/ Idle \/ Stall
      BY <2>4, <2>8 DEF Convert, Idle, Stall
    <2>9. CASE \E error \in ErrorFlags : Fail(error)
      BY <2>4, <2>9 DEF Fail
    <2>10. CASE ReadStatus
      BY <2>4, <2>10 DEF ReadStatus
    <2>11. CASE ReadTemperature \/ ReadVref
      <3>1. isr' \in {"vref", "stamp"} /\ UNCHANGED <<rpc, adc>>
        BY <2>11 DEF ReadTemperature, ReadVref
      <3> QED
        BY <2>4, <3>1
    <2>12. CASE Judge
      <3>1. rpc' = "snapshot" /\ UNCHANGED <<isr, adc_data>>
        BY <2>12 DEF Judge
      <3> QED
        BY <2>4, <3>1
    <2>13. CASE UNCHANGED vars
      BY <2>4, <2>13 DEF vars
    <2> QED
      BY <2>5, <2>6, <2>7, <2>8, <2>9, <2>10, <2>11, <2>12, <2>13 DEF Next, Handler
  <1> QED
    BY <1>1, <1>2, TypeCorrect, ProtocolInvariant, DataInvariant, LatencyInvariant, PTL DEF Spec

(* What is left of a division, and of a smaller number.                    *)
LEMMA DivMod ==
    ASSUME NEW a \in Nat, NEW m \in Nat \ {0}
    PROVE  /\ a \div m \in Nat /\ a % m \in 0 .. m - 1
           /\ a = (a \div m) * m + (a % m) /\ a % m <= a
  OBVIOUS

(* What is below the modulus is the remainder.                             *)
LEMMA ModUnique ==
    ASSUME NEW m \in Nat \ {0}, NEW q \in Nat, NEW r \in 0 .. m - 1
    PROVE  (q * m + r) % m = r
  OBVIOUS

(* The age that two readings of a wrapping clock show.                     *)
LEMMA WrappedAge ==
    ASSUME NEW m \in Nat \ {0}, NEW t \in Nat, NEW s \in Nat, s <= t
    PROVE  /\ (t - (s % m)) % m <= t - s
           /\ t - s < m => (t - (s % m)) % m = t - s
  <1> DEFINE a == t - s
             p == a \div m
             q == s \div m
             e == a % m
             r == s % m
  <1>1. a \in Nat
    OBVIOUS
  <1>2. p \in Nat /\ e \in 0 .. m - 1 /\ a = p * m + e /\ e <= a
    BY <1>1, DivMod
  <1>3. q \in Nat /\ r \in 0 .. m - 1 /\ s = q * m + r
    BY DivMod
  <1>4. a < m => e = a
    BY <1>1
  <1> HIDE DEF p, q, e, r
  <1>5. t - r = (p + q) * m + e
    BY <1>2, <1>3
  <1>6. ((p + q) * m + e) % m = e
    BY <1>2, <1>3, ModUnique
  <1>7. (t - r) % m = e
    BY <1>5, <1>6
  <1> QED
    BY <1>2, <1>4, <1>7 DEF r

(* What Judge finds, in true time.                                         *)
LEMMA JudgedAge ==
    ASSUME TypeOK, StampInv, Judge, adc.completed_blocks > 0, adc.errors = 0
    PROVE  /\ Age \in Nat /\ Age <= time - adc.vref_raw
           /\ time - adc.vref_raw < TimeModulus =>
                 time - adc.vref_raw <= Age + LatencyMax + 2 * HandlerMax
  <1> USE AdcAssumption
  <1>1. PICK s \in Nat : StampedAt(adc, s)
    BY DEF Judge, StampInv, Stamped
  <1>2. /\ adc.vref_raw <= s /\ s <= time
        /\ s <= adc.vref_raw + LatencyMax + 2 * HandlerMax
        /\ adc.sampled_ms = s % TimeModulus
    BY <1>1 DEF StampedAt
  <1>3. time \in Nat /\ adc.vref_raw \in Nat /\ TimeModulus \in Nat \ {0}
    BY DEF TypeOK, Snapshot
  <1> DEFINE age == (time - (s % TimeModulus)) % TimeModulus
  <1>4. age = Age
    BY <1>2 DEF Age
  <1>5. age \in Nat /\ age <= time - s /\ (time - s < TimeModulus => age = time - s)
    <2>1. \A a \in Int, m \in Nat \ {0} : a % m \in Nat
      OBVIOUS
    <2>2. s % TimeModulus \in Nat
      BY <1>3, <2>1
    <2>3. time - (s % TimeModulus) \in Int
      BY <1>3, <2>2
    <2>4. age \in Nat
      BY <1>3, <2>1, <2>3
    <2> QED
      BY <1>2, <1>3, <2>4, WrappedAge
  <1> HIDE DEF age
  <1> QED
    BY <1>2, <1>3, <1>4, <1>5

(* A verdict that the ADC is valid vouches for the values, as long as the  *)
(* clock has not wrapped since.                                            *)
THEOREM ValidMeansFresh == Spec => ValidIsFresh
  <1>1. TypeOK /\ StampInv /\ [Next]_vars
           => [Judge /\ adc_valid' /\ time - adc.vref_raw < TimeModulus =>
                 time - adc.vref_raw <= AgeLimit + LatencyMax + 2 * HandlerMax]_vars
    <2> SUFFICES ASSUME TypeOK, StampInv, Judge, adc_valid', time - adc.vref_raw < TimeModulus
                 PROVE  time - adc.vref_raw <= AgeLimit + LatencyMax + 2 * HandlerMax
      OBVIOUS
    <2>1. adc.completed_blocks > 0 /\ adc.errors = 0 /\ Age <= AgeLimit
      BY DEF Judge, Valid
    <2> QED
      BY <2>1, JudgedAge, AdcAssumption DEF TypeOK, Snapshot
  <1> QED
    BY <1>1, TypeCorrect, StampInvariant, PTL DEF Spec, ValidIsFresh

(* The ADC is found invalid only for a reason.                             *)
THEOREM InvalidHasReason == Spec => NoFalseAlarm
  <1>1. TypeOK /\ StampInv /\ [Next]_vars
           => [Judge /\ ~adc_valid' =>
                 \/ adc.completed_blocks = 0 \/ adc.errors > 0
                 \/ time - adc.vref_raw > AgeLimit]_vars
    <2> SUFFICES ASSUME TypeOK, StampInv, Judge, ~adc_valid',
                        ~(adc.completed_blocks = 0), ~(adc.errors > 0)
                 PROVE  time - adc.vref_raw > AgeLimit
      OBVIOUS
    <2>1. adc.completed_blocks > 0 /\ adc.errors = 0
      BY DEF TypeOK, Snapshot
    <2>2. ~(Age <= AgeLimit)
      BY <2>1 DEF Judge, Valid
    <2> QED
      BY <2>1, <2>2, JudgedAge, AdcAssumption DEF TypeOK, Snapshot
  <1> QED
    BY <1>1, TypeCorrect, StampInvariant, PTL DEF Spec, NoFalseAlarm
=============================================================================
