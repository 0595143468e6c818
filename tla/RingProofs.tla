------------------------------ MODULE RingProofs ------------------------------
(***************************************************************************)
(* Theorems about the rings of both programs: UartRing, the two of the     *)
(* bench, and SpscRing, the one of the host simulation.  They share the    *)
(* lemmas about Ring, which come first: indices that wrap, and what        *)
(* becomes of the contents when a byte is stored, published or taken.      *)
(***************************************************************************)
EXTENDS UartRing, SpscRing, SequenceTheorems, TLAPS

-----------------------------------------------------------------------------
(* Indices.                                                                *)

(* What is below the modulus is the remainder.                             *)
LEMMA ModUnique ==
    ASSUME NEW m \in Nat \ {0}, NEW q \in Int, NEW r \in 0 .. m - 1
    PROVE  (q * m + r) % m = r
  OBVIOUS

(* An index at most one turn outside the ring wraps once.                  *)
LEMMA WrapsOnce ==
    ASSUME NEW a \in Int, -Size <= a, a < 2 * Size
    PROVE  Wrapped(a) = IF a < 0 THEN a + Size ELSE IF a < Size THEN a ELSE a - Size
  <1> USE RingAssumption DEF Wrapped
  <1>1. CASE a < 0
    <2>1. a + Size \in 0 .. Size - 1 /\ (-1) * Size + (a + Size) = a
      BY <1>1
    <2>2. ((-1) * Size + (a + Size)) % Size = a + Size
      BY <2>1, ModUnique
    <2> QED
      BY <1>1, <2>1, <2>2
  <1>2. CASE 0 <= a /\ a < Size
    <2>1. a \in 0 .. Size - 1 /\ 0 * Size + a = a
      BY <1>2
    <2>2. (0 * Size + a) % Size = a
      BY <2>1, ModUnique
    <2> QED
      BY <1>2, <2>1, <2>2
  <1>3. CASE Size <= a
    <2>1. a - Size \in 0 .. Size - 1 /\ 1 * Size + (a - Size) = a
      BY <1>3
    <2>2. (1 * Size + (a - Size)) % Size = a - Size
      BY <2>1, ModUnique
    <2> QED
      BY <1>3, <2>1, <2>2
  <1> QED
    BY <1>1, <1>2, <1>3

(* The distance of two indices, without the remainder.                     *)
LEMMA UsedIs ==
    ASSUME NEW h \in Indices, NEW t \in Indices
    PROVE  Used(h, t) = IF h < t THEN h - t + Size ELSE h - t
  <1>1. h - t \in Int /\ -Size <= h - t /\ h - t < Size
    BY RingAssumption DEF Indices
  <1> QED
    BY <1>1, WrapsOnce, RingAssumption DEF Used, Indices

(* An index that moves on.                                                 *)
LEMMA NextIs ==
    ASSUME NEW h \in Indices
    PROVE  /\ Wrapped(h + 1) = IF h + 1 = Size THEN 0 ELSE h + 1
           /\ Wrapped(h + 1) \in Indices
  <1> DEFINE a == h + 1
  <1>1. a \in Int /\ -Size <= a /\ a < 2 * Size
    BY RingAssumption DEF Indices
  <1> HIDE DEF a
  <1>2. Wrapped(a) = IF a < 0 THEN a + Size ELSE IF a < Size THEN a ELSE a - Size
    BY <1>1, WrapsOnce
  <1> QED
    BY <1>2, RingAssumption DEF Indices, a

(* The slot of a byte, without the remainder.                              *)
LEMMA SlotIs ==
    ASSUME NEW t \in Indices, NEW i \in 1 .. Size
    PROVE  /\ Slot(t, i) = IF t + i - 1 < Size THEN t + i - 1 ELSE t + i - 1 - Size
           /\ Slot(t, i) \in Indices
  <1> DEFINE a == t + i - 1
  <1>1. a \in Int /\ -Size <= a /\ a < 2 * Size /\ 0 <= a
    BY RingAssumption DEF Indices
  <1> HIDE DEF a
  <1>2. Wrapped(a) = IF a < 0 THEN a + Size ELSE IF a < Size THEN a ELSE a - Size
    BY <1>1, WrapsOnce
  <1>3. Wrapped(a) = (IF a < Size THEN a ELSE a - Size) /\ Wrapped(a) \in Indices
    BY <1>1, <1>2, RingAssumption DEF Indices
  <1>4. Slot(t, i) = Wrapped(a)
    BY DEF Slot, a
  <1>5. Slot(t, i) = (IF a < Size THEN a ELSE a - Size) /\ Slot(t, i) \in Indices
    BY <1>3, <1>4
  <1>6. a = t + i - 1
    BY DEF a
  <1>7. (IF a < Size THEN a ELSE a - Size)
            = IF t + i - 1 < Size THEN t + i - 1 ELSE t + i - 1 - Size
    BY <1>6, RingAssumption DEF Indices
  <1> QED
    BY <1>5, <1>7

(* The ring holds less than Size bytes, and is empty or full as the two    *)
(* tests of the code say.                                                  *)
LEMMA UsedRange ==
    ASSUME NEW h \in Indices, NEW t \in Indices
    PROVE  /\ Used(h, t) \in 0 .. Size - 1
           /\ Used(h, t) = 0 <=> h = t
           /\ Used(h, t) = Size - 1 <=> Wrapped(h + 1) = t
  <1> DEFINE n == Used(h, t)
             next == Wrapped(h + 1)
  <1>1. n = IF h < t THEN h - t + Size ELSE h - t
    BY UsedIs
  <1>2. next = IF h + 1 = Size THEN 0 ELSE h + 1
    BY NextIs
  <1>3. Size \in Nat /\ Size > 1 /\ h \in 0 .. Size - 1 /\ t \in 0 .. Size - 1
    BY RingAssumption DEF Indices
  <1> HIDE DEF n, next
  <1>4. n \in 0 .. Size - 1 /\ (n = 0 <=> h = t)
    BY <1>1, <1>3
  <1>5. n = Size - 1 <=> next = t
    BY <1>1, <1>2, <1>3
  <1> QED
    BY <1>4, <1>5 DEF n, next

(* A byte more, or a byte less.                                            *)
LEMMA HeadMoves ==
    ASSUME NEW h \in Indices, NEW t \in Indices, Wrapped(h + 1) # t
    PROVE  Used(Wrapped(h + 1), t) = Used(h, t) + 1
  <1>1. Wrapped(h + 1) \in Indices
    BY NextIs
  <1>2. /\ Used(h, t) = IF h < t THEN h - t + Size ELSE h - t
        /\ Used(Wrapped(h + 1), t) = IF Wrapped(h + 1) < t THEN Wrapped(h + 1) - t + Size
                                       ELSE Wrapped(h + 1) - t
    BY <1>1, UsedIs
  <1> QED
    BY <1>2, NextIs, RingAssumption DEF Indices

(* Taking a byte leaves one less in the ring.                              *)
LEMMA TailMoves ==
    ASSUME NEW h \in Indices, NEW t \in Indices, h # t
    PROVE  Used(h, Wrapped(t + 1)) = Used(h, t) - 1
  <1>1. Wrapped(t + 1) \in Indices
    BY NextIs
  <1>2. /\ Used(h, t) = IF h < t THEN h - t + Size ELSE h - t
        /\ Used(h, Wrapped(t + 1)) = IF h < Wrapped(t + 1) THEN h - Wrapped(t + 1) + Size
                                       ELSE h - Wrapped(t + 1)
    BY <1>1, UsedIs
  <1> QED
    BY <1>2, NextIs, RingAssumption DEF Indices

(* The head is the slot after the last byte, and no byte's.                *)
LEMMA SlotsOfHead ==
    ASSUME NEW h \in Indices, NEW t \in Indices
    PROVE  /\ Slot(t, Used(h, t) + 1) = h
           /\ \A i \in 1 .. Used(h, t) : Slot(t, i) # h
  <1>1. Used(h, t) \in 0 .. Size - 1
    BY UsedRange
  <1>2. Used(h, t) = IF h < t THEN h - t + Size ELSE h - t
    BY UsedIs
  <1>3. Used(h, t) + 1 \in 1 .. Size
    BY <1>1, RingAssumption
  <1>4. Slot(t, Used(h, t) + 1) = h
    BY <1>2, <1>3, SlotIs, RingAssumption DEF Indices
  <1>5. ASSUME NEW i \in 1 .. Used(h, t) PROVE Slot(t, i) # h
    <2>1. i \in 1 .. Size
      BY <1>1, RingAssumption
    <2>2. Slot(t, i) = IF t + i - 1 < Size THEN t + i - 1 ELSE t + i - 1 - Size
      BY <2>1, SlotIs
    <2>3. /\ Size \in Nat /\ h \in 0 .. Size - 1 /\ t \in 0 .. Size - 1
          /\ i \in Nat /\ 1 <= i /\ i <= Used(h, t)
      BY <1>1, RingAssumption DEF Indices
    <2> QED
      BY <1>2, <2>2, <2>3
  <1> QED
    BY <1>4, <1>5

(* The slots move up by one when the oldest byte goes.                     *)
LEMMA SlotsOfTail ==
    ASSUME NEW t \in Indices
    PROVE  /\ Slot(t, 1) = t
           /\ \A i \in 1 .. Size - 1 : Slot(Wrapped(t + 1), i) = Slot(t, i + 1)
  <1>1. Slot(t, 1) = t
    BY SlotIs, RingAssumption DEF Indices
  <1>2. ASSUME NEW i \in 1 .. Size - 1
        PROVE  Slot(Wrapped(t + 1), i) = Slot(t, i + 1)
    <2>1. i \in 1 .. Size /\ i + 1 \in 1 .. Size /\ Wrapped(t + 1) \in Indices
      BY NextIs, RingAssumption
    <2>2. Wrapped(t + 1) = IF t + 1 = Size THEN 0 ELSE t + 1
      BY NextIs
    <2>3. Slot(t, i + 1) = IF t + (i + 1) - 1 < Size THEN t + (i + 1) - 1
                           ELSE t + (i + 1) - 1 - Size
      BY <2>1, SlotIs
    <2>4. Slot(Wrapped(t + 1), i) = IF Wrapped(t + 1) + i - 1 < Size THEN Wrapped(t + 1) + i - 1
                                    ELSE Wrapped(t + 1) + i - 1 - Size
      BY <2>1, SlotIs
    <2> QED
      BY <2>2, <2>3, <2>4, RingAssumption DEF Indices
  <1> QED
    BY <1>1, <1>2

-----------------------------------------------------------------------------
(* Contents.                                                               *)

(* A buffer has an element in every slot.                                  *)
Buffer(ring, Elements) == ring \in [Indices -> Elements]

(* What the ring holds is a sequence.                                      *)
LEMMA ContentIsSeq ==
    ASSUME NEW Elements, NEW ring, Buffer(ring, Elements), NEW h \in Indices, NEW t \in Indices
    PROVE  /\ Content(ring, h, t) \in Seq(Elements)
           /\ Len(Content(ring, h, t)) = Used(h, t)
           /\ \A i \in 1 .. Used(h, t) : Content(ring, h, t)[i] = ring[Slot(t, i)]
  <1> DEFINE n == Used(h, t)
  <1>1. n \in 0 .. Size - 1
    BY UsedRange
  <1>2. \A i \in 1 .. n : ring[Slot(t, i)] \in Elements
    BY <1>1, SlotIs, RingAssumption DEF Buffer
  <1>3. Content(ring, h, t) = [i \in 1 .. n |-> ring[Slot(t, i)]]
    BY DEF Content
  <1>4. n \in Nat
    BY <1>1
  <1> HIDE DEF n
  <1>5. [i \in 1 .. n |-> ring[Slot(t, i)]] \in Seq(Elements)
    BY <1>2, <1>4
  <1>6. Len([i \in 1 .. n |-> ring[Slot(t, i)]]) = n
    BY <1>4
  <1> QED
    BY <1>3, <1>5, <1>6 DEF n

(* A byte written to the slot of the head is not seen yet.                 *)
LEMMA StoreUnseen ==
    ASSUME NEW Elements, NEW ring, NEW after, Buffer(ring, Elements), Buffer(after, Elements),
           NEW h \in Indices, NEW t \in Indices,
           \A i \in Indices \ {h} : after[i] = ring[i]
    PROVE  Content(after, h, t) = Content(ring, h, t)
  <1>2. \A i \in 1 .. Used(h, t) : Slot(t, i) \in Indices /\ Slot(t, i) # h
    BY UsedRange, SlotIs, SlotsOfHead, RingAssumption
  <1>3. \A i \in 1 .. Used(h, t) : after[Slot(t, i)] = ring[Slot(t, i)]
    BY <1>2
  <1>4. \A i \in 1 .. Used(h, t) : Content(after, h, t)[i] = Content(ring, h, t)[i]
    <2>1. \A i \in 1 .. Used(h, t) : Content(after, h, t)[i] = after[Slot(t, i)]
      BY ContentIsSeq
    <2>2. \A i \in 1 .. Used(h, t) : Content(ring, h, t)[i] = ring[Slot(t, i)]
      BY ContentIsSeq
    <2> QED
      BY <1>3, <2>1, <2>2
  <1>5. /\ Content(after, h, t) \in Seq(Elements) /\ Content(ring, h, t) \in Seq(Elements)
        /\ Len(Content(after, h, t)) = Used(h, t) /\ Len(Content(ring, h, t)) = Used(h, t)
    BY ContentIsSeq
  <1> QED
    BY <1>4, <1>5, SeqEqual

(* When the head moves on, its byte is the last.                           *)
LEMMA PublishAppends ==
    ASSUME NEW Elements, NEW ring, Buffer(ring, Elements), NEW h \in Indices, NEW t \in Indices,
           Wrapped(h + 1) # t
    PROVE  Content(ring, Wrapped(h + 1), t) = Append(Content(ring, h, t), ring[h])
  <1> DEFINE n == Used(h, t)
             s == Content(ring, h, t)
             u == Content(ring, Wrapped(h + 1), t)
  <1>1. Wrapped(h + 1) \in Indices /\ Used(Wrapped(h + 1), t) = n + 1 /\ n \in Nat
    BY NextIs, HeadMoves, UsedRange
  <1>2. /\ s \in Seq(Elements) /\ Len(s) = n
        /\ \A i \in 1 .. n : s[i] = ring[Slot(t, i)]
    BY ContentIsSeq
  <1>3. /\ u \in Seq(Elements) /\ Len(u) = n + 1
        /\ \A i \in 1 .. n + 1 : u[i] = ring[Slot(t, i)]
    <2> DEFINE next == Wrapped(h + 1)
    <2>1. next \in Indices /\ Used(next, t) = n + 1
      BY <1>1
    <2> HIDE DEF next
    <2>2. /\ Content(ring, next, t) \in Seq(Elements)
          /\ Len(Content(ring, next, t)) = Used(next, t)
          /\ \A i \in 1 .. Used(next, t) : Content(ring, next, t)[i] = ring[Slot(t, i)]
      BY <2>1, ContentIsSeq
    <2> QED
      BY <2>1, <2>2 DEF next
  <1>4. ring[Slot(t, n + 1)] = ring[h] /\ ring[h] \in Elements
    BY SlotsOfHead DEF Buffer
  <1> HIDE DEF n, s, u
  <1>5. u[n + 1] = ring[h] /\ \A i \in 1 .. n : u[i] = s[i]
    BY <1>1, <1>2, <1>3, <1>4
  <1>6. u = Append(s, ring[h])
    BY <1>1, <1>2, <1>3, <1>4, <1>5
  <1> QED
    BY <1>6 DEF s, u

(* When the tail moves on, the oldest byte is gone.                        *)
LEMMA ReleaseTakes ==
    ASSUME NEW Elements, NEW ring, Buffer(ring, Elements), NEW h \in Indices, NEW t \in Indices,
           h # t
    PROVE  /\ Content(ring, h, t) # <<>>
           /\ Head(Content(ring, h, t)) = ring[t]
           /\ Content(ring, h, Wrapped(t + 1)) = Tail(Content(ring, h, t))
  <1> DEFINE n == Used(h, t)
             s == Content(ring, h, t)
             u == Content(ring, h, Wrapped(t + 1))
  <1>1. /\ Wrapped(t + 1) \in Indices /\ Used(h, Wrapped(t + 1)) = n - 1
        /\ n \in 1 .. Size - 1
    <2>1. n \in 0 .. Size - 1 /\ n # 0
      BY UsedRange
    <2> QED
      BY <2>1, NextIs, TailMoves, RingAssumption
  <1>2. /\ s \in Seq(Elements) /\ Len(s) = n
        /\ \A i \in 1 .. n : s[i] = ring[Slot(t, i)]
    BY ContentIsSeq
  <1>3. /\ u \in Seq(Elements) /\ Len(u) = n - 1
        /\ \A i \in 1 .. n - 1 : u[i] = ring[Slot(Wrapped(t + 1), i)]
    <2> DEFINE next == Wrapped(t + 1)
    <2>1. next \in Indices /\ Used(h, next) = n - 1
      BY <1>1
    <2> HIDE DEF next
    <2>2. /\ Content(ring, h, next) \in Seq(Elements)
          /\ Len(Content(ring, h, next)) = Used(h, next)
          /\ \A i \in 1 .. Used(h, next) : Content(ring, h, next)[i] = ring[Slot(next, i)]
      BY <2>1, ContentIsSeq
    <2> QED
      BY <2>1, <2>2 DEF next
  <1>4. \A i \in 1 .. n - 1 : i \in 1 .. Size - 1 /\ i + 1 \in 1 .. n
    BY <1>1, RingAssumption
  <1>5. \A i \in 1 .. n - 1 : u[i] = s[i + 1]
    BY <1>2, <1>3, <1>4, SlotsOfTail
  <1>6. s[1] = ring[t]
    BY <1>1, <1>2, SlotsOfTail
  <1> HIDE DEF n, s, u
  <1>7. s # <<>> /\ Head(s) = ring[t] /\ u = Tail(s)
    BY <1>1, <1>2, <1>3, <1>5, <1>6
  <1> QED
    BY <1>7 DEF s, u
-----------------------------------------------------------------------------
(* A whole message.                                                        *)

(* The head moves on by as many slots as are free, and no further.         *)
LEMMA HeadMovesBy ==
    ASSUME NEW h \in Indices, NEW t \in Indices, NEW k \in Nat,
           k <= Size - 1 - Used(h, t)
    PROVE  /\ Wrapped(h + k) \in Indices
           /\ Used(Wrapped(h + k), t) = Used(h, t) + k
  <1> DEFINE a == h + k
  <1>1. /\ Used(h, t) = IF h < t THEN h - t + Size ELSE h - t
        /\ Used(h, t) \in 0 .. Size - 1
    BY UsedIs, UsedRange
  <1>2. a \in Int /\ -Size <= a /\ a < 2 * Size /\ 0 <= a
    BY <1>1, RingAssumption DEF Indices
  <1> HIDE DEF a
  <1>3. Wrapped(a) = IF a < 0 THEN a + Size ELSE IF a < Size THEN a ELSE a - Size
    BY <1>2, WrapsOnce
  <1>4. Wrapped(a) \in Indices
    BY <1>2, <1>3, RingAssumption DEF Indices
  <1>5. Used(Wrapped(a), t) = IF Wrapped(a) < t THEN Wrapped(a) - t + Size ELSE Wrapped(a) - t
    BY <1>4, UsedIs
  <1>6. a = h + k
    BY DEF a
  <1>7. Used(Wrapped(a), t) = Used(h, t) + k
    BY <1>1, <1>2, <1>3, <1>5, <1>6, RingAssumption DEF Indices
  <1> QED
    BY <1>4, <1>6, <1>7

(* How far a byte's slot is ahead of the head: the ones in use are at the  *)
(* far end, the free ones follow it one by one.                            *)
LEMMA SlotFromHead ==
    ASSUME NEW h \in Indices, NEW t \in Indices, NEW i \in 1 .. Size
    PROVE  Used(Slot(t, i), h) = IF i <= Used(h, t) THEN i - 1 - Used(h, t) + Size
                                 ELSE i - 1 - Used(h, t)
  <1> DEFINE a == Slot(t, i)
             n == Used(h, t)
  <1>1. n = (IF h < t THEN h - t + Size ELSE h - t) /\ n \in 0 .. Size - 1
    BY UsedIs, UsedRange
  <1>2. a = (IF t + i - 1 < Size THEN t + i - 1 ELSE t + i - 1 - Size) /\ a \in Indices
    BY SlotIs
  <1> HIDE DEF a, n
  <1>3. Used(a, h) = IF a < h THEN a - h + Size ELSE a - h
    BY <1>2, UsedIs
  <1>4. Used(a, h) = IF i <= n THEN i - 1 - n + Size ELSE i - 1 - n
    BY <1>1, <1>2, <1>3, RingAssumption DEF Indices
  <1> QED
    BY <1>4 DEF a, n

(* A message that fits, written from the head on, follows what the ring    *)
(* holds.                                                                  *)
Written(ring, h, s) ==
    [i \in Indices |-> IF Used(i, h) < Len(s) THEN s[Used(i, h) + 1] ELSE ring[i]]

(* A message stored in the ring continues what it holds.                   *)
LEMMA MessageFollows ==
    ASSUME NEW Elements, NEW ring, Buffer(ring, Elements), NEW h \in Indices,
           NEW t \in Indices, NEW s \in Seq(Elements), Len(s) <= Size - 1 - Used(h, t)
    PROVE  /\ Buffer(Written(ring, h, s), Elements)
           /\ Content(Written(ring, h, s), Wrapped(h + Len(s)), t) = Content(ring, h, t) \o s
  <1> DEFINE after == Written(ring, h, s)
             next == Wrapped(h + Len(s))
             n == Used(h, t)
             old == Content(ring, h, t)
             new == Content(after, next, t)
  <1>1. Len(s) \in Nat /\ n \in 0 .. Size - 1 /\ n + Len(s) <= Size - 1
    BY UsedRange, LenProperties, RingAssumption
  <1>2. next \in Indices /\ Used(next, t) = n + Len(s)
    BY <1>1, HeadMovesBy
  <1>3. Buffer(after, Elements)
    <2>1. ASSUME NEW i \in Indices, Used(i, h) < Len(s)
          PROVE  s[Used(i, h) + 1] \in Elements
      <3>1. Used(i, h) \in Nat
        BY UsedRange, RingAssumption
      <3>2. Used(i, h) + 1 \in 1 .. Len(s)
        BY <1>1, <2>1, <3>1
      <3> QED
        BY <3>2, ElementOfSeq
    <2> QED
      BY <2>1 DEF Buffer, Written
  <1>4. \A i \in 1 .. n + Len(s) : i \in 1 .. Size /\ Slot(t, i) \in Indices
    BY <1>1, SlotIs, RingAssumption
  <1>5. \A i \in 1 .. n + Len(s) :
            after[Slot(t, i)] = IF Used(Slot(t, i), h) < Len(s) THEN s[Used(Slot(t, i), h) + 1]
                                ELSE ring[Slot(t, i)]
    BY <1>4 DEF Written
  <1>6. \A i \in 1 .. n + Len(s) :
            Used(Slot(t, i), h) = IF i <= n THEN i - 1 - n + Size ELSE i - 1 - n
    BY <1>4, SlotFromHead
  <1>7. /\ old \in Seq(Elements) /\ Len(old) = n
        /\ \A i \in 1 .. n : old[i] = ring[Slot(t, i)]
    BY ContentIsSeq
  <1> HIDE DEF after, next, old, n
  <1>8. /\ new \in Seq(Elements) /\ Len(new) = n + Len(s)
        /\ \A i \in 1 .. n + Len(s) : new[i] = after[Slot(t, i)]
    BY <1>2, <1>3, ContentIsSeq
  <1> HIDE DEF new
  <1>9. /\ old \o s \in Seq(Elements) /\ Len(old \o s) = n + Len(s)
        /\ \A i \in 1 .. n + Len(s) : (old \o s)[i] = IF i <= n THEN old[i] ELSE s[i - n]
    BY <1>7, ConcatProperties
  <1>10. ASSUME NEW i \in 1 .. n + Len(s) PROVE new[i] = (old \o s)[i]
    <2>1. CASE i <= n
      <3>1. Used(Slot(t, i), h) = i - 1 - n + Size
        BY <1>6, <2>1
      <3>2. ~(i - 1 - n + Size < Len(s)) /\ i \in 1 .. n
        BY <1>1, <2>1, RingAssumption
      <3>3. new[i] = ring[Slot(t, i)]
        BY <1>5, <1>8, <3>1, <3>2
      <3> QED
        BY <1>7, <1>9, <2>1, <3>2, <3>3
    <2>2. CASE ~(i <= n)
      <3>1. Used(Slot(t, i), h) = i - 1 - n
        BY <1>6, <2>2
      <3>2. i - 1 - n < Len(s) /\ (i - 1 - n) + 1 = i - n
        BY <1>1, <2>2
      <3>3. new[i] = s[(i - 1 - n) + 1]
        BY <1>5, <1>8, <3>1, <3>2
      <3> QED
        BY <1>9, <2>2, <3>2, <3>3
    <2> QED
      BY <2>1, <2>2
  <1>11. new = old \o s
    BY <1>8, <1>9, <1>10, SeqEqual
  <1> QED
    BY <1>3, <1>11 DEF after, next, old, new

-----------------------------------------------------------------------------
(* UartRing.  Messages stay whole and bytes in order, for every size of    *)
(* the rings, any messages and any number of bytes.                        *)

(* A message is a sequence of bytes.                                       *)
LEMMA MessageIsSeq ==
    ASSUME NEW n \in Nat, NEW length \in Nat
    PROVE  Message(n, length) \in Seq(Bytes) /\ Len(Message(n, length)) = length
  <1>1. \A i \in 1 .. length : <<n, i>> \in Bytes
    BY DEF Bytes
  <1>2. Message(n, length) = [i \in 1 .. length |-> <<n, i>>]
    BY DEF Message
  <1>3. [i \in 1 .. length |-> <<n, i>>] \in Seq(Bytes)
    BY <1>1
  <1>4. Len([i \in 1 .. length |-> <<n, i>>]) = length
    OBVIOUS
  <1> QED
    BY <1>2, <1>3, <1>4

(* What board_uart_write does to the ring is Written of RingProofs.        *)
LEMMA WriteCases ==
    ASSUME TypeOK, NEW length \in Lengths, board_uart_write(length)
    PROVE  /\ calls' = calls + 1 /\ isr = "idle"
           /\ UNCHANGED <<tx_tail, rx_vars, line_out_vars, line_in_vars, isr_vars>>
           /\ \/ /\ tx_dropped_messages' \in Nat
                 /\ UNCHANGED <<tx_buffer, tx_head, txeie, accepted>>
              \/ /\ length \in Nat /\ length <= Size - 1 - Used(tx_head, tx_tail)
                 /\ tx_buffer' = Written(tx_buffer, tx_head, Message(calls + 1, length))
                 /\ tx_head' = Wrapped(tx_head + length)
                 /\ txeie' = TRUE
                 /\ accepted' = accepted \o Message(calls + 1, length)
                 /\ UNCHANGED tx_dropped_messages
  <1> DEFINE message == Message(calls + 1, length)
  <1>0. length \in Nat /\ calls + 1 \in Nat
    BY UartAssumption DEF TypeOK
  <1>1. Len(message) = length
    BY <1>0, MessageIsSeq
  <1>2. /\ calls' = calls + 1 /\ isr = "idle"
        /\ UNCHANGED <<tx_tail, rx_vars, line_out_vars, line_in_vars, isr_vars>>
    BY DEF board_uart_write
  <1> HIDE DEF message
  <1>3. CASE length >= Size
    <2>1. ~(length < Size)
      BY <1>0, <1>3, RingAssumption
    <2>2. UNCHANGED <<tx_buffer, tx_head, tx_dropped_messages, txeie, accepted>>
      BY <2>1 DEF board_uart_write
    <2> QED
      BY <1>2, <2>2 DEF TypeOK
  <1>4. CASE length < Size /\ ~Fits(length)
    <2>1. ~(length >= Size)
      BY <1>0, <1>4, RingAssumption
    <2>2. /\ tx_dropped_messages' = tx_dropped_messages + 1
          /\ UNCHANGED <<tx_buffer, tx_head, txeie, accepted>>
      BY <1>4, <2>1 DEF board_uart_write
    <2> QED
      BY <1>2, <2>2 DEF TypeOK
  <1>5. CASE length < Size /\ Fits(length)
    <2>0. ~(length >= Size)
      BY <1>0, <1>5, RingAssumption
    <2>1. /\ tx_buffer' = [i \in Indices |->
                              IF Used(i, tx_head) < length
                              THEN message[Used(i, tx_head) + 1] ELSE tx_buffer[i]]
          /\ tx_head' = Wrapped(tx_head + length)
          /\ txeie' = TRUE
          /\ accepted' = accepted \o message
          /\ UNCHANGED tx_dropped_messages
      BY <1>5, <2>0 DEF board_uart_write, message
    <2>2. tx_buffer' = Written(tx_buffer, tx_head, message)
      BY <1>1, <2>1 DEF Written
    <2>3. length <= Size - 1 - Used(tx_head, tx_tail)
      BY <1>5 DEF Fits
    <2> QED
      BY <1>0, <1>2, <2>1, <2>2, <2>3 DEF message
  <1> QED
    BY <1>0, <1>3, <1>4, <1>5 DEF board_uart_write, TypeOK

-----------------------------------------------------------------------------
(* Type correctness.                                                       *)
THEOREM TypeCorrect == Spec => []TypeOK
  <1>1. Init => TypeOK
    <2> SUFFICES ASSUME Init PROVE TypeOK
      OBVIOUS
    <2>1. 0 \in Indices /\ <<0, 0>> \in Bytes
      BY RingAssumption DEF Indices, Bytes
    <2>2. tx_buffer \in [Indices -> Bytes] /\ rx_buffer \in [Indices -> Nat]
      BY <2>1 DEF Init
    <2> QED
      BY <2>1, <2>2 DEF Init, TypeOK, NoStatus
  <1>2. TypeOK /\ [Next]_vars => TypeOK'
    <2> SUFFICES ASSUME TypeOK, [Next]_vars PROVE TypeOK'
      OBVIOUS
    <2> USE DEF tx_vars, rx_vars, line_out_vars, line_in_vars, isr_vars
    <2>1. ASSUME NEW length \in Lengths, board_uart_write(length) PROVE TypeOK'
      <3> DEFINE message == Message(calls + 1, length)
      <3>1. /\ calls' = calls + 1
            /\ UNCHANGED <<tx_tail, rx_vars, line_out_vars, line_in_vars, isr_vars>>
        BY <2>1, WriteCases
      <3>2. CASE /\ tx_dropped_messages' \in Nat
                 /\ UNCHANGED <<tx_buffer, tx_head, txeie, accepted>>
        BY <3>1, <3>2 DEF TypeOK
      <3>3. CASE /\ length \in Nat /\ length <= Size - 1 - Used(tx_head, tx_tail)
                 /\ tx_buffer' = Written(tx_buffer, tx_head, message)
                 /\ tx_head' = Wrapped(tx_head + length)
                 /\ txeie' = TRUE
                 /\ accepted' = accepted \o message
                 /\ UNCHANGED tx_dropped_messages
        <4>1. message \in Seq(Bytes) /\ Len(message) = length
          BY <3>3, MessageIsSeq DEF TypeOK
        <4>2. Buffer(tx_buffer, Bytes) /\ tx_head \in Indices /\ tx_tail \in Indices
          BY DEF TypeOK, Buffer
        <4> HIDE DEF message
        <4>3. tx_buffer' \in [Indices -> Bytes]
          BY <3>3, <4>1, <4>2, MessageFollows DEF Buffer
        <4>4. tx_head' \in Indices
          BY <3>3, <4>2, HeadMovesBy
        <4>5. accepted' \in Seq(Bytes)
          BY <3>3, <4>1, ConcatProperties DEF TypeOK
        <4> QED
          BY <3>1, <3>3, <4>3, <4>4, <4>5 DEF TypeOK
      <3> QED
        BY <2>1, <3>2, <3>3, WriteCases
    <2>2. CASE board_uart_get
      <3>1. rx_tail' \in Indices
        BY <2>2, NextIs DEF board_uart_get, TypeOK
      <3>2. got' \in Seq(Nat)
        BY <2>2 DEF board_uart_get, TypeOK
      <3> QED
        BY <2>2, <3>1, <3>2 DEF board_uart_get, TypeOK
    <2>3. ASSUME NEW damaged \in BOOLEAN, Arrive(damaged) PROVE TypeOK'
      <3>1. arrived' \in Nat /\ broken' \subseteq 1 .. arrived'
        BY <2>3 DEF Arrive, TypeOK
      <3>2. rxne' \in BOOLEAN /\ ore' \in BOOLEAN /\ bad' \in BOOLEAN
        <4>1. CASE rxne
          BY <2>3, <4>1 DEF Arrive, TypeOK
        <4>2. CASE ~rxne
          BY <2>3, <4>2, Zenon DEF Arrive, TypeOK
        <4> QED
          BY <4>1, <4>2
      <3>3. rdr' \in Nat
        BY <2>3 DEF Arrive, TypeOK
      <3> QED
        BY <2>3, <3>1, <3>2, <3>3 DEF Arrive, TypeOK
    <2>4. CASE ShiftOut
      BY <2>4 DEF ShiftOut, TypeOK
    <2>5. CASE ReadStatus
      BY <2>5 DEF ReadStatus, TypeOK
    <2>6. CASE Receive
      <3>1. CASE DataRead
        <4>1. rx_head' \in Indices
          BY <2>6, <3>1, NextIs DEF Receive, Store, TypeOK
        <4>2. /\ rx_buffer' \in [Indices -> Nat] /\ rx_errors' \in Nat
              /\ rx_dropped_bytes' \in Nat
          BY <2>6, <3>1 DEF Receive, Store, TypeOK
        <4>3. rxne' \in BOOLEAN /\ ore' \in BOOLEAN /\ bad' \in BOOLEAN
          BY <2>6, <3>1 DEF Receive, TypeOK
        <4> QED
          BY <2>6, <4>1, <4>2, <4>3 DEF Receive, TypeOK
      <3>2. CASE ~DataRead
        BY <2>6, <3>2 DEF Receive, TypeOK
      <3> QED
        BY <3>1, <3>2
    <2>7. CASE Transmit
      <3>1. tx_tail' \in Indices
        BY <2>7, NextIs DEF Transmit, TypeOK
      <3>2. tdr' \in Bytes /\ txe' \in BOOLEAN /\ txeie' \in BOOLEAN
        BY <2>7 DEF Transmit, TypeOK
      <3>3. status' \in [rxne : BOOLEAN, ore : BOOLEAN, bad : BOOLEAN, txe : BOOLEAN]
        BY <2>7 DEF Transmit, NoStatus
      <3> QED
        BY <2>7, <3>1, <3>2, <3>3 DEF Transmit, TypeOK
    <2>8. CASE UNCHANGED vars
      BY <2>8 DEF vars, TypeOK
    <2> QED
      BY <2>1, <2>2, <2>3, <2>4, <2>5, <2>6, <2>7, <2>8 DEF Next
  <1> QED
    BY <1>1, <1>2, PTL DEF Spec
-----------------------------------------------------------------------------
(* Sequences.                                                              *)

(* Moving the head of one sequence to the end of another leaves the whole. *)
LEMMA MoveHead ==
    ASSUME NEW S, NEW s \in Seq(S), NEW u \in Seq(S), u # <<>>
    PROVE  /\ Append(s, Head(u)) \o Tail(u) = s \o u
           /\ Append(s, Head(u)) = s \o <<Head(u)>>
           /\ Head(u) \in S /\ Tail(u) \in Seq(S)
  OBVIOUS

(* Concatenation and Append associate.                                     *)
LEMMA AppendLast ==
    ASSUME NEW S, NEW s \in Seq(S), NEW u \in Seq(S), NEW x \in S
    PROVE  s \o Append(u, x) = Append(s \o u, x)
  OBVIOUS

-----------------------------------------------------------------------------
(* The transmitter.                                                        *)

(* Bytes leave the transmitter only while the handler has not seen it      *)
(* empty.                                                                  *)
EmptySeen == isr # "idle" /\ status.txe => txe

(* Messages leave whole, in order and once.                                *)
THEOREM MessagesLeaveWhole == Spec => []TxWhole
  <1> DEFINE Ring == Content(tx_buffer, tx_head, tx_tail)
             TxInv == EmptySeen /\ TxWhole
  <1>1. Init => TxInv
    <2> SUFFICES ASSUME Init PROVE TxInv
      OBVIOUS
    <2>1. 0 \in Indices
      BY RingAssumption DEF Indices
    <2>2. Used(tx_head, tx_tail) = 0
      BY <2>1, UsedRange DEF Init
    <2>3. Ring = <<>>
      BY <2>2 DEF Content
    <2>4. InTransmitter = <<>> /\ sent = <<>> /\ accepted = <<>> /\ EmptySeen
      BY DEF Init, InTransmitter, EmptySeen
    <2>5. <<>> = (<<>> \o <<>>) \o <<>>
      OBVIOUS
    <2> QED
      BY <2>3, <2>4, <2>5 DEF TxWhole
  <1>2. TypeOK /\ TxInv /\ [Next]_vars => TxInv'
    <2> SUFFICES ASSUME TypeOK, TxInv, [Next]_vars PROVE TxInv'
      OBVIOUS
    <2>1. Buffer(tx_buffer, Bytes) /\ tx_head \in Indices /\ tx_tail \in Indices
      BY DEF TypeOK, Buffer
    <2>2. Ring \in Seq(Bytes) /\ InTransmitter \in Seq(Bytes) /\ sent \in Seq(Bytes)
      <3>1. Ring \in Seq(Bytes)
        BY <2>1, ContentIsSeq
      <3>2. InTransmitter \in Seq(Bytes)
        BY DEF InTransmitter, TypeOK
      <3> QED
        BY <3>1, <3>2 DEF TypeOK
    <2>3. CASE UNCHANGED <<tx_buffer, tx_head, tx_tail, accepted, sent, txe, tdr, isr, status>>
      BY <2>3 DEF TxWhole, InTransmitter, EmptySeen
    <2>4. ASSUME NEW length \in Lengths, board_uart_write(length) PROVE TxInv'
      <3> DEFINE message == Message(calls + 1, length)
      <3>1. UNCHANGED <<tx_tail, txe, tdr, sent, isr, status>>
        BY <2>4, WriteCases DEF line_out_vars, isr_vars
      <3>2. CASE UNCHANGED <<tx_buffer, tx_head, txeie, accepted>>
        BY <2>3, <3>1, <3>2
      <3>3. CASE /\ length \in Nat /\ length <= Size - 1 - Used(tx_head, tx_tail)
                 /\ tx_buffer' = Written(tx_buffer, tx_head, message)
                 /\ tx_head' = Wrapped(tx_head + length)
                 /\ accepted' = accepted \o message
        <4>1. message \in Seq(Bytes) /\ Len(message) = length
          BY <3>3, MessageIsSeq DEF TypeOK
        <4> HIDE DEF message
        <4>2. Content(Written(tx_buffer, tx_head, message),
                      Wrapped(tx_head + Len(message)), tx_tail) = Ring \o message
          <5>1. Len(message) <= Size - 1 - Used(tx_head, tx_tail)
            BY <3>3, <4>1
          <5> QED
            BY <2>1, <4>1, <5>1, MessageFollows
        <4>3. Ring' = Ring \o message
          BY <3>1, <3>3, <4>1, <4>2
        <4>4. InTransmitter' = InTransmitter
          BY <3>1 DEF InTransmitter
        <4> HIDE DEF Ring
        <4>5. sent \o InTransmitter \in Seq(Bytes)
          BY <2>2, ConcatProperties
        <4>6. ((sent \o InTransmitter) \o Ring) \o message
                  = (sent \o InTransmitter) \o (Ring \o message)
          <5> DEFINE before == sent \o InTransmitter
          <5>1. before \in Seq(Bytes) /\ Ring \in Seq(Bytes) /\ message \in Seq(Bytes)
            BY <2>2, <4>1, <4>5
          <5> HIDE DEF before
          <5>2. (before \o Ring) \o message = before \o (Ring \o message)
            BY <5>1, ConcatAssociative
          <5> QED
            BY <5>2 DEF before
        <4>7. TxWhole'
          BY <3>1, <3>3, <4>3, <4>4, <4>6 DEF TxWhole, Ring
        <4> QED
          BY <3>1, <4>7 DEF EmptySeen
      <3> QED
        BY <2>4, <3>2, <3>3, WriteCases
    <2>5. CASE ShiftOut
      <3>1. /\ InTransmitter = <<tdr>> /\ InTransmitter' = <<>>
            /\ sent' = Append(sent, tdr) /\ txe' = TRUE
            /\ UNCHANGED <<tx_buffer, tx_head, tx_tail, accepted, isr, status>>
        BY <2>5 DEF ShiftOut, InTransmitter, tx_vars, isr_vars
      <3>2. Append(sent, tdr) \o <<>> = sent \o <<tdr>>
        BY DEF TypeOK
      <3>3. TxWhole'
        BY <3>1, <3>2 DEF TxWhole
      <3> QED
        BY <3>1, <3>3 DEF EmptySeen
    <2>6. CASE ReadStatus
      BY <2>6 DEF ReadStatus, TxWhole, InTransmitter, EmptySeen, tx_vars, line_out_vars
    <2>7. CASE Receive
      BY <2>7 DEF Receive, TxWhole, InTransmitter, EmptySeen, tx_vars, line_out_vars
    <2>8. CASE Transmit
      <3>1. isr' = "idle" /\ UNCHANGED <<tx_buffer, tx_head, accepted, sent>>
        BY <2>8 DEF Transmit
      <3>2. CASE UNCHANGED <<tdr, txe, tx_tail>>
        BY <3>1, <3>2 DEF TxWhole, InTransmitter, EmptySeen
      <3>3. CASE /\ status.txe /\ ~TxEmpty
                 /\ tdr' = tx_buffer[tx_tail] /\ txe' = FALSE
                 /\ tx_tail' = Wrapped(tx_tail + 1)
        <4>1. txe
          BY <2>8, <3>3 DEF Transmit, EmptySeen
        <4>2. Ring # <<>> /\ Head(Ring) = tdr' /\ Ring' = Tail(Ring)
          BY <2>1, <3>1, <3>3, ReleaseTakes DEF TxEmpty
        <4>3. InTransmitter = <<>> /\ InTransmitter' = <<tdr'>>
          BY <3>3, <4>1 DEF InTransmitter
        <4> HIDE DEF Ring
        <4>4. (sent \o <<Head(Ring)>>) \o Tail(Ring) = sent \o Ring
          BY <2>2, <4>2, MoveHead
        <4>5. (sent \o <<>>) \o Ring = sent \o Ring
          BY <2>2
        <4>6. TxWhole'
          BY <3>1, <4>2, <4>3, <4>4, <4>5 DEF TxWhole, Ring
        <4> QED
          BY <3>1, <4>6 DEF EmptySeen
      <3> QED
        BY <2>8, <3>2, <3>3 DEF Transmit
    <2>9. CASE board_uart_get
      BY <2>3, <2>9 DEF board_uart_get, tx_vars, line_out_vars, isr_vars
    <2>10. ASSUME NEW damaged \in BOOLEAN, Arrive(damaged) PROVE TxInv'
      BY <2>3, <2>10 DEF Arrive, tx_vars, line_out_vars, isr_vars
    <2>11. CASE UNCHANGED vars
      BY <2>3, <2>11 DEF vars, tx_vars, line_out_vars, isr_vars
    <2> QED
      BY <2>4, <2>5, <2>6, <2>7, <2>8, <2>9, <2>10, <2>11 DEF Next
  <1> QED
    BY <1>1, <1>2, TypeCorrect, PTL DEF Spec
-----------------------------------------------------------------------------
(* The receiver.                                                           *)

(* What was received is a sequence of bytes.                               *)
LEMMA ReceivedIsSeq == TypeOK => Received \in Seq(Nat)
  <1> SUFFICES ASSUME TypeOK PROVE Received \in Seq(Nat)
    OBVIOUS
  <1>1. Buffer(rx_buffer, Nat) /\ rx_head \in Indices /\ rx_tail \in Indices
    BY DEF TypeOK, Buffer
  <1>2. Content(rx_buffer, rx_head, rx_tail) \in Seq(Nat)
    BY <1>1, ContentIsSeq
  <1> QED
    BY <1>2, ConcatProperties DEF Received, TypeOK

(* A byte is taken by the handler.                                         *)
Taken == isr = "receive" /\ status.rxne /\ ~Damaged /\ ~RxFull

(* Only the handler adds to what was received, and only the byte in DR;    *)
(* handing a byte out leaves it as it is.                                  *)
LEMMA ReceivedGrows ==
    ASSUME TypeOK
    PROVE  /\ board_uart_get => Received' = Received
           /\ Receive /\ ~(DataRead /\ Taken) => Received' = Received
           /\ Receive /\ DataRead /\ Taken => Received' = Append(Received, rdr)
  <1> DEFINE Ring == Content(rx_buffer, rx_head, rx_tail)
  <1>1. Buffer(rx_buffer, Nat) /\ rx_head \in Indices /\ rx_tail \in Indices
    BY DEF TypeOK, Buffer
  <1>2. Ring \in Seq(Nat) /\ got \in Seq(Nat) /\ rdr \in Nat
    BY <1>1, ContentIsSeq DEF TypeOK
  <1>3. ASSUME board_uart_get PROVE Received' = Received
    <2>1. /\ got' = Append(got, rx_buffer[rx_tail]) /\ rx_tail' = Wrapped(rx_tail + 1)
          /\ rx_head # rx_tail /\ UNCHANGED <<rx_buffer, rx_head>>
      BY <1>3 DEF board_uart_get
    <2>2. Ring # <<>> /\ Head(Ring) = rx_buffer[rx_tail] /\ Ring' = Tail(Ring)
      BY <1>1, <2>1, ReleaseTakes
    <2> HIDE DEF Ring
    <2>3. Append(got, Head(Ring)) \o Tail(Ring) = got \o Ring
      BY <1>2, <2>2, MoveHead
    <2> QED
      BY <2>1, <2>2, <2>3 DEF Received, Ring
  <1>4. ASSUME Receive, ~(DataRead /\ Taken) PROVE Received' = Received
    <2>1. CASE ~DataRead
      BY <1>4, <2>1 DEF Receive, Received
    <2>2. CASE DataRead
      <3>1. Damaged \/ RxFull
        BY <1>4, <2>2 DEF Receive, Taken, DataRead, Damaged
      <3> QED
        BY <1>4, <2>2, <3>1 DEF Receive, Store, Received
    <2> QED
      BY <2>1, <2>2
  <1>5. ASSUME Receive, DataRead, Taken PROVE Received' = Append(Received, rdr)
    <2>1. /\ rx_buffer' = [rx_buffer EXCEPT ![rx_head] = rdr]
          /\ rx_head' = Wrapped(rx_head + 1)
          /\ UNCHANGED <<rx_tail, got>>
      BY <1>5 DEF Receive, Store, Taken
    <2> DEFINE stored == [rx_buffer EXCEPT ![rx_head] = rdr]
    <2>2. Buffer(stored, Nat) /\ stored[rx_head] = rdr
      BY <1>1, <1>2 DEF Buffer
    <2>3. Wrapped(rx_head + 1) # rx_tail
      BY <1>5 DEF Taken, RxFull
    <2>4. Content(stored, rx_head, rx_tail) = Ring
      <3>1. \A i \in Indices \ {rx_head} : stored[i] = rx_buffer[i]
        BY <1>1 DEF Buffer
      <3> HIDE DEF stored
      <3> QED
        BY <1>1, <2>2, <3>1, StoreUnseen
    <2> HIDE DEF stored
    <2>5. Content(stored, Wrapped(rx_head + 1), rx_tail)
              = Append(Content(stored, rx_head, rx_tail), stored[rx_head])
      BY <1>1, <2>2, <2>3, PublishAppends
    <2>6. Ring' = Append(Ring, rdr)
      BY <2>1, <2>2, <2>4, <2>5 DEF stored
    <2> HIDE DEF Ring
    <2>7. got \o Append(Ring, rdr) = Append(got \o Ring, rdr)
      BY <1>2, AppendLast
    <2> QED
      BY <2>1, <2>6, <2>7 DEF Received, Ring
  <1> QED
    BY <1>3, <1>4, <1>5

(* The byte in DR is one that arrived, and its error is known: in the flag *)
(* that is still up, and in the SR that the handler has read.              *)
ByteKnown ==
    /\ rxne => rdr \in 1 .. arrived /\ (rdr \in broken => bad)
    /\ isr = "receive" /\ status.rxne => rxne /\ (rdr \in broken => status.bad)

(* It came after every byte received before.                               *)
ByteNew ==
    \A i \in 1 .. Len(Received) : Received[i] <= arrived /\ (rxne => Received[i] < rdr)

RxInv == ByteKnown /\ ByteNew /\ RxOrder /\ RxIntact

(* The next byte arrives.                                                  *)
LEMMA ArriveKeeps ==
    ASSUME TypeOK, RxInv, NEW damaged \in BOOLEAN, Arrive(damaged)
    PROVE  RxInv'
  <1> USE DEF RxInv
  <1>1. /\ arrived' = arrived + 1 /\ arrived \in Nat
        /\ broken' \subseteq broken \cup {arrived + 1}
        /\ damaged => broken' = broken \cup {arrived + 1}
        /\ ~damaged => broken' = broken
        /\ broken \subseteq 1 .. arrived
        /\ UNCHANGED <<rx_buffer, rx_head, rx_tail, got, isr, status>>
    BY DEF Arrive, TypeOK, rx_vars, isr_vars
  <1>2. Received' = Received /\ Received \in Seq(Nat)
    BY <1>1, ReceivedIsSeq DEF Received
  <1>3. RxOrder'
    BY <1>2 DEF RxOrder
  <1>4. \A i \in 1 .. Len(Received) : Received[i] \in Nat /\ Received[i] <= arrived
    BY <1>2 DEF ByteNew
  <1>5. RxIntact'
    BY <1>1, <1>2, <1>4 DEF RxIntact
  <1>6. CASE rxne
    <2>1. UNCHANGED <<rxne, rdr, bad>>
      BY <1>6 DEF Arrive
    <2>2. rdr \in 1 .. arrived /\ rdr \in 1 .. arrived'
      BY <1>1, <1>6 DEF ByteKnown
    <2>3. rdr \in broken' => rdr \in broken
      BY <1>1, <2>2
    <2>4. ByteKnown'
      BY <1>1, <2>1, <2>2, <2>3 DEF ByteKnown
    <2>5. ByteNew'
      BY <1>1, <1>2, <1>4, <2>1 DEF ByteNew
    <2> QED
      BY <1>3, <1>5, <2>4, <2>5
  <1>7. CASE ~rxne
    <2>1. rxne' = TRUE /\ rdr' = arrived + 1
      BY <1>7 DEF Arrive
    <2>2. damaged => bad'
      BY <1>7 DEF Arrive
    <2>3. arrived + 1 \notin broken
      BY <1>1
    <2>4. rdr' \in 1 .. arrived' /\ (rdr' \in broken' => bad')
      <3>1. rdr' \in 1 .. arrived'
        BY <1>1, <2>1
      <3>2. ASSUME rdr' \in broken' PROVE bad'
        <4>1. damaged
          BY <1>1, <2>1, <2>3, <3>2
        <4> QED
          BY <2>2, <4>1
      <3> QED
        BY <3>1, <3>2
    <2>5. ~(isr' = "receive" /\ status'.rxne)
      BY <1>1, <1>7 DEF ByteKnown
    <2>6. ByteKnown'
      BY <2>4, <2>5 DEF ByteKnown
    <2>7. ByteNew'
      BY <1>1, <1>2, <1>4, <2>1 DEF ByteNew
    <2> QED
      BY <1>3, <1>5, <2>6, <2>7
  <1> QED
    BY <1>6, <1>7

(* The handler takes the byte, or drops it.                                *)
LEMMA ReceiveKeeps ==
    ASSUME TypeOK, RxInv, Receive
    PROVE  RxInv'
  <1> USE DEF RxInv
  <1>1. isr = "receive" /\ isr' = "transmit" /\ UNCHANGED <<rdr, arrived, broken, status>>
    BY DEF Receive
  <1>2. Received \in Seq(Nat) /\ rdr \in Nat /\ arrived \in Nat
    BY ReceivedIsSeq DEF TypeOK
  <1>3. CASE DataRead /\ Taken
    <2>1. Received' = Append(Received, rdr) /\ rxne' = FALSE
      BY <1>3, ReceivedGrows DEF Receive
    <2>2. rxne /\ rdr \in 1 .. arrived /\ rdr \notin broken
      BY <1>1, <1>3 DEF ByteKnown, Taken, Damaged
    <2>3. /\ Len(Received') = Len(Received) + 1
          /\ Received'[Len(Received) + 1] = rdr
          /\ \A i \in 1 .. Len(Received) : Received'[i] = Received[i]
      BY <1>2, <2>1, AppendProperties
    <2>4. Len(Received) \in Nat /\ \A i \in 1 .. Len(Received) : Received[i] \in Nat
      BY <1>2, ElementOfSeq, LenProperties
    <2>5. ByteKnown'
      BY <1>1, <2>1 DEF ByteKnown
    <2>6. ByteNew'
      BY <1>1, <1>2, <2>1, <2>2, <2>3, <2>4 DEF ByteNew
    <2>7. RxOrder'
      <3> SUFFICES ASSUME NEW i \in 1 .. Len(Received'), NEW j \in 1 .. Len(Received'), i < j
                   PROVE  Received'[i] < Received'[j]
        BY DEF RxOrder
      <3>1. i \in 1 .. Len(Received) /\ Received'[i] = Received[i]
        BY <2>3, <2>4
      <3>2. CASE j = Len(Received) + 1
        BY <2>2, <2>3, <3>1, <3>2 DEF ByteNew
      <3>3. CASE j # Len(Received) + 1
        <4>1. j \in 1 .. Len(Received) /\ Received'[j] = Received[j]
          BY <2>3, <2>4, <3>3
        <4> QED
          BY <3>1, <4>1 DEF RxOrder
      <3> QED
        BY <3>2, <3>3
    <2>8. RxIntact'
      BY <1>1, <2>2, <2>3, <2>4 DEF RxIntact
    <2> QED
      BY <2>5, <2>6, <2>7, <2>8
  <1>4. CASE ~(DataRead /\ Taken)
    <2>1. Received' = Received
      BY <1>4, ReceivedGrows
    <2>2. rxne' => rxne /\ UNCHANGED bad
      BY DEF Receive
    <2> QED
      BY <1>1, <2>1, <2>2 DEF ByteKnown, ByteNew, RxOrder, RxIntact
  <1> QED
    BY <1>3, <1>4

(* The receive ring holds what came and was not lost, in order.            *)
THEOREM ReceiverInvariant == Spec => []RxInv
  <1>1. Init => RxInv
    <2> SUFFICES ASSUME Init PROVE RxInv
      OBVIOUS
    <2>1. 0 \in Indices
      BY RingAssumption DEF Indices
    <2>2. Used(rx_head, rx_tail) = 0
      BY <2>1, UsedRange DEF Init
    <2>3. Content(rx_buffer, rx_head, rx_tail) = <<>> /\ got = <<>>
      BY <2>2 DEF Content, Init
    <2>4. Received = <<>> /\ Len(Received) = 0
      BY <2>3 DEF Received
    <2> QED
      BY <2>4 DEF Init, RxInv, ByteKnown, ByteNew, RxOrder, RxIntact
  <1>2. TypeOK /\ RxInv /\ [Next]_vars => RxInv'
    <2> SUFFICES ASSUME TypeOK, RxInv, [Next]_vars PROVE RxInv'
      OBVIOUS
    <2>0. CASE UNCHANGED <<rx_vars, line_in_vars, isr_vars>>
      BY <2>0 DEF rx_vars, line_in_vars, isr_vars, RxInv, ByteKnown, ByteNew, RxOrder,
                  RxIntact, Received
    <2>1. ASSUME NEW length \in Lengths, board_uart_write(length) PROVE RxInv'
      BY <2>0, <2>1, WriteCases
    <2>2. CASE board_uart_get
      <3>1. Received' = Received
        BY <2>2, ReceivedGrows
      <3> QED
        BY <2>2, <3>1 DEF board_uart_get, line_in_vars, isr_vars, RxInv, ByteKnown, ByteNew,
                          RxOrder, RxIntact
    <2>3. ASSUME NEW damaged \in BOOLEAN, Arrive(damaged) PROVE RxInv'
      BY <2>3, ArriveKeeps
    <2>4. CASE ShiftOut
      BY <2>0, <2>4 DEF ShiftOut
    <2>5. CASE ReadStatus
      <3>1. /\ status'.rxne = rxne /\ status'.bad = bad
            /\ UNCHANGED <<rx_vars, line_in_vars>>
        BY <2>5 DEF ReadStatus
      <3> QED
        BY <3>1 DEF rx_vars, line_in_vars, RxInv, ByteKnown, ByteNew, RxOrder, RxIntact,
                    Received
    <2>6. CASE Receive
      BY <2>6, ReceiveKeeps
    <2>7. CASE Transmit
      <3>1. isr' = "idle" /\ UNCHANGED <<rx_vars, line_in_vars>>
        BY <2>7 DEF Transmit
      <3> QED
        BY <3>1 DEF rx_vars, line_in_vars, RxInv, ByteKnown, ByteNew, RxOrder, RxIntact,
                    Received
    <2>8. CASE UNCHANGED vars
      BY <2>0, <2>8 DEF vars
    <2> QED
      BY <2>1, <2>2, <2>3, <2>4, <2>5, <2>6, <2>7, <2>8 DEF Next
  <1> QED
    BY <1>1, <1>2, TypeCorrect, PTL DEF Spec

(* Received bytes are handed out in order and once.                        *)
THEOREM BytesInOrder == Spec => []RxOrder
  BY ReceiverInvariant, PTL DEF RxInv

(* No byte that arrived with an error is handed out.                       *)
THEOREM BytesIntact == Spec => []RxIntact
  BY ReceiverInvariant, PTL DEF RxInv
-----------------------------------------------------------------------------
(* Losses.                                                                 *)

Silent == rx_errors = 0 /\ rx_dropped_bytes = 0 /\ ~ore /\ ~bad

(* A step that leaves everything silent began so.                          *)
LEMMA SilentBefore == TypeOK /\ [Next]_vars /\ Silent' => Silent
  <1> SUFFICES ASSUME TypeOK, [Next]_vars, Silent' PROVE Silent
    OBVIOUS
  <1> USE DEF Silent, rx_vars, line_in_vars
  <1>1. ASSUME NEW length \in Lengths, board_uart_write(length) PROVE Silent
    BY <1>1, WriteCases
  <1>2. CASE board_uart_get
    BY <1>2 DEF board_uart_get
  <1>3. ASSUME NEW damaged \in BOOLEAN, Arrive(damaged) PROVE Silent
    <2>1. UNCHANGED rx_vars
      BY <1>3 DEF Arrive
    <2>2. ~rxne /\ ~ore
      BY <1>3 DEF Arrive
    <2>3. bad => bad'
      BY <1>3, <2>2, Zenon DEF Arrive
    <2> QED
      BY <2>1, <2>2, <2>3
  <1>4. CASE ShiftOut
    BY <1>4 DEF ShiftOut
  <1>5. CASE ReadStatus
    BY <1>5 DEF ReadStatus
  <1>6. CASE Receive
    <2>1. CASE ~DataRead
      BY <1>6, <2>1 DEF Receive
    <2>2. CASE DataRead /\ Damaged
      <3>1. rx_errors' = rx_errors + 1
        BY <1>6, <2>2 DEF Receive, Store
      <3> QED
        BY <3>1 DEF TypeOK
    <2>3. CASE DataRead /\ ~Damaged
      <3>1. ~status.ore /\ ~status.bad
        BY <2>3 DEF Damaged
      <3>2. ~ore /\ ~bad
        BY <1>6, <2>3, <3>1, Zenon DEF Receive
      <3>3. ~RxFull
        BY <1>6, <2>3 DEF Receive, Store, TypeOK
      <3> QED
        BY <1>6, <2>3, <3>2, <3>3 DEF Receive, Store
    <2> QED
      BY <2>1, <2>2, <2>3
  <1>7. CASE Transmit
    BY <1>7 DEF Transmit
  <1>8. CASE UNCHANGED vars
    BY <1>8 DEF vars
  <1> QED
    BY <1>1, <1>2, <1>3, <1>4, <1>5, <1>6, <1>7, <1>8 DEF Next

(* No byte is lost without a trace.                                        *)
THEOREM LossesCounted == Spec => []RxLossCounted
  <1> DEFINE Arrivals == [i \in 1 .. arrived |-> i]
  <1>1. Init => RxLossCounted
    <2> SUFFICES ASSUME Init PROVE RxLossCounted
      OBVIOUS
    <2>1. 0 \in Indices
      BY RingAssumption DEF Indices
    <2>2. Used(rx_head, rx_tail) = 0
      BY <2>1, UsedRange DEF Init
    <2>3. Received = <<>> \o <<>> /\ InReceiver = <<>>
      BY <2>2 DEF Content, Init, Received, InReceiver
    <2>4. arrived = 0
      BY DEF Init
    <2>5. Arrivals = <<>>
      BY <2>4
    <2> QED
      BY <2>3, <2>5 DEF RxLossCounted
  <1>2. TypeOK /\ RxInv /\ RxLossCounted /\ [Next]_vars => RxLossCounted'
    <2> SUFFICES ASSUME TypeOK, RxInv, RxLossCounted, [Next]_vars, Silent'
                 PROVE  (Received \o InReceiver = Arrivals)'
      BY DEF RxLossCounted, Silent
    <2>0. Silent
      BY SilentBefore
    <2>1. Received \o InReceiver = Arrivals
      BY <2>0 DEF RxLossCounted, Silent
    <2>2. Received \in Seq(Nat) /\ rdr \in Nat /\ arrived \in Nat
      BY ReceivedIsSeq DEF TypeOK
    <2>3. CASE Received' = Received /\ UNCHANGED <<rxne, rdr, arrived>>
      BY <2>1, <2>3 DEF InReceiver
    <2>4. ASSUME NEW length \in Lengths, board_uart_write(length)
          PROVE  (Received \o InReceiver = Arrivals)'
      BY <2>3, <2>4, WriteCases DEF rx_vars, line_in_vars, Received
    <2>5. CASE board_uart_get
      BY <2>3, <2>5, ReceivedGrows DEF board_uart_get, line_in_vars
    <2>6. ASSUME NEW damaged \in BOOLEAN, Arrive(damaged)
          PROVE  (Received \o InReceiver = Arrivals)'
      <3>1. ~rxne /\ rxne' /\ rdr' = arrived + 1 /\ arrived' = arrived + 1
        BY <2>6 DEF Arrive, Silent
      <3>2. Received' = Received
        BY <2>6 DEF Arrive, rx_vars, Received
      <3>3. InReceiver = <<>> /\ InReceiver' = <<arrived + 1>>
        BY <3>1 DEF InReceiver
      <3>4. Received = [i \in 1 .. arrived |-> i]
        BY <2>1, <2>2, <3>3
      <3>5. [i \in 1 .. arrived |-> i] \o <<arrived + 1>> = [i \in 1 .. arrived + 1 |-> i]
        BY <2>2
      <3> QED
        BY <3>1, <3>2, <3>3, <3>4, <3>5
    <2>7. CASE Receive
      <3>1. CASE ~DataRead
        <4>1. UNCHANGED <<rxne, rdr, arrived>>
          BY <2>7, <3>1 DEF Receive
        <4> QED
          BY <2>3, <2>7, <3>1, <4>1, ReceivedGrows
      <3>2. CASE DataRead
        <4>1. ~Damaged
          <5>1. Damaged => rx_errors' = rx_errors + 1
            BY <2>7, <3>2 DEF Receive, Store
          <5> QED
            BY <5>1 DEF Silent, TypeOK
        <4>2. ~RxFull
          BY <2>7, <3>2, <4>1 DEF Receive, Store, Silent, TypeOK
        <4>3. Taken /\ rxne
          BY <2>7, <3>2, <4>1, <4>2
             DEF Receive, Taken, DataRead, Damaged, RxInv, ByteKnown
        <4>4. Received' = Append(Received, rdr)
          BY <2>7, <3>2, <4>3, ReceivedGrows
        <4>5. InReceiver = <<rdr>> /\ InReceiver' = <<>> /\ arrived' = arrived
          BY <2>7, <3>2, <4>3 DEF Receive, InReceiver
        <4>6. Append(Received, rdr) \o <<>> = Received \o <<rdr>>
          BY <2>2
        <4> QED
          BY <2>1, <4>4, <4>5, <4>6
      <3> QED
        BY <3>1, <3>2
    <2>8. CASE ShiftOut \/ ReadStatus \/ Transmit \/ UNCHANGED vars
      <3>1. UNCHANGED <<rx_vars, line_in_vars>>
        BY <2>8 DEF ShiftOut, ReadStatus, Transmit, vars
      <3> QED
        BY <2>3, <3>1 DEF rx_vars, line_in_vars, Received
    <2> QED
      BY <2>4, <2>5, <2>6, <2>7, <2>8 DEF Next
  <1> QED
    BY <1>1, <1>2, TypeCorrect, ReceiverInvariant, PTL DEF Spec

-----------------------------------------------------------------------------
(* SpscRing.  The ring is a queue, for every size and every interleaving   *)
(* of its two sides.                                                       *)

(* Type correctness.                                                       *)
THEOREM SpscTypeCorrect == SpscSpec => []SpscTypeOK
  <1>1. SpscInit => SpscTypeOK
    <2> SUFFICES ASSUME SpscInit PROVE SpscTypeOK
      OBVIOUS
    <2>1. g_head \in Indices /\ g_tail \in Indices /\ promised \in 0 .. Size - 1
      BY RingAssumption DEF SpscInit, Indices
    <2>2. g_ring_buf \in [Indices -> Slots]
      BY DEF SpscInit, Slots
    <2> QED
      BY <2>1, <2>2 DEF SpscInit, SpscTypeOK, Slots
  <1>2. SpscTypeOK /\ [SpscNext]_spsc_vars => SpscTypeOK'
    <2> SUFFICES ASSUME SpscTypeOK, [SpscNext]_spsc_vars PROVE SpscTypeOK'
      OBVIOUS
    <2> USE DEF SpscTypeOK, Slots, usart_vars, producer_vars, consumer_vars
    <2>1. CASE ByteArrives \/ UART_SendChar
      BY <2>1 DEF ByteArrives, UART_SendChar
    <2>2. CASE USART1_IRQHandler
      BY <2>2 DEF USART1_IRQHandler
    <2>3. CASE TestFull
      BY <2>3 DEF TestFull
    <2>4. CASE Write
      <3>1. next_head \in Indices
        BY NextIs DEF next_head
      <3> QED
        BY <2>4, <3>1 DEF Write, StoreByte
    <2>5. CASE ClearFlag
      BY <2>5 DEF ClearFlag
    <2>6. CASE TestEmpty
      BY <2>6 DEF TestEmpty
    <2>7. CASE Copy
      BY <2>7 DEF Copy
    <2>8. CASE Release
      <3>1. g_tail' \in Indices
        BY <2>8, NextIs DEF Release
      <3>2. promised' \in 0 .. Size - 1
        BY <2>8, RingAssumption DEF Release
      <3> QED
        BY <2>8, <3>1, <3>2 DEF Release
    <2>9. CASE RingBuf_GetCount
      <3>1. Count \in 0 .. Size - 1
        BY UsedRange DEF Count, Used
      <3> QED
        BY <2>9, <3>1 DEF RingBuf_GetCount
    <2>10. CASE UNCHANGED spsc_vars
      BY <2>10 DEF spsc_vars
    <2> QED
      BY <2>1, <2>2, <2>3, <2>4, <2>5, <2>6, <2>7, <2>8, <2>9, <2>10
         DEF SpscNext, Producer, Consumer
  <1> QED
    BY <1>1, <1>2, PTL DEF SpscSpec

(* What each side knows between its test and its last access: the writer   *)
(* has room, and its byte is in place before the head moves; the reader    *)
(* has a byte, and holds the oldest one before the tail moves.             *)
WriterInv ==
    /\ ppc \in {"store", "publish"} => next_head # g_tail
    /\ ppc = "publish" => g_ring_buf[g_head] = rx_char
ReaderInv ==
    /\ cpc \in {"copy", "release"} => g_head # g_tail
    /\ cpc = "release" => c = g_ring_buf[g_tail]
RingInv == WriterInv /\ ReaderInv /\ CountReadable

(* A step of the writer, or of the reader, preserves what both know.       *)
LEMMA WriterKeeps ==
    ASSUME SpscTypeOK, RingInv, ByteArrives \/ UART_SendChar \/ Producer
    PROVE  RingInv'
  <1> USE DEF SpscTypeOK, RingInv, WriterInv, ReaderInv, CountReadable, usart_vars,
          producer_vars, consumer_vars, next_head
  <1>1. CASE ByteArrives \/ UART_SendChar
    BY <1>1 DEF ByteArrives, UART_SendChar
  <1>2. CASE USART1_IRQHandler
    BY <1>2 DEF USART1_IRQHandler
  <1>3. CASE TestFull
    BY <1>3 DEF TestFull, Full
  <1>4. CASE ClearFlag
    BY <1>4 DEF ClearFlag
  <1>5. CASE Write /\ ppc = "store"
    <2>1. /\ g_ring_buf' = [g_ring_buf EXCEPT ![g_head] = rx_char]
          /\ ppc' = "publish"
          /\ UNCHANGED <<g_head, g_tail, rx_char, cpc, c, promised>>
      BY <1>5 DEF Write, StoreByte
    <2>2. g_ring_buf'[g_head'] = rx_char'
      BY <2>1
    <2>3. g_head # g_tail => g_ring_buf'[g_tail] = g_ring_buf[g_tail]
      BY <2>1
    <2> QED
      BY <1>5, <2>1, <2>2, <2>3
  <1>6. CASE Write /\ ppc = "publish"
    <2>1. /\ g_head' = Wrapped(g_head + 1) /\ ppc' = "clear"
          /\ UNCHANGED <<g_ring_buf, g_tail, cpc, c, promised>>
      BY <1>6 DEF Write, StoreByte
    <2>2. g_head' # g_tail
      BY <1>6, <2>1
    <2>3. Used(g_head', g_tail) = Used(g_head, g_tail) + 1 /\ Used(g_head, g_tail) \in Nat
      BY <2>1, <2>2, HeadMoves, UsedRange
    <2>4. (promised <= Used(g_head, g_tail))'
      BY <2>1, <2>3
    <2> QED
      BY <2>1, <2>2, <2>4
  <1> QED
    BY <1>1, <1>2, <1>3, <1>4, <1>5, <1>6 DEF Producer, Write, StoreByte

(* No step of the main loop breaks what ties its copies to the indices.    *)
LEMMA ReaderKeeps ==
    ASSUME SpscTypeOK, RingInv, Consumer
    PROVE  RingInv'
  <1> USE DEF SpscTypeOK, RingInv, WriterInv, ReaderInv, CountReadable, usart_vars,
          producer_vars, consumer_vars, next_head
  <1>1. CASE TestEmpty
    BY <1>1 DEF TestEmpty
  <1>2. CASE Copy
    BY <1>2 DEF Copy
  <1>3. CASE RingBuf_GetCount
    BY <1>3, UsedRange DEF RingBuf_GetCount, Count
  <1>4. CASE Release
    <2>1. /\ g_tail' = Wrapped(g_tail + 1) /\ cpc' = "idle"
          /\ promised' = IF promised = 0 THEN 0 ELSE promised - 1
          /\ UNCHANGED <<g_ring_buf, g_head, ppc, rx_char>>
      BY <1>4 DEF Release
    <2>2. g_head # g_tail
      BY <1>4 DEF Release
    <2>3. Used(g_head, g_tail') = Used(g_head, g_tail) - 1
      BY <2>1, <2>2, TailMoves
    <2>4. Used(g_head, g_tail) \in 0 .. Size - 1 /\ Used(g_head, g_tail) # 0
      BY <2>2, UsedRange
    <2>5. (promised <= Used(g_head, g_tail))'
      BY <2>1, <2>3, <2>4, RingAssumption
    <2>6. Wrapped(g_head + 1) # g_tail'
      <3>1. Wrapped(g_head + 1) = IF g_head + 1 = Size THEN 0 ELSE g_head + 1
        BY NextIs
      <3>2. g_tail' = IF g_tail + 1 = Size THEN 0 ELSE g_tail + 1
        BY <2>1, NextIs
      <3> QED
        BY <2>2, <3>1, <3>2, RingAssumption DEF Indices
    <2> QED
      BY <2>1, <2>5, <2>6
  <1> QED
    BY <1>1, <1>2, <1>3, <1>4 DEF Consumer

(* The ring keeps its order whatever the interleaving.                     *)
THEOREM SpscInvariant == SpscSpec => [](SpscTypeOK /\ RingInv)
  <1>1. SpscInit => RingInv
    <2> SUFFICES ASSUME SpscInit PROVE RingInv
      OBVIOUS
    <2>1. 0 \in Indices
      BY RingAssumption DEF Indices
    <2>2. Used(0, 0) = 0
      BY <2>1, UsedRange
    <2> QED
      BY <2>2 DEF SpscInit, RingInv, WriterInv, ReaderInv, CountReadable
  <1>2. SpscTypeOK /\ RingInv /\ [SpscNext]_spsc_vars => RingInv'
    <2>1. SpscTypeOK /\ RingInv /\ SpscNext => RingInv'
      BY WriterKeeps, ReaderKeeps DEF SpscNext
    <2>2. RingInv /\ UNCHANGED spsc_vars => RingInv'
      BY DEF spsc_vars, usart_vars, producer_vars, consumer_vars, RingInv, WriterInv, ReaderInv,
             CountReadable, next_head
    <2> QED
      BY <2>1, <2>2
  <1> QED
    BY <1>1, <1>2, SpscTypeCorrect, PTL DEF SpscSpec

(* A count is a promise to the reader, whatever the handler does meanwhile.*)
THEOREM CountsAreReadable == SpscSpec => []CountReadable
  BY SpscInvariant, PTL DEF RingInv

-----------------------------------------------------------------------------
(* Refinement.                                                             *)

(* Every step of the two sides is a step of the queue, or none.            *)
LEMMA StepIsQueueStep ==
    ASSUME SpscTypeOK, RingInv, SpscNext
    PROVE  [Queue!Next]_(Queue!vars)
  <1> DEFINE content == Content(g_ring_buf, g_head, g_tail)
  <1>0. Unread = content /\ Unread' = content'
    BY DEF Unread
  <1>b. Buffer(g_ring_buf, Slots)
    BY DEF SpscTypeOK, Buffer
  <1>c. UNCHANGED <<ppc, rx_char>> => UNCHANGED Offered
    BY DEF Offered
  <1> USE DEF Queue!Next, Queue!vars, usart_vars, producer_vars, consumer_vars
  <1>1. CASE UNCHANGED <<g_ring_buf, g_head, g_tail, written, answer, Offered>>
    BY <1>0, <1>1
  <1>2. CASE TestFull
    <2>1. CASE Full
      <3>1. Used(g_head, g_tail) = Size - 1
        BY <2>1, UsedRange DEF Full, next_head, SpscTypeOK
      <3>2. Len(content) = Size - 1
        BY <3>1, <1>b, ContentIsSeq DEF SpscTypeOK
      <3>3. written' = "refused" /\ UNCHANGED <<g_ring_buf, g_head, g_tail, answer>>
        BY <1>2, <2>1 DEF TestFull
      <3>4. Offered # Nothing /\ Offered' = Nothing
        BY <1>2, <2>1, NothingAssumption DEF TestFull, Offered, SpscTypeOK
      <3>5. Queue!Refuse
        BY <1>0, <3>2, <3>3, <3>4 DEF Queue!Refuse
      <3> QED
        BY <3>5
    <2>2. CASE ~Full
      <3>1. UNCHANGED Offered
        BY <1>2, <2>2 DEF TestFull, Offered
      <3> QED
        BY <1>1, <1>2, <2>2, <3>1 DEF TestFull
    <2> QED
      BY <2>1, <2>2
  <1>3. CASE Write /\ ppc = "store"
    <2>1. /\ g_ring_buf' = [g_ring_buf EXCEPT ![g_head] = rx_char]
          /\ UNCHANGED <<g_head, g_tail, written, answer>>
      BY <1>3 DEF Write, StoreByte
    <2>2. content' = content
      <3> DEFINE stored == [g_ring_buf EXCEPT ![g_head] = rx_char]
      <3>1. /\ g_head \in Indices /\ g_tail \in Indices /\ Buffer(stored, Slots)
            /\ \A i \in Indices \ {g_head} : stored[i] = g_ring_buf[i]
        BY DEF SpscTypeOK, Buffer
      <3> HIDE DEF stored
      <3>2. Content(stored, g_head, g_tail) = content
        BY <1>b, <3>1, StoreUnseen
      <3> QED
        BY <2>1, <3>2 DEF stored
    <2>3. UNCHANGED Offered
      BY <1>3 DEF Write, StoreByte, Offered
    <2> QED
      BY <1>0, <2>1, <2>2, <2>3
  <1>4. CASE Write /\ ppc = "publish"
    <2>1. /\ g_head' = Wrapped(g_head + 1) /\ written' = "stored"
          /\ UNCHANGED <<g_ring_buf, g_tail, answer>>
      BY <1>4 DEF Write, StoreByte, next_head
    <2>2. Wrapped(g_head + 1) # g_tail /\ g_ring_buf[g_head] = rx_char /\ rx_char \in Chars
      BY <1>4 DEF RingInv, WriterInv, SpscTypeOK, next_head
    <2>3. content' = Append(content, rx_char)
      BY <2>1, <2>2, <1>b, PublishAppends DEF SpscTypeOK
    <2>4. Len(content) < Size - 1
      <3>1. Used(g_head, g_tail) \in 0 .. Size - 1 /\ Used(g_head, g_tail) # Size - 1
        BY <2>2, UsedRange DEF SpscTypeOK
      <3>2. Len(content) = Used(g_head, g_tail)
        BY <1>b, ContentIsSeq DEF SpscTypeOK
      <3> QED
        BY <3>1, <3>2, RingAssumption
    <2>5. Offered = rx_char /\ Offered' = Nothing
      BY <1>4 DEF Write, StoreByte, Offered
    <2>6. Queue!Put
      BY <1>0, <2>1, <2>2, <2>3, <2>4, <2>5, NothingAssumption DEF Queue!Put
    <2> QED
      BY <2>6
  <1>5. CASE TestEmpty
    <2>1. CASE g_head = g_tail
      <3>1. Len(content) = 0 /\ content \in Seq(Slots)
        BY <2>1, UsedRange, <1>b, ContentIsSeq DEF SpscTypeOK
      <3>2. content = <<>>
        BY <3>1
      <3>3. answer' = Nothing /\ UNCHANGED <<g_ring_buf, g_head, g_tail, written, Offered>>
        BY <1>5, <1>c, <2>1 DEF TestEmpty
      <3>4. Queue!Miss
        BY <1>0, <3>2, <3>3 DEF Queue!Miss
      <3> QED
        BY <3>4
    <2>2. CASE g_head # g_tail
      BY <1>1, <1>5, <1>c, <2>2 DEF TestEmpty
    <2> QED
      BY <2>1, <2>2
  <1>6. CASE Release
    <2>1. /\ g_tail' = Wrapped(g_tail + 1) /\ answer' = c
          /\ UNCHANGED <<g_ring_buf, g_head, written, Offered>>
      BY <1>6, <1>c DEF Release
    <2>2. g_head # g_tail /\ c = g_ring_buf[g_tail]
      BY <1>6 DEF Release, RingInv, ReaderInv
    <2>3. content # <<>> /\ Head(content) = c /\ content' = Tail(content)
      BY <2>1, <2>2, <1>b, ReleaseTakes DEF SpscTypeOK
    <2>4. Queue!Take
      BY <1>0, <2>1, <2>3 DEF Queue!Take
    <2> QED
      BY <2>4
  <1>7. CASE USART1_IRQHandler
    <2>1. Offered = Nothing /\ Offered' \in Chars
      BY <1>7 DEF USART1_IRQHandler, Offered, SpscTypeOK
    <2>2. Queue!Offer
      BY <1>0, <1>7, <2>1 DEF USART1_IRQHandler, Queue!Offer
    <2> QED
      BY <2>2
  <1>8. CASE ClearFlag
    <2>1. UNCHANGED Offered
      BY <1>8 DEF ClearFlag, Offered
    <2> QED
      BY <1>1, <1>8, <2>1 DEF ClearFlag
  <1>9. CASE ByteArrives \/ UART_SendChar \/ Copy \/ RingBuf_GetCount
    BY <1>1, <1>9, <1>c DEF ByteArrives, UART_SendChar, Copy, RingBuf_GetCount
  <1> QED
    BY <1>2, <1>3, <1>4, <1>5, <1>6, <1>7, <1>8, <1>9 DEF SpscNext, Producer, Consumer, Write, StoreByte

(* The ring implements the queue, for every size and any bytes.            *)
THEOREM RingImplementsByteQueue == SpscSpec => ImplementsByteQueue
  <1>1. SpscInit => Queue!Init
    <2> SUFFICES ASSUME SpscInit PROVE Queue!Init
      OBVIOUS
    <2>1. 0 \in Indices
      BY RingAssumption DEF Indices
    <2>2. Used(g_head, g_tail) = 0
      BY <2>1, UsedRange DEF SpscInit
    <2>3. Unread = <<>>
      BY <2>2 DEF Unread, Content
    <2> QED
      BY <2>3 DEF SpscInit, Queue!Init, Offered
  <1>2. SpscTypeOK /\ RingInv /\ [SpscNext]_spsc_vars => [Queue!Next]_(Queue!vars)
    <2>1. UNCHANGED spsc_vars => UNCHANGED Queue!vars
      BY DEF spsc_vars, usart_vars, producer_vars, consumer_vars, Queue!vars, Unread,
             Offered
    <2> QED
      BY <2>1, StepIsQueueStep
  <1> QED
    BY <1>1, <1>2, SpscInvariant, PTL DEF SpscSpec, ImplementsByteQueue, Queue!Spec
===============================================================================
