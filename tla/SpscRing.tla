------------------------------ MODULE SpscRing ------------------------------
(***************************************************************************)
(* The receive ring of the host simulation (uart_ringbuf.c): the handler   *)
(* of USART1 writes and one thread reads, with nothing but the two atomic  *)
(* indices between them.                                                   *)
(*                                                                         *)
(* An action is an access to what both sides use; an index that only the   *)
(* acting side writes is read along with it.  The atomics are sequentially *)
(* consistent and order the accesses to the slots, which are not atomic.   *)
(* A byte may arrive at any moment, also during the handler, and the main  *)
(* loop may log.  The baud rate, the other control bits and the poll of    *)
(* TXE, which the mock answers at once, are left out, and so is the guard  *)
(* against a null pointer.                                                 *)
(*                                                                         *)
(* A definition with a suffix (Full_OneEarly) is a slip of the one it      *)
(* precedes.  No specification uses it: it stands beside the right one to  *)
(* show which property notices it.                                         *)
(***************************************************************************)
EXTENDS Ring

CONSTANTS
    Chars,
    Nothing     \* no byte

ASSUME NothingAssumption == Nothing \notin Chars

VARIABLES
    usart1_dr, usart1_rxne, \* USART1: data register, and whether it was filled
    g_ring_buf, g_head, g_tail,
    ppc, rx_char,           \* the handler: its next step, and its byte
    written,                \* history: what became of it
    cpc, c,                 \* RingBuf_Read: its next step, and *c
    answer,                 \* history: its answer
    promised                \* history: the last count, less what was read since

usart_vars == <<usart1_dr, usart1_rxne>>
producer_vars == <<ppc, rx_char, written>>
consumer_vars == <<cpc, c, answer, promised>>
spsc_vars == <<usart_vars, g_ring_buf, g_head, g_tail, producer_vars, consumer_vars>>

Slots == Chars \cup {Nothing}

SpscTypeOK ==
    /\ usart1_dr \in Slots /\ usart1_rxne \in BOOLEAN /\ (usart1_rxne => usart1_dr \in Chars)
    /\ g_ring_buf \in [Indices -> Slots]
    /\ g_head \in Indices /\ g_tail \in Indices
    /\ ppc \in {"idle", "test", "store", "publish", "clear"}
    /\ rx_char \in Slots /\ (ppc # "idle" => rx_char \in Chars)
    /\ written \in {"stored", "refused"}
    /\ cpc \in {"idle", "copy", "release"}
    /\ c \in Slots /\ answer \in Slots
    /\ promised \in 0 .. Size - 1

SpscInit ==
    /\ usart1_dr = Nothing /\ usart1_rxne = FALSE
    /\ g_ring_buf = [i \in Indices |-> Nothing]
    /\ g_head = 0 /\ g_tail = 0
    /\ ppc = "idle" /\ rx_char = Nothing /\ written = "stored"
    /\ cpc = "idle" /\ c = Nothing /\ answer = Nothing
    /\ promised = 0

-----------------------------------------------------------------------------
(* USART1 and its handler, which calls RingBuf_Write.                      *)

ByteArrives ==
    /\ \E char \in Chars : usart1_dr' = char
    /\ usart1_rxne' = TRUE
    /\ UNCHANGED <<g_ring_buf, g_head, g_tail, producer_vars, consumer_vars>>

(* The mock has one DR for both directions.                                *)
UART_SendChar ==
    /\ \E char \in Chars : usart1_dr' = char
    /\ UNCHANGED <<usart1_rxne, g_ring_buf, g_head, g_tail, producer_vars, consumer_vars>>

(* A byte in DR when the flag is set.                                      *)
USART1_IRQHandler ==
    /\ ppc = "idle" /\ usart1_rxne
    /\ rx_char' = usart1_dr
    /\ ppc' = "test"
    /\ UNCHANGED <<usart_vars, g_ring_buf, g_head, g_tail, written, consumer_vars>>

next_head_OffByOne == (g_head + 1) % (Size + 1)
next_head == Wrapped(g_head + 1)

(* One slot of the ring stays free.                                        *)
Full_OneEarly == Wrapped(g_head + 2) = g_tail
Full == next_head = g_tail

TestFull ==
    /\ ppc = "test"
    /\ IF Full THEN ppc' = "clear" /\ written' = "refused"
               ELSE ppc' = "store" /\ UNCHANGED written
    /\ UNCHANGED <<usart_vars, g_ring_buf, g_head, g_tail, rx_char, consumer_vars>>

StoreByte_HeadFirst ==
    \/ /\ ppc = "store"
       /\ g_head' = next_head
       /\ ppc' = "publish" /\ written' = "stored"
       /\ UNCHANGED g_ring_buf
    \/ /\ ppc = "publish"
       /\ g_ring_buf' = [g_ring_buf EXCEPT ![Wrapped(g_head - 1)] = rx_char]
       /\ ppc' = "clear"
       /\ UNCHANGED <<g_head, written>>

(* The byte first, then the index.                                         *)
StoreByte ==
    \/ /\ ppc = "store"
       /\ g_ring_buf' = [g_ring_buf EXCEPT ![g_head] = rx_char]
       /\ ppc' = "publish"
       /\ UNCHANGED <<g_head, written>>
    \/ /\ ppc = "publish"
       /\ g_head' = next_head
       /\ ppc' = "clear" /\ written' = "stored"
       /\ UNCHANGED g_ring_buf

Write ==
    /\ StoreByte
    /\ UNCHANGED <<usart_vars, g_tail, rx_char, consumer_vars>>

(* A byte that arrived meanwhile goes with the flag.                       *)
ClearFlag ==
    /\ ppc = "clear"
    /\ usart1_rxne' = FALSE
    /\ ppc' = "idle"
    /\ UNCHANGED <<usart1_dr, g_ring_buf, g_head, g_tail, rx_char, written, consumer_vars>>

-----------------------------------------------------------------------------
(* RingBuf_Read and RingBuf_GetCount, called by the reading thread.        *)

TestEmpty ==
    /\ cpc = "idle"
    /\ IF g_head = g_tail THEN answer' = Nothing /\ UNCHANGED cpc
                          ELSE cpc' = "copy" /\ UNCHANGED answer
    /\ UNCHANGED <<usart_vars, g_ring_buf, g_head, g_tail, producer_vars, c, promised>>

Copy ==
    /\ cpc = "copy"
    /\ c' = g_ring_buf[g_tail]
    /\ cpc' = "release"
    /\ UNCHANGED <<usart_vars, g_ring_buf, g_head, g_tail, producer_vars, answer, promised>>

Release ==
    /\ cpc = "release"
    /\ g_tail' = Wrapped(g_tail + 1)
    /\ answer' = c
    /\ cpc' = "idle"
    /\ promised' = IF promised = 0 THEN 0 ELSE promised - 1
    /\ UNCHANGED <<usart_vars, g_ring_buf, g_head, producer_vars, c>>

Count_FromTail == Used(g_tail, g_head)
Count == Used(g_head, g_tail)

RingBuf_GetCount ==
    /\ cpc = "idle"
    /\ promised' = Count
    /\ UNCHANGED <<usart_vars, g_ring_buf, g_head, g_tail, producer_vars, cpc, c, answer>>

-----------------------------------------------------------------------------
Producer == USART1_IRQHandler \/ TestFull \/ Write \/ ClearFlag
Consumer == TestEmpty \/ Copy \/ Release \/ RingBuf_GetCount

SpscNext == ByteArrives \/ UART_SendChar \/ Producer \/ Consumer

SpscSpec == SpscInit /\ [][SpscNext]_spsc_vars

-----------------------------------------------------------------------------
(* Properties.                                                             *)

(* The reader may rely on a count: as many bytes can be read, whatever the *)
(* handler does in between (uart_ringbuf.c:70-72).                         *)
CountReadable == promised <= Used(g_head, g_tail)

(* The bytes from the tail to the head, oldest first.                      *)
Unread == Content(g_ring_buf, g_head, g_tail)

(* The handler's byte, from its call of RingBuf_Write until it is known    *)
(* what becomes of it.                                                     *)
Offered == IF ppc \in {"test", "store", "publish"} THEN rx_char ELSE Nothing

Queue == INSTANCE ByteQueue WITH
    Capacity <- Size - 1, queue <- Unread, offered <- Offered, got <- answer

(* The ring is a queue of Size - 1 bytes although its two sides interleave *)
(* access by access: the byte that the handler received is stored once or  *)
(* refused, and no byte is read before it is there, overwritten before it  *)
(* is read, read twice or refused for want of room there is                *)
(* (uart_ringbuf.c:38-65, 81-85).                                          *)
ImplementsByteQueue == Queue!Spec
=============================================================================
