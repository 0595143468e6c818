--------------------------------- MODULE Ring ---------------------------------
(***************************************************************************)
(* What the rings of both programs (board.c and uart_ringbuf.c) have in    *)
(* common: a head that is the next slot to fill, a tail that is the oldest *)
(* slot filled, and indices that are masked to the size.                   *)
(***************************************************************************)
EXTENDS Integers, Sequences

CONSTANT Size   \* UART_SIZE (512), RING_BUF_SIZE (256): powers of two

ASSUME RingAssumption == Size \in Nat /\ Size > 1

Indices == 0 .. Size - 1

(* index & (Size - 1).                                                     *)
Wrapped_OffByOne(index) == index % (Size + 1)
Wrapped(index) == index % Size

Used(head, tail) == Wrapped(head - tail)

(* The slot of the i-th byte.                                              *)
Slot(tail, i) == Wrapped(tail + i - 1)

(* What a ring holds, oldest first.                                        *)
Content(buffer, head, tail) ==
    [i \in 1 .. Used(head, tail) |-> buffer[Slot(tail, i)]]
=============================================================================
