------------------------------ MODULE ByteQueue ------------------------------
(***************************************************************************)
(* What a receive ring promises its two users: a bounded queue.  A byte    *)
(* that is offered is stored once or refused, and refused only if the      *)
(* queue is full; nothing is answered only if it is empty, and what is     *)
(* read is the oldest byte stored.                                         *)
(***************************************************************************)
EXTENDS Naturals, Sequences

CONSTANTS
    Chars,
    Capacity,
    Nothing     \* no byte: the answer of an empty queue

VARIABLES
    queue,      \* oldest first
    offered,    \* the byte to be written next
    written,    \* what became of the last byte written
    got         \* what the last read answered

vars == <<queue, offered, written, got>>

Init ==
    /\ queue = <<>>
    /\ offered = Nothing
    /\ written = "stored"
    /\ got = Nothing

Offer ==
    /\ offered = Nothing
    /\ offered' \in Chars
    /\ UNCHANGED <<queue, written, got>>

Put ==
    /\ offered # Nothing
    /\ Len(queue) < Capacity
    /\ queue' = Append(queue, offered)
    /\ offered' = Nothing
    /\ written' = "stored"
    /\ UNCHANGED got

Refuse ==
    /\ offered # Nothing
    /\ Len(queue) = Capacity
    /\ offered' = Nothing
    /\ written' = "refused"
    /\ UNCHANGED <<queue, got>>

Take ==
    /\ queue # <<>>
    /\ got' = Head(queue)
    /\ queue' = Tail(queue)
    /\ UNCHANGED <<offered, written>>

Miss ==
    /\ queue = <<>>
    /\ got' = Nothing
    /\ UNCHANGED <<queue, offered, written>>

Next == Offer \/ Put \/ Refuse \/ Take \/ Miss

Spec == Init /\ [][Next]_vars
=============================================================================
