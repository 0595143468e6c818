------------------------------- MODULE UartRing -------------------------------
(***************************************************************************)
(* USART2 of the bench (board.c): a ring for each direction between the    *)
(* tasks and the interrupt handler, and the registers of the peripheral.   *)
(*                                                                         *)
(* board_uart_write and board_uart_get run with interrupts masked and the  *)
(* handler runs to its end before a task goes on, so each of the calls is  *)
(* one action, possible when the handler is idle.  The peripheral does not *)
(* wait: bytes arrive and leave between the steps of the handler, which    *)
(* reads SR once and acts on what it read.                                 *)
(*                                                                         *)
(* A transmitted byte is a pair of its message's number and its position,  *)
(* a received one the number of bytes that had arrived with it.            *)
(***************************************************************************)
EXTENDS Ring

CONSTANTS
    Lengths,        \* lengths of messages
    MaxMessages,    \* bound of the model: calls of board_uart_write
    MaxBytes        \* bound of the model: bytes that arrive

ASSUME UartAssumption ==
    /\ Lengths \subseteq Nat
    /\ MaxMessages \in Nat /\ MaxBytes \in Nat

VARIABLES
    tx_buffer, tx_head, tx_tail, tx_dropped_messages,
    rx_buffer, rx_head, rx_tail, rx_dropped_bytes, rx_errors,
    txeie,          \* CR1: interrupt when the transmit register is empty
    txe, tdr,       \* SR: transmit register empty; what it holds otherwise
    rxne, rdr,      \* SR: received byte not read yet; the byte
    ore, bad,       \* SR: overrun; framing, noise or parity error
    isr, status,    \* the handler: next step, and the SR it read
    accepted, sent, \* history: bytes taken by board_uart_write, and sent
    calls,          \* history: calls of board_uart_write
    arrived, broken,\* history: bytes that arrived, and which with an error
    got             \* history: bytes handed out

tx_vars == <<tx_buffer, tx_head, tx_tail, tx_dropped_messages, txeie, accepted,
             calls>>
rx_vars == <<rx_buffer, rx_head, rx_tail, rx_dropped_bytes, rx_errors, got>>
line_out_vars == <<txe, tdr, sent>>
line_in_vars == <<rxne, rdr, ore, bad, arrived, broken>>
isr_vars == <<isr, status>>

vars == <<tx_vars, rx_vars, line_out_vars, line_in_vars, isr_vars>>

Bytes == Nat \X Nat
NoStatus == [rxne |-> FALSE, ore |-> FALSE, bad |-> FALSE, txe |-> FALSE]

TypeOK ==
    /\ tx_head \in Indices /\ tx_tail \in Indices
    /\ rx_head \in Indices /\ rx_tail \in Indices
    /\ tx_buffer \in [Indices -> Bytes] /\ rx_buffer \in [Indices -> Nat]
    /\ tx_dropped_messages \in Nat
    /\ rx_dropped_bytes \in Nat /\ rx_errors \in Nat
    /\ txeie \in BOOLEAN /\ txe \in BOOLEAN /\ rxne \in BOOLEAN
    /\ ore \in BOOLEAN /\ bad \in BOOLEAN
    /\ tdr \in Bytes /\ rdr \in Nat
    /\ isr \in {"idle", "receive", "transmit"}
    /\ status \in [rxne : BOOLEAN, ore : BOOLEAN, bad : BOOLEAN, txe : BOOLEAN]
    /\ accepted \in Seq(Bytes) /\ sent \in Seq(Bytes)
    /\ calls \in Nat /\ arrived \in Nat /\ broken \subseteq 1 .. arrived
    /\ got \in Seq(Nat)

Init ==
    /\ tx_buffer = [i \in Indices |-> <<0, 0>>] /\ tx_head = 0 /\ tx_tail = 0
    /\ rx_buffer = [i \in Indices |-> 0] /\ rx_head = 0 /\ rx_tail = 0
    /\ tx_dropped_messages = 0 /\ rx_dropped_bytes = 0 /\ rx_errors = 0
    /\ txeie = FALSE /\ txe = TRUE /\ tdr = <<0, 0>>
    /\ rxne = FALSE /\ rdr = 0 /\ ore = FALSE /\ bad = FALSE
    /\ isr = "idle" /\ status = NoStatus
    /\ accepted = <<>> /\ sent = <<>> /\ calls = 0
    /\ arrived = 0 /\ broken = {} /\ got = <<>>

-----------------------------------------------------------------------------
(* The tasks' calls.                                                       *)

Message(n, length) == [i \in 1 .. length |-> <<n, i>>]

(* One slot of the ring stays free.                                        *)
Fits_OffByOne(length) == length <= Size - Used(tx_head, tx_tail)
Fits(length) == length <= Size - 1 - Used(tx_head, tx_tail)

(* A message that does not fit is dropped whole and counted; one longer    *)
(* than any ring is refused without being counted.                         *)
board_uart_write(length) ==
    LET message == Message(calls + 1, length)
    IN  /\ isr = "idle" /\ calls < MaxMessages
        /\ calls' = calls + 1
        /\ \/ /\ length >= Size
              /\ UNCHANGED <<tx_buffer, tx_head, tx_dropped_messages, txeie, accepted>>
           \/ /\ length < Size /\ ~Fits(length)
              /\ tx_dropped_messages' = tx_dropped_messages + 1
              /\ UNCHANGED <<tx_buffer, tx_head, txeie, accepted>>
           \/ /\ length < Size /\ Fits(length)
              /\ tx_buffer' = [i \in Indices |->
                                  IF Used(i, tx_head) < length
                                  THEN message[Used(i, tx_head) + 1]
                                  ELSE tx_buffer[i]]
              /\ tx_head' = Wrapped(tx_head + length)
              /\ txeie' = TRUE
              /\ accepted' = accepted \o message
              /\ UNCHANGED tx_dropped_messages
        /\ UNCHANGED <<tx_tail, rx_vars, line_out_vars, line_in_vars, isr_vars>>

board_uart_get ==
    /\ isr = "idle"
    /\ rx_head # rx_tail
    /\ got' = Append(got, rx_buffer[rx_tail])
    /\ rx_tail' = Wrapped(rx_tail + 1)
    /\ UNCHANGED <<rx_buffer, rx_head, rx_dropped_bytes, rx_errors, tx_vars,
                   line_out_vars, line_in_vars, isr_vars>>

-----------------------------------------------------------------------------
(* The peripheral.                                                         *)

(* A byte arrives, or is lost if the last one was not read.                *)
Arrive(damaged) ==
    /\ arrived < MaxBytes
    /\ arrived' = arrived + 1
    /\ broken' = IF damaged THEN broken \union {arrived + 1} ELSE broken
    /\ IF rxne THEN /\ ore' = TRUE
                    /\ UNCHANGED <<rxne, rdr, bad>>
               ELSE /\ rxne' = TRUE /\ rdr' = arrived + 1
                    /\ bad' = (bad \/ damaged)
                    /\ UNCHANGED ore
    /\ UNCHANGED <<tx_vars, rx_vars, line_out_vars, isr_vars>>

ShiftOut ==
    /\ ~txe
    /\ txe' = TRUE
    /\ sent' = Append(sent, tdr)
    /\ UNCHANGED <<tdr, tx_vars, rx_vars, line_in_vars, isr_vars>>

-----------------------------------------------------------------------------
(* USART2_IRQHandler.                                                      *)

ReadStatus ==
    /\ isr = "idle"
    /\ rxne \/ ore \/ (txe /\ txeie)
    /\ status' = [rxne |-> rxne, ore |-> ore, bad |-> bad, txe |-> txe]
    /\ isr' = "receive"
    /\ UNCHANGED <<tx_vars, rx_vars, line_out_vars, line_in_vars>>

(* A byte read together with an error is discarded.                        *)
Damaged_NotOverrun == status.bad
Damaged_OnlyOverrun == status.ore
Damaged == status.ore \/ status.bad

RxFull == Wrapped(rx_head + 1) = rx_tail

Store ==
    \/ /\ Damaged
       /\ rx_errors' = rx_errors + 1
       /\ UNCHANGED <<rx_buffer, rx_head, rx_dropped_bytes>>
    \/ /\ ~Damaged /\ RxFull
       /\ rx_dropped_bytes' = rx_dropped_bytes + 1
       /\ UNCHANGED <<rx_buffer, rx_head, rx_errors>>
    \/ /\ ~Damaged /\ ~RxFull
       /\ rx_buffer' = [rx_buffer EXCEPT ![rx_head] = rdr]
       /\ rx_head' = Wrapped(rx_head + 1)
       /\ UNCHANGED <<rx_dropped_bytes, rx_errors>>

DataRead_Always == TRUE
DataRead == status.rxne \/ status.ore \/ status.bad

(* Reading DR after SR clears the flags that SR showed.                    *)
Receive ==
    /\ isr = "receive"
    /\ isr' = "transmit"
    /\ IF DataRead
       THEN /\ Store
            /\ rxne' = FALSE
            /\ ore' = (ore /\ ~status.ore)
            /\ bad' = (bad /\ ~status.bad)
       ELSE UNCHANGED <<rx_buffer, rx_head, rx_dropped_bytes, rx_errors, rxne,
                        ore, bad>>
    /\ UNCHANGED <<tx_vars, rx_tail, got, line_out_vars, rdr, arrived, broken,
                   status>>

TxEmpty_AtLast == Used(tx_head, tx_tail) <= 1
TxEmpty == tx_head = tx_tail

Transmit ==
    /\ isr = "transmit"
    /\ isr' = "idle"
    /\ status' = NoStatus
    /\ \/ /\ status.txe /\ txeie /\ TxEmpty
          /\ txeie' = FALSE
          /\ UNCHANGED <<tdr, txe, tx_tail>>
       \/ /\ status.txe /\ txeie /\ ~TxEmpty
          /\ tdr' = tx_buffer[tx_tail]
          /\ txe' = FALSE
          /\ tx_tail' = Wrapped(tx_tail + 1)
          /\ UNCHANGED txeie
       \/ /\ ~(status.txe /\ txeie)
          /\ UNCHANGED <<txeie, tdr, txe, tx_tail>>
    /\ UNCHANGED <<tx_buffer, tx_head, tx_dropped_messages, accepted, calls,
                   sent, rx_vars, line_in_vars>>

Next ==
    \/ \E length \in Lengths : board_uart_write(length)
    \/ board_uart_get
    \/ \E damaged \in BOOLEAN : Arrive(damaged)
    \/ ShiftOut
    \/ ReadStatus
    \/ Receive
    \/ Transmit

Spec == Init /\ [][Next]_vars

(* The peripheral shifts bytes out and its interrupt is served; nothing is *)
(* assumed of the tasks.                                                   *)
Fairness ==
    /\ WF_vars(ShiftOut)
    /\ WF_vars(ReadStatus) /\ WF_vars(Receive) /\ WF_vars(Transmit)

FairSpec == Spec /\ Fairness

-----------------------------------------------------------------------------
(* Properties.                                                             *)

InTransmitter == IF txe THEN <<>> ELSE <<tdr>>

(* Messages leave whole, in order and once: what was sent, what is in the  *)
(* transmitter and what is in the ring are together what was accepted      *)
(* (board.c:149-161, 190-196).                                             *)
TxWhole ==
    accepted = sent \o InTransmitter \o Content(tx_buffer, tx_head, tx_tail)

(* Every accepted byte is sent in the end: the handler never turns its     *)
(* interrupt off while a task puts bytes into the ring (board.c:160, 191). *)
TxDelivers ==
    \A n \in 1 .. MaxMessages * Size : Len(accepted) >= n ~> Len(sent) >= n

Received == got \o Content(rx_buffer, rx_head, rx_tail)

(* Received bytes are handed out in the order of their arrival, none of    *)
(* them twice (board.c:168-169, 185-187).                                  *)
RxOrder ==
    \A i, j \in 1 .. Len(Received) : i < j => Received[i] < Received[j]

(* A byte that arrived with a framing, noise or parity error is never      *)
(* handed out, whatever the flags of the bytes around it                   *)
(* (board.c:182-183).                                                      *)
RxIntact == \A i \in 1 .. Len(Received) : Received[i] \notin broken

InReceiver == IF rxne THEN <<rdr>> ELSE <<>>

(* No byte is lost unless a counter says so or an error flag is about to:  *)
(* with both counters zero, everything that arrived is there               *)
(* (board.c:181-188).                                                      *)
RxLossCounted ==
    rx_errors = 0 /\ rx_dropped_bytes = 0 /\ ~ore /\ ~bad =>
        Received \o InReceiver = [i \in 1 .. arrived |-> i]
=============================================================================
