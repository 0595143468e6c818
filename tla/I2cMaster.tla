------------------------------ MODULE I2cMaster ------------------------------
(***************************************************************************)
(* The I2C master of the bench (board.c): i2c_register_read and            *)
(* i2c_register_write, access by access where the order matters, against   *)
(* the peripheral I2C1 and a device on the bus.                            *)
(*                                                                         *)
(* The driver waits for a flag, then touches registers until it waits      *)
(* again; the peripheral goes on between any two of its steps, and does    *)
(* not get a byte further during the few accesses made with interrupts     *)
(* masked.  A byte of the device is the number of its register, and the    *)
(* values written are left out.                                            *)
(*                                                                         *)
(* The peripheral and the device are external: they are modelled as the    *)
(* driver relies on them.  A transfer may fail at any moment by an error   *)
(* flag, a flag that does not come in time, a device without power, or a   *)
(* STOP that is requested twice (see WriteCr1).  A bus that a device holds *)
(* down for ever is left out: no transfer succeeds on it.                  *)
(*                                                                         *)
(* A definition with a suffix (LoopStep_OneLate) is a slip of the one it   *)
(* precedes.  No specification uses it: it stands beside the right one to  *)
(* show which property notices it.                                         *)
(***************************************************************************)
EXTENDS Integers, Sequences

CONSTANTS
    Registers,      \* of the device: WHO_AM_I, PWR_MGMT_1, ...
    MaxSize,        \* longest read (32)
    MaxFaults       \* bound of the model: faults of the bus

ASSUME BusAssumption ==
    /\ Registers \subseteq Nat
    /\ MaxSize \in Nat \ {0} /\ MaxFaults \in Nat

VARIABLES
    cr1,            \* control bits
    bus_error,      \* one of the flags BUS_ERROR
    bus,            \* what the master does on the bus
    reading,        \* direction of the transfer
    fifo,           \* data register and shift register, next byte first
    clocked,        \* bytes read from the device in this transfer
    refused,        \* the last one of them was not acknowledged
    device,
    op,             \* the call: its arguments
    pc,             \* what it waits for, or accesses next
    result,         \* what it returned: "ok", "failed", "none" before
    data,           \* the bytes it stored
    copy,           \* CR1 as it was read
    waits,          \* history: phases of the call that waited
    outage,         \* history: the device had no power during the call
    faults          \* history: faults of the bus

bus_vars == <<cr1, bus_error, bus, reading, fifo, clocked, refused>>
call_vars == <<op, pc, result, data, copy, waits>>
i2c_vars == <<bus_vars, device, call_vars, outage, faults>>

Released == 255     \* what is read while nobody drives the bus
Bytes == Nat        \* a register's number, Released, or a value to write

Operation == [kind : {"read", "write"}, reg : Registers, size : 1 .. MaxSize]
Device == [powered : BOOLEAN, configured : SUBSET Bytes, pointer : Bytes,
           listening : {"not", "pointer", "value"}]

Bits == {"PE", "START", "STOP", "ACK", "POS"}
WaitSteps == {"busy", "start", "address", "select", "value", "sent", "restart",
              "readdress", "byte", "three", "last", "only"}
AccessSteps == {"ack", "clear", "stop", "pos_read", "pos_write", "ack_read",
                "ack_write"}

I2cTypeOK ==
    /\ cr1 \subseteq Bits /\ copy \subseteq Bits
    /\ bus_error \in BOOLEAN /\ reading \in BOOLEAN /\ refused \in BOOLEAN
    /\ bus \in {"free", "started", "addressing", "addressed", "transfer"}
    /\ fifo \in Seq(Bytes) /\ Len(fifo) <= 2
    /\ clocked \in Nat
    /\ device \in Device
    /\ op \in Operation /\ pc \in WaitSteps \cup AccessSteps \cup {"idle"}
    /\ result \in {"none", "ok", "failed"}
    /\ data \in Seq(Bytes) /\ Len(data) <= op.size     \* the caller's buffer
    /\ waits \in Nat
    /\ outage \in BOOLEAN /\ faults \in Nat

I2cInit ==
    /\ cr1 = {"PE"} /\ copy = {} /\ bus_error = FALSE
    /\ bus = "free" /\ reading = FALSE /\ fifo = <<>>
    /\ clocked = 0 /\ refused = FALSE
    /\ device \in [powered : BOOLEAN, configured : {{}}, pointer : {0},
                   listening : {"not"}]
    /\ op \in Operation /\ pc = "idle" /\ result = "none"
    /\ data = <<>> /\ waits = 0
    /\ outage = FALSE /\ faults = 0

-----------------------------------------------------------------------------
(* The peripheral and the bus.                                             *)

(* The accesses made with interrupts masked, after the first of them.      *)
Masked == pc \in {"clear", "stop"}

Sent == bus = "transfer" /\ ~reading /\ fifo = <<>>

CanStart == "START" \in cr1 /\ (bus = "free" \/ Sent)
Start ==
    /\ CanStart
    /\ cr1' = cr1 \ {"START"}
    /\ bus' = "started"
    /\ clocked' = 0 /\ refused' = FALSE
    /\ UNCHANGED <<bus_error, reading, fifo, device, call_vars, outage, faults>>

(* The device answers its address, unless it has no power.                 *)
CanAddress == bus = "addressing" /\ ~bus_error
Address ==
    /\ CanAddress
    /\ IF device.powered
       THEN /\ bus' = "addressed"
            /\ device' = [device EXCEPT !.listening = "pointer"]
            /\ UNCHANGED bus_error
       ELSE /\ bus_error' = TRUE
            /\ UNCHANGED <<bus, device>>
    /\ UNCHANGED <<cr1, reading, fifo, clocked, refused, call_vars, outage, faults>>

(* The device takes the number of a register, then a value for it.         *)
CanSend == bus = "transfer" /\ ~reading /\ fifo # <<>> /\ ~bus_error
Send ==
    /\ CanSend
    /\ \/ /\ device.listening = "not"
          /\ bus_error' = TRUE
          /\ UNCHANGED <<device, fifo>>
       \/ /\ device.listening = "pointer"
          /\ device' = [device EXCEPT !.pointer = Head(fifo), !.listening = "value"]
          /\ fifo' = Tail(fifo)
          /\ UNCHANGED bus_error
       \/ /\ device.listening = "value"
          /\ device' = [device EXCEPT !.configured = @ \cup {device.pointer}]
          /\ fifo' = Tail(fifo)
          /\ UNCHANGED bus_error
    /\ UNCHANGED <<cr1, bus, reading, clocked, refused, call_vars, outage, faults>>

(* The next byte is clocked while there is room for it, and acknowledged   *)
(* as ACK says, with POS one byte later.  Once the master has not          *)
(* acknowledged a byte the device drives the bus no more.                  *)
CanReceive ==
    /\ bus = "transfer" /\ reading /\ Len(fifo) < 2
    /\ ~Masked
    /\ "STOP" \in cr1 => clocked = 0
Receive ==
    /\ CanReceive
    /\ fifo' = Append(fifo, IF refused \/ device.listening = "not"
                            THEN Released ELSE device.pointer + clocked)
    /\ clocked' = clocked + 1
    /\ refused' = ("ACK" \notin cr1 /\ ~("POS" \in cr1 /\ clocked = 0))
    /\ UNCHANGED <<cr1, bus_error, bus, reading, device, call_vars, outage, faults>>

(* A STOP is sent when the current byte is through.  Between the reading   *)
(* and the writing of CR1 that is a fault, see WriteCr1.                   *)
CanStop ==
    /\ "STOP" \in cr1
    /\ bus = "addressed" \/ Sent \/ (bus = "transfer" /\ reading /\ clocked > 0)
Unlucky == pc \in {"pos_write", "ack_write"}
Stop ==
    /\ CanStop
    /\ IF Unlucky THEN faults < MaxFaults /\ faults' = faults + 1
                  ELSE UNCHANGED faults
    /\ bus' = "free"
    /\ cr1' = cr1 \ {"STOP"}
    /\ UNCHANGED <<bus_error, reading, fifo, clocked, refused, device, call_vars,
                   outage>>

(* Nobody says whether a STOP requested on a free bus is kept for later.   *)
DropStop ==
    /\ "STOP" \in cr1 /\ bus = "free"
    /\ cr1' = cr1 \ {"STOP"}
    /\ UNCHANGED <<bus_error, bus, reading, fifo, clocked, refused, device,
                   call_vars, outage, faults>>

Fault ==
    /\ bus # "free" /\ ~bus_error /\ faults < MaxFaults
    /\ bus_error' = TRUE
    /\ faults' = faults + 1
    /\ UNCHANGED <<cr1, bus, reading, fifo, clocked, refused, device, call_vars,
                   outage>>

(* A device that lost its power has forgotten its configuration.           *)
PowerOff ==
    /\ device.powered /\ faults < MaxFaults
    /\ device' = [device EXCEPT !.powered = FALSE, !.configured = {},
                                  !.listening = "not"]
    /\ outage' = TRUE
    /\ faults' = faults + 1
    /\ UNCHANGED <<bus_vars, call_vars>>

PowerOn ==
    /\ ~device.powered
    /\ device' = [device EXCEPT !.powered = TRUE]
    /\ UNCHANGED <<bus_vars, call_vars, outage, faults>>

Peripheral == Start \/ Address \/ Send \/ Receive \/ Stop
Environment == DropStop \/ Fault \/ PowerOff \/ PowerOn

-----------------------------------------------------------------------------
(* Waiting.                                                                *)

(* The flag that a step waits for.                                         *)
Flag(step) ==
    CASE step = "busy" -> bus = "free"
      [] step \in {"start", "restart"} -> bus = "started"
      [] step \in {"address", "readdress"} -> bus = "addressed"
      [] step \in {"select", "value"} -> bus = "transfer" /\ ~reading /\ Len(fifo) < 2
      [] step = "sent" -> Sent
      [] step \in {"byte", "only"} -> reading /\ fifo # <<>>
      [] step \in {"three", "last"} -> reading /\ Len(fifo) = 2

(* Only i2c_wait looks at the error flags.                                 *)
Failed(step) == step # "busy" /\ bus_error

Awaited(step) ==
    /\ pc = step /\ ~Failed(step) /\ Flag(step)
    /\ waits' = waits + 1
    /\ UNCHANGED <<bus_error, clocked, refused, device, op, outage, faults>>

(* i2c_abort and i2c_configure: the software reset leaves nothing behind.  *)
i2c_abort_StopOnly ==
    /\ cr1' = cr1 \cup {"STOP"}
    /\ bus' = "free" /\ UNCHANGED bus_error /\ reading' = FALSE
    /\ fifo' = <<>> /\ clocked' = 0 /\ refused' = FALSE
i2c_abort ==
    /\ cr1' = {"PE"}
    /\ bus' = "free" /\ bus_error' = FALSE /\ reading' = FALSE
    /\ fifo' = <<>> /\ clocked' = 0 /\ refused' = FALSE

(* The peripheral is fast beside a time-out: when it could still get on, a *)
(* flag that comes too late is a fault.                                    *)
Dead == ~(CanStart \/ CanAddress \/ CanSend \/ CanReceive \/ CanStop)

Abandon ==
    /\ pc \in WaitSteps
    /\ \/ Failed(pc) /\ UNCHANGED faults
       \/ ~Flag(pc) /\ Dead /\ UNCHANGED faults
       \/ ~Flag(pc) /\ ~Dead /\ faults < MaxFaults /\ faults' = faults + 1
    /\ i2c_abort
    /\ waits' = waits + 1
    /\ pc' = "idle" /\ result' = "failed"
    /\ UNCHANGED <<device, op, data, copy, outage>>

-----------------------------------------------------------------------------
(* i2c_register_read and i2c_register_write.                               *)

Call(operation) ==
    /\ pc = "idle"
    /\ op' = operation
    /\ pc' = "busy" /\ result' = "none"
    /\ data' = <<>> /\ waits' = 0 /\ outage' = ~device.powered
    /\ UNCHANGED <<bus_vars, device, copy, faults>>

Reads == op.kind = "read"

BusFree ==
    /\ Awaited("busy")
    /\ cr1' = IF Reads THEN (cr1 \ {"POS"}) \cup {"ACK", "START"} ELSE cr1 \cup {"START"}
    /\ pc' = "start"
    /\ UNCHANGED <<bus, reading, fifo, result, data, copy>>

SendAddress ==
    /\ Awaited("start")
    /\ bus' = "addressing" /\ reading' = FALSE
    /\ pc' = "address"
    /\ UNCHANGED <<cr1, fifo, result, data, copy>>

ClearAddress ==
    /\ Awaited("address")
    /\ bus' = "transfer"
    /\ pc' = "select"
    /\ UNCHANGED <<cr1, reading, fifo, result, data, copy>>

SendRegister ==
    /\ Awaited("select")
    /\ fifo' = Append(fifo, op.reg)
    /\ pc' = IF Reads THEN "sent" ELSE "value"
    /\ UNCHANGED <<cr1, bus, reading, result, data, copy>>

SendValue ==
    /\ Awaited("value")
    /\ fifo' = Append(fifo, 0)
    /\ pc' = "sent"
    /\ UNCHANGED <<cr1, bus, reading, result, data, copy>>

(* A write is over, and its STOP on the way; a read goes on.               *)
EndWrite ==
    /\ ~Reads /\ Awaited("sent")
    /\ cr1' = cr1 \cup {"STOP"}
    /\ pc' = "idle" /\ result' = "ok"
    /\ UNCHANGED <<bus, reading, fifo, data, copy>>

Restart ==
    /\ Reads /\ Awaited("sent")
    /\ cr1' = cr1 \cup {"START"} \cup (IF op.size = 2 THEN {"POS"} ELSE {})
    /\ pc' = "restart"
    /\ UNCHANGED <<bus, reading, fifo, result, data, copy>>

SendReadAddress ==
    /\ Awaited("restart")
    /\ bus' = "addressing" /\ reading' = TRUE
    /\ pc' = "readdress"
    /\ UNCHANGED <<cr1, fifo, result, data, copy>>

(* The loop reads all but the last three bytes one by one.                 *)
LoopStep_OneByOne(remaining) == IF remaining > 1 THEN "byte" ELSE "only"
LoopStep_OneLate(remaining) == IF remaining > 2 THEN "byte" ELSE "three"
LoopStep_OneEarly(remaining) == IF remaining > 4 THEN "byte" ELSE "three"
LoopStep(remaining) == IF remaining > 3 THEN "byte" ELSE "three"

(* ADDR is cleared at once, or after ACK for one or two bytes.             *)
ReadAddressed ==
    /\ Awaited("readdress")
    /\ IF op.size > 2 THEN bus' = "transfer" /\ pc' = LoopStep(op.size)
                      ELSE UNCHANGED bus /\ pc' = "ack"
    /\ UNCHANGED <<cr1, reading, fifo, result, data, copy>>

Access(step) ==
    /\ pc = step
    /\ UNCHANGED <<bus_error, clocked, refused, reading, fifo, device, op, data,
                   waits, outage, faults>>

ClearAck ==
    /\ Access("ack")
    /\ cr1' = cr1 \ {"ACK"}
    /\ pc' = "clear"
    /\ UNCHANGED <<bus, copy, result>>

ClearReadAddress ==
    /\ Access("clear")
    /\ bus' = "transfer"
    /\ pc' = IF op.size = 1 THEN "stop" ELSE "last"
    /\ UNCHANGED <<cr1, copy, result>>

SetStop ==
    /\ Access("stop")
    /\ cr1' = cr1 \cup {"STOP"}
    /\ pc' = "only"
    /\ UNCHANGED <<bus, copy, result>>

ReadOnly ==
    /\ Awaited("only")
    /\ data' = <<Head(fifo)>> /\ fifo' = Tail(fifo)
    /\ pc' = "pos_read"
    /\ UNCHANGED <<cr1, bus, reading, result, copy>>

ReadByte ==
    /\ Awaited("byte")
    /\ data' = Append(data, Head(fifo)) /\ fifo' = Tail(fifo)
    /\ pc' = LoopStep(op.size - Len(data'))
    /\ UNCHANGED <<cr1, bus, reading, result, copy>>

(* With two bytes waiting the clock is held, until DR is read.             *)
ReadThird ==
    /\ Awaited("three")
    /\ cr1' = cr1 \ {"ACK"}
    /\ data' = Append(data, Head(fifo)) /\ fifo' = Tail(fifo)
    /\ pc' = "last"
    /\ UNCHANGED <<bus, reading, result, copy>>

ReadLast ==
    /\ Awaited("last")
    /\ cr1' = cr1 \cup {"STOP"}
    /\ data' = data \o fifo /\ fifo' = <<>>
    /\ pc' = "pos_read"
    /\ UNCHANGED <<bus, reading, result, copy>>

(* The two assignments to CR1 at the end of a read.  The STOP just set may *)
(* be sent between the reading and the writing of CR1: it is then set a    *)
(* second time, and may end the next transfer.                             *)
ReadCr1 ==
    /\ pc \in {"pos_read", "ack_read"}
    /\ Access(pc)
    /\ copy' = cr1
    /\ pc' = IF pc = "pos_read" THEN "pos_write" ELSE "ack_write"
    /\ UNCHANGED <<cr1, bus, result>>

WriteCr1 ==
    \/ /\ Access("pos_write")
       /\ cr1' = copy \ {"POS"}
       /\ pc' = "ack_read"
       /\ UNCHANGED <<bus, copy, result>>
    \/ /\ Access("ack_write")
       /\ cr1' = copy \cup {"ACK"}
       /\ pc' = "idle" /\ result' = "ok"
       /\ UNCHANGED <<bus, copy>>

Driver ==
    \/ BusFree \/ SendAddress \/ ClearAddress \/ SendRegister \/ SendValue
    \/ EndWrite \/ Restart \/ SendReadAddress \/ ReadAddressed
    \/ ClearAck \/ ClearReadAddress \/ SetStop \/ ReadOnly
    \/ ReadByte \/ ReadThird \/ ReadLast \/ ReadCr1 \/ WriteCr1
    \/ Abandon

-----------------------------------------------------------------------------
(* Properties.                                                             *)

(* A read that returns 0 has stored the device's bytes, all of them and in *)
(* order, whatever the delays between its accesses; a device that lost its *)
(* power during the call may have left some of them to the idle bus        *)
(* (board.c:74-123).                                                       *)
ReadExact ==
    pc = "idle" /\ result = "ok" /\ Reads /\ ~outage =>
        data = [i \in 1 .. op.size |-> op.reg + i - 1]

(* The master never clocks a byte more than it was asked for: the last one *)
(* is refused and the STOP requested in time, although the bus runs on     *)
(* while the driver is delayed (board.c:86-101, 109-120).                  *)
NoByteTooMany ==
    pc \in AccessSteps \cup {"byte", "three", "last", "only", "idle"} /\ Reads =>
        clocked <= op.size

(* A call ends after a number of phases that its size alone determines, at *)
(* most 5 ms each: reading 14 registers takes 20 of them, and mpu_init     *)
(* with one read and three writes 26 (board.c:52-59, 74-140).              *)
PhasesBounded == waits <= (IF Reads THEN op.size + (IF op.size = 1 THEN 7 ELSE 6) ELSE 6)
=============================================================================
