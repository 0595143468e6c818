---------------------------- MODULE Mpu6050Proofs ----------------------------
(***************************************************************************)
(* Theorems about the sensor and the I2C master under it (Mpu6050), for    *)
(* every length of a read, every number of faults and every delay of the   *)
(* driver.                                                                 *)
(*                                                                         *)
(* The argument follows the transfer: which control bits are set and where *)
(* the bus can be at each step of the driver, a STOP left over by an       *)
(* earlier call included; how many bytes were clocked and stored by then;  *)
(* and what the device has been told, as long as it kept its power.        *)
(***************************************************************************)
EXTENDS Mpu6050, SequenceTheorems, TLAPS

-----------------------------------------------------------------------------
(* The inductive invariants.                                               *)

Ending == {"pos_read", "pos_write", "ack_read", "ack_write"}
Receiving == {"byte", "three", "last", "only"}

(* The control bits.  A START is requested only while the driver waits for *)
(* it.  ACK is there until the driver takes it away for the last byte, and *)
(* POS for a read of two bytes.                                            *)
BitsInv ==
    /\ "START" \in cr1 => pc \in {"start", "restart"} /\ bus # "started"
    /\ pc \in {"pos_write", "ack_write"} => "START" \notin copy
    /\ Reads /\ op.size > 2
       /\ pc \in {"start", "address", "select", "sent", "restart", "readdress",
                  "byte", "three"} => "ACK" \in cr1
    /\ op.size = 2 /\ pc \in {"restart", "readdress", "ack", "clear", "last"} =>
          "POS" \in cr1

(* Where the transfer stands at each step.  A STOP left over by an earlier *)
(* call may free the bus in the middle of it.                              *)
Over ==
    /\ fifo = <<>>
    /\ \/ bus = "free"
       \/ bus = "transfer" /\ "STOP" \in cr1 /\ (reading => clocked > 0)
BusInv ==
    /\ pc \in {"idle", "busy"} \cup Ending => Over
    /\ pc \in {"pos_write", "ack_write"} => bus = "free" \/ "STOP" \in copy
    /\ pc = "start" => bus \in {"free", "started"} /\ fifo = <<>>
    /\ pc = "address" => bus \in {"addressing", "addressed", "free"} /\ ~reading
    /\ pc \in {"select", "value", "sent"} => bus \in {"transfer", "free"} /\ ~reading
    /\ pc \in {"address", "select", "restart"} => fifo = <<>>
    /\ pc = "restart" => bus \in {"transfer", "free", "started"} /\ ~reading
    /\ pc = "readdress" => bus \in {"addressing", "addressed", "free"}
    /\ pc \in {"ack", "clear"} => bus \in {"addressed", "free"}
    /\ pc = "stop" => bus = "transfer"
    /\ pc \in Receiving => bus \in {"transfer", "free"}
    /\ pc = "only" /\ bus = "transfer" => "STOP" \in cr1
    /\ pc \in {"readdress", "ack", "clear", "stop"} \cup Receiving => reading
    /\ pc = "value" => ~Reads
    /\ pc \in {"restart", "readdress", "ack", "clear", "stop"} \cup Receiving \cup Ending
          => Reads

(* How many bytes were clocked and stored at each step of a read.          *)
CountInv ==
    /\ pc = "restart" /\ bus = "started" => clocked = 0 /\ ~refused
    /\ pc \in {"readdress", "ack", "clear", "stop"} => fifo = <<>> /\ clocked = 0
    /\ pc \in {"readdress", "ack", "clear", "stop"} => ~refused
    /\ pc \in {"ack", "clear"} => op.size <= 2
    /\ pc = "stop" => op.size = 1
    /\ pc \notin Receiving \cup Ending \cup {"idle"} => data = <<>>
    /\ pc \in Receiving => clocked = Len(data) + Len(fifo)
    /\ pc = "byte" => Len(data) + 4 <= op.size
    /\ pc = "three" => Len(data) + 3 = op.size
    /\ pc = "last" => Len(data) + 2 = op.size
    /\ pc = "only" => op.size = 1 /\ Len(data) = 0 /\ Len(fifo) <= 1
    /\ pc \in {"byte", "three"} => ~refused
    /\ pc = "last" /\ op.size > 2 => fifo # <<>>
    /\ pc \in {"last", "only"} /\ refused => clocked = op.size
    /\ pc \in Ending => Len(data) = op.size /\ clocked = op.size
    /\ pc = "idle" /\ Reads => clocked <= op.size

TransferInv == BitsInv /\ BusInv /\ CountInv

(* The phases that were waited for.                                        *)
Bound == IF Reads THEN op.size + (IF op.size = 1 THEN 7 ELSE 6) ELSE 6
WaitsInv ==
    /\ pc = "idle" => waits <= Bound
    /\ pc = "busy" => waits = 0
    /\ pc = "start" => waits = 1
    /\ pc = "address" => waits = 2
    /\ pc = "select" => waits = 3
    /\ pc = "value" => waits = 4
    /\ pc = "sent" => waits = IF Reads THEN 4 ELSE 5
    /\ pc = "restart" => waits = 5
    /\ pc = "readdress" => waits = 6
    /\ pc \in {"ack", "clear", "stop"} => waits = 7
    /\ pc \in Receiving => waits = 7 + Len(data)
    /\ pc \in Ending => waits = Bound

(* A device that kept its power follows the transfer.                      *)
Steady == ~outage \/ ~lapse
DeviceInv ==
    /\ ~outage /\ pc # "idle" => device.powered
    /\ Steady => 
        /\ pc = "address" /\ bus = "addressed" => device.listening = "pointer"
        /\ pc = "select" => device.listening = "pointer"
        /\ pc = "value" \/ (pc = "sent" /\ Reads) =>
              \/ fifo = <<op.reg>> /\ device.listening = "pointer"
              \/ fifo = <<>> /\ device.listening = "value" /\ device.pointer = op.reg
        /\ pc = "sent" /\ ~Reads =>
              \/ fifo = <<op.reg, 0>> /\ device.listening = "pointer"
              \/ fifo = <<0>> /\ device.listening = "value" /\ device.pointer = op.reg
              \/ fifo = <<>> /\ op.reg \in device.configured
        /\ pc \in {"restart", "readdress", "ack", "clear", "stop"} \cup Receiving =>
              device.listening # "not" /\ device.pointer = op.reg

(* The bytes that it sent are of one register after the other, those that  *)
(* were stored and those that wait.                                        *)
Follows(bytes, first) == \A i \in 1 .. Len(bytes) : bytes[i] = first + i - 1
DataInv ==
    /\ Steady /\ pc \in Receiving =>
          Follows(data, op.reg) /\ Follows(fifo, op.reg + Len(data))
    /\ Steady /\ pc \in Ending => Follows(data, op.reg)
    /\ ReadExact

(* The settings that mpu_init has written.                                 *)
Written ==
    (IF step \in {"accel", "gyro", "sample"} THEN {PWR_MGMT_1} ELSE {})
    \cup (IF step \in {"gyro", "sample"} THEN {ACCEL_CONFIG} ELSE {})
    \cup (IF step = "sample" THEN {GYRO_CONFIG} ELSE {})
SettingsInv ==
    /\ pc # "idle" \/ result # "none" => op \in Calls
    /\ pc # "idle" => result = "none"
    /\ ~lapse => Written \subseteq device.configured
    /\ ~lapse /\ pc = "idle" /\ result = "ok" /\ ~Reads => op.reg \in device.configured
    /\ ConfiguredSample

-----------------------------------------------------------------------------
(* Which actions change what.                                              *)

(* A step is one of the actions of the peripheral, the driver, the         *)
(* environment or the sensor's driver.                                     *)
LEMMA Steps ==
    ASSUME [Next]_vars
    PROVE  \/ Start \/ Address \/ Send \/ Receive \/ Stop
           \/ BusFree \/ SendAddress \/ ClearAddress \/ SendRegister \/ SendValue
           \/ EndWrite \/ Restart \/ SendReadAddress \/ ReadAddressed
           \/ ClearAck \/ ClearReadAddress \/ SetStop \/ ReadOnly
           \/ ReadByte \/ ReadThird \/ ReadLast \/ ReadCr1 \/ WriteCr1 \/ Abandon
           \/ PowerOn \/ LoseSettings \/ DropStop \/ Fault
           \/ Begin \/ Advance \/ GiveUp \/ UNCHANGED vars
  BY Zenon DEF Next, PeripheralStep, Peripheral, DriverStep, Driver, PowerUp,
    Disturb

(* The actions that touch the call, the device, the histories, the bytes   *)
(* and the control bits.                                                   *)
LEMMA Changes ==
    ASSUME [Next]_vars
    PROVE  /\ UNCHANGED op \/ Begin
           /\ UNCHANGED device \/ Address \/ Send \/ PowerOn \/ LoseSettings
           /\ UNCHANGED lapse \/ LoseSettings \/ GiveUp
           /\ UNCHANGED outage \/ LoseSettings \/ Begin
           /\ UNCHANGED <<step, sensor_valid, awake>> \/ Advance \/ GiveUp
           /\ \/ UNCHANGED <<fifo, data>>
              \/ Send \/ Receive \/ SendRegister \/ SendValue \/ ReadOnly
              \/ ReadByte \/ ReadThird \/ ReadLast \/ Abandon \/ Begin
           /\ \/ UNCHANGED <<cr1, copy>>
              \/ Start \/ Stop \/ DropStop \/ BusFree \/ EndWrite \/ Restart
              \/ ClearAck \/ SetStop \/ ReadThird \/ ReadLast \/ ReadCr1
              \/ WriteCr1 \/ Abandon
  <1> USE DEF Next, PeripheralStep, Peripheral, DriverStep, Driver, PowerUp,
    Disturb, LoseSettings, PowerOff, Begin, Advance, GiveUp, Call, Return,
    vars, mpu_vars, i2c_vars, bus_vars, call_vars, Abandon, Access, Address,
    Awaited, BusFree, ClearAck, ClearAddress, ClearReadAddress, DropStop,
    EndWrite, Fault, PowerOn, ReadAddressed, ReadByte, ReadCr1, ReadLast,
    ReadOnly, ReadThird, Receive, Restart, Send, SendAddress,
    SendReadAddress, SendRegister, SendValue, SetStop, Start, Stop, WriteCr1
  <1>1. UNCHANGED op \/ Begin
    <2> HIDE DEF Begin
    <2> QED
      BY Zenon, Steps
  <1>2. UNCHANGED device \/ Address \/ Send \/ PowerOn \/ LoseSettings
    <2> HIDE DEF Address, Send, PowerOn, LoseSettings
    <2> QED
      BY Zenon, Steps
  <1>3. UNCHANGED lapse \/ LoseSettings \/ GiveUp
    <2> HIDE DEF GiveUp, LoseSettings
    <2> QED
      BY Zenon, Steps
  <1>4. UNCHANGED outage \/ LoseSettings \/ Begin
    <2> HIDE DEF Begin, LoseSettings
    <2> QED
      BY Zenon, Steps
  <1>5. UNCHANGED <<step, sensor_valid, awake>> \/ Advance \/ GiveUp
    <2> HIDE DEF Advance, GiveUp
    <2> QED
      BY Zenon, Steps
  <1>6. \/ UNCHANGED <<fifo, data>>
        \/ Send \/ Receive \/ SendRegister \/ SendValue \/ ReadOnly
        \/ ReadByte \/ ReadThird \/ ReadLast \/ Abandon \/ Begin
    <2> HIDE DEF Send, Receive, SendRegister, SendValue, ReadOnly, ReadByte,
               ReadThird, ReadLast, Abandon, Begin
    <2> QED
      BY Zenon, Steps
  <1>7. \/ UNCHANGED <<cr1, copy>>
        \/ Start \/ Stop \/ DropStop \/ BusFree \/ EndWrite \/ Restart
        \/ ClearAck \/ SetStop \/ ReadThird \/ ReadLast \/ ReadCr1
        \/ WriteCr1 \/ Abandon
    <2> HIDE DEF Start, Stop, DropStop, BusFree, EndWrite, Restart, ClearAck,
               SetStop, ReadThird, ReadLast, ReadCr1, WriteCr1, Abandon
    <2> QED
      BY Zenon, Steps
  <1> QED
    BY Zenon, <1>1, <1>2, <1>3, <1>4, <1>5, <1>6, <1>7

-----------------------------------------------------------------------------
(* Short sequences.                                                        *)

(* What the first of two bytes leaves.                                     *)
LEMMA TwoBytes ==
    ASSUME NEW x \in Nat, NEW y \in Nat
    PROVE  /\ Append(<<>>, y) = <<y>> /\ Append(<<x>>, y) = <<x, y>>
           /\ Head(<<x>>) = x /\ Tail(<<x>>) = <<>> /\ <<x>> # <<>>
           /\ Head(<<x, y>>) = x /\ Tail(<<x, y>>) = <<y>> /\ <<x, y>> # <<>>
  <1>1. Append(<<>>, y) = <<y>>
    OBVIOUS
  <1>6. Append(<<x>>, y) = <<x, y>>
    <2> DEFINE a == Append(<<x>>, y)
               b == <<x, y>>
    <2>1. a \in Seq(Nat) /\ Len(a) = 2 /\ a[1] = x /\ a[2] = y
      OBVIOUS
    <2>2. b \in Seq(Nat) /\ Len(b) = 2 /\ b[1] = x /\ b[2] = y
      OBVIOUS
    <2> HIDE DEF a, b
    <2>3. \A i \in 1 .. Len(a) : a[i] = b[i]
      BY <2>1, <2>2
    <2>4. a = b
      BY <2>1, <2>2, <2>3, SeqEqual
    <2> QED
      BY <2>4 DEF a, b
  <1>2. Head(<<x>>) = x /\ Head(<<x, y>>) = x
    OBVIOUS
  <1>3. Tail(<<x>>) = <<>>
    OBVIOUS
  <1>4. Tail(<<x, y>>) = <<y>>
    OBVIOUS
  <1>5. <<x>> # <<>> /\ <<x, y>> # <<>>
    OBVIOUS
  <1> QED
    BY <1>1, <1>2, <1>3, <1>4, <1>5, <1>6

(* How long they become.                                                   *)
LEMMA Lengths ==
    ASSUME NEW s \in Seq(Nat), NEW t \in Seq(Nat)
    PROVE  /\ Len(s) \in Nat /\ Len(s \o t) = Len(s) + Len(t)
           /\ t # <<>> => /\ Len(Append(s, Head(t))) = Len(s) + 1
                          /\ Len(Tail(t)) = Len(t) - 1
           /\ Len(t) = 2 => Tail(t) # <<>>
  <1>1. \A u \in Seq(Nat) : Len(u) = 1 => u # <<>>
    OBVIOUS
  <1>2. Len(t) = 2 => Tail(t) # <<>>
    <2> SUFFICES ASSUME Len(t) = 2 PROVE Tail(t) # <<>>
      OBVIOUS
    <2>1. t # <<>>
      OBVIOUS
    <2>2. Tail(t) \in Seq(Nat) /\ Len(Tail(t)) = 1
      BY <2>1
    <2> QED
      BY Zenon, <1>1, <2>2
  <1> QED
    BY <1>2

(* The next register's byte comes after the others.                        *)
LEMMA FollowsAppend ==
    ASSUME NEW s \in Seq(Nat), NEW first \in Nat, Follows(s, first)
    PROVE  Follows(Append(s, first + Len(s)), first)
  BY DEF Follows

(* The first one goes, and the others follow it.                           *)
LEMMA FollowsTail ==
    ASSUME NEW s \in Seq(Nat), NEW first \in Nat, Follows(s, first), s # <<>>
    PROVE  Head(s) = first /\ Follows(Tail(s), first + 1)
  BY DEF Follows

(* Both bytes of the end come after those of the loop.                     *)
LEMMA FollowsConcat ==
    ASSUME NEW s \in Seq(Nat), NEW t \in Seq(Nat), NEW first \in Nat,
           Follows(s, first), Follows(t, first + Len(s))
    PROVE  Follows(s \o t, first)
  BY DEF Follows

(* With its length a sequence of following bytes is known.                 *)
LEMMA FollowsExactly ==
    ASSUME NEW s \in Seq(Nat), NEW first \in Nat, Follows(s, first)
    PROVE  s = [i \in 1 .. Len(s) |-> first + i - 1]
  BY DEF Follows

(* Before the first byte there is nothing to say.                          *)
LEMMA FollowsNothing ==
    ASSUME NEW first
    PROVE  Follows(<<>>, first)
  BY DEF Follows

-----------------------------------------------------------------------------
(* Types.                                                                  *)

(* The calls of mpu_init and mpu_read are calls of the bus: known          *)
(* registers, and no more of them than a read may have.                    *)
LEMMA CallsAreOperations == step \in MpuSteps => Calls \subseteq Operation
  <1> SUFFICES ASSUME step \in MpuSteps, NEW operation \in Calls
               PROVE  operation \in Operation
    OBVIOUS
  <1>1. MpuRegisters \subseteq Registers /\ 1 \in 1 .. MaxSize
        /\ SampleSizes \subseteq 1 .. MaxSize
    BY BusAssumption, SampleAssumption
  <1>2. CASE step = "sample"
    <2>1. PICK n \in SampleSizes :
            operation = [kind |-> "read", reg |-> ACCEL_XOUT_H, size |-> n]
      BY <1>2 DEF Calls
    <2> QED
      BY <1>1, <2>1 DEF Operation, MpuRegisters
  <1>3. CASE step # "sample"
    <2>1. \E kind \in {"read", "write"}, reg \in MpuRegisters :
            operation = [kind |-> kind, reg |-> reg, size |-> 1]
      BY <1>3 DEF Calls, MpuSteps, MpuRegisters
    <2> QED
      BY <1>1, <2>1 DEF Operation
  <1> QED
    BY <1>2, <1>3

(* What is assigned a condition is a Boolean.                              *)
LEMMA Membership ==
    ASSUME NEW x, NEW S, NEW value, value = (x \in S)
    PROVE  value \in BOOLEAN
  OBVIOUS

(* The steps, counters and flags.                                          *)
LEMMA ControlType ==
    ASSUME TypeOK, [Next]_vars
    PROVE  /\ pc' \in WaitSteps \cup AccessSteps \cup {"idle"}
           /\ bus' \in {"free", "started", "addressing", "addressed", "transfer"}
           /\ result' \in {"none", "ok", "failed"} /\ step' \in MpuSteps
           /\ clocked' \in Nat /\ waits' \in Nat /\ faults' \in Nat
           /\ bus_error' \in BOOLEAN /\ reading' \in BOOLEAN
           /\ refused' \in BOOLEAN /\ outage' \in BOOLEAN
           /\ sensor_ready' \in BOOLEAN /\ sensor_valid' \in BOOLEAN
           /\ awake' \in BOOLEAN /\ lapse' \in BOOLEAN
  <1> USE DEF Next, PeripheralStep, Peripheral, DriverStep, Driver, PowerUp,
    Disturb, LoseSettings, PowerOff, Begin, Advance, GiveUp, Call, Return,
    vars, mpu_vars, i2c_vars, bus_vars, call_vars, Abandon, Access, Address,
    Awaited, BusFree, ClearAck, ClearAddress, ClearReadAddress, DropStop,
    EndWrite, Fault, PowerOn, ReadAddressed, ReadByte, ReadCr1, ReadLast,
    ReadOnly, ReadThird, Receive, Restart, Send, SendAddress,
    SendReadAddress, SendRegister, SendValue, SetStop, Start, Stop, WriteCr1
  <1>1. bus_error' \in BOOLEAN /\ reading' \in BOOLEAN
    BY Zenon DEF TypeOK, I2cTypeOK, i2c_abort
  <1>2. refused' \in BOOLEAN /\ outage' \in BOOLEAN
    BY Zenon DEF TypeOK, I2cTypeOK, i2c_abort
  <1>3. sensor_ready' \in BOOLEAN
    <2>1. \/ sensor_ready' = sensor_ready \/ sensor_ready' = FALSE
          \/ sensor_ready' = (step \in {"gyro", "sample"})
      BY Zenon
    <2>2. sensor_ready \in BOOLEAN
      BY Zenon DEF TypeOK
    <2>3. CASE sensor_ready' = (step \in {"gyro", "sample"})
      BY <2>3, Membership
    <2> QED
      BY Zenon, <2>1, <2>2, <2>3
  <1>14. sensor_valid' \in BOOLEAN
    BY Zenon DEF TypeOK
  <1>4. awake' \in BOOLEAN /\ lapse' \in BOOLEAN
    BY Zenon DEF TypeOK
  <1>5. clocked' = clocked \/ clocked' = clocked + 1 \/ clocked' = 0
    BY Zenon DEF i2c_abort
  <1>6. waits' = waits \/ waits' = waits + 1 \/ waits' = 0
    BY Zenon
  <1>7. faults' = faults \/ faults' = faults + 1
    BY Zenon
  <1>8. result' \in {"none", "ok", "failed"}
    BY Zenon DEF TypeOK, I2cTypeOK
  <1>9. bus' \in {"free", "started", "addressing", "addressed", "transfer"}
    BY Zenon DEF TypeOK, I2cTypeOK, i2c_abort
  <1>10. pc' \in WaitSteps \cup AccessSteps \cup {"idle"}
    BY Zenon DEF TypeOK, I2cTypeOK, WaitSteps, AccessSteps, LoopStep
  <1>11. step' \in MpuSteps
    BY Zenon DEF TypeOK, MpuSteps, After, StepAfterFailure
  <1>12. clocked \in Nat /\ waits \in Nat /\ faults \in Nat
    BY Zenon DEF TypeOK, I2cTypeOK
  <1>13. clocked' \in Nat /\ waits' \in Nat /\ faults' \in Nat
    <2> HIDE DEF Next
    <2> QED
      BY ONLY <1>5, <1>6, <1>7, <1>12
  <1> QED
    BY Zenon, <1>1, <1>2, <1>3, <1>4, <1>8, <1>9, <1>10, <1>11, <1>13, <1>14

(* The bytes underway and stored, and the control bits.                    *)
LEMMA BytesType ==
    ASSUME TypeOK, [Next]_vars
    PROVE  /\ fifo' \in Seq(Bytes) /\ Len(fifo') <= 2 /\ data' \in Seq(Bytes)
           /\ cr1' \subseteq Bits /\ copy' \subseteq Bits
  <1>1. /\ fifo \in Seq(Nat) /\ Len(fifo) <= 2 /\ data \in Seq(Nat)
        /\ clocked \in Nat /\ op.reg \in Nat /\ device.pointer \in Nat
    BY BusAssumption DEF TypeOK, I2cTypeOK, Bytes, Operation, Device
  <1>2. fifo' \in Seq(Nat) /\ Len(fifo') <= 2 /\ data' \in Seq(Nat)
    <2>1. CASE UNCHANGED <<fifo, data>>
      BY <1>1, <2>1
    <2>2. CASE Send
      <3>1. data' = data /\ fifo # <<>> /\ (fifo' = fifo \/ fifo' = Tail(fifo))
        BY Zenon, <2>2 DEF Send, CanSend, call_vars
      <3> QED
        BY <1>1, <3>1
    <2>3. CASE Receive
      BY <1>1, <2>3 DEF Receive, CanReceive, call_vars, Released
    <2>4. CASE SendRegister
      BY <1>1, <2>4 DEF SendRegister, Awaited, Flag
    <2>5. CASE SendValue
      BY <1>1, <2>5 DEF SendValue, Awaited, Flag
    <2>6. CASE ReadOnly
      BY <1>1, <2>6 DEF ReadOnly, Awaited, Flag
    <2>7. CASE ReadByte
      BY <1>1, <2>7 DEF ReadByte, Awaited, Flag
    <2>8. CASE ReadThird
      <3>1. data' = Append(data, Head(fifo)) /\ fifo' = Tail(fifo)
        BY <2>8 DEF ReadThird
      <3>2. Len(fifo) = 2
        BY <2>8 DEF ReadThird, Awaited, Flag
      <3>3. fifo # <<>>
        BY <3>2
      <3> QED
        BY <1>1, <3>1, <3>3
    <2>9. CASE ReadLast
      BY <1>1, <2>9 DEF ReadLast
    <2>10. CASE Abandon
      BY <1>1, <2>10 DEF Abandon, i2c_abort
    <2>11. CASE Begin
      BY <1>1, <2>11 DEF Begin, Call, bus_vars
    <2> QED
      BY Zenon, Changes, <2>1, <2>2, <2>3, <2>4, <2>5, <2>6, <2>7, <2>8, <2>9,
         <2>10, <2>11
  <1>3. cr1 \subseteq Bits /\ copy \subseteq Bits
    BY DEF TypeOK, I2cTypeOK
  <1>4. cr1' \subseteq Bits /\ copy' \subseteq Bits
    <2> USE <1>3 DEF Bits
    <2>1. CASE UNCHANGED <<cr1, copy>>
      BY <2>1
    <2>2. CASE Start \/ Stop \/ DropStop
      BY <2>2 DEF Start, Stop, DropStop, call_vars
    <2>3. CASE BusFree \/ EndWrite \/ Restart
      BY <2>3 DEF BusFree, EndWrite, Restart
    <2>4. CASE ClearAck \/ SetStop \/ ReadThird \/ ReadLast
      BY <2>4 DEF ClearAck, SetStop, ReadThird, ReadLast
    <2>5. CASE ReadCr1 \/ WriteCr1 \/ Abandon
      BY <2>5 DEF ReadCr1, WriteCr1, Abandon, i2c_abort
    <2> QED
      BY Zenon, Changes, <2>1, <2>2, <2>3, <2>4, <2>5
  <1> QED
    BY <1>2, <1>4 DEF Bytes

(* The device and the call.                                                *)
LEMMA DeviceType ==
    ASSUME TypeOK, [Next]_vars
    PROVE  device' \in Device /\ op' \in Operation
  <1>1. device \in Device /\ op \in Operation /\ step \in MpuSteps
    BY DEF TypeOK, I2cTypeOK
  <1>2. device' \in Device
    <2>1. CASE UNCHANGED device
      BY <1>1, <2>1
    <2>2. CASE Address
      BY <1>1, <2>2 DEF Address, Device
    <2>3. CASE Send
      <3>1. CASE device' = device
        BY <1>1, <3>1
      <3>2. CASE /\ fifo # <<>>
                 /\ device' = [device EXCEPT !.pointer = Head(fifo),
                                             !.listening = "value"]
        <4>1. Head(fifo) \in Bytes
          BY <3>2 DEF TypeOK, I2cTypeOK
        <4> QED
          BY <1>1, <3>2, <4>1 DEF Device
      <3>3. CASE device' = [device EXCEPT !.configured = @ \cup {device.pointer}]
        BY <1>1, <3>3 DEF Device
      <3> QED
        BY <2>3, <3>1, <3>2, <3>3 DEF Send, CanSend
    <2>4. CASE PowerOn \/ LoseSettings
      BY <1>1, <2>4 DEF PowerOn, LoseSettings, PowerOff, Device
    <2> QED
      BY Zenon, Changes, <2>1, <2>2, <2>3, <2>4
  <1>3. op' \in Operation
    <2>1. CASE UNCHANGED op
      BY <1>1, <2>1
    <2>2. CASE Begin
      BY <1>1, <2>2, CallsAreOperations, Zenon DEF Begin, Call
    <2> QED
      BY Zenon, Changes, <2>1, <2>2
  <1> QED
    BY <1>2, <1>3

(* The bytes stored fit the caller's buffer: the driver's step says how     *)
(* many are still to come.                                                 *)
LEMMA DataFits ==
    ASSUME TypeOK, TransferInv, [Next]_vars
    PROVE  Len(data') <= op'.size
  <1>1. /\ fifo \in Seq(Nat) /\ data \in Seq(Nat) /\ Len(data) <= op.size
        /\ op.size \in Nat \ {0}
    BY BusAssumption DEF TypeOK, I2cTypeOK, Bytes, Operation
  <1>2. CountInv
    BY DEF TransferInv
  <1>3. CASE Begin
    <2>1. data' = <<>> /\ op' \in Operation
      BY Zenon, <1>3, DeviceType DEF Begin, Call
    <2>2. op'.size \in Nat
      BY BusAssumption, <2>1 DEF Operation
    <2> QED
      BY ONLY <2>1, <2>2
  <1>4. CASE op' = op /\ data' = data
    BY <1>1, <1>4
  <1>5. CASE ReadOnly \/ ReadByte \/ ReadThird \/ ReadLast
    <2>1. op' = op
      BY <1>5 DEF ReadOnly, ReadByte, ReadThird, ReadLast, Awaited
    <2>2. CASE ReadOnly
      <3>1. data' = <<Head(fifo)>>
        BY <2>2 DEF ReadOnly
      <3> QED
        BY ONLY <1>1, <2>1, <3>1
    <2>3. CASE ReadByte
      <3>1. data' = Append(data, Head(fifo)) /\ pc = "byte"
        BY <2>3 DEF ReadByte, Awaited
      <3>2. Len(data) + 4 <= op.size
        BY ONLY <1>2, <3>1 DEF CountInv
      <3> QED
        BY ONLY <1>1, <2>1, <3>1, <3>2
    <2>4. CASE ReadThird
      <3>1. data' = Append(data, Head(fifo)) /\ pc = "three"
        BY <2>4 DEF ReadThird, Awaited
      <3>2. Len(data) + 3 = op.size
        BY ONLY <1>2, <3>1 DEF CountInv
      <3> QED
        BY ONLY <1>1, <2>1, <3>1, <3>2
    <2>5. CASE ReadLast
      <3>1. data' = data \o fifo /\ pc = "last" /\ Len(fifo) = 2
        BY <2>5 DEF ReadLast, Awaited, Flag
      <3>2. Len(data) + 2 = op.size
        BY ONLY <1>2, <3>1 DEF CountInv
      <3>3. Len(data') = Len(data) + 2
        BY ONLY <1>1, <3>1, Lengths
      <3> QED
        BY ONLY <1>1, <2>1, <3>2, <3>3
    <2> QED
      BY <1>5, <2>2, <2>3, <2>4, <2>5
  <1>6. CASE Send \/ Receive \/ SendRegister \/ SendValue \/ Abandon
    BY <1>1, <1>6 DEF Send, Receive, SendRegister, SendValue, Abandon, Awaited,
       call_vars
  <1> QED
    BY Zenon, Changes, <1>3, <1>4, <1>5, <1>6

(* The values keep their types.                                            *)
LEMMA TypeStep ==
    ASSUME TypeOK, TransferInv, [Next]_vars
    PROVE  TypeOK'
  BY BusAssumption, ControlType, BytesType, DeviceType, DataFits, Zenon
     DEF TypeOK, I2cTypeOK

LEMMA TypeInit == Init => TypeOK
  <1> USE BusAssumption
  <1>1. Init => TypeOK
    <2> SUFFICES ASSUME Init PROVE TypeOK
      OBVIOUS
    <2>1. cr1 \subseteq Bits /\ copy \subseteq Bits
      BY DEF Init, I2cInit, Bits
    <2>2. device \in Device
      BY DEF Init, I2cInit, Device, Bytes
    <2>3. fifo \in Seq(Bytes) /\ Len(fifo) <= 2 /\ data \in Seq(Bytes)
      BY DEF Init, I2cInit
    <2>8. Len(data) <= op.size
      BY DEF Init, I2cInit, Operation
    <2>4. pc \in WaitSteps \cup AccessSteps \cup {"idle"} /\ step \in MpuSteps
      BY DEF Init, I2cInit, MpuSteps
    <2>5. op \in Operation
      BY Zenon DEF Init, I2cInit
    <2>6. /\ bus_error \in BOOLEAN /\ reading \in BOOLEAN
          /\ refused \in BOOLEAN /\ outage \in BOOLEAN
          /\ sensor_ready \in BOOLEAN /\ sensor_valid \in BOOLEAN
          /\ awake \in BOOLEAN /\ lapse \in BOOLEAN
      BY Zenon DEF Init, I2cInit
    <2>7. /\ bus = "free" /\ result = "none" /\ clocked = 0 /\ waits = 0 /\ faults = 0
      BY Zenon DEF Init, I2cInit
    <2> QED
      BY <2>1, <2>2, <2>3, <2>4, <2>5, <2>6, <2>7, <2>8 DEF TypeOK, I2cTypeOK
  <1> QED
    BY <1>1

-----------------------------------------------------------------------------
(* Where the transfer stands.                                              *)

(* The control bits, the bus and the counts agree with the driver's step.  *)
LEMMA TransferInvariant == Spec => [](TypeOK /\ TransferInv)
  <1> USE DEF Reads, AccessSteps, WaitSteps, Ending, Receiving
  <1>1. Init => TransferInv
    BY BusAssumption DEF Init, I2cInit, TransferInv, BitsInv, BusInv, CountInv,
      Over, Operation
  <1>2. TypeOK /\ TransferInv /\ [Next]_vars => TransferInv'
    <2> SUFFICES ASSUME TypeOK, TransferInv, [Next]_vars PROVE TransferInv'
      OBVIOUS
    <2> USE DEF TransferInv, BitsInv, BusInv, CountInv, Over, TypeOK, I2cTypeOK,
                Operation, Bytes, bus_vars, call_vars
    <2>1. CASE Start
      BY <2>1 DEF Start, CanStart, Sent
    <2>2. CASE Address
      BY <2>2 DEF Address, CanAddress
    <2>3. CASE Send
      BY <2>3 DEF Send, CanSend
    <2>4. CASE Receive
      <3>1. /\ bus = "transfer" /\ reading /\ Len(fifo) < 2 /\ ~Masked
            /\ "STOP" \in cr1 => clocked = 0
            /\ clocked' = clocked + 1
            /\ refused' = ("ACK" \notin cr1 /\ ~("POS" \in cr1 /\ clocked = 0))
            /\ UNCHANGED <<cr1, bus, reading, op, pc, data, copy, result>>
        BY <2>4 DEF Receive, CanReceive
      <3>2. PICK byte : fifo' = Append(fifo, byte)
        BY Zenon, <2>4 DEF Receive
      <3>3. /\ Len(fifo') = Len(fifo) + 1 /\ fifo' # <<>>
            /\ Len(fifo) \in Nat /\ (Len(fifo) = 0 <=> fifo = <<>>)
        <4>1. fifo \in Seq(Nat)
          OBVIOUS
        <4> QED
          BY ONLY <3>2, <4>1
      <3>4. pc \notin {"clear", "stop"}
        BY <3>1 DEF Masked
      <3>5. BitsInv'
        BY <3>1
      <3>6. BusInv'
        BY <3>1, <3>3, <3>4
      <3>7. CountInv'
        BY <3>1, <3>3, <3>4
      <3> QED
        BY <3>5, <3>6, <3>7
    <2>5. CASE Stop
      BY <2>5 DEF Stop, CanStop, Sent, Unlucky
    <2>6. CASE BusFree
      BY <2>6 DEF BusFree, Awaited, Flag, Failed, Sent
    <2>7. CASE SendAddress
      <3>1. /\ pc = "start" /\ pc' = "address" /\ bus = "started"
            /\ bus' = "addressing" /\ reading' = FALSE
            /\ UNCHANGED <<cr1, clocked, refused, op, fifo, data>>
        BY Zenon, <2>7 DEF SendAddress, Awaited, Flag
      <3>2. BitsInv'
        BY <3>1
      <3>3. BusInv' /\ CountInv'
        BY <3>1
      <3> QED
        BY <3>2, <3>3
    <2>8. CASE ClearAddress
      BY <2>8 DEF ClearAddress, Awaited, Flag, Failed, Sent
    <2>9. CASE SendRegister
      BY <2>9 DEF SendRegister, Awaited, Flag, Failed, Sent
    <2>10. CASE SendValue
      BY <2>10 DEF SendValue, Awaited, Flag, Failed, Sent
    <2>11. CASE EndWrite
      BY <2>11 DEF EndWrite, Awaited, Flag, Failed, Sent
    <2>12. CASE Restart
      BY <2>12 DEF Restart, Awaited, Flag, Failed, Sent
    <2>13. CASE SendReadAddress
      <3>1. /\ pc = "restart" /\ pc' = "readdress" /\ bus = "started"
            /\ bus' = "addressing" /\ reading' = TRUE
            /\ UNCHANGED <<cr1, clocked, refused, op, fifo, data>>
        BY Zenon, <2>13 DEF SendReadAddress, Awaited, Flag
      <3>2. BitsInv'
        BY <3>1
      <3>3. BusInv' /\ CountInv'
        BY <3>1
      <3> QED
        BY <3>2, <3>3
    <2>14. CASE ReadAddressed
      BY <2>14 DEF ReadAddressed, LoopStep, Awaited, Flag, Failed, Sent
    <2>15. CASE ClearAck
      BY <2>15 DEF ClearAck, Access
    <2>16. CASE ClearReadAddress
      BY <2>16 DEF ClearReadAddress, Access
    <2>17. CASE SetStop
      BY <2>17 DEF SetStop, Access
    <2>18. CASE ReadOnly
      BY <2>18 DEF ReadOnly, Awaited, Flag, Failed, Sent
    <2>19. CASE ReadByte
      BY <2>19 DEF ReadByte, LoopStep, Awaited, Flag, Failed, Sent
    <2>20. CASE ReadThird
      <3>1. /\ pc = "three" /\ pc' = "last" /\ cr1' = cr1 \ {"ACK"}
            /\ UNCHANGED <<bus, reading, clocked, refused, op>>
            /\ data' = Append(data, Head(fifo)) /\ fifo' = Tail(fifo)
        BY Zenon, <2>20 DEF ReadThird, Awaited
      <3>2. Len(fifo) = 2
        BY <2>20 DEF ReadThird, Awaited, Flag
      <3>3. /\ Len(data') = Len(data) + 1 /\ Len(fifo') = 1
            /\ Len(data) \in Nat /\ op.size \in Nat /\ fifo' \in Seq(Nat)
        <4>1. data \in Seq(Nat) /\ fifo \in Seq(Nat) /\ op.size \in Nat
          OBVIOUS
        <4>2. fifo # <<>>
          BY ONLY <3>2
        <4>3. fifo' \in Seq(Nat)
          BY ONLY <3>1, <4>1, <4>2
        <4> QED
          BY ONLY <3>1, <3>2, <4>1, <4>2, <4>3, Lengths
      <3>8. fifo' # <<>>
        <4>1. data \in Seq(Nat) /\ fifo \in Seq(Nat)
          OBVIOUS
        <4> QED
          BY ONLY <3>1, <3>2, <4>1, Lengths
      <3>9. Len(data) + 3 = op.size /\ clocked = Len(data) + 2 /\ ~refused
        BY <3>1, <3>2
      <3>4. op.size > 2 /\ Len(data) + 3 = op.size /\ fifo' # <<>>
        BY ONLY <3>3, <3>8, <3>9
      <3>5. BitsInv'
        BY <3>1, <3>4
      <3>6. BusInv'
        BY <3>1
      <3>7. CountInv'
        BY ONLY <3>1, <3>3, <3>4, <3>9 DEF CountInv
      <3> QED
        BY <3>5, <3>6, <3>7
    <2>21. CASE ReadLast
      <3>1. /\ pc = "last" /\ pc' = "pos_read" /\ cr1' = cr1 \cup {"STOP"}
            /\ UNCHANGED <<bus, reading, clocked, refused, op>>
            /\ data' = data \o fifo /\ fifo' = <<>>
        BY Zenon, <2>21 DEF ReadLast, Awaited
      <3>2. Len(fifo) = 2
        BY <2>21 DEF ReadLast, Awaited, Flag
      <3>3. Len(data') = Len(data) + 2 /\ Len(data) \in Nat
        <4>1. data \in Seq(Nat) /\ fifo \in Seq(Nat)
          OBVIOUS
        <4> QED
          BY ONLY <3>1, <3>2, <4>1, Lengths
      <3>4. clocked = op.size /\ Len(data') = op.size /\ clocked > 0
        BY <3>1, <3>2, <3>3
      <3>5. BitsInv'
        BY <3>1
      <3>6. BusInv'
        BY <3>1, <3>4
      <3>7. CountInv'
        BY <3>1, <3>4
      <3> QED
        BY <3>5, <3>6, <3>7
    <2>22. CASE ReadCr1
      BY <2>22 DEF ReadCr1, Access
    <2>23. CASE WriteCr1
      BY <2>23 DEF WriteCr1, Access
    <2>24. CASE Abandon
      BY <2>24 DEF Abandon, i2c_abort
    <2>25. CASE PowerOn
      BY <2>25 DEF PowerOn
    <2>26. CASE LoseSettings
      BY <2>26 DEF LoseSettings, PowerOff
    <2>27. CASE DropStop
      BY <2>27 DEF DropStop
    <2>28. CASE Fault
      BY <2>28 DEF Fault
    <2>29. CASE Begin
      BY <2>29 DEF Begin, Call
    <2>30. CASE Advance
      BY <2>30 DEF Advance, Return
    <2>31. CASE GiveUp
      BY <2>31 DEF GiveUp, Return
    <2>32. CASE UNCHANGED vars
      BY <2>32 DEF vars, i2c_vars
    <2> QED
      BY Zenon, Steps, <2>1, <2>2, <2>3, <2>4, <2>5, <2>6, <2>7, <2>8, <2>9,
        <2>10, <2>11, <2>12, <2>13, <2>14, <2>15, <2>16, <2>17, <2>18,
        <2>19, <2>20, <2>21, <2>22, <2>23, <2>24, <2>25, <2>26, <2>27,
        <2>28, <2>29, <2>30, <2>31, <2>32
  <1> QED
    BY <1>1, <1>2, TypeInit, TypeStep, PTL DEF Spec

(* Every value keeps its type, and no read stores more than its caller has *)
(* room for (board.c:108-123).                                             *)
THEOREM TypeCorrect == Spec => []TypeOK
  BY TransferInvariant, PTL

(* The master never clocks a byte more than it was asked for, whatever the *)
(* delays of the driver and wherever an earlier STOP ends the transfer.    *)
THEOREM NoByteIsTooMany == Spec => []NoByteTooMany
  <1>1. TypeOK /\ TransferInv => NoByteTooMany
    <2> SUFFICES ASSUME TypeOK, TransferInv, Reads,
                        pc \in AccessSteps \cup Receiving \cup {"idle"}
                 PROVE  clocked <= op.size
      BY DEF NoByteTooMany, Receiving
    <2>1. clocked \in Nat /\ op.size \in Nat \ {0} /\ Len(data) \in Nat
          /\ Len(fifo) \in Nat /\ Len(fifo) <= 2 /\ CountInv
      BY BusAssumption DEF TypeOK, I2cTypeOK, Operation, TransferInv
    <2>2. pc \in {"ack", "clear", "stop", "byte", "three", "last", "only", "idle"} \cup Ending
      BY DEF AccessSteps, Receiving, Ending
    <2> QED
      BY ONLY <2>1, <2>2, Reads DEF CountInv, Receiving, Ending
  <1> QED
    BY <1>1, TypeCorrect, TransferInvariant, PTL

-----------------------------------------------------------------------------
(* How long a call waits.                                                  *)

(* Each step of the driver is reached after the same number of phases.     *)
LEMMA WaitsInvariant == Spec => []WaitsInv
  <1> USE DEF Reads, WaitSteps, Ending, Receiving
  <1>1. Init => WaitsInv
    BY BusAssumption DEF Init, I2cInit, WaitsInv, Bound, Operation
  <1>2. TypeOK /\ TransferInv /\ WaitsInv /\ [Next]_vars => WaitsInv'
    <2> SUFFICES ASSUME TypeOK, TransferInv, WaitsInv, [Next]_vars PROVE WaitsInv'
      OBVIOUS
    <2> USE DEF WaitsInv, Bound, TransferInv, BusInv, CountInv, TypeOK, I2cTypeOK,
                Operation, Bytes, bus_vars, call_vars
    <2>1. CASE Start
      BY <2>1 DEF Start, CanStart, Sent
    <2>2. CASE Address
      BY <2>2 DEF Address, CanAddress
    <2>3. CASE Send
      BY <2>3 DEF Send, CanSend
    <2>4. CASE Receive
      BY <2>4 DEF Receive, CanReceive, Masked
    <2>5. CASE Stop
      BY <2>5 DEF Stop, CanStop, Sent, Unlucky
    <2>6. CASE BusFree
      BY <2>6 DEF BusFree, Awaited, Flag, Failed, Sent
    <2>7. CASE SendAddress
      BY <2>7 DEF SendAddress, Awaited, Flag, Failed, Sent
    <2>8. CASE ClearAddress
      BY <2>8 DEF ClearAddress, Awaited, Flag, Failed, Sent
    <2>9. CASE SendRegister
      BY <2>9 DEF SendRegister, Awaited, Flag, Failed, Sent
    <2>10. CASE SendValue
      BY <2>10 DEF SendValue, Awaited, Flag, Failed, Sent
    <2>11. CASE EndWrite
      BY <2>11 DEF EndWrite, Awaited, Flag, Failed, Sent
    <2>12. CASE Restart
      BY <2>12 DEF Restart, Awaited, Flag, Failed, Sent
    <2>13. CASE SendReadAddress
      BY <2>13 DEF SendReadAddress, Awaited, Flag, Failed, Sent
    <2>14. CASE ReadAddressed
      BY <2>14 DEF ReadAddressed, LoopStep, Awaited, Flag, Failed, Sent
    <2>15. CASE ClearAck
      BY <2>15 DEF ClearAck, Access
    <2>16. CASE ClearReadAddress
      BY <2>16 DEF ClearReadAddress, Access
    <2>17. CASE SetStop
      BY <2>17 DEF SetStop, Access
    <2>18. CASE ReadOnly
      BY <2>18 DEF ReadOnly, Awaited, Flag, Failed, Sent
    <2>19. CASE ReadByte
      BY <2>19 DEF ReadByte, LoopStep, Awaited, Flag, Failed, Sent
    <2>20. CASE ReadThird
      BY <2>20 DEF ReadThird, Awaited, Flag, Failed, Sent
    <2>21. CASE ReadLast
      BY <2>21 DEF ReadLast, Awaited, Flag, Failed, Sent
    <2>22. CASE ReadCr1
      BY <2>22 DEF ReadCr1, Access
    <2>23. CASE WriteCr1
      BY <2>23 DEF WriteCr1, Access
    <2>24. CASE Abandon
      BY <2>24 DEF Abandon, i2c_abort
    <2>25. CASE PowerOn
      BY <2>25 DEF PowerOn
    <2>26. CASE LoseSettings
      BY <2>26 DEF LoseSettings, PowerOff
    <2>27. CASE DropStop
      BY <2>27 DEF DropStop
    <2>28. CASE Fault
      BY <2>28 DEF Fault
    <2>29. CASE Begin
      BY <2>29 DEF Begin, Call
    <2>30. CASE Advance
      BY <2>30 DEF Advance, Return
    <2>31. CASE GiveUp
      BY <2>31 DEF GiveUp, Return
    <2>32. CASE UNCHANGED vars
      BY <2>32 DEF vars, i2c_vars
    <2> QED
      BY Zenon, Steps, <2>1, <2>2, <2>3, <2>4, <2>5, <2>6, <2>7, <2>8, <2>9,
        <2>10, <2>11, <2>12, <2>13, <2>14, <2>15, <2>16, <2>17, <2>18,
        <2>19, <2>20, <2>21, <2>22, <2>23, <2>24, <2>25, <2>26, <2>27,
        <2>28, <2>29, <2>30, <2>31, <2>32
  <1> QED
    BY <1>1, <1>2, TypeCorrect, TransferInvariant, PTL DEF Spec

(* A call of any size ends after the phases that its size determines.      *)
THEOREM CallsAreBounded == Spec => []PhasesBounded
  <1>1. TypeOK /\ TransferInv /\ WaitsInv => PhasesBounded
    <2> SUFFICES ASSUME TypeOK, TransferInv, WaitsInv PROVE waits <= Bound
      BY DEF PhasesBounded, Bound
    <2>1. waits \in Nat /\ op.size \in Nat \ {0} /\ Len(data) \in Nat
          /\ CountInv /\ BusInv
      BY BusAssumption DEF TypeOK, I2cTypeOK, Operation, TransferInv
    <2>2. pc \in WaitSteps \cup AccessSteps \cup {"idle"}
      BY DEF TypeOK, I2cTypeOK
    <2> QED
      BY ONLY WaitsInv, <2>1, <2>2 DEF WaitsInv, CountInv, BusInv, Bound, Reads,
        WaitSteps, AccessSteps, Receiving, Ending
  <1> QED
    BY <1>1, TypeCorrect, TransferInvariant, WaitsInvariant, PTL

-----------------------------------------------------------------------------
(* What the device has been told.                                          *)

(* Writing a setting changes nothing else.                                 *)
LEMMA Configure ==
    ASSUME NEW d \in Device, NEW reg
    PROVE  LET written == [d EXCEPT !.configured = @ \cup {reg}]
           IN  /\ written.configured = d.configured \cup {reg}
               /\ written.powered = d.powered
  BY DEF Device

(* A device that kept its power until now had it before.                   *)
LEMMA SteadyBefore ==
    ASSUME [Next]_vars
    PROVE  /\ Steady' /\ pc' \notin {"idle", "busy"} => Steady
           /\ ~outage' /\ pc' # "busy" => ~outage
  <1>1. \/ UNCHANGED <<lapse, outage>> \/ (lapse' /\ outage')
        \/ pc' = "idle" /\ UNCHANGED outage
        \/ pc' = "busy"
    <2>1. LoseSettings => lapse' /\ outage'
      BY Zenon DEF LoseSettings, PowerOff
    <2> QED
      BY Zenon, Changes, <2>1 DEF Begin, Call, GiveUp, Return
  <1>2. \/ (Steady' => Steady) /\ (~outage' => ~outage)
        \/ ~Steady' /\ outage'
        \/ pc' = "idle" /\ (~outage' => ~outage)
        \/ pc' = "busy"
    BY Zenon, <1>1 DEF Steady
  <1> QED
    BY Zenon, <1>2

(* A device that kept its power is at the driver's step, too.              *)
LEMMA DeviceInvariant == Spec => []DeviceInv
  <1> USE DEF Reads, WaitSteps, AccessSteps, Ending, Receiving
  <1>1. Init => DeviceInv
    BY DEF Init, I2cInit, DeviceInv
  <1>2. TypeOK /\ TransferInv /\ DeviceInv /\ [Next]_vars => DeviceInv'
    <2> SUFFICES ASSUME TypeOK, TransferInv, DeviceInv, [Next]_vars PROVE DeviceInv'
      OBVIOUS
    <2>0. /\ Steady' /\ pc' \notin {"idle", "busy"} => Steady
          /\ ~outage' /\ pc' # "busy" => ~outage
      BY SteadyBefore
    <2> USE DEF DeviceInv, TransferInv, BusInv, CountInv, Over, TypeOK, I2cTypeOK,
                Operation, Bytes, bus_vars, call_vars
    <2>1. CASE Start
      BY <2>1, <2>0 DEF Start, CanStart, Sent
    <2>2. CASE Address
      <3>1. /\ pc \in {"address", "readdress"} /\ UNCHANGED <<pc, op, fifo>>
        BY <2>2 DEF Address, CanAddress
      <3>2. CASE device' = device /\ bus' = bus
        BY <2>0, <3>1, <3>2
      <3>3. CASE device' = [device EXCEPT !.listening = "pointer"]
        <4>1. device \in Device
          OBVIOUS
        <4>2. /\ device'.listening = "pointer"
              /\ device'.powered = device.powered
              /\ device'.pointer = device.pointer
          BY ONLY <3>3, <4>1 DEF Device
        <4> QED
          BY <2>0, <3>1, <4>2
      <3> QED
        BY Zenon, <2>2, <3>2, <3>3 DEF Address
    <2>3. CASE Send
      <3>1. /\ pc \in {"value", "sent"} /\ fifo # <<>>
            /\ UNCHANGED <<pc, op, bus>>
        BY <2>3 DEF Send, CanSend
      <3>2. op.reg \in Nat
        BY BusAssumption
      <3>3. CASE UNCHANGED <<device, fifo>>
        BY <2>0, <3>1, <3>3
      <3>4. CASE /\ device.listening = "pointer" /\ fifo' = Tail(fifo)
                 /\ device' = [device EXCEPT !.pointer = Head(fifo),
                                             !.listening = "value"]
        <4>1. Steady => \/ fifo = <<op.reg>>
                        \/ pc = "sent" /\ ~Reads /\ fifo = <<op.reg, 0>>
          BY <3>1, <3>4
        <4>2. Steady => \/ fifo = <<op.reg>> /\ fifo' = <<>>
                        \/ pc = "sent" /\ ~Reads /\ fifo' = <<0>>
          BY <3>2, <3>4, <4>1, TwoBytes
        <4>3. Steady => device'.pointer = op.reg /\ device'.listening = "value"
          BY <3>2, <3>4, <4>1, TwoBytes DEF Device
        <4>4. Steady /\ pc = "sent" /\ ~Reads => fifo' = <<0>>
          BY <3>1, <3>2, <3>4, TwoBytes
        <4>5. device'.powered = device.powered
          BY <3>4 DEF Device
        <4> QED
          BY <2>0, <3>1, <4>1, <4>2, <4>3, <4>4, <4>5
      <3>5. CASE /\ device.listening = "value" /\ fifo' = Tail(fifo)
                 /\ device' = [device EXCEPT !.configured = @ \cup {device.pointer}]
        <4>1. Steady => pc = "sent" /\ ~Reads /\ fifo = <<0>> /\ device.pointer = op.reg
          BY <3>1, <3>5
        <4>2. Steady => fifo' = <<>>
          BY <3>5, <4>1, TwoBytes
        <4>3. /\ device'.powered = device.powered
              /\ device'.configured = device.configured \cup {device.pointer}
          <5>1. device \in Device
            OBVIOUS
          <5> QED
            BY ONLY <3>5, <5>1, Configure
        <4> QED
          BY <2>0, <3>1, <4>1, <4>2, <4>3
      <3> QED
        BY ONLY <2>3, <3>3, <3>4, <3>5 DEF Send
    <2>4. CASE Receive
      BY <2>4, <2>0 DEF Receive, CanReceive, Masked
    <2>5. CASE Stop
      BY <2>5, <2>0 DEF Stop, CanStop, Sent, Unlucky
    <2>6. CASE BusFree
      BY <2>6, <2>0 DEF BusFree, Awaited, Flag, Failed, Sent
    <2>7. CASE SendAddress
      BY <2>7, <2>0 DEF SendAddress, Awaited, Flag, Failed, Sent
    <2>8. CASE ClearAddress
      BY <2>8, <2>0 DEF ClearAddress, Awaited, Flag, Failed, Sent
    <2>9. CASE SendRegister
      BY <2>9, <2>0 DEF SendRegister, Awaited, Flag, Failed, Sent
    <2>10. CASE SendValue
      <3>1. /\ pc = "value" /\ pc' = "sent" /\ bus = "transfer" /\ ~Reads
            /\ UNCHANGED <<device, op>> /\ fifo' = Append(fifo, 0)
        BY <2>10 DEF SendValue, Awaited, Flag
      <3>2. op.reg \in Nat
        BY BusAssumption
      <3>3. \/ fifo = <<op.reg>> /\ fifo' = <<op.reg, 0>>
            \/ fifo = <<>> /\ fifo' = <<0>>
            \/ ~Steady
        <4>1. DeviceInv /\ pc = "value"
          BY <3>1
        <4>2. Steady => fifo = <<op.reg>> \/ fifo = <<>>
          BY ONLY <4>1 DEF DeviceInv
        <4>3. Append(<<op.reg>>, 0) = <<op.reg, 0>> /\ Append(<<>>, 0) = <<0>>
          BY ONLY <3>2, TwoBytes
        <4>4. fifo' = Append(fifo, 0)
          BY ONLY <3>1
        <4> QED
          BY ONLY <4>2, <4>3, <4>4, Zenon
      <3> QED
        BY <2>0, <3>1, <3>3
    <2>11. CASE EndWrite
      BY <2>11, <2>0 DEF EndWrite, Awaited, Flag, Failed, Sent
    <2>12. CASE Restart
      BY <2>12, <2>0 DEF Restart, Awaited, Flag, Failed, Sent
    <2>13. CASE SendReadAddress
      BY <2>13, <2>0 DEF SendReadAddress, Awaited, Flag, Failed, Sent
    <2>14. CASE ReadAddressed
      BY <2>14, <2>0 DEF ReadAddressed, LoopStep, Awaited, Flag, Failed,
        Sent
    <2>15. CASE ClearAck
      BY <2>15, <2>0 DEF ClearAck, Access
    <2>16. CASE ClearReadAddress
      BY <2>16, <2>0 DEF ClearReadAddress, Access
    <2>17. CASE SetStop
      BY <2>17, <2>0 DEF SetStop, Access
    <2>18. CASE ReadOnly
      BY <2>18, <2>0 DEF ReadOnly, Awaited, Flag, Failed, Sent
    <2>19. CASE ReadByte
      BY <2>19, <2>0 DEF ReadByte, LoopStep, Awaited, Flag, Failed, Sent
    <2>20. CASE ReadThird
      BY <2>20, <2>0 DEF ReadThird, Awaited, Flag, Failed, Sent
    <2>21. CASE ReadLast
      BY <2>21, <2>0 DEF ReadLast, Awaited, Flag, Failed, Sent
    <2>22. CASE ReadCr1
      BY <2>22, <2>0 DEF ReadCr1, Access
    <2>23. CASE WriteCr1
      BY <2>23, <2>0 DEF WriteCr1, Access
    <2>24. CASE Abandon
      BY <2>24, <2>0 DEF Abandon, i2c_abort
    <2>25. CASE PowerOn
      BY <2>25, <2>0 DEF PowerOn
    <2>26. CASE LoseSettings
      <3>1. ~Steady' /\ outage'
        BY Zenon, <2>26 DEF LoseSettings, PowerOff, Steady
      <3> QED
        BY <3>1
    <2>27. CASE DropStop
      BY <2>27, <2>0 DEF DropStop
    <2>28. CASE Fault
      BY <2>28, <2>0 DEF Fault
    <2>29. CASE Begin
      BY <2>29, <2>0 DEF Begin, Call
    <2>30. CASE Advance
      BY <2>30, <2>0 DEF Advance, Return
    <2>31. CASE GiveUp
      BY <2>31, <2>0 DEF GiveUp, Return
    <2>32. CASE UNCHANGED vars
      BY <2>32, <2>0 DEF vars, i2c_vars
    <2> QED
      BY Zenon, Steps, <2>1, <2>2, <2>3, <2>4, <2>5, <2>6, <2>7, <2>8, <2>9,
        <2>10, <2>11, <2>12, <2>13, <2>14, <2>15, <2>16, <2>17, <2>18,
        <2>19, <2>20, <2>21, <2>22, <2>23, <2>24, <2>25, <2>26, <2>27,
        <2>28, <2>29, <2>30, <2>31, <2>32
  <1> QED
    BY <1>1, <1>2, TypeCorrect, TransferInvariant, PTL DEF Spec

-----------------------------------------------------------------------------
(* What was read.                                                          *)

(* What was stored and what waits are the device's bytes, in order.        *)
LEMMA DataInvariant == Spec => []DataInv
  <1>1. Init => DataInv
    BY DEF Init, I2cInit, DataInv, ReadExact, Receiving, Ending
  <1>2. TypeOK /\ TransferInv /\ DeviceInv /\ DataInv /\ [Next]_vars => DataInv'
    <2> SUFFICES ASSUME TypeOK, TransferInv, DeviceInv, DataInv, [Next]_vars PROVE DataInv'
      OBVIOUS
    <2>1. /\ Steady' /\ pc' \notin {"idle", "busy"} => Steady
          /\ ~outage' /\ pc' # "busy" => ~outage
      BY SteadyBefore
    <2>2. /\ data \in Seq(Nat) /\ fifo \in Seq(Nat) /\ Len(fifo) <= 2
          /\ op.reg \in Nat /\ op.size \in Nat \ {0} /\ clocked \in Nat
          /\ device.pointer \in Nat /\ BusInv /\ CountInv
          /\ Len(data) \in Nat /\ Len(fifo) \in Nat
      <3>1. /\ data \in Seq(Nat) /\ fifo \in Seq(Nat) /\ Len(fifo) <= 2
            /\ clocked \in Nat /\ op \in Operation /\ device \in Device
        BY Zenon DEF TypeOK, I2cTypeOK, Bytes
      <3>2. op.reg \in Nat /\ op.size \in Nat \ {0}
        <4>1. op.reg \in Registers /\ op.size \in 1 .. MaxSize
          BY <3>1 DEF Operation
        <4>2. op.reg \in Nat
          BY <4>1, BusAssumption
        <4>3. op.size \in Nat /\ op.size # 0
          BY <4>1, BusAssumption
        <4> QED
          BY <4>2, <4>3
      <3>3. device.pointer \in Nat
        BY <3>1 DEF Device, Bytes
      <3>4. Len(data) \in Nat /\ Len(fifo) \in Nat
        BY <3>1
      <3> QED
        BY Zenon, <3>1, <3>2, <3>3, <3>4 DEF TransferInv
    <2>3. pc \in Receiving /\ Steady =>
            /\ Follows(data, op.reg) /\ Follows(fifo, op.reg + Len(data))
            /\ device.listening # "not" /\ device.pointer = op.reg
      BY DEF DataInv, DeviceInv
    <2>4. ASSUME UNCHANGED <<pc, result, data, fifo, op>> PROVE DataInv'
      <3>1. Reads' = Reads /\ (Follows(data, op.reg))' = Follows(data, op.reg)
            /\ (Follows(fifo, op.reg + Len(data)))' = Follows(fifo, op.reg + Len(data))
        BY <2>4 DEF Reads, Follows
      <3>2. ReadExact'
        BY <2>1, <2>4, <3>1 DEF DataInv, ReadExact
      <3> QED
        BY Zenon, <2>1, <2>4, <3>1, <3>2 DEF DataInv, Receiving, Ending
    <2>5. ASSUME pc' \notin Receiving \cup Ending,
                 pc' # "idle" \/ result' # "ok" \/ ~Reads'
          PROVE  DataInv'
      BY <2>5 DEF DataInv, ReadExact, Receiving, Ending
    <2>6. ASSUME pc' \in Receiving, data' = <<>>, fifo' = <<>> PROVE DataInv'
      BY <2>6, FollowsNothing DEF DataInv, ReadExact, Receiving, Ending
    <2>7. ASSUME pc \in Receiving, pc' \in Receiving \cup Ending, op' = op,
                 fifo # <<>>, data' = Append(data, Head(fifo)), fifo' = Tail(fifo)
          PROVE  DataInv'
      <3>1. pc' \notin {"idle", "busy"}
        BY <2>7 DEF Receiving, Ending
      <3>2. ASSUME Steady
            PROVE  Follows(data', op.reg) /\ Follows(fifo', op.reg + Len(data'))
        <4>1. Head(fifo) = op.reg + Len(data) /\ Follows(Tail(fifo), op.reg + Len(data) + 1)
          <5>1. op.reg + Len(data) \in Nat
            BY <2>2
          <5> QED
            BY <2>2, <2>3, <2>7, <3>2, <5>1, FollowsTail, Zenon
        <4>2. Follows(data', op.reg)
          BY <2>2, <2>3, <2>7, <3>2, <4>1, FollowsAppend
        <4>3. Len(data') = Len(data) + 1
          BY <2>2, <2>7, Lengths
        <4>4. op.reg + Len(data') = op.reg + Len(data) + 1
          <5>1. Len(data) \in Nat /\ op.reg \in Nat
            BY Zenon, <2>2
          <5> QED
            BY ONLY <4>3, <5>1
        <4> QED
          BY Zenon, <2>7, <4>1, <4>2, <4>4
      <3> QED
        BY Zenon, <2>1, <2>7, <3>1, <3>2 DEF DataInv, ReadExact
    <2>8. CASE Start \/ Address \/ Stop \/ PowerOn \/ LoseSettings \/ DropStop \/ Fault
      BY <2>4, <2>8, Zenon DEF Start, Address, Stop, PowerOn, LoseSettings, PowerOff, DropStop,
        Fault, bus_vars, call_vars
    <2>9. CASE Send
      <3>1. pc' = pc /\ pc \notin Receiving \cup Ending \cup {"idle"}
        BY <2>2, <2>9 DEF Send, CanSend, BusInv, Over, Receiving, Ending, call_vars
      <3> QED
        BY <2>5, <3>1
    <2>10. CASE Receive
      <3>1. /\ bus = "transfer" /\ reading /\ Len(fifo) < 2
            /\ "STOP" \in cr1 => clocked = 0
            /\ pc \notin {"clear", "stop"} /\ UNCHANGED <<pc, data, op>>
        BY <2>10 DEF Receive, CanReceive, Masked, call_vars
      <3>2. pc \in Receiving
        <4>1. pc \in WaitSteps \cup AccessSteps \cup {"idle"}
          BY DEF TypeOK, I2cTypeOK
        <4> QED
          BY <2>2, <3>1, <4>1 DEF BusInv, Over, Receiving, Ending, WaitSteps, AccessSteps
      <3>3. ~refused /\ clocked = Len(data) + Len(fifo)
        BY <2>2, <3>1, <3>2 DEF CountInv, BusInv, Receiving
      <3>4. ASSUME Steady PROVE Follows(fifo', op.reg + Len(data))
        <4> DEFINE first == op.reg + Len(data)
        <4>1. fifo' = Append(fifo, first + Len(fifo))
          <5>1. fifo' = Append(fifo, device.pointer + clocked)
            BY <2>3, <2>10, <3>2, <3>3, <3>4 DEF Receive
          <5>2. device.pointer + clocked = first + Len(fifo)
            BY <2>2, <2>3, <3>2, <3>3, <3>4
          <5> QED
            BY Zenon, <5>1, <5>2
        <4>2. first \in Nat
          BY <2>2
        <4> QED
          BY <2>2, <2>3, <3>2, <3>4, <4>1, <4>2, FollowsAppend, Zenon
      <3>5. pc' \notin Ending \cup {"idle", "busy"}
        BY <3>1, <3>2 DEF Receiving, Ending
      <3>6. Steady' => Follows(data', op.reg) /\ Follows(fifo', op.reg + Len(data'))
        BY Zenon, <2>1, <2>3, <3>1, <3>2, <3>4, <3>5
      <3> QED
        BY Zenon, <3>1, <3>5, <3>6 DEF DataInv, ReadExact
    <2>11. CASE BusFree \/ SendAddress \/ ClearAddress \/ SendRegister \/ SendValue
      BY <2>5, <2>11 DEF BusFree, SendAddress, ClearAddress, SendRegister, SendValue,
        Receiving, Ending
    <2>12. CASE EndWrite
      <3>1. pc' = "idle" /\ ~Reads'
        BY <2>12 DEF EndWrite, Awaited, Reads
      <3> QED
        BY <2>5, <3>1 DEF Receiving, Ending
    <2>13. CASE Restart \/ SendReadAddress \/ ClearAck \/ Begin
      BY <2>5, <2>13 DEF Restart, SendReadAddress, ClearAck, Begin, Call, Receiving, Ending
    <2>14. CASE ReadAddressed \/ ClearReadAddress \/ SetStop
      <3>1. pc \in {"readdress", "clear", "stop"} /\ UNCHANGED <<data, fifo>>
            /\ pc' \in Receiving \cup {"ack", "stop"}
        BY <2>14 DEF ReadAddressed, ClearReadAddress, SetStop, Awaited, Access, LoopStep,
          Receiving
      <3>2. data = <<>> /\ fifo = <<>>
        BY <2>2, <3>1 DEF CountInv, Receiving, Ending
      <3>3. CASE pc' \in Receiving
        BY <2>6, <3>1, <3>2, <3>3
      <3>4. CASE pc' \in {"ack", "stop"}
        BY <2>5, <3>4 DEF Receiving, Ending
      <3> QED
        BY <3>1, <3>3, <3>4
    <2>15. CASE ReadOnly
      <3>1. pc = "only" /\ pc' = "pos_read" /\ op' = op /\ fifo # <<>>
            /\ data' = <<Head(fifo)>> /\ fifo' = Tail(fifo)
        BY <2>15 DEF ReadOnly, Awaited, Flag
      <3>2. data = <<>>
        BY <2>2, <3>1 DEF CountInv
      <3>3. data' = Append(data, Head(fifo))
        <4>1. Head(fifo) \in Nat
          BY <2>2, <3>1
        <4> QED
          BY <3>1, <3>2, <4>1, TwoBytes
      <3> QED
        BY <2>7, <3>1, <3>3 DEF Receiving, Ending
    <2>16. CASE ReadByte
      <3>1. pc = "byte" /\ pc' \in Receiving /\ op' = op /\ fifo # <<>>
            /\ data' = Append(data, Head(fifo)) /\ fifo' = Tail(fifo)
        BY <2>16 DEF ReadByte, Awaited, Flag, LoopStep, Receiving
      <3> QED
        BY <2>7, <3>1 DEF Receiving
    <2>17. CASE ReadThird
      <3>1. pc = "three" /\ pc' = "last" /\ op' = op
            /\ data' = Append(data, Head(fifo)) /\ fifo' = Tail(fifo)
        BY Zenon, <2>17 DEF ReadThird, Awaited
      <3>2. Len(fifo) = 2
        BY <2>17 DEF ReadThird, Awaited, Flag
      <3>3. fifo # <<>>
        BY ONLY <3>2
      <3> QED
        BY <2>7, <3>1, <3>3 DEF Receiving
    <2>18. CASE ReadLast
      <3>1. pc = "last" /\ pc' = "pos_read" /\ op' = op /\ data' = data \o fifo
        BY Zenon, <2>18 DEF ReadLast, Awaited
      <3>2. Steady => Follows(data', op.reg)
        BY <2>2, <2>3, <3>1, FollowsConcat, Zenon DEF Receiving
      <3> QED
        BY <2>1, <3>1, <3>2 DEF DataInv, ReadExact, Receiving, Ending
    <2>19. CASE ReadCr1 \/ WriteCr1
      <3>1. pc \in Ending /\ UNCHANGED <<op, data, outage>>
            /\ pc' \in Ending \cup {"idle"}
        BY <2>19 DEF ReadCr1, WriteCr1, Access, Ending
      <3>2. CASE pc' \in Ending
        <4>1. Steady => Follows(data, op.reg)
          BY <3>1 DEF DataInv
        <4>2. pc' \notin {"idle", "busy"} \cup Receiving
          BY <3>2 DEF Ending, Receiving
        <4>3. Steady' => Follows(data', op.reg)
          BY Zenon, <2>1, <3>1, <4>1, <4>2
        <4> QED
          BY Zenon, <3>1, <4>2, <4>3 DEF DataInv, ReadExact
      <3>3. CASE pc' = "idle"
        <4>1. ~outage' => Follows(data, op.reg)
          BY <3>1 DEF DataInv, Steady
        <4>2. Len(data) = op.size
          BY <2>2, <3>1 DEF CountInv
        <4>3. ~outage' => data' = [i \in 1 .. op.size |-> op.reg + i - 1]
          BY Zenon, <2>2, <3>1, <4>1, <4>2, FollowsExactly
        <4>4. ReadExact'
          BY Zenon, <3>1, <4>3 DEF ReadExact
        <4> QED
          BY <3>3, <4>4 DEF DataInv, Receiving, Ending
      <3> QED
        BY <3>1, <3>2, <3>3
    <2>20. CASE Abandon
      BY <2>5, <2>20 DEF Abandon, Receiving, Ending
    <2>21. CASE Advance \/ GiveUp
      BY <2>5, <2>21 DEF Advance, GiveUp, Return, Receiving, Ending
    <2>22. CASE UNCHANGED vars
      BY <2>4, <2>22 DEF vars, i2c_vars, call_vars, bus_vars
    <2> QED
      BY Zenon, Steps, <2>8, <2>9, <2>10, <2>11, <2>12, <2>13, <2>14, <2>15, <2>16,
         <2>17, <2>18, <2>19, <2>20, <2>21, <2>22
  <1> QED
    BY <1>1, <1>2, TypeCorrect, TransferInvariant, DeviceInvariant, PTL DEF Spec

(* A read that returns 0 during which the device kept its power has stored *)
(* its bytes, all of them and in order.                                    *)
THEOREM ReadsAreExact == Spec => []ReadExact
  BY DataInvariant, PTL DEF DataInv

-----------------------------------------------------------------------------
(* The settings.                                                           *)

(* The settings that mpu_init has written are in the device, until it      *)
(* loses its power.                                                        *)
LEMMA SettingsInvariant == Spec => []SettingsInv
  <1>1. Init => SettingsInv
    BY DEF Init, I2cInit, SettingsInv, Written, ConfiguredSample
  <1>2. TypeOK /\ TransferInv /\ DeviceInv /\ SettingsInv /\ [Next]_vars => SettingsInv'
    <2> SUFFICES ASSUME TypeOK, TransferInv, DeviceInv, SettingsInv, [Next]_vars
                 PROVE  SettingsInv'
      OBVIOUS
    <2>1. device \in Device /\ step \in MpuSteps
      BY DEF TypeOK, I2cTypeOK
    <2>2. ASSUME UNCHANGED mpu_vars, device.configured \subseteq device'.configured,
                 op' = op,
                 pc # "idle" \/ (pc' = "idle" /\ result' = result),
                 pc' # "idle" => result' = result,
                 ~lapse /\ pc # "idle" /\ pc' = "idle" /\ result' = "ok" /\ ~Reads =>
                   op.reg \in device.configured
          PROVE  SettingsInv'
      <3>1. Calls' = Calls /\ Reads' = Reads /\ Written' = Written /\ lapse' = lapse
            /\ ConfiguredSample' = ConfiguredSample
        BY <2>2 DEF mpu_vars, Calls, Reads, Written, ConfiguredSample
      <3>2. (pc' # "idle" \/ result' # "none" => op' \in Calls') /\ (pc' # "idle" => result' = "none")
        BY Zenon, <2>2, <3>1 DEF SettingsInv
      <3>3. ~lapse' => Written' \subseteq device'.configured
        BY Zenon, <2>2, <3>1 DEF SettingsInv
      <3>4. ~lapse' /\ pc' = "idle" /\ result' = "ok" /\ ~Reads' =>
              op'.reg \in device'.configured
        BY Zenon, <2>2, <3>1 DEF SettingsInv
      <3> QED
        BY Zenon, <3>1, <3>2, <3>3, <3>4 DEF SettingsInv
    <2>3. CASE PeripheralStep
      <3>1. UNCHANGED <<mpu_vars, call_vars>>
        BY Zenon, <2>3 DEF PeripheralStep, Peripheral, Start, Address, Send, Receive, Stop
      <3>2. device' = device \/ Address \/ Send
        BY Zenon, <2>3 DEF PeripheralStep, Peripheral, Start, Receive, Stop
      <3>3. device.configured \subseteq device'.configured
        <4>1. CASE Address
          <5>1. device' = device \/ device' = [device EXCEPT !.listening = "pointer"]
            BY <4>1 DEF Address
          <5> QED
            BY ONLY <2>1, <5>1 DEF Device
        <4>2. CASE Send
          <5>1. \/ device' = device
                \/ device' = [device EXCEPT !.pointer = Head(fifo), !.listening = "value"]
                \/ device' = [device EXCEPT !.configured = @ \cup {device.pointer}]
            BY Zenon, <4>2 DEF Send
          <5>2. ASSUME device' = [device EXCEPT !.configured = @ \cup {device.pointer}]
                PROVE  device.configured \subseteq device'.configured
            BY ONLY <2>1, <5>2, Configure
          <5>3. ASSUME device' = [device EXCEPT !.pointer = Head(fifo), !.listening = "value"]
                PROVE  device.configured \subseteq device'.configured
            BY ONLY <2>1, <5>3 DEF Device
          <5> QED
            BY Zenon, <5>1, <5>2, <5>3
        <4> QED
          BY Zenon, <3>2, <4>1, <4>2
      <3> QED
        BY <2>2, <3>1, <3>3 DEF call_vars
    <2>4. CASE DriverStep
      <3>1. pc # "idle" /\ UNCHANGED <<mpu_vars, op, device>>
            /\ (pc' # "idle" => result' = result)
        <4>1. pc \in WaitSteps \cup AccessSteps
          BY <2>4 DEF DriverStep, Driver, BusFree, SendAddress, ClearAddress, SendRegister,
            SendValue, EndWrite, Restart, SendReadAddress, ReadAddressed, ClearAck,
            ClearReadAddress, SetStop, ReadOnly, ReadByte, ReadThird, ReadLast, ReadCr1,
            WriteCr1, Abandon,
            Awaited, Access, WaitSteps, AccessSteps
        <4>2. UNCHANGED <<mpu_vars, op, device>> /\ (pc' # "idle" => result' = result)
          BY Zenon, <2>4 DEF DriverStep, Driver, BusFree, SendAddress, ClearAddress, SendRegister,
            SendValue, EndWrite, Restart, SendReadAddress, ReadAddressed, ClearAck,
            ClearReadAddress, SetStop, ReadOnly, ReadByte, ReadThird, ReadLast, ReadCr1,
            WriteCr1, Abandon,
            Awaited, Access
        <4> QED
          BY <4>1, <4>2 DEF WaitSteps, AccessSteps
      <3>2. ASSUME ~lapse, pc' = "idle", result' = "ok", ~Reads
            PROVE  op.reg \in device.configured
        <4>1. CASE EndWrite
          <5>1. pc = "sent" /\ fifo = <<>>
            BY <4>1 DEF EndWrite, Awaited, Flag, Sent
          <5>2. op.reg \in Nat
            BY BusAssumption DEF TypeOK, I2cTypeOK, Operation
          <5>3. fifo # <<op.reg, 0>> /\ fifo # <<0>>
            BY <5>1, <5>2, TwoBytes
          <5> QED
            BY <3>2, <5>1, <5>3 DEF DeviceInv, Steady
        <4>2. CASE WriteCr1
          BY <3>2, <4>2 DEF WriteCr1, Access, TransferInv, BusInv, Ending
        <4>3. CASE ~EndWrite /\ ~WriteCr1
          <5>1. result' = result \/ result' = "failed"
            BY Zenon, <2>4, <4>3 DEF DriverStep, Driver, BusFree, SendAddress, ClearAddress, SendRegister,
            SendValue, Restart, SendReadAddress, ReadAddressed, ClearAck,
            ClearReadAddress, SetStop, ReadOnly, ReadByte, ReadThird, ReadLast, ReadCr1,
            Abandon, Awaited, Access
          <5> QED
            BY <3>1, <3>2, <5>1 DEF SettingsInv
        <4> QED
          BY <4>1, <4>2, <4>3
      <3> QED
        BY <2>2, <3>1, <3>2
    <2>5. CASE PowerUp \/ Disturb
      <3>1. UNCHANGED <<mpu_vars, call_vars>>
        BY Zenon, <2>5 DEF PowerUp, PowerOn, Disturb, DropStop, Fault
      <3>2. device' = device \/ device' = [device EXCEPT !.powered = TRUE]
        BY Zenon, <2>5 DEF PowerUp, PowerOn, Disturb, DropStop, Fault
      <3>3. device.configured \subseteq device'.configured
        BY ONLY <2>1, <3>2 DEF Device
      <3> QED
        BY <2>2, <3>1, <3>3 DEF call_vars
    <2>6. CASE LoseSettings
      <3>1. lapse' /\ UNCHANGED <<step, sensor_valid, awake, op, pc, result>>
        BY <2>6 DEF LoseSettings, PowerOff, call_vars
      <3> QED
        BY <3>1 DEF SettingsInv, Calls, ConfiguredSample
    <2>7. CASE Begin
      <3>1. /\ op' \in Calls /\ pc' = "busy" /\ result' = "none"
            /\ UNCHANGED <<mpu_vars, device>>
        BY Zenon, <2>7 DEF Begin, Call
      <3> QED
        BY <3>1 DEF SettingsInv, Calls, Written, ConfiguredSample, mpu_vars
    <2>8. CASE Advance
      <3>1. /\ pc = "idle" /\ result = "ok" /\ step' = After
            /\ UNCHANGED <<op, pc, device, lapse>> /\ result' = "none"
        BY Zenon, <2>8 DEF Advance, Return, Succeeded
      <3>2. op \in Calls
        BY <3>1 DEF SettingsInv
      <3>3. ASSUME ~lapse PROVE Written' \subseteq device.configured
        <4>1. Written \subseteq device.configured
          BY <3>3 DEF SettingsInv
        <4>2. ~Reads => op.reg \in device.configured
          BY <3>1, <3>3 DEF SettingsInv
        <4>3. CASE step = "id"
          BY <3>1, <4>3 DEF After, Written
        <4>4. CASE step = "wake"
          BY <3>1, <3>2, <4>1, <4>2, <4>4 DEF After, Written, Calls, Reads
        <4>5. CASE step = "accel"
          BY <3>1, <3>2, <4>1, <4>2, <4>5 DEF After, Written, Calls, Reads
        <4>6. CASE step = "gyro"
          BY <3>1, <3>2, <4>1, <4>2, <4>6 DEF After, Written, Calls, Reads
        <4>7. CASE step = "sample"
          BY <3>1, <4>1, <4>7 DEF After, Written
        <4> QED
          BY <2>1, <4>3, <4>4, <4>5, <4>6, <4>7 DEF MpuSteps
      <3>4. ConfiguredSample'
        <4>1. CASE step = "sample"
          <5>1. awake' = (Settings \subseteq device.configured)
            BY <2>8, <4>1 DEF Advance
          <5>2. ~lapse => Settings \subseteq device.configured
            BY <4>1 DEF SettingsInv, Written, Settings
          <5> QED
            BY Zenon, <3>1, <5>1, <5>2 DEF ConfiguredSample
        <4>2. CASE step # "sample"
          <5>1. UNCHANGED <<sensor_valid, awake>>
            BY <2>8, <4>2 DEF Advance
          <5> QED
            BY <3>1, <5>1 DEF ConfiguredSample, SettingsInv
        <4> QED
          BY <4>1, <4>2
      <3> QED
        BY Zenon, <3>1, <3>3, <3>4 DEF SettingsInv
    <2>9. CASE GiveUp
      <3>1. /\ pc' = "idle" /\ result' = "none" /\ step' = "id" /\ ~sensor_valid'
        BY <2>9 DEF GiveUp, Return, StepAfterFailure
      <3> QED
        BY <3>1 DEF SettingsInv, Written, ConfiguredSample
    <2>10. CASE UNCHANGED vars
      <3>1. UNCHANGED <<mpu_vars, device, op, pc, result>>
        BY <2>10 DEF vars, i2c_vars, call_vars
      <3> QED
        BY <2>2, <3>1
    <2> QED
      BY Zenon, <2>3, <2>4, <2>5, <2>6, <2>7, <2>8, <2>9, <2>10 DEF Next
  <1> QED
    BY <1>1, <1>2, TypeCorrect, TransferInvariant, DeviceInvariant, PTL DEF Spec

(* A valid sample is of a configured sensor, unless it lost its settings   *)
(* since the last failure that the driver saw.                             *)
THEOREM SamplesAreConfigured == Spec => []ConfiguredSample
  BY SettingsInvariant, PTL DEF SettingsInv
=============================================================================
