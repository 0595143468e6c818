------------------------------- MODULE Mpu6050 -------------------------------
(***************************************************************************)
(* The bench's sensor (mpu6050.c) over the I2C master: mpu_init, mpu_read, *)
(* and the part of bench_acquire (bench_app.c) that initialises the sensor *)
(* again after a failure.                                                  *)
(*                                                                         *)
(* The delay after the wake-up and the decoding of the values are left     *)
(* out.                                                                    *)
(***************************************************************************)
EXTENDS I2cMaster

CONSTANT SampleSizes    \* how many registers mpu_read reads (14)

WHO_AM_I == 117
PWR_MGMT_1 == 107
ACCEL_CONFIG == 28
GYRO_CONFIG == 27
ACCEL_XOUT_H == 59

MpuRegisters == {WHO_AM_I, PWR_MGMT_1, ACCEL_CONFIG, GYRO_CONFIG, ACCEL_XOUT_H}
Settings == {PWR_MGMT_1, ACCEL_CONFIG, GYRO_CONFIG}

ASSUME SampleAssumption ==
    SampleSizes \subseteq 1 .. MaxSize /\ MpuRegisters \subseteq Registers

VARIABLES
    step,           \* the call of the bus that is made or comes next
    sensor_ready,
    sensor_valid,   \* of the last sample
    awake,          \* history: the sensor was configured when it was read
    lapse           \* history: it lost its settings since the last failure

mpu_vars == <<step, sensor_ready, sensor_valid, awake, lapse>>
vars == <<i2c_vars, mpu_vars>>

MpuSteps == {"id", "wake", "accel", "gyro", "sample"}

TypeOK ==
    /\ I2cTypeOK
    /\ step \in MpuSteps /\ sensor_ready \in BOOLEAN
    /\ sensor_valid \in BOOLEAN /\ awake \in BOOLEAN /\ lapse \in BOOLEAN

Init ==
    /\ I2cInit
    /\ step = "id" /\ sensor_ready = FALSE /\ sensor_valid = FALSE
    /\ awake = FALSE /\ lapse = FALSE

(* The call of each step.                                                  *)
Calls ==
    CASE step = "id" -> {[kind |-> "read", reg |-> WHO_AM_I, size |-> 1]}
      [] step = "wake" -> {[kind |-> "write", reg |-> PWR_MGMT_1, size |-> 1]}
      [] step = "accel" -> {[kind |-> "write", reg |-> ACCEL_CONFIG, size |-> 1]}
      [] step = "gyro" -> {[kind |-> "write", reg |-> GYRO_CONFIG, size |-> 1]}
      [] step = "sample" -> {[kind |-> "read", reg |-> ACCEL_XOUT_H, size |-> n] :
                                n \in SampleSizes}

Begin ==
    /\ result = "none"
    /\ \E operation \in Calls : Call(operation)
    /\ UNCHANGED mpu_vars

(* mpu_init also wants the right identity.                                 *)
Succeeded == result = "ok" /\ (step = "id" => data = <<WHO_AM_I>>)

After ==
    CASE step = "id" -> "wake"
      [] step = "wake" -> "accel"
      [] step = "accel" -> "gyro"
      [] step \in {"gyro", "sample"} -> "sample"

(* A call returns to mpu_init or mpu_read.                                 *)
Return ==
    /\ pc = "idle" /\ result # "none"
    /\ result' = "none"
    /\ UNCHANGED <<bus_vars, device, op, pc, data, copy, waits, outage, faults>>

Advance ==
    /\ Return /\ Succeeded
    /\ step' = After
    /\ sensor_ready' = (step \in {"gyro", "sample"})
    /\ IF step = "sample"
       THEN /\ sensor_valid' = TRUE
            /\ awake' = (Settings \subseteq device.configured)
       ELSE UNCHANGED <<sensor_valid, awake>>
    /\ UNCHANGED lapse

(* After any failure the next sample begins with mpu_init.                 *)
StepAfterFailure_Same == step
StepAfterFailure == "id"

GiveUp ==
    /\ Return /\ ~Succeeded
    /\ step' = StepAfterFailure
    /\ sensor_ready' = FALSE /\ sensor_valid' = FALSE
    /\ awake' = FALSE /\ lapse' = FALSE

LoseSettings ==
    /\ PowerOff
    /\ lapse' = TRUE
    /\ UNCHANGED <<step, sensor_ready, sensor_valid, awake>>

PeripheralStep == Peripheral /\ UNCHANGED mpu_vars
DriverStep == Driver /\ UNCHANGED mpu_vars
PowerUp == PowerOn /\ UNCHANGED mpu_vars
Disturb == (DropStop \/ Fault) /\ UNCHANGED mpu_vars

Next ==
    \/ PeripheralStep
    \/ DriverStep
    \/ PowerUp
    \/ Disturb
    \/ LoseSettings
    \/ Begin
    \/ Advance
    \/ GiveUp

Spec == Init /\ [][Next]_vars

(* The peripheral is faster than a time-out, the task that acquires runs,  *)
(* and a device without power gets it back.                                *)
Fairness ==
    /\ WF_vars(PeripheralStep)
    /\ WF_vars(DriverStep)
    /\ WF_vars(PowerUp)
    /\ WF_vars(Begin \/ Advance \/ GiveUp)

FairSpec == Spec /\ Fairness

-----------------------------------------------------------------------------
(* Properties.                                                             *)

(* A valid sample is of a sensor that was woken and configured, unless it  *)
(* lost its settings since the last failure that the driver saw: then the  *)
(* driver has no way to know (mpu6050.c:15-19, 25; bench_app.c:9-14).      *)
ConfiguredSample == sensor_valid /\ ~lapse => awake

(* When the faults of the bus end, so do the failures: the abort of a      *)
(* transfer in any phase, and a STOP requested twice, leave a peripheral   *)
(* that the next calls can use ("explicit safe reset after recovery",      *)
(* README.md:41-42 of the bench; board.c:69-73, 125).                      *)
Recovers == <>[]sensor_valid
=============================================================================
