-------------------------------- MODULE MCPid --------------------------------
(***************************************************************************)
(* Pid for TLC: what main.c passes, with temperatures in 1/16 degree, a    *)
(* step of the sensor, and outputs in 1/1600 A.  kp = 0.5, ki = 0.1,       *)
(* kd = 0.01 and dt = 0.1 s are then 50, 1 and 10 units for a step of      *)
(* error.  The setpoint is 45 degrees, the temperatures are those of the   *)
(* simulated sensor, 24.5 and 65.1875, and the upper limit is 5 A in place *)
(* of 150 A, so that the integral reaches it within 25 calls.              *)
(***************************************************************************)
EXTENDS Pid

MCReadings == {392, 1043}
MCSetpoint == 720
MCKp == 50
MCKi == 1
MCKd == 10
MCOutputMax == 8000
=============================================================================
