------------------------------ MODULE MCMpu6050 ------------------------------
(***************************************************************************)
(* Mpu6050 for TLC.  The sample of the firmware has 14 registers: five     *)
(* take the loop of i2c_register_read twice, and two are the size that it  *)
(* handles apart and no caller uses.                                       *)
(***************************************************************************)
EXTENDS Mpu6050

MCMaxSize == 5
MCSampleSizes == {2, 5}
=============================================================================
