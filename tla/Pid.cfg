SPECIFICATION PidSpec
CONSTANTS
    Readings <- MCReadings
    Setpoint <- MCSetpoint
    Kp <- MCKp
    Ki <- MCKi
    Kd <- MCKd
    OutputMax <- MCOutputMax
INVARIANTS
    PidTypeOK
    Unwinds
PROPERTIES
    LeavesLimit
