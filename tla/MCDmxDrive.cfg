SPECIFICATION DriveSpec
CONSTANTS
    Callers = {"main", "tps", "timer", "admin", "dmx"}
    QueueLen = 1
    Requests <- MCRequests
    DarkLimits = {0}
    DefaultDim = 0
    BlinkCycles = 1
    AdminRequests = {}
    AdminLevels = {}
    Modes = {"POE_PLUS_REQUIRED"}
    Caps = {100}
    DriverKeepsUp = TRUE
    Percents = {0, 60}
    Loss = 0
INVARIANT DriveTypeOK
 
PROPERTY LossFires
