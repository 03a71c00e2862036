SPECIFICATION PSpec
CONSTANTS
    Callers = {"main", "tps", "timer", "admin"}
    QueueLen = 2
    Requests <- PmCommands
    DarkLimits = {0}
    DefaultDim = 0
    BlinkCycles = 1
    AdminRequests = {"OFF", "CONFIG"}
    AdminLevels = {60}
    Modes = {"AUTO", "POE_ONLY", "POE_PLUS_REQUIRED"}
    Caps = {51}
    DriverKeepsUp = TRUE
INVARIANT PTypeOK
INVARIANT StateIsCurrent
INVARIANT CapDelivered
 
