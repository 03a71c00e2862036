SPECIFICATION PSpec
CONSTANTS
    Callers = {"main", "tps", "timer", "admin"}
    QueueLen = 1
    Requests <- PmCommands
    DarkLimits = {0}
    DefaultDim = 0
    BlinkCycles = 1
    AdminRequests = {"ON", "IDENTIFY"}
    AdminLevels = {}
    Modes = {"AUTO"}
    Caps = {100}
    DriverKeepsUp = TRUE
PROPERTY PowerLossCuts
PROPERTY ResumesAfterBlip
