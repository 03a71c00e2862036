SPECIFICATION PSpec
CONSTANTS
    Callers = {"main", "tps", "timer", "admin"}
    QueueLen = 2
    Requests <- PmCommands
    DarkLimits = {0}
    DefaultDim = 0
    BlinkCycles = 1
    AdminRequests = {"ON"}
    AdminLevels = {}
    Modes = {"AUTO"}
    Caps = {51}
    DriverKeepsUp = TRUE
INVARIANT WantedIsLit
