SPECIFICATION DriveSpec
CONSTANTS
    Callers = {"main", "tps", "timer", "admin", "dmx"}
    QueueLen = 1
    Requests <- MCRequests
    DarkLimits = {0}
    DefaultDim = 0
    BlinkCycles = 1
    AdminRequests = {}
    AdminLevels = {}
    Modes = {"AUTO"}
    Caps = {100}
    DriverKeepsUp = TRUE
    Percents = {60}
    Loss = 30
PROPERTY LossRespectsGate
