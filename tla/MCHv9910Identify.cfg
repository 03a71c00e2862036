SPECIFICATION Spec
CONSTANTS
    Callers = {c1}
    QueueLen = 2
    Requests <- MCRequests
    DarkLimits = {0, 150}
    DefaultDim = 0
    BlinkCycles = 2
PROPERTY IdentifyRestoresLevel
