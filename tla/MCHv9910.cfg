SPECIFICATION Spec
CONSTANTS
    Callers = {c1, c2}
    QueueLen = 2
    Requests <- MCRequests
    DarkLimits = {0, 150}
    DefaultDim = 0
    BlinkCycles = 1
SYMMETRY Symmetry
INVARIANT TypeOK
INVARIANT RenderInSync
INVARIANT EmergencyFirst
INVARIANT BlinkOwnsLevel
PROPERTY RelitOnlyByRequest
PROPERTY ImplementsGate
