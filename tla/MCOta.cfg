SPECIFICATION Spec
CONSTANTS
    a = a
    b = b
    Clients = {c1, c2}
    Images = {a, b}
    Factory = a
    Broken = {b}
    Pieces <- MCPieces
    SlotSize = 2
    MaxTries = 2
    MaxSockets = 1
    MaxInbox = 1
    MaxRestarts = 1
INVARIANT OtaTypeOK
INVARIANT WrittenInPlace
INVARIANT NeverSkips
INVARIANT NeverBricked
 
PROPERTY AppliedMeansStaged
PROPERTY OperationEnds
PROPERTY ComesBack
CHECK_DEADLOCK FALSE
