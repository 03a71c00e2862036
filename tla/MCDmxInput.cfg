SPECIFICATION DmxSpec
CONSTANTS
    MaxSources = 2
    ArtnetIds = {"artnet"}
    SacnIds = {"sacn", "backup"}
    PriorityOf <- MCPriorityOf
    Levels = {0, 255}
    Seqs = {1, 255}
    Universes = {1, 2}
    Merges = {"LTP"}
INVARIANT DTypeOK
 
PROPERTY EvictsOnlyWhenFull
 
PROPERTY LossDetected
PROPERTY MembershipFollows
