SPECIFICATION SyncFairSpec
CONSTANTS
    BLK_SZ = 2
    MaxLen = 5
    ClientFiles <- MCClientFiles
    ServerFiles <- MCServerFiles
    NoServerFile = NoServerFile
    Buffer = 1
CHECK_DEADLOCK FALSE
INVARIANTS
    SyncTypeOK
    SyncedUnlessTorn
PROPERTIES
    SyncEnds
