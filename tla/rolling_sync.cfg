SPECIFICATION FairSpec
CONSTANTS
    BLOCK_SZ = 2
    ROLLING_CHKSUM_M = 4
    CHUNK_BLK_HASH = 2
    EVERY_READ_BYTES = 3
    Room = 4
    OFF = 32
    Bytes = {0, 1, 3}
    MaxLen = 5
    SrcLen = 5
    SrcFiles <- MCSrcFiles
    DstFiles <- MCDstFiles
    RepFiles <- MCRepFiles
    Missing = Missing
    Unreadable = Unreadable
CHECK_DEADLOCK FALSE
INVARIANTS
    TypeOK
    ChainsExact
    RollingExact
    Replica
PROPERTIES
    Ends
