CONSTANTS
    a1 = a1  v1 = v1  v2 = v2
    Track = {a1, v1, v2}
    KindOf <- MCKindOf
    PeerOf <- MCPeerOf
    None = None
    MaxNow = 1
SPECIFICATION LiveSpec
CONSTRAINT OneFails
INVARIANTS
    TypeOK
    InSync
    BothKindsAccepted
    MuxedOnce
PROPERTY
    VideoRecorded
\* Every peer may leave, and the recording end: nothing is left to do.
CHECK_DEADLOCK FALSE
