\* Three sessions come and go, one of them publishes; no failures.
SPECIFICATION Spec
CONSTANTS
    p1 = p1
    p2 = p2
    p3 = p3
    t1 = t1
    t2 = t2
    NoPeer = NoPeer
    Peer = {p1, p2, p3}
    PeerId = {p1, p2, p3}
    IdOf <- FreshIdOf
    KeyPrefix <- FreshPrefix
    Track = {t1}
    Owner <- TrackOwner
    Faults = {}
SYMMETRY Subscribers
INVARIANTS
    TypeOK
    LeaverTornDown
    FullMesh
    NoLostChange
PROPERTIES
    KeepsMembersTracks
    RemoveLeavesOnlyDuplicates
