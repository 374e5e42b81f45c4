\* A publisher leaves while a fan-out or a join still holds its track.
SPECIFICATION Spec
CONSTANTS
    p1 = p1
    p2 = p2
    p3 = p3
    t1 = t1
    t2 = t2
    NoPeer = NoPeer
    Peer = {p1, p2}
    PeerId = {p1, p2}
    IdOf <- FreshIdOf
    KeyPrefix <- FreshPrefix
    Track = {t1}
    Owner <- TrackOwner
    Faults = {}
INVARIANT
    NoGhostTrack
