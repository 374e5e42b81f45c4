\* Two sessions publish and leave; pion calls fail and buffers overflow.
SPECIFICATION LiveSpec
CONSTANTS
    p1 = p1
    p2 = p2
    p3 = p3
    t1 = t1
    t2 = t2
    NoPeer = NoPeer
    Peer = {p1, p2}
    PeerId = {p1, p2}
    IdOf <- FreshIdOf
    KeyPrefix <- FreshPrefix
    Track = {t1, t2}
    Owner <- TrackOwner
    Faults = {"pion", "overflow"}
INVARIANTS
    OneOutstandingOffer
    IndInv
PROPERTIES
    NegotiationImplemented
    ClientConverges
    LeaverGoes
