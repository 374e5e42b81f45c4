\* The timer of one recording goes off when the next has started.
SPECIFICATION Spec
CONSTANTS
    p1 = p1  s1 = s1  s2 = s2  c2 = c2
    NoSession = NoSession
    Session = {s1, s2}
    Peer = {p1}
    Track = {t1}
    PeerOf <- TrackPeer
    ClosedWith <- AllTracks
    Client = {c1}
PROPERTY
    TimerStopsItsOwn
