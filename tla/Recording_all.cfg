\* Two recordings in turn, two clients that are told of them, and two peers, the
\* ID of one being the beginning of the keys of the other.
SPECIFICATION LiveSpec
CONSTANTS
    p1 = p1  s1 = s1  s2 = s2  c2 = c2
    NoSession = NoSession
    Session = {s1, s2}
    Peer = {p1, p2}
    Track = {t1}
    PeerOf <- TrackPeer
    ClosedWith <- AllTracks
    Client = {c1, c2}
CONSTRAINT InTurn
INVARIANTS
    TypeOK
    IndInv
    MuxComplete
    OnceInOrder
    ReadyHasFile
PROPERTY
    RecordingEnds
