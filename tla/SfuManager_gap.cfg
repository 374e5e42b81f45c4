\* A room is deleted between the two sections of OnPeerJoin.
SPECIFICATION Spec
CONSTANTS
    Session = {s1, s2}
    Room = {r1, r2}
    NoRoom = NoRoom
INVARIANT
    JoinedIsReachable
