\* Three sessions, at most two in the room at a time; one of them talks.
SPECIFICATION LiveSpec
CONSTANTS
    c1 = c1
    c2 = c2
    c3 = c3
    NoClient = NoClient
    Session = {c1, c2, c3}
    Id = {c1, c2, c3}
    IdOf <- FreshIdOf
    MaxPeers = 2
    RoomsTaken = TRUE
    Capacity = 2
    Talker = {c1}
INVARIANTS
    TypeOK
    SfuPeersInHub
    RosterAgrees
PROPERTIES
    LeaveIsTold
    SessionEnds
