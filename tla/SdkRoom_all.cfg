\* Four calls of join and of the media controls, and any number of leaves.
SPECIFICATION Spec
CONSTANTS
    Call = {c1, c2, c3, c4}
    Null = Null
SYMMETRY Calls
INVARIANTS
    TypeOK
    OnlyRacedLeak
    SentIsShown
    HandledOnce
