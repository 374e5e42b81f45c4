CONSTANTS
    w1 = w1  w2 = w2  r1 = r1  r2 = r2  a = a  b = b
    Window = {w1, w2}
    Room = {r1, r2}
    PeerId = {a, b}
    Token <- MCToken
    None = None
    MaxTTL = 2
    CredTTL = 1
    Lifetime = 1
    Unit = 2
    Width = 6
    MaxNow = 4
SPECIFICATION Spec
SYMMETRY Windows
INVARIANTS
    TypeOK
    AdmittedByToken
    SharedIdVouched
    RelayEnds
\* The clock ends at MaxNow with every token expired: nothing is left to do.
CHECK_DEADLOCK FALSE
