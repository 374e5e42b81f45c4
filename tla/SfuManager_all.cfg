\* Four sessions of one room identifier.
SPECIFICATION Spec
CONSTANTS
    Session = {s1, s2, s3, s4}
    Room = {r1, r2, r3, r4}
    NoRoom = NoRoom
SYMMETRY Anonymous
INVARIANTS
    TypeOK
    OnlyRacedAreLost
    RegistryEmpties
    IndInv
