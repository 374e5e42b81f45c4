------------------------------ MODULE MCAccess ------------------------------
EXTENDS Access, TLC

CONSTANTS w1, w2, r1, r2, a, b

Tok(signed, room, camel, sub, perms, exp) ==
    [wellSigned |-> signed, roomID |-> room, roomIDCamel |-> camel, sub |-> sub,
     permissions |-> perms, exp |-> exp]

\* Tokens that end soon; one that is too long at first and accepted later; one
\* that stays too long; one for watching only; one with a wrong signature.
MCToken == {Tok(TRUE,  r1, None, a, {"join"}, 2),
            Tok(TRUE,  r1, r2, b, {"join", "peer:custom"}, 4),
            Tok(TRUE,  None, r1, None, {"join"}, 15),
            Tok(TRUE,  r1, None, a, {"record"}, 2),
            Tok(FALSE, r1, None, b, {"join"}, 2)}

Windows == Permutations({w1, w2})
=============================================================================
