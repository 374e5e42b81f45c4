---------------------------- MODULE Negotiation ----------------------------
(***************************************************************************)
(* What the server promises to one subscriber about its negotiation        *)
(* (internal/sfu/peer.go, "Subscriber"), whatever the room does meanwhile: *)
(* offers and answers alternate; the first offer after a quiet time goes   *)
(* out at once; a change during an exchange is offered when it is over;    *)
(* and an exchange ends only with the client up to date.  A pion call that *)
(* fails voids the last promise, and the end of the session all of them.   *)
(***************************************************************************)
CONSTANT Item          \* what can be sent to the client

VARIABLES
    want,    \* what the server sends at present
    offer,   \* the content of the last offer
    have,    \* what the client has applied
    stage,   \* where the exchange is; "stuck" and "over" are for good
    failed   \* a call has failed

vars == <<want, offer, have, stage, failed>>

TypeOK ==
    /\ want \in SUBSET Item /\ offer \in SUBSET Item /\ have \in SUBSET Item
    /\ stage \in {"idle", "offered", "answered", "stuck", "over"}
    /\ failed \in BOOLEAN

Init == /\ want = {} /\ offer = {} /\ have = {}
        /\ stage = "idle" /\ failed = FALSE

\* An offer of all that is to be sent at this moment.
MakeOffer == offer' = want' /\ stage' = "offered"

Change ==
    /\ want' \in SUBSET Item
    /\ \/ stage = "idle" /\ MakeOffer
       \/ stage \in {"offered", "answered", "stuck"} /\ UNCHANGED <<offer, stage>>
    /\ UNCHANGED <<have, failed>>

Apply ==
    /\ stage = "offered"
    /\ have' = offer /\ stage' = "answered"
    /\ UNCHANGED <<want, offer, failed>>

\* The answer ends the exchange, or the next one follows at once.
Settle ==
    /\ stage = "answered"
    /\ \/ want = offer /\ stage' = "idle" /\ UNCHANGED offer
       \/ MakeOffer
    /\ UNCHANGED <<want, have, failed>>

\* Nothing is offered, and the change that was to be offered may be lost.
Fail ==
    /\ failed' = TRUE
    /\ \/ stage = "idle" /\ stage' = "idle" /\ want' \in SUBSET Item
       \/ stage = "answered" /\ stage' \in {"idle", "stuck"} /\ UNCHANGED want
       \/ stage \in {"offered", "answered", "stuck"} /\ UNCHANGED <<stage, want>>
    /\ UNCHANGED <<offer, have>>

End ==
    /\ stage # "over"
    /\ stage' = "over" /\ failed' = TRUE
    /\ want' = {} /\ offer' = {} /\ have' = {}

Next == Change \/ Apply \/ Settle \/ Fail \/ End

Spec == Init /\ [][Next]_vars

\* Between two exchanges the client has exactly what the server sends.
UpToDate == stage = "idle" /\ ~failed => have = want

=============================================================================
