------------------------------- MODULE Access -------------------------------
(***************************************************************************)
(* Who enters a room, under which ID, and how it reaches the room through  *)
(* TURN: internal/auth/room_token.go, the first half of ServeWS            *)
(* (internal/signaling/client.go), internal/server/api.go and              *)
(* internal/turn/turn.go, under the settings of internal/config/config.go  *)
(* that they read.                                                         *)
(*                                                                         *)
(* Each request is one action: its handler holds no lock and shares        *)
(* nothing with the others but the settings and the clock.  A window is a  *)
(* browser window with a websocket.  Allocations of the TURN server are    *)
(* independent of each other: the module follows one client of it, with    *)
(* the credentials it fetched last and its allocation.  A tick is a second.*)
(***************************************************************************)
EXTENDS Integers

CONSTANTS
    Window,
    Room,       \* room IDs, without the empty one
    PeerId,     \* what a token's "sub" and a request's "peer" can be
    Token,      \* tokens that requests carry, see TokenRecord
    None,       \* an empty string, or no record
    MaxTTL,     \* Config.MaxTokenTTL, when it is set
    CredTTL,    \* credentialsTTL
    Lifetime,   \* lifetime of a relay allocation, counted from its last refresh
    Unit,       \* units of time.Duration in a second
    Width,      \* bits of time.Duration
    MaxNow      \* bound of the clock

\* wellSigned: three parts that decode, HS256, and the right MAC.  roomId and
\* roomID are the claims "room_id" and "roomId".
TokenRecord ==
    [wellSigned : BOOLEAN, roomID : Room \cup {None}, roomIDCamel : Room \cup {None},
     sub : PeerId \cup {None}, permissions : SUBSET {"join", "record", "peer:custom"},
     exp : Int]

ASSUME TokenAssumption == Token \subseteq TokenRecord /\ None \notin Token
ASSUME IdAssumption    == None \notin Room \cup PeerId
ASSUME NumbersAssumption ==
    {MaxTTL, CredTTL, Lifetime, Unit, Width, MaxNow} \subseteq Nat \ {0}
\* Arithmetic, stated for the prover, which has no rules for powers.
ASSUME WidthAssumption ==
    2^(Width - 1) \in Nat \ {0} /\ 2^Width = 2 * 2^(Width - 1)

VARIABLES
    cfg,        \* the settings; they never change
    now,
    sess,       \* per window: its websocket session, or None
    cred,       \* the TURN credentials the client was given last, or None
    relay       \* its allocation, or None

vars == <<cfg, now, sess, cred, relay>>

\* A peer ID that uuid.NewString makes: no other session has it.
Fresh(w) == <<"uuid", w>>

Request == [room  : Room, peer : PeerId \cup {None},
            query : Token \cup {None}, header : Token \cup {None}]

-----------------------------------------------------------------------------
(* Settings *)

\* ice: ROOMKIT_ICE_SERVERS lists servers.
Settings == [auth : BOOLEAN, maxTTL : {0, MaxTTL}, publicIP : BOOLEAN,
             secret : BOOLEAN, ice : BOOLEAN]

\* TURNConfig.Enabled
TurnEnabled == cfg.publicIP /\ cfg.secret

\* The command refuses to start with a public IP and no secret.
Startable(c) == c.publicIP => c.secret

\* /api/ice-config lists the servers of the settings if there are any, else
\* public STUN and, with credentials, the embedded TURN server.
EmbeddedListed == ~cfg.ice /\ TurnEnabled

-----------------------------------------------------------------------------
(* Room tokens *)

\* A product in time.Duration, a signed integer of Width bits.
Duration(n) ==
    LET m == (n * Unit) % 2^Width
    IN  IF m < 2^(Width - 1) THEN m ELSE m - 2^Width

EffectiveRoomID(t) == IF t.roomID # None THEN t.roomID ELSE t.roomIDCamel

\* ExtractBearerToken
Bearer(req) == IF req.query # None THEN req.query ELSE req.header

\* Mutant of LifetimeOk: no check.
AnyLifetime(t) == TRUE

\* With a maximum: what remains of the token is at most that.
LifetimeOk(t) == cfg.maxTTL > 0 => Duration(t.exp - now) <= cfg.maxTTL * Unit

\* ValidateRoomToken returns no error.  It asks for a room claim before it
\* compares it: the empty claim equals no room of a request.
ValidateRoomToken(t, room) ==
    cfg.auth => /\ t # None
                /\ t.wellSigned
                /\ t.exp > 0 /\ now < t.exp
                /\ LifetimeOk(t)
                /\ EffectiveRoomID(t) = room
                /\ "join" \in t.permissions

-----------------------------------------------------------------------------
(* Websocket sessions *)

\* Mutant of MayUse: the subject of the token is not compared.
MayUseAny(t, peer) == TRUE

\* The request may have the peer ID that it supplies.
MayUse(t, peer) ==
    cfg.auth => \/ peer = None
                \/ t.sub \in {None, peer}
                \/ "peer:custom" \in t.permissions

\* Mutant of ChosenId: a token without a subject gives the empty ID.
ChosenIdSubject(w, t, peer) ==
    IF ~cfg.auth THEN Fresh(w) ELSE IF peer # None THEN peer ELSE t.sub

\* The ID that ServeWS chooses.
ChosenId(w, t, peer) ==
    IF cfg.auth /\ {peer, t.sub} # {None}
    THEN IF peer # None THEN peer ELSE t.sub
    ELSE Fresh(w)

\* ServeWS up to the upgrade.  The claims are empty when tokens are not used.
Connect(w, req) ==
    LET t == Bearer(req)
    IN  /\ sess[w] = None
        /\ ValidateRoomToken(t, req.room)
        /\ MayUse(t, req.peer)
        /\ sess' = [sess EXCEPT ![w] =
                      [room |-> req.room, id |-> ChosenId(w, t, req.peer), at |-> now,
                       token |-> IF cfg.auth THEN t ELSE None]]
        /\ UNCHANGED <<cfg, now, cred, relay>>

\* The websocket ends.  No clock ends it.
Disconnect(w) ==
    /\ sess[w] # None
    /\ sess' = [sess EXCEPT ![w] = None]
    /\ UNCHANGED <<cfg, now, cred, relay>>

-----------------------------------------------------------------------------
(* TURN *)

\* iceConfigHandler, when its answer has credentials of the embedded server:
\* Credentials puts the time of their end in the user name.
IceConfig(req) ==
    /\ ValidateRoomToken(Bearer(req), req.room)
    /\ EmbeddedListed
    /\ cred' = [expiry |-> now + CredTTL,
                token  |-> IF cfg.auth THEN Bearer(req) ELSE None]
    /\ UNCHANGED <<cfg, now, sess, relay>>

\* Mutant of AuthHandler: the time in the user name is not read.
AuthAlways(c) == TurnEnabled

\* The TURN server, started when TURN is enabled, takes the credentials c.
AuthHandler(c) == TurnEnabled /\ now <= c.expiry

\* pion asks authHandler at an allocation, and again at every refresh of it.
Allocate ==
    /\ cred # None /\ relay = None
    /\ AuthHandler(cred)
    /\ relay' = [cred |-> cred, until |-> now + Lifetime]
    /\ UNCHANGED <<cfg, now, sess, cred>>

Refresh ==
    /\ relay # None
    /\ AuthHandler(relay.cred)
    /\ relay' = [relay EXCEPT !.until = now + Lifetime]
    /\ UNCHANGED <<cfg, now, sess, cred>>

\* A second passes: an allocation that nobody refreshed ends.
Tick ==
    /\ now < MaxNow
    /\ now' = now + 1
    /\ relay' = IF relay # None /\ relay.until <= now THEN None ELSE relay
    /\ UNCHANGED <<cfg, sess, cred>>

-----------------------------------------------------------------------------

Init ==
    /\ cfg \in {c \in Settings : Startable(c)}
    /\ now = 0
    /\ sess = [w \in Window |-> None]
    /\ cred = None
    /\ relay = None

Next ==
    \/ \E w \in Window : Disconnect(w) \/ \E req \in Request : Connect(w, req)
    \/ \E req \in Request : IceConfig(req)
    \/ Allocate \/ Refresh
    \/ Tick

Spec == Init /\ [][Next]_vars

-----------------------------------------------------------------------------
(* Properties *)

Ids  == PeerId \cup {Fresh(w) : w \in Window}
Cred == [expiry : 0 .. MaxNow + CredTTL, token : Token \cup {None}]

\* Type invariant.
TypeOK ==
    /\ cfg \in Settings
    /\ now \in 0 .. MaxNow
    /\ sess \in [Window -> {None} \cup
                   [room : Room, id : Ids, at : 0 .. MaxNow, token : Token \cup {None}]]
    /\ cred \in {None} \cup Cred
    /\ relay \in {None} \cup [cred : Cred, until : 0 .. MaxNow + Lifetime]

\* At the time at, the token t let its holder into the room: it was signed,
\* for that room, for joining, and not yet at its end.
Vouches(t, room, at) ==
    /\ t.wellSigned /\ "join" \in t.permissions
    /\ room \in {t.roomID, t.roomIDCamel}
    /\ at < t.exp

\* "maximum allowed token lifetime" (room_token.go:22), "to enforce a
\* server-side ceiling and reject tokens with excessive lifetimes"
\* (SECURITY.md:26).
WithinCeiling(t, at) == cfg.maxTTL > 0 => t.exp - at <= cfg.maxTTL

\* With tokens, every session was let into its room by a token that was good
\* at that moment, whichever of the two places the token was in, and not
\* further from its end than the maximum.
AdmittedByToken ==
    \A w \in Window : (cfg.auth /\ sess[w] # None) =>
        /\ Vouches(sess[w].token, sess[w].room, sess[w].at)
        /\ WithinCeiling(sess[w].token, sess[w].at)

\* What AdmittedByToken is proved for: the token that lives longest fits into
\* a time.Duration, which nothing in ValidateRoomToken sees to.  Of one that
\* does not, OverflowAdmitted says what happens (AccessProofs).
LifetimesFit == \A t \in Token : t.exp * Unit < 2^(Width - 1)

\* The room keeps its peers by ID (Hub, Manager).  Two sessions of a room have
\* the same ID only when tokens are used, and each of them by its own token:
\* the token names the ID, or names none, or allows any ("peer:custom").
\* So an operator who gives every participant a subject and no "peer:custom"
\* has two sessions with one ID only from two tokens with one subject.
SharedIdVouched ==
    \A v, w \in Window :
        (v # w /\ sess[v] # None /\ sess[w] # None
           /\ sess[v].room = sess[w].room /\ sess[v].id = sess[w].id)
        => /\ cfg.auth
           /\ \A s \in {sess[v], sess[w]} :
                s.token.sub \in {None, s.id} \/ "peer:custom" \in s.token.permissions

\* What the choice of the ID keeps true of each session alone.
OwnIds ==
    \A w \in Window : sess[w] # None =>
        IF cfg.auth
        THEN \/ sess[w].token.sub \in {None, sess[w].id}
             \/ "peer:custom" \in sess[w].token.permissions
        ELSE sess[w].id = Fresh(w)

\* A relay is used only by a client that was let into a room, and it ends at
\* most one allocation lifetime after its credentials: no refresh extends it
\* beyond that, however long the call is.
RelayEnds ==
    relay # None =>
        /\ now <= relay.cred.expiry + Lifetime
        /\ cfg.auth => \E room \in Room :
             Vouches(relay.cred.token, room, relay.cred.expiry - CredTTL)

\* Why it ends: it was refreshed while its credentials were good, and these
\* were given to somebody that a token let in.
GivenToVouched(c) ==
    cfg.auth => \E room \in Room : Vouches(c.token, room, c.expiry - CredTTL)

RelayInv ==
    /\ cred # None => GivenToVouched(cred)
    /\ relay # None => /\ GivenToVouched(relay.cred)
                       /\ now <= relay.until
                       /\ relay.until <= relay.cred.expiry + Lifetime

\* What the admission keeps true of each session, whatever the tokens.
AdmittedInv ==
    \A w \in Window : (cfg.auth /\ sess[w] # None) =>
        /\ sess[w].token \in Token
        /\ Vouches(sess[w].token, sess[w].room, sess[w].at)
        /\ LifetimesFit => WithinCeiling(sess[w].token, sess[w].at)

\* The inductive invariant.
IndInv == TypeOK /\ AdmittedInv /\ OwnIds /\ RelayInv
=============================================================================
