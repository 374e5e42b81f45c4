---------------------------- MODULE AccessProofs ----------------------------
(***************************************************************************)
(* Proofs about module Access, for any sets of windows, rooms, IDs and     *)
(* tokens, any limits and any width of the duration.  The argument: what a *)
(* token vouches for when a request is answered is a fact about that       *)
(* moment, recorded with the session or the credentials, and no later step *)
(* changes it; a relay is extended only while its credentials are good.    *)
(***************************************************************************)
EXTENDS Access, TLAPS

\* The product of a lifetime that fits into a duration is exact.
LEMMA DurationExact ==
    ASSUME NEW n \in Nat, n * Unit < 2^(Width - 1)
    PROVE  Duration(n) = n * Unit
<1> DEFINE half == 2^(Width - 1)
           m    == n * Unit
<1>1. half \in Nat \ {0} /\ 2^Width = 2 * half
  BY WidthAssumption
<1>2. m \in Nat
  BY NumbersAssumption
<1>3. m < half
  OBVIOUS
<1> HIDE DEF half, m
<1>4. m % (2 * half) = m
  BY <1>1, <1>2, <1>3
<1>5. m % 2^Width = m
  BY <1>1, <1>4
<1> QED
  BY <1>3, <1>5 DEF Duration, half, m

\* One from half of the range of a duration on, and within the range, becomes
\* a negative duration.
LEMMA DurationWraps ==
    ASSUME NEW n \in Nat, 2^(Width - 1) <= n * Unit, n * Unit < 2^Width
    PROVE  Duration(n) \in Int /\ Duration(n) < 0
<1> DEFINE half == 2^(Width - 1)
           m    == n * Unit
<1>1. half \in Nat \ {0} /\ 2^Width = 2 * half
  BY WidthAssumption
<1>2. m \in Nat
  BY NumbersAssumption
<1>3. half <= m /\ m < 2 * half
  BY <1>1
<1> HIDE DEF half, m
<1>4. m % (2 * half) = m
  BY <1>1, <1>2, <1>3
<1>5. m % 2^Width = m
  BY <1>1, <1>4
<1>6. Duration(n) = m - 2 * half
  BY <1>1, <1>2, <1>3, <1>5 DEF Duration, half, m
<1> QED
  BY <1>1, <1>2, <1>3, <1>6

\* A token that ValidateRoomToken takes now vouches for its holder now, and is
\* within the maximum if its lifetime fits into a duration.
LEMMA ValidVouches ==
    ASSUME TypeOK, cfg.auth, NEW t \in Token \cup {None}, NEW room \in Room,
           ValidateRoomToken(t, room)
    PROVE  t \in Token /\ Vouches(t, room, now) /\ (LifetimesFit => WithinCeiling(t, now))
<1>1. /\ t \in Token /\ t.wellSigned /\ now < t.exp /\ LifetimeOk(t)
      /\ EffectiveRoomID(t) = room /\ "join" \in t.permissions
  BY DEF ValidateRoomToken
<1>2. t.exp \in Int /\ now \in Nat /\ cfg.maxTTL \in {0, MaxTTL}
  BY <1>1, TokenAssumption DEF TypeOK, TokenRecord, Settings
<1>3. room \in {t.roomID, t.roomIDCamel}
  BY <1>1 DEF EffectiveRoomID
<1>4. ASSUME LifetimesFit, cfg.maxTTL > 0
      PROVE  t.exp - now <= cfg.maxTTL
  <2>1. cfg.maxTTL \in Nat \ {0} /\ Unit \in Nat \ {0} /\ 2^(Width - 1) \in Nat
    BY <1>2, <1>4, NumbersAssumption, WidthAssumption
  <2>2. PICK n \in Nat : n = t.exp - now
    BY <1>1, <1>2
  <2>3. n <= t.exp
    BY <1>2, <2>2
  <2>4. n * Unit < 2^(Width - 1)
    <3>1. t.exp * Unit < 2^(Width - 1)
      BY <1>1, <1>4 DEF LifetimesFit
    <3> DEFINE half == 2^(Width - 1)
    <3>2. t.exp * Unit < half /\ half \in Nat
      BY <2>1, <3>1
    <3> HIDE DEF half
    <3>3. n * Unit <= t.exp * Unit
      BY <1>2, <2>1, <2>3
    <3>4. n * Unit < half
      BY <1>2, <2>1, <3>2, <3>3
    <3> QED
      BY <3>4 DEF half
  <2>5. Duration(n) = n * Unit
    BY <2>4, DurationExact
  <2>6. Duration(n) <= cfg.maxTTL * Unit
    BY <1>1, <1>4, <2>2 DEF LifetimeOk
  <2>7. n <= cfg.maxTTL
    BY <2>1, <2>5, <2>6
  <2> QED
    BY <2>2, <2>7
<1> QED
  BY <1>1, <1>3, <1>4 DEF Vouches, WithinCeiling

\* The IDs and the tokens of a request.
LEMMA BearerType ==
    ASSUME NEW req \in Request
    PROVE  Bearer(req) \in Token \cup {None} /\ req.room \in Room
           /\ req.peer \in PeerId \cup {None}
BY DEF Bearer, Request

LEMMA InitIndInv == Init => IndInv
<1> SUFFICES ASSUME Init PROVE IndInv
  OBVIOUS
<1>1. TypeOK
  BY NumbersAssumption DEF Init, TypeOK
<1> QED
  BY <1>1 DEF Init, IndInv, AdmittedInv, OwnIds, RelayInv

\* The admission of a session.
LEMMA ConnectIndInv ==
    ASSUME IndInv, NEW w \in Window, NEW req \in Request, Connect(w, req)
    PROVE  IndInv'
<1> DEFINE t   == Bearer(req)
           new == [room |-> req.room, id |-> ChosenId(w, t, req.peer), at |-> now,
                   token |-> IF cfg.auth THEN t ELSE None]
<1>1. t \in Token \cup {None} /\ req.room \in Room /\ req.peer \in PeerId \cup {None}
  BY BearerType
<1>2. /\ ValidateRoomToken(t, req.room) /\ MayUse(t, req.peer)
      /\ sess' = [sess EXCEPT ![w] = new]
      /\ cfg' = cfg /\ now' = now /\ cred' = cred /\ relay' = relay
  BY DEF Connect
<1>3. TypeOK
  BY DEF IndInv
<1>4. cfg.auth => /\ t \in Token /\ Vouches(t, req.room, now)
                  /\ LifetimesFit => WithinCeiling(t, now)
  BY <1>1, <1>2, <1>3, ValidVouches
<1>5. cfg.auth \in BOOLEAN
  BY <1>3 DEF TypeOK, Settings
<1>6. new.id \in Ids
  <2>1. CASE ~cfg.auth
    BY <2>1 DEF ChosenId, Ids
  <2>2. CASE cfg.auth /\ req.peer # None
    BY <1>1, <2>2 DEF ChosenId, Ids
  <2>3. CASE cfg.auth /\ req.peer = None
    <3>1. t.sub \in PeerId \cup {None}
      BY <1>4, <2>3, TokenAssumption DEF TokenRecord
    <3> QED
      BY <2>3, <3>1 DEF ChosenId, Ids
  <2> QED
    BY <1>5, <2>1, <2>2, <2>3
<1>7. IF cfg.auth
      THEN new.token.sub \in {None, new.id} \/ "peer:custom" \in new.token.permissions
      ELSE new.id = Fresh(w)
  <2>1. CASE ~cfg.auth
    BY <2>1 DEF ChosenId
  <2>2. CASE cfg.auth /\ req.peer # None
    BY <1>2, <2>2 DEF ChosenId, MayUse
  <2>3. CASE cfg.auth /\ req.peer = None
    BY <2>3 DEF ChosenId
  <2> QED
    BY <1>5, <2>1, <2>2, <2>3
<1>8. /\ sess \in [Window -> {None} \cup
                     [room : Room, id : Ids, at : 0 .. MaxNow, token : Token \cup {None}]]
      /\ now \in 0 .. MaxNow
  BY <1>3 DEF TypeOK
<1>9. new \in [room : Room, id : Ids, at : 0 .. MaxNow, token : Token \cup {None}]
  BY <1>1, <1>6, <1>8
<1>10. /\ DOMAIN sess = Window /\ sess'[w] = new
       /\ \A v \in Window \ {w} : sess'[v] = sess[v]
  BY <1>2, <1>8
<1>11. new.token = (IF cfg.auth THEN t ELSE None) /\ new.room = req.room /\ new.at = now
  OBVIOUS
<1> HIDE DEF new, t
<1>12. TypeOK'
  BY <1>2, <1>3, <1>8, <1>9 DEF TypeOK, Ids, Cred, Fresh
<1>13. AdmittedInv'
  BY <1>2, <1>4, <1>10, <1>11 DEF IndInv, AdmittedInv, Vouches, WithinCeiling
<1>14. OwnIds'
  BY <1>2, <1>7, <1>10 DEF IndInv, OwnIds, Fresh
<1>15. RelayInv'
  BY <1>2 DEF IndInv, RelayInv, GivenToVouched, Vouches
<1> QED
  BY <1>12, <1>13, <1>14, <1>15 DEF IndInv

\* The end of a session.
LEMMA DisconnectIndInv ==
    ASSUME IndInv, NEW w \in Window, Disconnect(w)
    PROVE  IndInv'
<1>1. /\ sess' = [sess EXCEPT ![w] = None]
      /\ cfg' = cfg /\ now' = now /\ cred' = cred /\ relay' = relay
  BY DEF Disconnect
<1>2. TypeOK'
  BY <1>1 DEF IndInv, TypeOK, Ids, Cred, Fresh
<1>3. \A v \in Window : sess'[v] # None => sess'[v] = sess[v]
  BY <1>1 DEF IndInv, TypeOK
<1> QED
  BY <1>1, <1>2, <1>3
     DEF IndInv, AdmittedInv, WithinCeiling, OwnIds, RelayInv, GivenToVouched, Vouches, Fresh

\* Credentials are given.
LEMMA IceConfigIndInv ==
    ASSUME IndInv, NEW req \in Request, IceConfig(req)
    PROVE  IndInv'
<1> DEFINE new == [expiry |-> now + CredTTL,
                   token  |-> IF cfg.auth THEN Bearer(req) ELSE None]
<1>1. /\ ValidateRoomToken(Bearer(req), req.room)
      /\ cred' = new
      /\ cfg' = cfg /\ now' = now /\ sess' = sess /\ relay' = relay
  BY DEF IceConfig
<1>2. TypeOK /\ now \in 0 .. MaxNow /\ CredTTL \in Nat /\ MaxNow \in Nat
  BY NumbersAssumption DEF IndInv, TypeOK
<1>3. new \in Cred
  BY <1>2, BearerType DEF Cred
<1>4. cfg.auth => Vouches(new.token, req.room, new.expiry - CredTTL)
  <2>1. new.expiry - CredTTL = now
    BY <1>2
  <2>2. cfg.auth => Vouches(Bearer(req), req.room, now)
    BY <1>1, <1>2, BearerType, ValidVouches
  <2> QED
    BY <2>1, <2>2
<1> HIDE DEF new
<1>5. TypeOK'
  BY <1>1, <1>2, <1>3 DEF TypeOK, Ids, Cred, Fresh
<1>6. RelayInv'
  <2>1. GivenToVouched(new)
    BY <1>4, BearerType DEF GivenToVouched
  <2> QED
    BY <1>1, <2>1 DEF IndInv, RelayInv, GivenToVouched, Vouches
<1> QED
  BY <1>1, <1>5, <1>6 DEF IndInv, AdmittedInv, WithinCeiling, OwnIds, Vouches, Fresh

\* An allocation or a refresh: the clock is not beyond the credentials.
LEMMA RelayIndInv ==
    ASSUME IndInv, Allocate \/ Refresh
    PROVE  IndInv'
<1>1. cfg' = cfg /\ now' = now /\ sess' = sess /\ cred' = cred
  BY DEF Allocate, Refresh
<1>2. now \in 0 .. MaxNow /\ Lifetime \in Nat /\ MaxNow \in Nat /\ CredTTL \in Nat
  BY NumbersAssumption DEF IndInv, TypeOK
<1>3. PICK c \in Cred : /\ GivenToVouched(c) /\ now <= c.expiry
                        /\ relay' = [cred |-> c, until |-> now + Lifetime]
  <2>1. CASE Allocate
    <3>1. cred \in Cred /\ GivenToVouched(cred) /\ now <= cred.expiry
      BY <2>1 DEF Allocate, AuthHandler, IndInv, TypeOK, RelayInv
    <3> QED
      BY <2>1, <3>1 DEF Allocate
  <2>2. CASE Refresh
    <3>1. /\ relay \in [cred : Cred, until : 0 .. MaxNow + Lifetime]
          /\ GivenToVouched(relay.cred) /\ now <= relay.cred.expiry
      BY <2>2 DEF Refresh, AuthHandler, IndInv, TypeOK, RelayInv
    <3>2. relay' = [relay EXCEPT !.until = now + Lifetime]
      BY <2>2 DEF Refresh
    <3>3. relay' = [cred |-> relay.cred, until |-> now + Lifetime]
      BY <3>1, <3>2
    <3> QED
      BY <3>1, <3>3
  <2> QED
    BY <2>1, <2>2
<1>4. c.expiry \in Nat
  BY <1>2 DEF Cred
<1>5. relay' \in [cred : Cred, until : 0 .. MaxNow + Lifetime]
  BY <1>2, <1>3
<1>6. TypeOK'
  BY <1>1, <1>5 DEF IndInv, TypeOK, Ids, Cred, Fresh
<1>7. RelayInv'
  <2>1. relay'.cred = c /\ relay'.until = now + Lifetime
    BY <1>3
  <2>2. GivenToVouched(relay.cred)'
    BY <1>1, <1>3, <2>1 DEF GivenToVouched, Vouches
  <2>3. now <= relay'.until /\ relay'.until <= relay'.cred.expiry + Lifetime
    BY <1>2, <1>3, <1>4, <2>1
  <2>4. (cred # None => GivenToVouched(cred))'
    BY <1>1 DEF IndInv, RelayInv, GivenToVouched, Vouches
  <2> QED
    BY <1>1, <2>2, <2>3, <2>4 DEF RelayInv
<1> QED
  BY <1>1, <1>6, <1>7 DEF IndInv, AdmittedInv, WithinCeiling, OwnIds, Vouches, Fresh

\* The clock.
LEMMA TickIndInv ==
    ASSUME IndInv, Tick
    PROVE  IndInv'
<1>1. /\ now < MaxNow /\ now' = now + 1
      /\ cfg' = cfg /\ sess' = sess /\ cred' = cred
      /\ relay' = IF relay # None /\ relay.until <= now THEN None ELSE relay
  BY DEF Tick
<1>2. /\ now \in 0 .. MaxNow /\ MaxNow \in Nat
      /\ relay \in {None} \cup [cred : Cred, until : 0 .. MaxNow + Lifetime]
      /\ Lifetime \in Nat
  BY NumbersAssumption DEF IndInv, TypeOK
<1>3. TypeOK'
  BY <1>1, <1>2 DEF IndInv, TypeOK, Ids, Cred, Fresh
<1>4. relay' # None => relay' = relay /\ now' <= relay.until
  <2>1. CASE relay = None
    BY <1>1, <2>1
  <2>2. CASE relay # None
    <3>1. relay.until \in Nat
      BY <1>2, <2>2
    <3> QED
      BY <1>1, <1>2, <2>2, <3>1
  <2> QED
    BY <2>1, <2>2
<1>5. RelayInv'
  BY <1>1, <1>4 DEF IndInv, RelayInv, GivenToVouched, Vouches
<1> QED
  BY <1>1, <1>3, <1>5 DEF IndInv, AdmittedInv, WithinCeiling, OwnIds, Vouches, Fresh

LEMMA NextIndInv == IndInv /\ [Next]_vars => IndInv'
<1> SUFFICES ASSUME IndInv, [Next]_vars PROVE IndInv'
  OBVIOUS
<1>1. CASE UNCHANGED vars
  BY <1>1 DEF vars, IndInv, TypeOK, Ids, Cred, AdmittedInv, WithinCeiling, OwnIds,
              RelayInv, GivenToVouched, Vouches, Fresh
<1>2. ASSUME NEW w \in Window, Disconnect(w) PROVE IndInv'
  BY <1>2, DisconnectIndInv
<1>3. ASSUME NEW w \in Window, NEW req \in Request, Connect(w, req) PROVE IndInv'
  BY <1>3, ConnectIndInv
<1>4. ASSUME NEW req \in Request, IceConfig(req) PROVE IndInv'
  BY <1>4, IceConfigIndInv
<1>5. CASE Allocate \/ Refresh
  BY <1>5, RelayIndInv
<1>6. CASE Tick
  BY <1>6, TickIndInv
<1> QED
  BY <1>1, <1>2, <1>3, <1>4, <1>5, <1>6 DEF Next

\* Spec implies that the inductive invariant always holds.
THEOREM Invariance == Spec => []IndInv
<1> QED
  BY InitIndInv, NextIndInv, PTL DEF Spec

\* The state of the admission keeps its types.
THEOREM TypeCorrect == Spec => []TypeOK
<1>1. IndInv => TypeOK
  BY DEF IndInv
<1> QED
  BY <1>1, Invariance, PTL

\* With room tokens every session was let in by a token that was good for its
\* room at that moment and within the maximum (ValidateRoomToken, ServeWS), when
\* the lifetimes fit into a time.Duration.
THEOREM AdmittedByTokenHolds == LifetimesFit => (Spec => []AdmittedByToken)
<1>1. LifetimesFit /\ IndInv => AdmittedByToken
  BY DEF IndInv, AdmittedInv, AdmittedByToken
<1>2. LifetimesFit => (LifetimesFit)'
  BY DEF LifetimesFit
<1> QED
  BY <1>1, <1>2, Invariance, PTL

\* The ceiling that SECURITY.md:26 and room_token.go:22 promise is not kept for
\* a lifetime that does not fit: one from half of the range of a time.Duration
\* on, and within the range, passes the check of the maximum (room_token.go:103),
\* although it exceeds every maximum that fits.
THEOREM OverflowAdmitted ==
    ASSUME TypeOK, cfg.maxTTL > 0, cfg.maxTTL * Unit < 2^(Width - 1),
           NEW t \in Token, now < t.exp,
           2^(Width - 1) <= (t.exp - now) * Unit, (t.exp - now) * Unit < 2^Width
    PROVE  LifetimeOk(t) /\ ~WithinCeiling(t, now)
<1>1. cfg.maxTTL \in Nat /\ now \in Nat /\ t.exp \in Int
  BY NumbersAssumption, TokenAssumption DEF TypeOK, Settings, TokenRecord
<1>2. PICK n \in Nat : n = t.exp - now
  BY <1>1
<1>3. Unit \in Nat \ {0} /\ 2^(Width - 1) \in Nat
  BY NumbersAssumption, WidthAssumption
<1>4. Duration(n) \in Int /\ Duration(n) < 0
  BY <1>2, DurationWraps
<1>5. cfg.maxTTL * Unit \in Nat
  BY <1>1, <1>3
<1>6. LifetimeOk(t)
  BY <1>2, <1>4, <1>5 DEF LifetimeOk
<1>7. ~(n <= cfg.maxTTL)
  <2> DEFINE half == 2^(Width - 1)
  <2>1. cfg.maxTTL * Unit < half /\ half <= n * Unit /\ half \in Nat
    BY <1>2, <1>3
  <2> HIDE DEF half
  <2>2. n <= cfg.maxTTL => n * Unit <= cfg.maxTTL * Unit
    BY <1>1, <1>3
  <2> QED
    BY <1>1, <1>3, <2>1, <2>2
<1> QED
  BY <1>2, <1>6, <1>7 DEF WithinCeiling

\* Two sessions of a room share an ID only if each may by its own token
\* (the choice of the peer ID in ServeWS).
THEOREM SharedIdVouchedHolds == Spec => []SharedIdVouched
<1>1. IndInv => SharedIdVouched
  <2> SUFFICES ASSUME IndInv, NEW v \in Window, NEW w \in Window, v # w,
                      sess[v] # None, sess[w] # None, sess[v].id = sess[w].id
               PROVE  /\ cfg.auth
                      /\ \A s \in {sess[v], sess[w]} :
                           s.token.sub \in {None, s.id}
                             \/ "peer:custom" \in s.token.permissions
    BY DEF SharedIdVouched
  <2>1. cfg.auth
    BY DEF IndInv, OwnIds, Fresh
  <2> QED
    BY <2>1 DEF IndInv, OwnIds
<1> QED
  BY <1>1, Invariance, PTL

\* No refresh keeps a relay beyond the end of its credentials by more than one
\* lifetime (authHandler).
THEOREM RelayEndsHolds == Spec => []RelayEnds
<1>1. IndInv => RelayEnds
  <2> SUFFICES ASSUME IndInv, relay # None
               PROVE  /\ now <= relay.cred.expiry + Lifetime
                      /\ GivenToVouched(relay.cred)
    BY DEF RelayEnds, GivenToVouched
  <2>1. /\ now \in Nat /\ relay.until \in Nat /\ relay.cred.expiry \in Nat
        /\ Lifetime \in Nat
    BY NumbersAssumption DEF IndInv, TypeOK, Cred
  <2> QED
    BY <2>1 DEF IndInv, RelayInv
<1> QED
  BY <1>1, Invariance, PTL
=============================================================================
