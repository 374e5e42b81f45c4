-------------------------- MODULE SubscriberProofs --------------------------
(***************************************************************************)
(* What the operations of one subscriber connection preserve, for every    *)
(* set of peers and tracks and for every set of faults.  Each lemma says   *)
(* of any state the operation may end in that it is a connection state,    *)
(* that it satisfies SubInv, and which fields it leaves alone.             *)
(***************************************************************************)
EXTENDS Subscriber, TLAPS

LEMMA InitSubGood == InitSub \in SubState /\ SubInv(InitSub)
<1>1. <<>> \in Seq(SUBSET Sender)
  OBVIOUS
<1> QED
  BY <1>1 DEF InitSub, SubState, SubInv, Exchange, Remembered

\* Client.Send on an idle exchange: the offer is under way or the websocket
\* is gone.
LEMMA SendGood ==
  ASSUME NEW s \in SubState, NEW offer \in SUBSET Sender, NEW r \in Send(s, offer),
         s.toClient = <<>>, s.answers = 0, s.offered = offer,
         s.sig = "have-local-offer", s.senders = offer
  PROVE  /\ r \in SubState /\ SubInv(r)
         /\ r.senders = s.senders /\ r.sig = s.sig /\ r.faulted = s.faulted
<1>1. <<>> \in Seq(SUBSET Sender) /\ Append(<<>>, offer) = <<offer>>
      /\ <<offer>> \in Seq(SUBSET Sender)
  OBVIOUS
<1>2. CASE ~s.connected
  <2>1. r = s
    BY <1>2 DEF Send
  <2> QED
    BY <1>2, <2>1 DEF SubInv, Exchange, Remembered, SubState
<1>3. CASE s.connected /\ r = [s EXCEPT !.toClient = Append(s.toClient, offer)]
  <2>1. r = [s EXCEPT !.toClient = <<offer>>]
    BY <1>1, <1>3
  <2>2. r \in SubState
    BY <1>1, <2>1 DEF SubState
  <2>3. /\ r.toClient = <<offer>> /\ r.answers = 0 /\ r.offered = offer
        /\ r.sig = "have-local-offer" /\ r.senders = offer /\ r.connected
        /\ r.faulted = s.faulted
    BY <1>3, <2>1 DEF SubState
  <2> QED
    BY <2>2, <2>3 DEF SubInv, Exchange, Remembered
<1>4. CASE s.connected /\ r = HangUp(s)
  <2>1. r \in SubState
    BY <1>1, <1>4 DEF HangUp, SubState
  <2>2. /\ r.toClient = <<>> /\ r.answers = 0 /\ r.offered = offer
        /\ r.sig = "have-local-offer" /\ r.senders = offer
        /\ r.faulted = s.faulted
    BY <1>4 DEF HangUp, SubState
  <2> QED
    BY <2>1, <2>2 DEF SubInv, Exchange, Remembered
<1> QED
  BY <1>2, <1>3, <1>4 DEF Send

\* renegotiateSubscriberLocked restores Remembered after any change.
LEMMA RenegotiateGood ==
  ASSUME NEW s \in SubState, NEW r \in Renegotiate(s), Exchange(s), s.sig # "none"
  PROVE  /\ r \in SubState /\ SubInv(r)
         /\ r.senders = s.senders /\ r.sig # "none"
         /\ s.sig = "closed" => r.sig = "closed"
         /\ s.faulted => r.faulted
<1>1. CASE s.sig # "stable"
  <2>1. r = [s EXCEPT !.needsOffer = TRUE]
    BY <1>1 DEF Renegotiate
  <2> QED
    BY <1>1, <2>1 DEF SubInv, Exchange, Remembered, SubState
<1>2. CASE s.sig = "stable"
  <2> DEFINE cleared == [s EXCEPT !.needsOffer = FALSE]
             offer   == [cleared EXCEPT !.sig = "have-local-offer",
                                        !.offered = s.senders]
  <2>1. r \in Send(offer, s.senders) \/ r \in PionFails(cleared)
    BY <1>2 DEF Renegotiate
  <2>2. CASE r \in Send(offer, s.senders)
    <3>1. /\ offer \in SubState /\ s.senders \in SUBSET Sender
          /\ offer.toClient = <<>> /\ offer.answers = 0
          /\ offer.offered = s.senders /\ offer.sig = "have-local-offer"
          /\ offer.senders = s.senders /\ offer.faulted = s.faulted
      BY <1>2 DEF SubState, Exchange
    <3> HIDE DEF offer
    <3>2. /\ r \in SubState /\ SubInv(r)
          /\ r.senders = offer.senders /\ r.sig = offer.sig
          /\ r.faulted = offer.faulted
      BY <2>2, <3>1, SendGood
    <3> QED
      BY <1>2, <3>1, <3>2
  <2>3. CASE r \in PionFails(cleared)
    <3>1. r = [cleared EXCEPT !.faulted = TRUE]
      BY <2>3 DEF PionFails
    <3> QED
      BY <1>2, <3>1 DEF SubInv, Exchange, Remembered, SubState
  <2> QED
    BY <2>1, <2>2, <2>3
<1> QED
  BY <1>1, <1>2

\* AddSubscriberTrack: nothing on a closed object; else no sender is taken
\* away, and the track has one unless a pion call failed.
LEMMA SubscribeGood ==
  ASSUME NEW s \in SubState, SubInv(s), NEW t \in Track,
         NEW via \in {"join", "fanout"}, NEW isClosed \in BOOLEAN,
         NEW r \in Subscribe(s, t, via, isClosed)
  PROVE  /\ r \in SubState /\ SubInv(r)
         /\ isClosed => r = s
         /\ s.senders \subseteq r.senders
         /\ s.faulted => r.faulted
         /\ ~isClosed => r.faulted \/ \E x \in r.senders : x.track = t
<1>1. CASE isClosed
  BY <1>1 DEF Subscribe
<1>2. CASE ~isClosed
  <2> DEFINE new   == [track |-> t, via |-> via]
             open  == [s EXCEPT !.sig = IF s.sig = "none" THEN "stable" ELSE s.sig]
             added == [open EXCEPT
                         !.senders = s.senders \cup {new},
                         !.mapped  = {x \in s.mapped : x.track # t} \cup {new}]
  <2>1. r \in Renegotiate(added) \/ r \in PionFails(s) \/ r \in PionFails(open)
    BY <1>2 DEF Subscribe, SubState
  <2>2. new \in Sender /\ new.track = t
    BY DEF Sender
  <2>3. open \in SubState /\ Exchange(open) /\ open.sig # "none"
        /\ open.senders = s.senders /\ open.faulted = s.faulted
    BY DEF SubState, SubInv, Exchange
  <2>4. CASE r \in Renegotiate(added)
    <3>1. added \in SubState /\ Exchange(added) /\ added.sig # "none"
          /\ added.senders = s.senders \cup {new} /\ added.faulted = s.faulted
      BY <2>2 DEF SubState, SubInv, Exchange
    <3> HIDE DEF added, new
    <3>2. /\ r \in SubState /\ SubInv(r) /\ r.senders = added.senders
          /\ added.faulted => r.faulted
      BY <2>4, <3>1, RenegotiateGood
    <3> QED
      BY <1>2, <2>2, <3>1, <3>2
  <2>5. CASE r \in PionFails(s)
    <3>1. r = [s EXCEPT !.faulted = TRUE]
      BY <2>5 DEF PionFails
    <3> QED
      BY <1>2, <3>1 DEF SubState, SubInv, Exchange, Remembered
  <2>6. CASE r \in PionFails(open)
    <3>1. r = [open EXCEPT !.faulted = TRUE]
      BY <2>6 DEF PionFails
    <3>2. r \in SubState /\ r.faulted /\ r.senders = s.senders /\ Exchange(r)
      BY <3>1 DEF SubState, SubInv, Exchange
    <3>3. Remembered(r)
      BY <3>1 DEF SubState, SubInv, Remembered
    <3> QED
      BY <1>2, <3>2, <3>3 DEF SubInv
  <2> QED
    BY <2>1, <2>4, <2>5, <2>6
<1> QED
  BY <1>1, <1>2

\* RemoveSubscriberTracksFrom: only senders whose owner has an identifier
\* that matches the prefix are taken away, and a connection that is closed or
\* was never opened stays so.
LEMMA UnsubscribeGood ==
  ASSUME NEW s \in SubState, SubInv(s), NEW id \in PeerId,
         NEW r \in Unsubscribe(s, id)
  PROVE  /\ r \in SubState /\ SubInv(r)
         /\ \A x \in s.senders : x \in r.senders \/ IdOf[Owner[x.track]] \in KeyPrefix[id]
         /\ s.faulted => r.faulted
         /\ s.sig \in {"none", "closed"} => r.sig \in {"none", "closed"}
<1> DEFINE found == {x \in s.mapped : IdOf[Owner[x.track]] \in KeyPrefix[id]}
           left  == [s EXCEPT
                       !.mapped  = s.mapped \ found,
                       !.senders = IF s.sig = "closed" THEN s.senders
                                   ELSE s.senders \ found]
<1>1. CASE s.sig = "none" \/ found = {}
  <2>1. r = s
    BY <1>1 DEF Unsubscribe
  <2> QED
    BY <2>1
<1>2. CASE ~(s.sig = "none" \/ found = {})
  <2>1. r \in Renegotiate(left)
    BY <1>2 DEF Unsubscribe
  <2>2. /\ left \in SubState /\ left.sig = s.sig /\ left.faulted = s.faulted
        /\ s.senders \ found \subseteq left.senders
    BY DEF SubState
  <2>3. Exchange(left)
    BY <1>2 DEF SubState, SubInv, Exchange
  <2> HIDE DEF left
  <2>4. /\ r \in SubState /\ SubInv(r) /\ r.senders = left.senders
        /\ left.sig = "closed" => r.sig = "closed"
        /\ left.faulted => r.faulted
    BY <1>2, <2>1, <2>2, <2>3, RenegotiateGood
  <2> QED
    BY <1>2, <2>2, <2>4
<1> QED
  BY <1>1, <1>2

\* The client applies the offer under way.
LEMMA ApplyGood ==
  ASSUME NEW s \in SubState, SubInv(s), s.connected, s.toClient # <<>>
  PROVE  /\ Apply(s) \in SubState /\ SubInv(Apply(s))
         /\ Apply(s).senders = s.senders /\ Apply(s).sig = s.sig
         /\ Apply(s).faulted = s.faulted
<1> DEFINE r == [s EXCEPT !.view = s.offered, !.toClient = <<>>, !.answers = 1]
<1>1. s.toClient = <<s.offered>> /\ s.answers = 0 /\ s.sig \notin {"none", "stable"}
  BY DEF SubInv, Exchange
<1>2. <<>> \in Seq(SUBSET Sender)
  OBVIOUS
<1>3. Head(s.toClient) = s.offered /\ Tail(s.toClient) = <<>>
  BY <1>1
<1>4. Apply(s) = r
  BY <1>1, <1>3 DEF Apply, SubState
<1>5. r \in SubState
  BY <1>2 DEF SubState
<1>6. /\ r.view = s.offered /\ r.toClient = <<>> /\ r.answers = 1
      /\ r.offered = s.offered /\ r.sig = s.sig /\ r.senders = s.senders
      /\ r.connected /\ r.faulted = s.faulted /\ r.needsOffer = s.needsOffer
  BY DEF SubState
<1> HIDE DEF r
<1> QED
  BY <1>1, <1>4, <1>5, <1>6 DEF SubInv, Exchange, Remembered

\* handleSubAnswer, on the state from which the answer has been read.
LEMMA AnswerGood ==
  ASSUME NEW s \in SubState, SubInv(s), s.answers > 0,
         NEW r \in Answer([s EXCEPT !.answers = s.answers - 1])
  PROVE  /\ r \in SubState /\ SubInv(r)
         /\ r.senders = s.senders
         /\ s.faulted => r.faulted
         /\ s.sig \in {"none", "closed"} => r.sig \in {"none", "closed"}
<1> DEFINE read   == [s EXCEPT !.answers = s.answers - 1]
           stable == [read EXCEPT !.sig = "stable"]
<1>1. s.answers = 1 /\ s.toClient = <<>> /\ s.view = s.offered
      /\ s.sig \notin {"none", "stable"}
  BY DEF SubInv, Exchange, SubState
<1>2. read = [s EXCEPT !.answers = 0]
  BY <1>1
<1>3. /\ read \in SubState /\ SubInv(read) /\ read.senders = s.senders
      /\ read.sig = s.sig /\ read.faulted = s.faulted
  BY <1>1, <1>2 DEF SubState, SubInv, Exchange, Remembered
<1>4. CASE s.sig # "have-local-offer"
  <2>1. r = read
    BY <1>3, <1>4 DEF Answer
  <2> QED
    BY <1>3, <2>1
<1>5. CASE s.sig = "have-local-offer"
  <2>a. stable \in SubState
    BY <1>3 DEF SubState
  <2>b. /\ stable.sig = "stable" /\ stable.senders = s.senders
        /\ stable.faulted = s.faulted /\ stable.offered = s.offered
        /\ stable.view = s.offered /\ stable.toClient = <<>>
        /\ stable.answers = 0
    BY <1>1, <1>2 DEF SubState
  <2>c. Exchange(stable)
    BY <2>b DEF Exchange
  <2>d. ~s.needsOffer => SubInv(stable)
    BY <1>5, <2>b, <2>c DEF SubInv, Remembered
  <2>1. /\ stable \in SubState /\ Exchange(stable) /\ stable.sig = "stable"
        /\ stable.senders = s.senders /\ stable.faulted = s.faulted
        /\ ~s.needsOffer => SubInv(stable)
    BY <2>a, <2>b, <2>c, <2>d
  <2>2. \/ s.needsOffer /\ r \in Renegotiate(stable)
        \/ ~s.needsOffer /\ r = stable
        \/ r \in PionFails(read)
    BY <1>3, <1>5 DEF Answer, SubState
  <2>3. CASE s.needsOffer /\ r \in Renegotiate(stable)
    <3> HIDE DEF stable
    <3>1. r \in SubState /\ SubInv(r) /\ r.senders = stable.senders
          /\ (stable.faulted => r.faulted)
      BY <2>1, <2>3, RenegotiateGood
    <3> QED
      BY <1>5, <2>1, <3>1
  <2>4. CASE ~s.needsOffer /\ r = stable
    BY <1>5, <2>1, <2>4
  <2>5. CASE r \in PionFails(read)
    <3>1. r = [read EXCEPT !.faulted = TRUE]
      BY <2>5 DEF PionFails
    <3> QED
      BY <1>3, <1>5, <3>1 DEF SubState, SubInv, Exchange, Remembered
  <2> QED
    BY <2>2, <2>3, <2>4, <2>5
<1> QED
  BY <1>4, <1>5

\* The websocket closes.
LEMMA HangUpGood ==
  ASSUME NEW s \in SubState, SubInv(s)
  PROVE  /\ HangUp(s) \in SubState /\ SubInv(HangUp(s))
         /\ HangUp(s).senders = s.senders /\ HangUp(s).sig = s.sig
         /\ HangUp(s).faulted = s.faulted
<1>1. <<>> \in Seq(SUBSET Sender)
  OBVIOUS
<1>2. HangUp(s) \in SubState
  BY <1>1 DEF HangUp, SubState
<1>3. /\ HangUp(s).toClient = <<>> /\ HangUp(s).answers = 0
      /\ HangUp(s).offered = s.offered /\ HangUp(s).sig = s.sig
      /\ HangUp(s).senders = s.senders /\ HangUp(s).faulted = s.faulted
      /\ HangUp(s).needsOffer = s.needsOffer /\ HangUp(s).connected = FALSE
  BY DEF HangUp, SubState
<1> QED
  BY <1>2, <1>3 DEF SubInv, Exchange, Remembered

\* Close, the part under subMu.
LEMMA ShutGood ==
  ASSUME NEW s \in SubState, SubInv(s)
  PROVE  /\ Shut(s) \in SubState /\ SubInv(Shut(s))
         /\ Shut(s).senders = s.senders /\ Shut(s).faulted = s.faulted
         /\ Shut(s).sig \in {"none", "closed"}
  BY DEF Shut, SubState, SubInv, Exchange, Remembered

-----------------------------------------------------------------------------
(***************************************************************************)
(* What the operations do to the senders and to the map of them, and how   *)
(* they look from Negotiation.                                             *)
(***************************************************************************)

\* What an operation leaves alone that does not touch the exchange.
SameExchange(s, r) ==
    /\ r.offered = s.offered /\ r.toClient = s.toClient /\ r.answers = s.answers
    /\ r.view = s.view /\ r.connected = s.connected

\* A call of renegotiateSubscriberLocked remembers the change, makes an offer
\* or fails.
LEMMA RenegotiateCases ==
  ASSUME NEW s \in SubState, NEW r \in Renegotiate(s), Exchange(s)
  PROVE  /\ r.senders = s.senders /\ r.mapped = s.mapped
         /\ \/ s.sig # "stable" /\ r.sig = s.sig /\ SameExchange(s, r)
               /\ r.faulted = s.faulted
            \/ /\ s.sig = "stable" /\ r.sig = "have-local-offer"
               /\ r.offered = s.senders /\ r.faulted = s.faulted
               /\ \/ ~r.connected
                  \/ s.connected /\ r.connected /\ r.toClient # <<>> /\ r.view = s.view
            \/ s.sig = "stable" /\ r.sig = "stable" /\ SameExchange(s, r) /\ r.faulted
<1>1. CASE s.sig # "stable"
  <2>1. r = [s EXCEPT !.needsOffer = TRUE]
    BY <1>1 DEF Renegotiate
  <2> QED
    BY <1>1, <2>1 DEF SameExchange, SubState
<1>2. CASE s.sig = "stable"
  <2> DEFINE cleared == [s EXCEPT !.needsOffer = FALSE]
             offer   == [cleared EXCEPT !.sig = "have-local-offer",
                                        !.offered = s.senders]
  <2>1. r \in Send(offer, s.senders) \/ r \in PionFails(cleared)
    BY <1>2 DEF Renegotiate
  <2>2. /\ offer \in SubState /\ offer.senders = s.senders /\ offer.mapped = s.mapped
        /\ offer.sig = "have-local-offer" /\ offer.offered = s.senders
        /\ offer.faulted = s.faulted /\ offer.connected = s.connected
        /\ offer.toClient = <<>> /\ offer.view = s.view
    BY <1>2 DEF SubState, Exchange
  <2>3. CASE r \in PionFails(cleared)
    <3>1. r = [cleared EXCEPT !.faulted = TRUE]
      BY <2>3 DEF PionFails
    <3> QED
      BY <1>2, <3>1 DEF SameExchange, SubState
  <2> HIDE DEF offer
  <2>4. CASE r = offer /\ ~offer.connected
    BY <1>2, <2>2, <2>4
  <2>5. CASE offer.connected /\ r = [offer EXCEPT !.toClient = Append(offer.toClient, s.senders)]
    <3>1. r = [offer EXCEPT !.toClient = <<s.senders>>] /\ <<s.senders>> # <<>>
      BY <2>2, <2>5
    <3>2. /\ r.senders = offer.senders /\ r.mapped = offer.mapped /\ r.sig = offer.sig
          /\ r.offered = offer.offered /\ r.faulted = offer.faulted
          /\ r.connected = offer.connected /\ r.view = offer.view
          /\ r.toClient # <<>>
      BY <2>2, <3>1 DEF SubState
    <3> QED
      BY <1>2, <2>2, <2>5, <3>2
  <2>6. CASE r = HangUp(offer)
    <3>1. /\ r.senders = offer.senders /\ r.mapped = offer.mapped /\ r.sig = offer.sig
          /\ r.offered = offer.offered /\ r.faulted = offer.faulted /\ ~r.connected
      BY <2>2, <2>6 DEF HangUp, SubState
    <3> QED
      BY <1>2, <2>2, <3>1
  <2> QED
    BY <2>1, <2>3, <2>4, <2>5, <2>6 DEF Send
<1> QED
  BY <1>1, <1>2

\* A step of Negotiation, or none, seen from the two states of a connection.
NegotiationStep(s, r) ==
    \/ Over(r)
    \/ /\ ~Over(s) /\ ~Over(r)
       /\ \/ \* nothing that Negotiation sees
             /\ r.senders = s.senders /\ r.offered = s.offered /\ r.view = s.view
             /\ Stage(r) = Stage(s) /\ r.faulted = s.faulted
          \/ \* Change
             /\ r.view = s.view /\ r.faulted = s.faulted
             /\ \/ Stage(s) = "idle" /\ Stage(r) = "offered" /\ r.offered = r.senders
                \/ /\ Stage(s) \in {"offered", "answered", "stuck"}
                   /\ Stage(r) = Stage(s) /\ r.offered = s.offered
          \/ \* Apply
             /\ Stage(s) = "offered" /\ Stage(r) = "answered" /\ r.view = s.offered
             /\ r.senders = s.senders /\ r.offered = s.offered /\ r.faulted = s.faulted
          \/ \* Settle
             /\ Stage(s) = "answered"
             /\ r.senders = s.senders /\ r.view = s.view /\ r.faulted = s.faulted
             /\ \/ s.senders = s.offered /\ Stage(r) = "idle" /\ r.offered = s.offered
                \/ Stage(r) = "offered" /\ r.offered = r.senders
          \/ \* Fail
             /\ r.faulted /\ r.offered = s.offered /\ r.view = s.view
             /\ \/ Stage(s) = "idle" /\ Stage(r) = "idle"
                \/ Stage(s) = "answered" /\ Stage(r) \in {"idle", "stuck"}
                   /\ r.senders = s.senders
                \/ Stage(s) \in {"offered", "answered", "stuck"}
                   /\ Stage(r) = Stage(s) /\ r.senders = s.senders

\* A change of the senders, and then renegotiateSubscriberLocked.
LEMMA ChangeIsStep ==
  ASSUME NEW s \in SubState, SubInv(s), NEW m \in SubState, NEW r \in Renegotiate(m),
         SubInv(r), r \in SubState,
         Exchange(m), SameExchange(s, m), m.faulted = s.faulted,
         m.sig = s.sig \/ (s.sig = "none" /\ m.sig = "stable"), m.sig # "none"
  PROVE  NegotiationStep(s, r)
<1>1. CASE m.sig # "stable"
  <2>1. r.sig = m.sig /\ SameExchange(m, r) /\ r.faulted = m.faulted /\ m.sig = s.sig
    BY <1>1, RenegotiateCases
  <2>2. Stage(r) = Stage(s) /\ (Over(r) <=> Over(s))
    BY <2>1 DEF Stage, Over, SameExchange
  <2>3. Stage(s) \in {"over", "offered", "answered", "stuck"} /\ (Stage(s) = "over" <=> Over(s))
    BY <1>1, <2>1 DEF Stage
  <2> QED
    BY <2>1, <2>2, <2>3 DEF NegotiationStep, SameExchange
<1>2. CASE m.sig = "stable" /\ ~Over(r)
  <2>1. s.connected /\ ~Over(s) /\ Stage(s) = "idle"
    BY <1>2, RenegotiateCases DEF Over, Stage, SameExchange
  <2>2. CASE r.sig = "have-local-offer"
    <3>1. /\ r.toClient # <<>> /\ r.view = m.view /\ r.offered = m.senders
          /\ r.senders = m.senders /\ r.faulted = m.faulted
      BY <1>2, <2>2, RenegotiateCases DEF Over
    <3>2. Stage(r) = "offered"
      BY <1>2, <2>2, <3>1 DEF Stage
    <3> QED
      BY <1>2, <2>1, <3>1, <3>2 DEF NegotiationStep, SameExchange
  <2>3. CASE r.sig = "stable"
    <3>1. SameExchange(m, r) /\ r.faulted
      BY <1>2, <2>3, RenegotiateCases
    <3>2. Stage(r) = "idle"
      BY <1>2, <2>3 DEF Stage
    <3> QED
      BY <1>2, <2>1, <3>1, <3>2 DEF NegotiationStep, SameExchange
  <2> QED
    BY <1>2, <2>2, <2>3, RenegotiateCases
<1> QED
  BY <1>1, <1>2 DEF NegotiationStep

\* AddSubscriberTrack.
LEMMA SubscribeIsStep ==
  ASSUME NEW s \in SubState, SubInv(s), NEW t \in Track,
         NEW via \in {"join", "fanout"}, NEW isClosed \in BOOLEAN,
         NEW r \in Subscribe(s, t, via, isClosed)
  PROVE  /\ NegotiationStep(s, r)
         /\ \A y \in s.mapped : \E z \in r.mapped : z.track = y.track
         /\ \A x \in r.senders : x \in s.senders \/ \E z \in r.mapped : z.track = x.track
         /\ s.sig = "closed" => r.sig = "closed"
<1>0. r \in SubState /\ SubInv(r)
  BY SubscribeGood
<1>1. CASE isClosed
  <2>1. r = s
    BY <1>1 DEF Subscribe
  <2> QED
    BY <2>1 DEF NegotiationStep
<1>2. CASE ~isClosed
  <2> DEFINE new   == [track |-> t, via |-> via]
             open  == [s EXCEPT !.sig = IF s.sig = "none" THEN "stable" ELSE s.sig]
             added == [open EXCEPT
                         !.senders = s.senders \cup {new},
                         !.mapped  = {x \in s.mapped : x.track # t} \cup {new}]
  <2>1. r \in Renegotiate(added) \/ r \in PionFails(s) \/ r \in PionFails(open)
    BY <1>2 DEF Subscribe, SubState
  <2>2. new \in Sender /\ new.track = t
    BY DEF Sender
  <2>3. CASE r \in Renegotiate(added)
    <3>1. /\ added \in SubState /\ Exchange(added)
          /\ added.sig = IF s.sig = "none" THEN "stable" ELSE s.sig
          /\ added.senders = s.senders \cup {new}
          /\ added.mapped = {x \in s.mapped : x.track # t} \cup {new}
          /\ added.faulted = s.faulted /\ SameExchange(s, added)
      BY <2>2 DEF SubState, SubInv, Exchange, SameExchange
    <3> HIDE DEF added, new
    <3>2. NegotiationStep(s, r)
      BY <1>0, <2>3, <3>1, ChangeIsStep
    <3>3. /\ r.senders = added.senders /\ r.mapped = added.mapped
          /\ added.sig = "closed" => r.sig = "closed"
      BY <2>3, <3>1, RenegotiateCases
    <3> QED
      BY <2>2, <3>1, <3>2, <3>3
  <2>4. CASE r \in PionFails(s) \/ r \in PionFails(open)
    <3>1. /\ r.senders = s.senders /\ r.mapped = s.mapped /\ r.faulted
          /\ SameExchange(s, r)
          /\ r.sig = s.sig \/ (s.sig = "none" /\ r.sig = "stable")
      BY <2>4 DEF PionFails, SameExchange, SubState
    <3>2. /\ Over(r) <=> Over(s)
          /\ Stage(r) = Stage(s)
          /\ Stage(s) \in {"over", "idle", "offered", "answered", "stuck"}
          /\ Stage(s) = "over" <=> Over(s)
      BY <3>1 DEF Over, Stage, SameExchange
    <3>3. NegotiationStep(s, r)
      BY <3>1, <3>2 DEF NegotiationStep, SameExchange
    <3> QED
      BY <3>1, <3>3
  <2> QED
    BY <2>1, <2>3, <2>4
<1> QED
  BY <1>1, <1>2

\* RemoveSubscriberTracksFrom: what has a key with the prefix is taken out of
\* the map and, while the connection is open, from the senders.
LEMMA UnsubscribeIsStep ==
  ASSUME NEW s \in SubState, SubInv(s), NEW id \in PeerId,
         NEW r \in Unsubscribe(s, id)
  PROVE  LET found == {x \in s.mapped : IdOf[Owner[x.track]] \in KeyPrefix[id]}
         IN  /\ NegotiationStep(s, r)
             /\ s.sig # "none" => r.mapped = s.mapped \ found
             /\ r.senders \subseteq s.senders
             /\ s.sig \notin {"none", "closed"} => r.senders = s.senders \ found
             /\ s.sig = "none" => r = s
             /\ s.sig = "closed" => r.sig = "closed"
<1> DEFINE found == {x \in s.mapped : IdOf[Owner[x.track]] \in KeyPrefix[id]}
           left  == [s EXCEPT
                       !.mapped  = s.mapped \ found,
                       !.senders = IF s.sig = "closed" THEN s.senders
                                   ELSE s.senders \ found]
<1>0. r \in SubState /\ SubInv(r)
  BY UnsubscribeGood
<1>1. CASE s.sig = "none" \/ found = {}
  <2>1. r = s
    BY <1>1 DEF Unsubscribe
  <2> QED
    BY <1>1, <2>1 DEF NegotiationStep
<1>2. CASE ~(s.sig = "none" \/ found = {})
  <2>1. r \in Renegotiate(left)
    BY <1>2 DEF Unsubscribe
  <2>2. /\ left \in SubState /\ left.sig = s.sig /\ left.faulted = s.faulted
        /\ left.mapped = s.mapped \ found /\ SameExchange(s, left)
        /\ left.senders = IF s.sig = "closed" THEN s.senders ELSE s.senders \ found
    BY DEF SubState, SameExchange
  <2>3. Exchange(left)
    BY <1>2 DEF SubState, SubInv, Exchange
  <2> HIDE DEF left, found
  <2>4. NegotiationStep(s, r)
    BY <1>0, <1>2, <2>1, <2>2, <2>3, ChangeIsStep
  <2>5. /\ r.senders = left.senders /\ r.mapped = left.mapped
        /\ left.sig = "closed" => r.sig = "closed"
    BY <2>1, <2>2, <2>3, RenegotiateCases
  <2>6. \/ s.sig = "closed" /\ r.senders = s.senders
        \/ s.sig # "closed" /\ r.senders = s.senders \ found
    BY <2>2, <2>5
  <2>7. s.sig # "none"
    BY <1>2
  <2> QED
    BY <2>2, <2>4, <2>5, <2>6, <2>7 DEF found
<1> QED
  BY <1>1, <1>2

\* The answers and the end.
LEMMA ClientIsStep ==
  ASSUME NEW s \in SubState, SubInv(s),
         NEW r, \/ s.connected /\ s.toClient # <<>> /\ r = Apply(s)
                \/ r = HangUp(s)
                \/ r = Shut(s)
  PROVE  /\ NegotiationStep(s, r)
         /\ r.senders = s.senders /\ r.mapped = s.mapped
         /\ s.sig = "closed" => r.sig = "closed"
<1>1. CASE s.connected /\ s.toClient # <<>> /\ r = Apply(s)
  <2>1. s.toClient = <<s.offered>> /\ s.answers = 0 /\ s.sig \notin {"none", "stable"}
    BY <1>1 DEF SubInv, Exchange
  <2>2. Head(s.toClient) = s.offered /\ Tail(s.toClient) = <<>>
    BY <2>1
  <2>3. /\ r.view = s.offered /\ r.toClient = <<>> /\ r.answers = 1
        /\ r.offered = s.offered /\ r.sig = s.sig /\ r.senders = s.senders
        /\ r.connected = s.connected /\ r.faulted = s.faulted /\ r.mapped = s.mapped
    <3>1. Apply(s) = [s EXCEPT !.view = s.offered, !.toClient = <<>>, !.answers = 1]
      BY <2>1, <2>2 DEF Apply, SubState
    <3> QED
      BY <1>1, <3>1 DEF SubState
  <2>4. ~Over(s) => Stage(s) = "offered" /\ Stage(r) = "answered"
    BY <1>1, <2>1, <2>3 DEF Over, Stage
  <2>5. Over(s) <=> Over(r)
    BY <2>3 DEF Over
  <2> QED
    BY <2>3, <2>4, <2>5 DEF NegotiationStep
<1>2. CASE r = HangUp(s)
  <2>1. r.senders = s.senders /\ r.mapped = s.mapped /\ r.sig = s.sig /\ ~r.connected
    BY <1>2 DEF HangUp, SubState
  <2> QED
    BY <2>1 DEF NegotiationStep, Over
<1>3. CASE r = Shut(s)
  <2>1. CASE r = s
    BY <2>1 DEF NegotiationStep
  <2>2. CASE r = [s EXCEPT !.sig = "closed"]
    <3>1. r.senders = s.senders /\ r.mapped = s.mapped /\ r.sig = "closed"
      BY <2>2 DEF SubState
    <3> QED
      BY <3>1 DEF NegotiationStep, Over
  <2> QED
    BY <1>3, <2>1, <2>2 DEF Shut
<1> QED
  BY <1>1, <1>2, <1>3

\* handleSubAnswer, from the state before the answer is read.
LEMMA AnswerIsStep ==
  ASSUME NEW s \in SubState, SubInv(s), s.answers > 0,
         NEW r \in Answer([s EXCEPT !.answers = s.answers - 1])
  PROVE  /\ NegotiationStep(s, r)
         /\ r.senders = s.senders /\ r.mapped = s.mapped
         /\ s.sig = "closed" => r.sig = "closed"
<1> DEFINE read   == [s EXCEPT !.answers = s.answers - 1]
           stable == [read EXCEPT !.sig = "stable"]
<1>0. r \in SubState /\ SubInv(r)
  BY AnswerGood
<1>1. /\ s.answers = 1 /\ s.toClient = <<>> /\ s.view = s.offered /\ s.connected
      /\ s.sig \notin {"none", "stable"}
  BY DEF SubInv, Exchange, SubState
<1>2. /\ read \in SubState /\ read.senders = s.senders /\ read.mapped = s.mapped
      /\ read.sig = s.sig /\ read.faulted = s.faulted /\ read.answers = 0
      /\ read.offered = s.offered /\ read.view = s.view /\ read.toClient = <<>>
      /\ read.connected = s.connected /\ read.needsOffer = s.needsOffer
  <2>1. read = [s EXCEPT !.answers = 0]
    BY <1>1
  <2> HIDE DEF read
  <2>2. read \in SubState
    BY <2>1 DEF SubState
  <2> QED
    BY <1>1, <2>1, <2>2 DEF SubState
<1> HIDE DEF read
<1>3. CASE s.sig # "have-local-offer"
  <2>1. r = read
    BY <1>2, <1>3 DEF Answer, read
  <2>2. s.sig = "closed"
    BY <1>1, <1>3 DEF SubState
  <2> QED
    BY <1>2, <2>1, <2>2 DEF NegotiationStep, Over
<1>4. CASE s.sig = "have-local-offer"
  <2>0. ~Over(s) /\ Stage(s) = "answered"
    BY <1>1, <1>4 DEF Over, Stage
  <2>1. /\ stable \in SubState /\ stable.sig = "stable" /\ stable.senders = s.senders
        /\ stable.faulted = s.faulted /\ stable.offered = s.offered
        /\ stable.view = s.offered /\ stable.toClient = <<>> /\ stable.answers = 0
        /\ stable.mapped = s.mapped /\ stable.connected
    BY <1>1, <1>2 DEF SubState
  <2>2. Exchange(stable)
    BY <2>1 DEF Exchange
  <2>3. \/ s.needsOffer /\ r \in Renegotiate(stable)
        \/ ~s.needsOffer /\ r = stable
        \/ r \in PionFails(read)
    BY <1>2, <1>4 DEF Answer, SubState, read
  <2> HIDE DEF stable
  <2>4. CASE s.needsOffer /\ r \in Renegotiate(stable)
    <3>1. r.senders = s.senders /\ r.mapped = s.mapped
      BY <2>1, <2>2, <2>4, RenegotiateCases
    <3>2. ASSUME ~Over(r) PROVE NegotiationStep(s, r)
      <4>1. CASE r.sig = "have-local-offer"
        <5>1. /\ r.toClient # <<>> /\ r.view = s.view /\ r.offered = r.senders
              /\ r.faulted = s.faulted
          BY <1>1, <2>1, <2>2, <2>4, <3>2, <4>1, RenegotiateCases DEF Over
        <5>2. Stage(r) = "offered"
          BY <3>2, <4>1, <5>1 DEF Stage
        <5> QED
          BY <2>0, <3>1, <3>2, <5>1, <5>2 DEF NegotiationStep
      <4>2. CASE r.sig = "stable"
        <5>1. r.faulted /\ r.view = s.view /\ r.offered = s.offered
          BY <1>1, <2>1, <2>2, <2>4, <4>2, RenegotiateCases DEF SameExchange
        <5>2. Stage(r) = "idle"
          BY <3>2, <4>2 DEF Stage
        <5> QED
          BY <2>0, <3>1, <3>2, <5>1, <5>2 DEF NegotiationStep
      <4> QED
        BY <2>1, <2>2, <2>4, <4>1, <4>2, RenegotiateCases
    <3> QED
      BY <1>4, <3>1, <3>2 DEF NegotiationStep
  <2>5. CASE ~s.needsOffer /\ r = stable
    <3>1. s.offered = s.senders
      BY <1>4, <2>5 DEF SubInv, Remembered
    <3>2. ~Over(r) /\ Stage(r) = "idle"
      BY <2>1, <2>5 DEF Over, Stage
    <3> QED
      BY <1>1, <1>4, <2>0, <2>1, <2>5, <3>1, <3>2 DEF NegotiationStep
  <2>6. CASE r \in PionFails(read)
    <3>1. r = [read EXCEPT !.faulted = TRUE]
      BY <2>6 DEF PionFails
    <3>2. /\ r.senders = s.senders /\ r.mapped = s.mapped /\ r.faulted
          /\ r.offered = s.offered /\ r.view = s.view /\ r.sig = s.sig
          /\ r.connected /\ r.answers = 0 /\ r.toClient = <<>>
      BY <1>1, <1>2, <3>1 DEF SubState
    <3>3. ~Over(r) /\ Stage(r) = "stuck"
      BY <1>4, <3>2 DEF Over, Stage
    <3> QED
      BY <1>4, <2>0, <3>2, <3>3 DEF NegotiationStep
  <2> QED
    BY <2>3, <2>4, <2>5, <2>6
<1> QED
  BY <1>3, <1>4

=============================================================================
