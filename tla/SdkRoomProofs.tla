---------------------------- MODULE SdkRoomProofs ----------------------------
(***************************************************************************)
(* The safety properties of the client, for any number of calls by the     *)
(* application and any interleaving of them at their awaits: IndInv of     *)
(* SdkRoom is inductive, with one lemma per action, or per kind of action  *)
(* where several differ in the await that they are in only.                *)
(***************************************************************************)
EXTENDS SdkRoom, TLAPS

-----------------------------------------------------------------------------
(* Tracks and local streams. *)

LEMMA Tracks ==
  /\ \A t \in Track : t[1] \in Call /\ t[2] \in {"audio", "video"} /\ t # Null
  /\ \A c \in Call :
        /\ Video(c) \in Track /\ Video(c)[1] = c /\ Video(c)[2] = "video"
        /\ Audio(c) \in Track /\ Audio(c)[1] = c /\ Audio(c)[2] = "audio"
        /\ \A t \in Track : t[1] = c /\ t[2] = "video" => t = Video(c)
  /\ Null \notin Call /\ \A tracks \in SUBSET Track : Null # tracks
BY NullAssumption DEF Track, Video, Audio

\* What setLocalVideoTrack makes of a stream.
LEMMA ShowsLocally ==
  ASSUME Stream(localStream), NEW track \in Track \cup {Null},
         track # Null => track[2] = "video", ShowLocally(track)
  PROVE  /\ Stream(localStream') /\ (localStream' = Null <=> localStream = Null)
         /\ localStream # Null => \A t : t \in localStream' <=>
               \/ t \in localStream /\ t[2] = "audio"
               \/ t = track /\ t # Null
<1>1. CASE localStream = Null
  BY <1>1 DEF ShowLocally, Stream
<1>2. CASE localStream # Null
  <2>1. localStream \subseteq Track
    BY <1>2 DEF Stream
  <2>2. \A t : t \in localStream' <=> \/ t \in localStream /\ t[2] = "audio"
                                      \/ t = track /\ t # Null
    BY <1>2 DEF ShowLocally, OfKind
  <2>3. localStream' \subseteq Track
    BY <2>1, <2>2
  <2>4. localStream' # Null
    BY <2>3, Tracks
  <2>5. \A t, u \in localStream' : t[2] = u[2] => t = u
    BY <1>2, <2>2 DEF Stream
  <2> QED
    BY <1>2, <2>2, <2>3, <2>4, <2>5 DEF Stream
<1> QED
  BY <1>1, <1>2

\* What waits in the chain of a connection.
LEMMA Waiting ==
  ASSUME TypeOK, ChainInv, NEW p \in Call, NEW k \in DOMAIN chain[p]
  PROVE  /\ chain[p][k].call \in Call /\ chain[p][k].track \in Track \cup {Null}
         /\ at[chain[p][k].call] \in Replacing
         /\ chain[p][k].track # Null => chain[p][k].track[2] = "video"
         /\ DOMAIN chain[p] = 1..Len(chain[p]) /\ Len(chain[p]) \in Nat
         /\ chain[p] # <<>>
<1> DEFINE Entry == [call : Call, track : Track \cup {Null}]
<1>1. chain[p] \in Seq(Entry)
  BY DEF TypeOK
<1>e. \A e \in Entry : e.call \in Call /\ e.track \in Track \cup {Null}
  OBVIOUS
<1> HIDE DEF Entry
<1>2. chain[p][k] \in Entry
  BY <1>1
<1>3. /\ DOMAIN chain[p] = 1..Len(chain[p]) /\ Len(chain[p]) \in Nat
      /\ chain[p] # <<>>
  BY <1>1
<1>4. /\ at[chain[p][k].call] \in Replacing
      /\ chain[p][k].track # Null => chain[p][k].track[2] = "video"
  BY DEF ChainInv
<1> QED
  BY <1>2, <1>e, <1>3, <1>4

-----------------------------------------------------------------------------
(* Calls that begin, and calls that end without having changed anything. *)

Beginning == {"gettingMedia", "pickingScreen", "openingCamera", "openingMicrophone"}

\* The call c moves on and the media stay as they are.
Moves(c, place) ==
    /\ at' = [at EXCEPT ![c] = place]
    /\ \/ at[c] = "unused" /\ place \in Beginning
       \/ at[c] \in Beginning \cup {"connecting", "offering"} /\ place = "done"
    /\ UNCHANGED <<mediaVars, publisher, open, sender, ws, listeners, chain,
                   endedEarly, refilled>>
    /\ sockets' \subseteq sockets
    /\ raced \subseteq raced' /\ raced' \subseteq Call
    /\ left' \in BOOLEAN /\ rejoined' \in BOOLEAN /\ (rejoined => rejoined')

LEMMA MoveKeeps ==
  ASSUME IndInv, NEW c \in Call, NEW place, Moves(c, place)
  PROVE  TypeOK' /\ LiveInv' /\ ChainInv' /\ AloneInv'
<1>0. /\ TypeOK /\ LiveInv /\ ChainInv /\ AloneInv
      /\ at' = [at EXCEPT ![c] = place] /\ at \in [Call -> Place]
      /\ \/ at[c] = "unused" /\ place \in Beginning
         \/ at[c] \in Beginning \cup {"connecting", "offering"} /\ place = "done"
      /\ UNCHANGED <<live, localStream, cameraTrack, screen, sharing, publisher, open,
                     sender, ws, listeners, chain, endedEarly, refilled>>
      /\ sockets' \subseteq sockets
      /\ raced \subseteq raced' /\ raced' \subseteq Call
      /\ left' \in BOOLEAN /\ rejoined' \in BOOLEAN /\ (rejoined => rejoined')
  BY DEF IndInv, Moves, mediaVars, TypeOK
<1>1. /\ \A d \in Call \ {c} : at'[d] = at[d]
      /\ at'[c] = place
  BY <1>0
<1>2. TypeOK'
  <2>1. place \in Place
    BY <1>0 DEF Beginning, Place
  <2> QED
    BY <1>0, <2>1 DEF TypeOK
<1>3. LiveInv'
  <2>1. \A d \in Call : /\ at[d] \in Opened => at'[d] \in Opened
                        /\ at[d] \in CameraOf => at'[d] \in CameraOf
                        /\ at[d] \in ScreenOf => at'[d] \in ScreenOf
    BY <1>0, <1>1 DEF Beginning, Opened, CameraOf, ScreenOf
  <2>2. /\ \A t \in live : t[1] \in Call
        /\ cameraTrack # Null => cameraTrack[1] \in Call
        /\ screen # Null => screen[1] \in Call
    BY <1>0, Tracks DEF TypeOK
  <2> QED
    BY <1>0, <2>1, <2>2 DEF LiveInv
<1>4. /\ \A d \in Call : at[d] \in Replacing => at'[d] = at[d]
      /\ \A d \in Call : at[d] \in {"offering", "done"} => at'[d] \in {"offering", "done"}
  BY <1>0, <1>1 DEF Beginning, Replacing
<1>5. \A p \in Call : \A k \in DOMAIN chain[p] :
         chain[p][k].call \in Call /\ at'[chain[p][k].call] = at[chain[p][k].call]
  BY <1>0, <1>4, Waiting
<1>6. ChainInv'
  BY <1>0, <1>4, <1>5 DEF ChainInv
<1>7. AloneInv'
  <2> SUFFICES ASSUME ~rejoined' PROVE AloneInv'
    BY DEF AloneInv
  <2>1. publisher # Null => publisher \in Call
    BY <1>0 DEF TypeOK
  <2>2. /\ publisher' \in {Null, ws'} /\ sockets' \subseteq {ws'}
        /\ \A p \in Call : p # publisher' => chain'[p] = <<>>
        /\ publisher' = Null /\ localStream' # Null =>
              \A v \in OfKind("video", localStream') :
                  v = cameraTrack' \/ (v = screen' /\ sharing')
    BY <1>0 DEF AloneInv
  <2>3. ASSUME publisher # Null, sender[publisher] # Null, ~refilled
        PROVE  SentInv(publisher)'
    <3>1. SentInv(publisher)
      BY <1>0, <2>3 DEF AloneInv
    <3>2. Last(publisher)' = Last(publisher)
      BY <1>0 DEF Last
    <3>3. chain[publisher] # <<>> => Len(chain[publisher]) \in DOMAIN chain[publisher]
      <4>1. chain[publisher] \in Seq([call : Call, track : Track \cup {Null}])
        BY <1>0, <2>1, <2>3 DEF TypeOK
      <4> QED
        BY <4>1
    <3> QED
      BY <1>0, <1>5, <2>1, <2>3, <3>1, <3>2, <3>3 DEF SentInv
  <2> QED
    BY <1>0, <2>2, <2>3 DEF AloneInv
<1> QED
  BY <1>2, <1>3, <1>6, <1>7

\* A call that ends, or whose websocket does.
LEMMA EndKeeps ==
  ASSUME IndInv, NEW c \in Call, Moves(c, "done"), at[c] # "unused",
         UNCHANGED <<raced, rejoined>>
  PROVE  IndInv'
<1>0. /\ TypeOK /\ OverlapInv /\ LiveInv
      /\ at' = [at EXCEPT ![c] = "done"] /\ at \in [Call -> Place]
      /\ at[c] \in Beginning \cup {"connecting", "offering"}
      /\ UNCHANGED <<live, localStream, cameraTrack, screen, sharing, publisher, open,
                     sender, ws, listeners, chain, endedEarly, refilled, raced>>
      /\ sockets' \subseteq sockets
  BY DEF IndInv, Moves, mediaVars, TypeOK
<1>1. /\ \A d \in Call \ {c} : at'[d] = at[d]
      /\ at'[c] = "done"
  BY <1>0
<1>2. /\ Joining' \subseteq Joining /\ Sharing' \subseteq Sharing
      /\ \A d \in Call : at'[d] \in {"openingCamera", "openingMicrophone", "pickingScreen"}
                            => at'[d] = at[d]
  BY <1>0, <1>1 DEF Joining, Sharing
<1>3. OverlapInv'
  <2>1. /\ \A d, e \in Joining' : d # e => d \in raced'
        /\ \A d \in Joining' : /\ ws' \in {Null, d} \/ {ws', d} \subseteq raced'
                               /\ publisher' \in {Null, d} \cup raced'
        /\ \A d, e \in Sharing' : d # e => d \in raced'
    BY <1>0, <1>2 DEF OverlapInv
  <2>2. /\ ws' = Null => publisher' \in {Null} \cup raced'
        /\ sockets' \ {ws'} \subseteq raced' /\ open' \ {publisher'} \subseteq raced'
        /\ localStream' = Null <=> ws' = Null
        /\ listeners' > 0 => ws' # Null
        /\ HandledOnce'
    BY <1>0 DEF OverlapInv, HandledOnce
  <2>3. localStream' = Null =>
          /\ cameraTrack' = Null \/ cameraTrack'[1] \in raced'
          /\ \A d \in Call : at'[d] \in {"openingCamera", "openingMicrophone"}
                              => d \in raced'
    BY <1>0, <1>2 DEF OverlapInv
  <2>4. /\ ws' # Null => at'[ws'] \in {"connecting", "offering", "done"}
        /\ publisher' # Null => at'[publisher'] \in {"offering", "done"}
    <3>1. ws \in Call \cup {Null} /\ publisher \in Call \cup {Null}
      BY <1>0 DEF TypeOK
    <3> QED
      BY <1>0, <1>1, <3>1 DEF OverlapInv
  <2>5. screen' # Null =>
          /\ sharing' \/ at'[screen'[1]] = "replacingByScreen"
          /\ (\E d \in Call : at'[d] = "pickingScreen") => screen'[1] \in raced'
    <3>1. screen # Null => screen[1] \in Call
      BY <1>0, Tracks DEF TypeOK
    <3>2. screen # Null => sharing \/ at[screen[1]] = "replacingByScreen"
      BY <1>0 DEF OverlapInv
    <3>3. \A d \in Call : at[d] = "replacingByScreen" => at'[d] = at[d]
      BY <1>0, <1>1 DEF Beginning
    <3> QED
      BY <1>0, <1>2, <3>1, <3>2, <3>3 DEF OverlapInv
  <2> QED
    BY <2>1, <2>2, <2>3, <2>4, <2>5 DEF OverlapInv
<1> QED
  BY <1>3, MoveKeeps DEF IndInv

LEMMA EndsInv ==
  ASSUME IndInv, NEW c \in Call, JoinDone(c) \/ ConnectFails(c) \/ MediaRefused(c)
  PROVE  IndInv'
<1>0. TypeOK /\ raced \subseteq Call /\ left \in BOOLEAN /\ rejoined \in BOOLEAN
  BY DEF IndInv, TypeOK
<1>1. CASE JoinDone(c)
  <2>1. Moves(c, "done") /\ at[c] # "unused" /\ UNCHANGED <<raced, rejoined>>
    BY <1>0, <1>1 DEF JoinDone, Moves, Goto, mediaVars, connVars, history
  <2> QED
    BY <2>1, EndKeeps
<1>2. CASE ConnectFails(c)
  <2>1. Moves(c, "done") /\ at[c] # "unused" /\ UNCHANGED <<raced, rejoined>>
    BY <1>0, <1>2 DEF ConnectFails, Moves, Goto, mediaVars, history
  <2> QED
    BY <2>1, EndKeeps
<1>3. CASE MediaRefused(c)
  <2>1. Moves(c, "done") /\ at[c] # "unused" /\ UNCHANGED <<raced, rejoined>>
    BY <1>0, <1>3 DEF MediaRefused, Moves, Beginning, Goto, mediaVars, connVars, history
  <2> QED
    BY <2>1, EndKeeps
<1> QED
  BY <1>1, <1>2, <1>3

\* A call that begins: what it overlaps is noted.
LEMMA BeginKeeps ==
  ASSUME IndInv, NEW c \in Call, NEW place \in Beginning, Moves(c, place),
         at[c] = "unused", UNCHANGED sockets,
         place = "gettingMedia" =>
            \/ localStream = Null /\ ws = Null /\ Joining = {}
            \/ {c} \cup Begun \subseteq raced',
         place = "pickingScreen" =>
            /\ ~sharing
            /\ Sharing = {} \/ Sharing \cup {c} \subseteq raced',
         place \in {"openingCamera", "openingMicrophone"} => localStream # Null
  PROVE  IndInv'
<1>0. /\ TypeOK /\ OverlapInv /\ LiveInv
      /\ at' = [at EXCEPT ![c] = place] /\ at \in [Call -> Place]
      /\ UNCHANGED <<live, localStream, cameraTrack, screen, sharing, publisher, open,
                     sender, ws, sockets, listeners, chain, endedEarly, refilled>>
      /\ raced \subseteq raced' /\ (rejoined => rejoined')
  BY DEF IndInv, Moves, mediaVars, TypeOK
<1>1. /\ \A d \in Call \ {c} : at'[d] = at[d]
      /\ at'[c] = place
  BY <1>0
<1>t. /\ ws \in Call \cup {Null} /\ publisher \in Call \cup {Null}
      /\ screen # Null => screen[1] \in Call
  BY <1>0, Tracks DEF TypeOK
<1>b. /\ ws # Null => ws \in Begun /\ ws # c
      /\ publisher # Null => publisher \in Begun /\ publisher # c
      /\ screen # Null => screen[1] # c
      /\ c \notin Joining \cup Sharing /\ Joining \subseteq Begun
  BY <1>0, <1>t DEF OverlapInv, LiveInv, ScreenOf, Begun, Joining, Sharing
<1>2. /\ Joining' = Joining \cup (IF place = "gettingMedia" THEN {c} ELSE {})
      /\ Sharing' = Sharing \cup (IF place = "pickingScreen" THEN {c} ELSE {})
  BY <1>0, <1>1 DEF Joining, Sharing, Beginning
<1>3. OverlapInv'
  <2>1. \A d, e \in Joining' : d # e => d \in raced'
    BY <1>0, <1>2, <1>b DEF OverlapInv
  <2>2. \A d \in Joining' : /\ ws' \in {Null, d} \/ {ws', d} \subseteq raced'
                            /\ publisher' \in {Null, d} \cup raced'
    BY <1>0, <1>2, <1>b DEF OverlapInv
  <2>3. /\ ws' = Null => publisher' \in {Null} \cup raced'
        /\ sockets' \ {ws'} \subseteq raced' /\ open' \ {publisher'} \subseteq raced'
        /\ localStream' = Null <=> ws' = Null
        /\ listeners' > 0 => ws' # Null
        /\ HandledOnce'
    BY <1>0 DEF OverlapInv, HandledOnce
  <2>4. localStream' = Null =>
          /\ cameraTrack' = Null \/ cameraTrack'[1] \in raced'
          /\ \A d \in Call : at'[d] \in {"openingCamera", "openingMicrophone"}
                              => d \in raced'
    BY <1>0, <1>1 DEF OverlapInv
  <2>5. /\ ws' # Null => at'[ws'] \in {"connecting", "offering", "done"}
        /\ publisher' # Null => at'[publisher'] \in {"offering", "done"}
    BY <1>0, <1>1, <1>t, <1>b DEF OverlapInv
  <2>6. \A d, e \in Sharing' : d # e => d \in raced'
    BY <1>0, <1>2, <1>b DEF OverlapInv
  <2>7. screen' # Null =>
          /\ sharing' \/ at'[screen'[1]] = "replacingByScreen"
          /\ (\E d \in Call : at'[d] = "pickingScreen") => screen'[1] \in raced'
    <3> SUFFICES ASSUME screen # Null
                 PROVE  /\ sharing \/ at'[screen[1]] = "replacingByScreen"
                        /\ (\E d \in Call : at'[d] = "pickingScreen")
                              => screen[1] \in raced'
      BY <1>0
    <3>1. sharing \/ at[screen[1]] = "replacingByScreen"
      BY <1>0 DEF OverlapInv
    <3>2. at'[screen[1]] = at[screen[1]]
      BY <1>1, <1>t, <1>b
    <3>3. ASSUME place = "pickingScreen" PROVE screen[1] \in raced'
      <4>1. screen[1] \in Sharing
        BY <1>t, <3>1, <3>3 DEF Sharing
      <4> QED
        BY <3>3, <4>1
    <3>4. ASSUME place # "pickingScreen", NEW d \in Call, at'[d] = "pickingScreen"
          PROVE  screen[1] \in raced'
      BY <1>0, <1>1, <3>4 DEF OverlapInv
    <3> QED
      BY <3>1, <3>2, <3>3, <3>4
  <2> QED
    BY <2>1, <2>2, <2>3, <2>4, <2>5, <2>6, <2>7 DEF OverlapInv
<1> QED
  BY <1>3, MoveKeeps DEF IndInv

LEMMA BeginsInv ==
  ASSUME IndInv, NEW c \in Call,
         Join(c) \/ StartShare(c) \/ SetCamera(c) \/ SetMicrophone(c)
  PROVE  IndInv'
<1>0. TypeOK /\ raced \subseteq Call /\ left \in BOOLEAN /\ rejoined \in BOOLEAN
  BY DEF IndInv, TypeOK
<1>1. CASE Join(c)
  <2>1. /\ at' = [at EXCEPT ![c] = "gettingMedia"] /\ at[c] = "unused"
        /\ left' = FALSE
        /\ UNCHANGED <<mediaVars, connVars, chain, endedEarly, refilled>>
        /\ \/ /\ localStream = Null /\ ws = Null /\ Joining = {}
              /\ UNCHANGED <<raced, rejoined>>
           \/ raced' = raced \cup {c} \cup Begun /\ rejoined' = TRUE
    BY <1>1 DEF Join, Begin, Goto
  <2>2. Begun \subseteq Call
    BY DEF Begun
  <2>3. /\ raced \subseteq raced' /\ raced' \subseteq Call
        /\ rejoined' \in BOOLEAN /\ (rejoined => rejoined')
        /\ \/ localStream = Null /\ ws = Null /\ Joining = {}
           \/ {c} \cup Begun \subseteq raced'
    BY <1>0, <2>1, <2>2
  <2>4. Moves(c, "gettingMedia") /\ "gettingMedia" \in Beginning /\ UNCHANGED sockets
    BY <2>1, <2>3 DEF Moves, Beginning, connVars
  <2> QED
    BY <2>1, <2>3, <2>4, BeginKeeps
<1>2. CASE StartShare(c)
  <2> DEFINE other == {d \in Call : at[d] \in {"pickingScreen", "replacingByScreen"}}
  <2>1. /\ at' = [at EXCEPT ![c] = "pickingScreen"] /\ at[c] = "unused"
        /\ left' = FALSE /\ ~sharing
        /\ raced' = raced \cup (IF other = {} THEN {} ELSE other \cup {c})
        /\ UNCHANGED <<mediaVars, connVars, chain, rejoined, endedEarly, refilled>>
    BY <1>2 DEF StartShare, Begin, Goto
  <2>2. other = Sharing /\ Sharing \subseteq Call
    BY DEF Sharing
  <2> HIDE DEF other
  <2>3. /\ raced \subseteq raced' /\ raced' \subseteq Call
        /\ Sharing = {} \/ Sharing \cup {c} \subseteq raced'
    BY <1>0, <2>1, <2>2
  <2>4. Moves(c, "pickingScreen") /\ "pickingScreen" \in Beginning /\ UNCHANGED sockets
    BY <1>0, <2>1, <2>3 DEF Moves, Beginning, connVars
  <2> QED
    BY <2>1, <2>3, <2>4, BeginKeeps
<1>3. CASE SetCamera(c)
  <2>1. /\ at[c] = "unused" /\ localStream # Null /\ Moves(c, "openingCamera")
        /\ "openingCamera" \in Beginning /\ UNCHANGED sockets
    BY <1>0, <1>3 DEF SetCamera, Begin, Goto, Moves, Beginning, connVars
  <2> QED
    BY <2>1, BeginKeeps
<1>4. CASE SetMicrophone(c)
  <2>1. /\ at[c] = "unused" /\ localStream # Null /\ Moves(c, "openingMicrophone")
        /\ "openingMicrophone" \in Beginning /\ UNCHANGED sockets
    BY <1>0, <1>4 DEF SetMicrophone, Begin, Goto, Moves, Beginning, connVars
  <2> QED
    BY <2>1, BeginKeeps
<1> QED
  BY <1>1, <1>2, <1>3, <1>4

-----------------------------------------------------------------------------
(* join *)

\* The chains stay as they are when no call that waits in one goes on.
LEMMA ChainKept ==
  ASSUME TypeOK, ChainInv, UNCHANGED <<chain, sender>>,
         \A d \in Call : at[d] \in Replacing => at'[d] = at[d],
         \A d \in Call : at[d] \in {"offering", "done"} => at'[d] \in {"offering", "done"}
  PROVE  /\ ChainInv'
         /\ \A p \in Call : \A k \in DOMAIN chain[p] :
               at'[chain[p][k].call] = at[chain[p][k].call]
<1>1. \A p \in Call : \A k \in DOMAIN chain[p] :
         at'[chain[p][k].call] = at[chain[p][k].call]
  BY Waiting
<1> QED
  BY <1>1 DEF ChainInv

\* And then so does what a connection will send.
LEMMA SentKept ==
  ASSUME TypeOK, NEW p \in Call, SentInv(p),
         UNCHANGED <<chain, sender, cameraTrack, screen>>,
         sharing => sharing',
         sender[p] \in localStream => sender[p] \in localStream',
         \A k \in DOMAIN chain[p] : at'[chain[p][k].call] = at[chain[p][k].call]
  PROVE  SentInv(p)'
<1>1. Last(p)' = Last(p)
  BY DEF Last
<1>2. chain[p] # <<>> => Len(chain[p]) \in DOMAIN chain[p]
  <2>1. chain[p] \in Seq([call : Call, track : Track \cup {Null}])
    BY DEF TypeOK
  <2> QED
    BY <2>1
<1> QED
  BY <1>1, <1>2 DEF SentInv

\* A new stream takes the place of what an overlap had left.
LEMMA JoinMediaInv ==
  ASSUME IndInv, NEW c \in Call, JoinMedia(c)
  PROVE  IndInv'
<1>0. /\ TypeOK /\ LiveInv /\ OverlapInv /\ ChainInv /\ AloneInv
      /\ at \in [Call -> Place] /\ at[c] = "gettingMedia"
      /\ at' = [at EXCEPT ![c] = "connecting"]
      /\ live' = live \cup localStream'
      /\ listeners' = listeners + 1
      /\ ws' = c /\ sockets' = sockets \cup {c}
      /\ UNCHANGED <<screen, sharing, publisher, open, sender, chain, left,
                     endedEarly, refilled>>
  BY DEF IndInv, JoinMedia, Goto, TypeOK
<1>a. at[c] = "gettingMedia"
  BY DEF JoinMedia
<1>c. PICK camera \in {Video(c), Null} :
         localStream' = {Audio(c), camera} \ {Null} /\ cameraTrack' = camera
  BY DEF JoinMedia
<1>r. \/ localStream = Null /\ UNCHANGED <<raced, rejoined>>
      \/ localStream # Null /\ raced' = raced \cup Begun /\ rejoined' = TRUE
  BY DEF JoinMedia
<1>t. /\ live \subseteq Track /\ Stream(localStream) /\ raced \subseteq Call
      /\ cameraTrack \in Track \cup {Null} /\ screen \in Track \cup {Null}
      /\ publisher \in Call \cup {Null} /\ ws \in Call \cup {Null}
      /\ open \subseteq Call /\ sockets \subseteq Call
      /\ listeners \in Nat /\ rejoined \in BOOLEAN
  BY <1>0 DEF TypeOK
<1>1. /\ \A d \in Call \ {c} : at'[d] = at[d]
      /\ at'[c] = "connecting"
  BY <1>0
<1>s. /\ Stream(localStream') /\ localStream' # Null /\ localStream' \subseteq Track
      /\ \A t : t \in localStream' <=> t = Audio(c) \/ (t = Video(c) /\ t = cameraTrack')
      /\ cameraTrack' \in {Video(c), Null}
  <2>1. localStream' \subseteq Track
    BY <1>c, Tracks
  <2>2. \A t : t \in localStream' <=> t = Audio(c) \/ (t = Video(c) /\ t = cameraTrack')
    BY <1>c, Tracks
  <2> QED
    BY <1>c, <2>1, <2>2, Tracks DEF Stream
<1>b. raced \subseteq raced' /\ raced' \subseteq Call
  BY <1>r, <1>t DEF Begun
<1>o. \A t \in live : t[1] # c /\ (t[1] \in raced' \/ (t[2] = "video" /\ t = screen))
  <2> SUFFICES ASSUME NEW t \in live
               PROVE  t[1] # c /\ (t[1] \in raced' \/ (t[2] = "video" /\ t = screen))
    OBVIOUS
  <2>1. t[1] \in Call /\ at[t[1]] \in Opened
    BY <1>0, <1>t, Tracks DEF LiveInv
  <2>2. t[1] # c /\ t[1] \in Begun
    BY <1>0, <2>1 DEF Opened, Begun
  <2>3. ASSUME localStream = Null, t[1] \notin raced
        PROVE  t[2] = "video" /\ t = screen
    BY <1>0, <1>t, <2>3, Tracks DEF LiveInv, OverlapInv
  <2> QED
    <3>1. CASE localStream = Null
      BY <1>r, <2>2, <2>3, <3>1
    <3>2. CASE localStream # Null
      BY <1>r, <2>2, <3>2
    <3> QED
      BY <3>1, <3>2
<1>2. TypeOK'
  <2>1. "connecting" \in Place
    BY DEF Place
  <2>2. at' \in [Call -> Place] /\ listeners' \in Nat /\ ws' \in Call
        /\ cameraTrack' \in Track \cup {Null}
    BY <1>0, <1>t, <1>s, <2>1, Tracks
  <2>3. live' \subseteq Track /\ sockets' \subseteq Call /\ rejoined' \in BOOLEAN
    BY <1>0, <1>t, <1>s, <1>r
  <2> QED
    BY <1>0, <1>b, <1>s, <2>2, <2>3 DEF TypeOK
<1>3. LiveInv'
  <2>1. \A t \in live' : at'[t[1]] \in Opened
    <3> SUFFICES ASSUME NEW t \in live' PROVE at'[t[1]] \in Opened
      OBVIOUS
    <3>1. CASE t \in live
      <4>1. t[1] \in Call /\ t[1] # c
        BY <1>o, <1>t, <3>1, Tracks
      <4>2. at[t[1]] \in Opened
        BY <1>0, <3>1 DEF LiveInv
      <4> QED
        BY <1>1, <4>1, <4>2
    <3>2. CASE t \in localStream'
      <4>1. t[1] = c
        BY <1>s, <3>2, Tracks
      <4> QED
        BY <1>1, <4>1 DEF Opened
    <3> QED
      BY <1>0, <3>1, <3>2
  <2>2. cameraTrack' # Null => /\ cameraTrack'[2] = "video" /\ cameraTrack' \in live'
                               /\ at'[cameraTrack'[1]] \in CameraOf
    BY <1>0, <1>1, <1>s, Tracks DEF CameraOf
  <2>3. screen' # Null => /\ screen'[2] = "video" /\ screen' # cameraTrack'
                          /\ at'[screen'[1]] \in ScreenOf
                          /\ screen' \in live' \/ endedEarly'
    <3> SUFFICES ASSUME screen # Null
                 PROVE  /\ screen[2] = "video" /\ screen # cameraTrack'
                        /\ at'[screen[1]] \in ScreenOf
                        /\ screen \in live' \/ endedEarly
      BY <1>0
    <3>1. /\ screen[1] \in Call /\ at[screen[1]] \in ScreenOf /\ screen[2] = "video"
          /\ screen \in live \/ endedEarly
      BY <1>0, <1>t, Tracks DEF LiveInv
    <3>2. screen[1] # c
      BY <1>a, <3>1 DEF ScreenOf
    <3> QED
      BY <1>0, <1>1, <1>s, <3>1, <3>2, Tracks
  <2>4. \A t \in live' :
          \/ t[1] \in raced'
          \/ t[2] = "video" /\ t \in {cameraTrack', screen'}
          \/ t[2] = "audio" /\ localStream' # Null /\ t \in localStream'
    BY <1>0, <1>o, <1>s, Tracks
  <2> QED
    BY <2>1, <2>2, <2>3, <2>4 DEF LiveInv
<1>4. OverlapInv'
  <2>1. /\ Joining' = Joining /\ Sharing' = Sharing /\ c \in Joining
    BY <1>0, <1>1 DEF Joining, Sharing
  <2>w. ws # c /\ publisher # c /\ (ws # Null => ws \in raced)
        /\ (ws # Null => c \in raced)
    BY <1>0, <1>t, <2>1, Tracks DEF OverlapInv
  <2>2. /\ \A d, e \in Joining' : d # e => d \in raced'
        /\ \A d \in Joining' : /\ ws' \in {Null, d} \/ {ws', d} \subseteq raced'
                               /\ publisher' \in {Null, d} \cup raced'
        /\ \A d, e \in Sharing' : d # e => d \in raced'
    BY <1>0, <1>b, <2>1 DEF OverlapInv
  <2>3. /\ ws' = Null => publisher' \in {Null} \cup raced'
        /\ localStream' = Null <=> ws' = Null
        /\ listeners' > 0 => ws' # Null
    BY <1>0, <1>s, Tracks
  <2>4. sockets' \ {ws'} \subseteq raced' /\ open' \ {publisher'} \subseteq raced'
    <3>1. sockets \subseteq {ws} \cup raced /\ ws \in {Null} \cup raced
      BY <1>0, <2>w DEF OverlapInv
    <3> QED
      BY <1>0, <1>b, <1>t, <3>1, Tracks DEF OverlapInv
  <2>5. HandledOnce'
    <3>1. listeners' > 1 => listeners > 0
      BY <1>0, <1>t
    <3>2. listeners > 0 => localStream # Null
      BY <1>0 DEF OverlapInv
    <3> QED
      BY <1>r, <3>1, <3>2 DEF HandledOnce
  <2>6. localStream' = Null =>
          /\ cameraTrack' = Null \/ cameraTrack'[1] \in raced'
          /\ \A d \in Call : at'[d] \in {"openingCamera", "openingMicrophone"}
                              => d \in raced'
    BY <1>s
  <2>7. /\ ws' # Null => at'[ws'] \in {"connecting", "offering", "done"}
        /\ publisher' # Null => at'[publisher'] \in {"offering", "done"}
    BY <1>0, <1>1, <1>t, <2>w DEF OverlapInv
  <2>8. screen' # Null =>
          /\ sharing' \/ at'[screen'[1]] = "replacingByScreen"
          /\ (\E d \in Call : at'[d] = "pickingScreen") => screen'[1] \in raced'
    <3> SUFFICES ASSUME screen # Null
                 PROVE  /\ sharing \/ at'[screen[1]] = "replacingByScreen"
                        /\ (\E d \in Call : at'[d] = "pickingScreen")
                              => screen[1] \in raced'
      BY <1>0
    <3>1. screen[1] \in Call
      BY <1>t, Tracks
    <3>2. sharing \/ at[screen[1]] = "replacingByScreen"
      BY <1>0 DEF OverlapInv
    <3>3. (\E d \in Call : at[d] = "pickingScreen") => screen[1] \in raced
      BY <1>0 DEF OverlapInv
    <3> QED
      BY <1>0, <1>1, <1>b, <3>1, <3>2, <3>3
  <2> QED
    BY <2>2, <2>3, <2>4, <2>5, <2>6, <2>7, <2>8 DEF OverlapInv
<1>5. ChainInv'
  <2>1. \A d \in Call : at[d] \in Replacing => at'[d] = at[d]
    BY <1>0, <1>1 DEF Replacing
  <2>2. \A d \in Call : at[d] \in {"offering", "done"} => at'[d] \in {"offering", "done"}
    BY <1>0, <1>1
  <2> QED
    BY <1>0, <2>1, <2>2, ChainKept
<1>6. AloneInv'
  <2> SUFFICES ASSUME ~rejoined' PROVE AloneInv'
    BY DEF AloneInv
  <2>1. localStream = Null /\ ~rejoined
    BY <1>r
  <2>2. ws = Null /\ publisher = Null /\ sockets = {}
    BY <1>0, <1>t, <2>1, Tracks DEF OverlapInv, AloneInv
  <2>3. \A v \in OfKind("video", localStream') : v = cameraTrack'
    BY <1>s, Tracks DEF OfKind
  <2> QED
    BY <1>0, <2>1, <2>2, <2>3 DEF AloneInv
<1> QED
  BY <1>2, <1>3, <1>4, <1>5, <1>6 DEF IndInv

\* The connection is made of the stream, and nothing waits for it yet.
LEMMA SocketOpensInv ==
  ASSUME IndInv, NEW c \in Call, SocketOpens(c)
  PROVE  IndInv'
<1>0. /\ TypeOK /\ LiveInv /\ OverlapInv /\ ChainInv /\ AloneInv
      /\ at \in [Call -> Place]
      /\ publisher' = c /\ open' = open \cup {c}
      /\ UNCHANGED <<live, localStream, cameraTrack, screen, sharing, chain, ws, sockets,
                     listeners, left, raced, rejoined, endedEarly, refilled>>
  BY DEF IndInv, SocketOpens, TypeOK, mediaVars, history
<1>a. at[c] = "connecting" /\ c \in sockets
  BY DEF SocketOpens
<1>t. /\ live \subseteq Track /\ Stream(localStream) /\ raced \subseteq Call
      /\ cameraTrack \in Track \cup {Null} /\ screen \in Track \cup {Null}
      /\ publisher \in Call \cup {Null} /\ ws \in Call \cup {Null}
      /\ open \subseteq Call /\ sockets \subseteq Call
      /\ sender \in [Call -> Track \cup {Null}]
  BY <1>0 DEF TypeOK
<1>1. /\ \A d \in Call \ {c} : at'[d] = at[d] /\ sender'[d] = sender[d]
      /\ at'[c] \in {"offering", "done"} /\ at' \in [Call -> Place]
      /\ sender' \in [Call -> Track \cup {Null}]
      /\ localStream # Null /\ sender'[c] # Null =>
            sender'[c] \in OfKind("video", localStream)
      /\ localStream = Null => sender'[c] = sender[c]
  <2>1. CASE localStream = Null
    <3>1. at' = [at EXCEPT ![c] = "done"] /\ sender' = sender
      BY <2>1 DEF SocketOpens, Goto
    <3> QED
      BY <1>0, <1>t, <2>1, <3>1 DEF Place
  <2>2. CASE localStream # Null
    <3>1. at' = [at EXCEPT ![c] = "offering"]
      BY <2>2 DEF SocketOpens, Goto
    <3>2. PICK video \in IF OfKind("video", localStream) = {}
                         THEN {Null} ELSE OfKind("video", localStream) :
             sender' = [sender EXCEPT ![c] = video]
      BY <2>2 DEF SocketOpens
    <3>3. video # Null => video \in OfKind("video", localStream)
      BY <3>2
    <3>4. video \in Track \cup {Null}
      BY <1>t, <2>2, <3>3 DEF Stream, OfKind
    <3> QED
      BY <1>0, <1>t, <2>2, <3>1, <3>2, <3>3, <3>4 DEF Place
  <2> QED
    BY <2>1, <2>2
<1>p. /\ \A d \in Call : at[d] \in Replacing => at'[d] = at[d]
      /\ \A d \in Call : at[d] \in {"offering", "done"} => at'[d] \in {"offering", "done"}
      /\ \A d \in Call : at[d] \in Opened => at'[d] \in Opened
      /\ \A d \in Call : at[d] \in CameraOf => at'[d] \in CameraOf
      /\ \A d \in Call : at[d] \in ScreenOf => at'[d] \in ScreenOf
      /\ \A d \in Call : at'[d] \in {"openingCamera", "openingMicrophone", "pickingScreen"}
                            => at'[d] = at[d]
      /\ \A d \in Call : at[d] = "replacingByScreen" => at'[d] = at[d]
  BY <1>1, <1>a DEF Replacing, Opened, CameraOf, ScreenOf
<1>2. TypeOK'
  BY <1>0, <1>t, <1>1 DEF TypeOK
<1>3. LiveInv'
  <2>1. /\ \A t \in live : t[1] \in Call
        /\ cameraTrack # Null => cameraTrack[1] \in Call
        /\ screen # Null => screen[1] \in Call
    BY <1>t, Tracks
  <2> QED
    BY <1>0, <1>p, <2>1 DEF LiveInv
<1>4. OverlapInv'
  <2>1. Joining' \subseteq Joining /\ Sharing' \subseteq Sharing /\ c \in Joining
    BY <1>1, <1>a DEF Joining, Sharing
  <2>2. /\ \A d, e \in Joining' : d # e => d \in raced'
        /\ \A d \in Joining' : /\ ws' \in {Null, d} \/ {ws', d} \subseteq raced'
                               /\ publisher' \in {Null, d} \cup raced'
        /\ \A d, e \in Sharing' : d # e => d \in raced'
    BY <1>0, <2>1 DEF OverlapInv
  <2>3. /\ ws' = Null => publisher' \in {Null} \cup raced'
        /\ sockets' \ {ws'} \subseteq raced' /\ open' \ {publisher'} \subseteq raced'
    <3>1. publisher \in {Null, c} \cup raced
      BY <1>0, <2>1 DEF OverlapInv
    <3>2. open \subseteq {publisher} \cup raced /\ sockets \subseteq {ws} \cup raced
      BY <1>0 DEF OverlapInv
    <3> QED
      BY <1>0, <1>a, <1>t, <3>1, <3>2, Tracks
  <2>4. /\ localStream' = Null <=> ws' = Null
        /\ listeners' > 0 => ws' # Null
        /\ HandledOnce'
    BY <1>0 DEF OverlapInv, HandledOnce
  <2>5. localStream' = Null =>
          /\ cameraTrack' = Null \/ cameraTrack'[1] \in raced'
          /\ \A d \in Call : at'[d] \in {"openingCamera", "openingMicrophone"}
                              => d \in raced'
    BY <1>0, <1>p DEF OverlapInv
  <2>6. /\ ws' # Null => at'[ws'] \in {"connecting", "offering", "done"}
        /\ publisher' # Null => at'[publisher'] \in {"offering", "done"}
    BY <1>0, <1>1, <1>t DEF OverlapInv
  <2>7. screen' # Null =>
          /\ sharing' \/ at'[screen'[1]] = "replacingByScreen"
          /\ (\E d \in Call : at'[d] = "pickingScreen") => screen'[1] \in raced'
    <3>1. screen # Null => screen[1] \in Call
      BY <1>t, Tracks
    <3> QED
      BY <1>0, <1>p, <3>1 DEF OverlapInv
  <2> QED
    BY <2>2, <2>3, <2>4, <2>5, <2>6, <2>7 DEF OverlapInv
<1>5. /\ \A p \in Call : \A k \in DOMAIN chain[p] :
            at'[chain[p][k].call] = at[chain[p][k].call]
      /\ chain[c] = <<>>
  <2>1. chain[c] = <<>>
    BY <1>0, <1>a DEF ChainInv
  <2> QED
    BY <1>0, <1>p, <2>1, Waiting
<1>6. ChainInv'
  <2>1. \A p \in Call : sender'[p] # Null => sender'[p][2] = "video"
    BY <1>0, <1>1 DEF ChainInv, OfKind
  <2> QED
    BY <1>0, <1>p, <1>5, <2>1 DEF ChainInv
<1>7. AloneInv'
  <2> SUFFICES ASSUME ~rejoined PROVE AloneInv'
    BY <1>0 DEF AloneInv
  <2>1. ws = c /\ sockets \subseteq {ws}
    BY <1>0, <1>a, <1>t DEF AloneInv
  <2>2. publisher = Null
    <3>1. publisher # c
      BY <1>0, <1>a, <1>t, Tracks DEF OverlapInv
    <3> QED
      BY <1>0, <2>1, <3>1 DEF AloneInv
  <2>3. localStream # Null
    BY <1>0, <2>1, Tracks DEF OverlapInv
  <2>4. \A p \in Call : chain[p] = <<>>
    BY <1>0, <2>2, Tracks DEF AloneInv
  <2>5. ASSUME sender'[c] # Null
        PROVE  SentInv(c)'
    <3>1. sender'[c] \in OfKind("video", localStream)
      BY <1>1, <2>3, <2>5
    <3>2. sender'[c] = cameraTrack \/ (sender'[c] = screen /\ sharing)
      BY <1>0, <2>2, <2>3, <3>1 DEF AloneInv
    <3>3. Last(c)' = sender'[c]
      BY <1>0, <2>4 DEF Last
    <3>4. chain'[c] = <<>> /\ sender'[c] \in localStream'
      BY <1>0, <2>4, <3>1 DEF OfKind
    <3> QED
      BY <1>0, <3>2, <3>3, <3>4 DEF SentInv
  <2> QED
    BY <1>0, <2>1, <2>4, <2>5, Tracks DEF AloneInv
<1> QED
  BY <1>2, <1>3, <1>4, <1>6, <1>7 DEF IndInv

-----------------------------------------------------------------------------
(* The calls that change the camera, the screen or the microphone. *)

\* What they leave as it is of the overlaps.
LEMMA OverlapKept ==
  ASSUME TypeOK, OverlapInv, Joining' = Joining, Sharing' \subseteq Sharing,
         UNCHANGED <<publisher, open, ws, sockets, listeners, raced, rejoined>>,
         localStream' = Null <=> localStream = Null,
         \A d \in Call :
            /\ at[d] \in {"connecting", "offering", "done"} => at'[d] = at[d]
            /\ at'[d] \in {"openingCamera", "openingMicrophone"} => at'[d] = at[d],
         localStream = Null => cameraTrack' = Null \/ cameraTrack'[1] \in raced,
         screen' # Null =>
            /\ sharing' \/ at'[screen'[1]] = "replacingByScreen"
            /\ (\E d \in Call : at'[d] = "pickingScreen") => screen'[1] \in raced
  PROVE  OverlapInv'
<1>1. /\ \A d, e \in Joining' : d # e => d \in raced'
      /\ \A d \in Joining' : /\ ws' \in {Null, d} \/ {ws', d} \subseteq raced'
                             /\ publisher' \in {Null, d} \cup raced'
      /\ \A d, e \in Sharing' : d # e => d \in raced'
  BY DEF OverlapInv
<1>2. /\ ws' = Null => publisher' \in {Null} \cup raced'
      /\ sockets' \ {ws'} \subseteq raced' /\ open' \ {publisher'} \subseteq raced'
      /\ localStream' = Null <=> ws' = Null
      /\ listeners' > 0 => ws' # Null
      /\ HandledOnce'
  BY DEF OverlapInv, HandledOnce
<1>3. localStream' = Null =>
        /\ cameraTrack' = Null \/ cameraTrack'[1] \in raced'
        /\ \A d \in Call : at'[d] \in {"openingCamera", "openingMicrophone"}
                            => d \in raced'
  BY DEF OverlapInv
<1>4. /\ ws' # Null => at'[ws'] \in {"connecting", "offering", "done"}
      /\ publisher' # Null => at'[publisher'] \in {"offering", "done"}
  <2>1. ws \in Call \cup {Null} /\ publisher \in Call \cup {Null}
    BY DEF TypeOK
  <2> QED
    BY <2>1 DEF OverlapInv
<1> QED
  BY <1>1, <1>2, <1>3, <1>4 DEF OverlapInv

\* The user ends a share that has not gone on yet.
LEMMA ScreenEndsEarlyInv ==
  ASSUME IndInv, NEW c \in Call, ScreenEndsEarly(c)
  PROVE  IndInv'
<1>0. /\ TypeOK /\ LiveInv /\ OverlapInv /\ ChainInv /\ AloneInv
      /\ at[c] = "replacingByScreen" /\ live' = live \ {Video(c)} /\ endedEarly'
      /\ UNCHANGED <<at, localStream, cameraTrack, screen, sharing, publisher, open,
                     sender, ws, sockets, listeners, chain, left, raced, rejoined,
                     refilled>>
  BY DEF IndInv, ScreenEndsEarly, connVars
<1>1. TypeOK'
  <2>1. endedEarly' \in BOOLEAN
    BY DEF ScreenEndsEarly
  <2> QED
    BY <1>0, <2>1 DEF TypeOK
<1>2. LiveInv'
  <2>1. cameraTrack # Null => cameraTrack # Video(c)
    BY <1>0, Tracks DEF LiveInv, CameraOf
  <2> QED
    BY <1>0, <2>1 DEF LiveInv
<1>3. OverlapInv'
  BY <1>0 DEF OverlapInv, HandledOnce, Joining, Sharing
<1>4. ChainInv'
  BY <1>0 DEF ChainInv
<1>5. AloneInv'
  <2>1. \A p \in Call : SentInv(p) => SentInv(p)'
    BY <1>0, SentKept
  <2>2. publisher # Null => publisher \in Call
    BY <1>0 DEF TypeOK
  <2> QED
    BY <1>0, <2>1, <2>2 DEF AloneInv
<1> QED
  BY <1>1, <1>2, <1>3, <1>4, <1>5 DEF IndInv

\* The new sound takes the place of the old one in the stream.
LEMMA MicrophoneMediaInv ==
  ASSUME IndInv, NEW c \in Call, MicrophoneMedia(c)
  PROVE  IndInv'
<1>0. /\ TypeOK /\ LiveInv /\ OverlapInv /\ ChainInv /\ AloneInv
      /\ at \in [Call -> Place] /\ at' = [at EXCEPT ![c] = "done"]
      /\ at[c] = "openingMicrophone"
      /\ UNCHANGED <<cameraTrack, screen, sharing, publisher, open, sender, ws, sockets,
                     listeners, chain, left, raced, rejoined, endedEarly, refilled>>
  BY DEF IndInv, MicrophoneMedia, Goto, TypeOK, connVars, history
<1>t. /\ live \subseteq Track /\ Stream(localStream)
      /\ cameraTrack \in Track \cup {Null} /\ screen \in Track \cup {Null}
      /\ Audio(c) \in Track /\ Audio(c)[1] = c /\ Audio(c)[2] = "audio"
  BY <1>0, Tracks DEF TypeOK
<1>1. /\ \A d \in Call \ {c} : at'[d] = at[d]
      /\ at'[c] = "done"
  BY <1>0
<1>s. \/ /\ localStream = Null /\ localStream' = Null
         /\ live' = live \cup {Audio(c)} /\ c \in raced
      \/ /\ localStream # Null /\ localStream' # Null /\ localStream' \subseteq Track
         /\ \A t : t \in localStream' <=>
               (t \in localStream /\ t[2] = "video") \/ t = Audio(c)
         /\ \A t : t \in live' <=>
               \/ t \in live /\ ~(t \in localStream /\ t[2] = "audio")
               \/ t = Audio(c)
  <2>1. CASE localStream = Null
    BY <1>0, <2>1 DEF MicrophoneMedia, OverlapInv
  <2>2. CASE localStream # Null
    <3>1. /\ live' = (live \ OfKind("audio", localStream)) \cup {Audio(c)}
          /\ localStream' = OfKind("video", localStream) \cup {Audio(c)}
      BY <2>2 DEF MicrophoneMedia
    <3>2. localStream' \subseteq Track
      BY <1>t, <2>2, <3>1 DEF Stream, OfKind
    <3> QED
      BY <2>2, <3>1, <3>2, Tracks DEF OfKind
  <2> QED
    BY <2>1, <2>2
<1>k. Stream(localStream')
  BY <1>t, <1>s DEF Stream
<1>p. /\ \A d \in Call : at[d] \in Replacing => at'[d] = at[d]
      /\ \A d \in Call : at[d] \in Opened => at'[d] = at[d]
      /\ \A d \in Call : at'[d] \in {"openingCamera", "openingMicrophone", "pickingScreen"}
                            => at'[d] = at[d]
      /\ Joining' = Joining /\ Sharing' = Sharing
  BY <1>0, <1>1 DEF Replacing, Opened, Joining, Sharing
<1>v. \A t \in live : t[2] = "video" => t \in live'
  BY <1>s
<1>2. TypeOK'
  <2>1. live' \subseteq Track
    BY <1>t, <1>s
  <2>2. at' \in [Call -> Place]
    BY <1>0 DEF Place
  <2> QED
    BY <1>0, <1>k, <2>1, <2>2 DEF TypeOK
<1>3. LiveInv'
  <2>1. \A t \in live' : /\ at'[t[1]] \in Opened
                         /\ \/ t[1] \in raced
                            \/ t[2] = "video" /\ t \in {cameraTrack, screen}
                            \/ t[2] = "audio" /\ localStream' # Null /\ t \in localStream'
    <3> SUFFICES ASSUME NEW t \in live'
                 PROVE  /\ at'[t[1]] \in Opened
                        /\ \/ t[1] \in raced
                           \/ t[2] = "video" /\ t \in {cameraTrack, screen}
                           \/ t[2] = "audio" /\ localStream' # Null /\ t \in localStream'
      OBVIOUS
    <3>1. CASE t = Audio(c)
      BY <1>1, <1>s, <1>t, <3>1 DEF Opened
    <3>2. CASE t # Audio(c)
      <4>1. t \in live /\ t[1] \in Call /\ at[t[1]] \in Opened
        BY <1>0, <1>s, <1>t, <3>2, Tracks DEF LiveInv
      <4>2. \/ t[1] \in raced
            \/ t[2] = "video" /\ t \in {cameraTrack, screen}
        BY <1>0, <1>s, <3>2, <4>1 DEF LiveInv
      <4> QED
        BY <1>p, <4>1, <4>2
    <3> QED
      BY <3>1, <3>2
  <2>2. cameraTrack # Null => /\ cameraTrack[2] = "video" /\ cameraTrack \in live'
                              /\ at'[cameraTrack[1]] \in CameraOf
    BY <1>0, <1>t, <1>p, <1>v, Tracks DEF LiveInv, Opened, CameraOf
  <2>3. screen # Null => /\ screen[2] = "video" /\ screen # cameraTrack
                         /\ at'[screen[1]] \in ScreenOf
                         /\ screen \in live' \/ endedEarly
    BY <1>0, <1>t, <1>p, <1>v, Tracks DEF LiveInv, Opened, ScreenOf
  <2> QED
    BY <1>0, <2>1, <2>2, <2>3 DEF LiveInv
<1>4. OverlapInv'
  <2>1. \A d \in Call :
            /\ at[d] \in {"connecting", "offering", "done"} => at'[d] = at[d]
            /\ at'[d] \in {"openingCamera", "openingMicrophone"} => at'[d] = at[d]
    BY <1>p, <1>0, <1>1
  <2>2. localStream = Null => cameraTrack' = Null \/ cameraTrack'[1] \in raced
    BY <1>0 DEF OverlapInv
  <2>3. screen' # Null =>
            /\ sharing' \/ at'[screen'[1]] = "replacingByScreen"
            /\ (\E d \in Call : at'[d] = "pickingScreen") => screen'[1] \in raced
    <3>1. screen # Null => screen[1] \in Call
      BY <1>t, Tracks
    <3>2. at[c] # "replacingByScreen"
      BY <1>0
    <3> QED
      BY <1>0, <1>1, <1>p, <3>1, <3>2 DEF OverlapInv
  <2>4. localStream' = Null <=> localStream = Null
    BY <1>s
  <2> QED
    BY <1>0, <1>p, <2>1, <2>2, <2>3, <2>4, OverlapKept
<1>c. /\ ChainInv'
      /\ \A p \in Call : \A k \in DOMAIN chain[p] :
            at'[chain[p][k].call] = at[chain[p][k].call]
  <2>1. \A d \in Call : at[d] \in {"offering", "done"} => at'[d] \in {"offering", "done"}
    BY <1>0, <1>1
  <2> QED
    BY <1>0, <1>p, <2>1, ChainKept
<1>5. AloneInv'
  <2> SUFFICES ASSUME ~rejoined PROVE AloneInv'
    BY <1>0 DEF AloneInv
  <2>1. publisher # Null => publisher \in Call
    BY <1>0 DEF TypeOK
  <2>2. publisher = Null /\ localStream' # Null =>
            \A v \in OfKind("video", localStream') :
                v = cameraTrack \/ (v = screen /\ sharing)
    BY <1>0, <1>s, <1>t DEF AloneInv, OfKind
  <2>3. ASSUME NEW p \in Call, p = publisher, sender[p] # Null, ~refilled
        PROVE  SentInv(p)'
    <3>1. SentInv(p)
      BY <1>0, <2>3, Tracks DEF AloneInv
    <3>2. localStream # Null
      BY <1>0, <2>3, Tracks DEF AloneInv, OverlapInv
    <3>3. sender[p] \in localStream => sender[p] \in localStream'
      BY <1>0, <1>s, <2>3, <3>2 DEF ChainInv
    <3> QED
      BY <1>0, <1>c, <3>1, <3>3, SentKept
  <2> QED
    BY <1>0, <2>1, <2>2, <2>3 DEF AloneInv
<1> QED
  BY <1>2, <1>3, <1>4, <1>c, <1>5 DEF IndInv

\* replaceVideoTrack: it waits last for the connection, or has nothing to wait
\* for.
Waits(c, track, place) ==
    /\ publisher # Null /\ sender[publisher] # Null
    /\ at' = [at EXCEPT ![c] = place] /\ localStream' = localStream
    /\ chain' = [chain EXCEPT
                    ![publisher] = Append(@, [call |-> c, track |-> track])]

PassesBy(c, track) ==
    /\ publisher = Null \/ sender[publisher] = Null
    /\ at' = [at EXCEPT ![c] = "done"] /\ ShowLocally(track)
    /\ UNCHANGED chain

LEMMA ReplaceCases ==
  ASSUME NEW c, NEW track, NEW place, Replace(c, track, place)
  PROVE  Waits(c, track, place) \/ PassesBy(c, track)
BY DEF Replace, Waits, PassesBy, Goto

\* What is then in the chain.
LEMMA LastWaits ==
  ASSUME TypeOK, ChainInv, NEW c \in Call, NEW track \in Track \cup {Null},
         NEW place, Waits(c, track, place)
  PROVE  /\ publisher \in Call
         /\ chain' \in [Call -> Seq([call : Call, track : Track \cup {Null}])]
         /\ \A p \in Call : p # publisher => chain'[p] = chain[p]
         /\ chain'[publisher] # <<>>
         /\ Len(chain'[publisher]) \in DOMAIN chain'[publisher]
         /\ \A k \in DOMAIN chain'[publisher] :
               \/ /\ k = Len(chain'[publisher]) /\ k \notin DOMAIN chain[publisher]
                  /\ chain'[publisher][k].call = c
                  /\ chain'[publisher][k].track = track
               \/ /\ k \in DOMAIN chain[publisher]
                  /\ chain'[publisher][k] = chain[publisher][k]
<1> DEFINE Entry == [call : Call, track : Track \cup {Null}]
           e == [call |-> c, track |-> track]
<1>1. /\ publisher \in Call \cup {Null} /\ publisher # Null
      /\ chain \in [Call -> Seq(Entry)]
      /\ chain' = [chain EXCEPT ![publisher] = Append(@, e)]
  BY DEF TypeOK, Waits
<1>2. e \in Entry /\ e.call = c /\ e.track = track
  OBVIOUS
<1> HIDE DEF Entry, e
<1>3. /\ publisher \in Call /\ chain[publisher] \in Seq(Entry)
      /\ chain'[publisher] = Append(chain[publisher], e)
      /\ \A p \in Call : p # publisher => chain'[p] = chain[p]
  BY <1>1
<1>4. /\ Append(chain[publisher], e) \in Seq(Entry)
      /\ Append(chain[publisher], e) # <<>>
      /\ Len(Append(chain[publisher], e)) = Len(chain[publisher]) + 1
      /\ DOMAIN Append(chain[publisher], e) = 1..Len(chain[publisher]) + 1
      /\ DOMAIN chain[publisher] = 1..Len(chain[publisher])
      /\ Len(chain[publisher]) \in Nat
      /\ Append(chain[publisher], e)[Len(chain[publisher]) + 1] = e
      /\ \A k \in 1..Len(chain[publisher]) :
            Append(chain[publisher], e)[k] = chain[publisher][k]
  BY <1>2, <1>3
<1>5. chain' \in [Call -> Seq(Entry)]
  BY <1>1, <1>3, <1>4
<1>6. chain' \in [Call -> Seq([call : Call, track : Track \cup {Null}])]
  BY <1>5 DEF Entry
<1>7. \A k \in DOMAIN chain'[publisher] :
               \/ /\ k = Len(chain'[publisher]) /\ k \notin DOMAIN chain[publisher]
                  /\ chain'[publisher][k] = e
               \/ /\ k \in DOMAIN chain[publisher]
                  /\ chain'[publisher][k] = chain[publisher][k]
  BY <1>3, <1>4
<1>8. Len(chain'[publisher]) \in DOMAIN chain'[publisher] /\ chain'[publisher] # <<>>
  BY <1>3, <1>4
<1> QED
  BY <1>2, <1>3, <1>6, <1>7, <1>8

\* A call that comes to wait for its one replacement.
LEMMA WaitsInChain ==
  ASSUME TypeOK, OverlapInv, ChainInv, NEW c \in Call,
         NEW track \in Track \cup {Null}, NEW place \in Replacing,
         track # Null => track[2] = "video",
         at[c] \notin Replacing \cup {"offering", "done"},
         Waits(c, track, place), UNCHANGED sender
  PROVE  ChainInv'
<1>1. /\ at \in [Call -> Place] /\ at' = [at EXCEPT ![c] = place]
      /\ publisher # Null
  BY DEF TypeOK, Waits
<1>2. /\ \A d \in Call \ {c} : at'[d] = at[d]
      /\ at'[c] = place
  BY <1>1
<1>3. /\ publisher \in Call
      /\ \A p \in Call : p # publisher => chain'[p] = chain[p]
      /\ \A k \in DOMAIN chain'[publisher] :
               \/ /\ k = Len(chain'[publisher]) /\ k \notin DOMAIN chain[publisher]
                  /\ chain'[publisher][k].call = c
                  /\ chain'[publisher][k].track = track
               \/ /\ k \in DOMAIN chain[publisher]
                  /\ chain'[publisher][k] = chain[publisher][k]
  BY LastWaits
<1>o. \A p \in Call : \A k \in DOMAIN chain[p] :
         /\ chain[p][k].call \in Call /\ chain[p][k].call # c
         /\ at[chain[p][k].call] \in Replacing
         /\ chain[p][k].track # Null => chain[p][k].track[2] = "video"
  BY Waiting
<1>4. \A p \in Call : chain'[p] # <<>> => at'[p] \in {"offering", "done"}
  <2>1. \A p \in Call : at[p] \in {"offering", "done"} => at'[p] = at[p]
    BY <1>2
  <2>2. at[publisher] \in {"offering", "done"}
    BY <1>1 DEF OverlapInv
  <2> QED
    BY <1>3, <2>1, <2>2 DEF ChainInv
\* An entry of a chain is a new one, or was there.
<1>5. \A p \in Call : \A k \in DOMAIN chain'[p] :
         \/ /\ p = publisher /\ k = Len(chain'[p])
            /\ chain'[p][k].call = c /\ chain'[p][k].track = track
         \/ k \in DOMAIN chain[p] /\ chain'[p][k] = chain[p][k]
  BY <1>3
<1>6. \A p \in Call : \A k \in DOMAIN chain'[p] :
         /\ at'[chain'[p][k].call] \in Replacing
         /\ chain'[p][k].track # Null => chain'[p][k].track[2] = "video"
  BY <1>2, <1>5, <1>o
<1>7. \A p \in Call : \A k \in DOMAIN chain'[p] :
         \A q \in Call : \A l \in DOMAIN chain'[q] :
            chain'[p][k].call = chain'[q][l].call => p = q /\ k = l
  BY <1>5, <1>o DEF ChainInv
<1>8. \A p \in Call : sender'[p] # Null => sender'[p][2] = "video"
  BY DEF ChainInv
<1> QED
  BY <1>4, <1>6, <1>7, <1>8 DEF ChainInv

\* A replacement by the camera that is now the camera, or by the screen that is
\* now the screen.
LEMMA ReplaceKeeps ==
  ASSUME TypeOK, OverlapInv, ChainInv, AloneInv, NEW c \in Call,
         NEW track \in Track \cup {Null}, NEW place \in Replacing,
         track # Null => track[2] = "video",
         at[c] \notin Replacing \cup {"connecting", "offering", "done"},
         Replace(c, track, place),
         UNCHANGED <<publisher, open, ws, sockets, sender, rejoined, refilled>>,
         \/ track = cameraTrack'
         \/ /\ track = screen' /\ place = "replacingByScreen"
            /\ at'[c] = "done" => sharing',
         place = "replacingBack" => track = cameraTrack'
  PROVE  ChainInv' /\ AloneInv'
<1>t. /\ at \in [Call -> Place] /\ Stream(localStream)
      /\ publisher \in Call \cup {Null}
  BY DEF TypeOK
<1>1. CASE Waits(c, track, place)
  <2>1. ChainInv'
    BY <1>1, WaitsInChain
  <2>2. /\ publisher \in Call /\ publisher # Null
        /\ \A p \in Call : p # publisher => chain'[p] = chain[p]
        /\ chain'[publisher] # <<>>
        /\ Len(chain'[publisher]) \in DOMAIN chain'[publisher]
    BY <1>1, LastWaits DEF Waits
  <2>3. /\ chain'[publisher][Len(chain'[publisher])].call = c
        /\ chain'[publisher][Len(chain'[publisher])].track = track
    <3>1. chain[publisher] \in Seq([call : Call, track : Track \cup {Null}])
      BY <2>2 DEF TypeOK
    <3>2. /\ chain' = [chain EXCEPT
                          ![publisher] = Append(@, [call |-> c, track |-> track])]
          /\ chain \in [Call -> Seq([call : Call, track : Track \cup {Null}])]
      BY <1>1 DEF TypeOK, Waits
    <3> DEFINE e == [call |-> c, track |-> track]
    <3>3. e.call = c /\ e.track = track
      OBVIOUS
    <3>4. chain'[publisher] = Append(chain[publisher], e)
      BY <2>2, <3>2
    <3> HIDE DEF e
    <3>5. chain'[publisher][Len(chain'[publisher])] = e
      BY <3>1, <3>4
    <3> QED
      BY <3>3, <3>5
  <2>4. at' = [at EXCEPT ![c] = place] /\ at'[c] = place
    BY <1>1, <1>t DEF Waits
  <2>5. ASSUME NEW p \in Call, p = publisher PROVE SentInv(p)'
    <3>1. Last(p)' = track
      BY <2>2, <2>3, <2>5 DEF Last
    <3> QED
      BY <2>2, <2>3, <2>4, <2>5, <3>1 DEF SentInv
  <2>6. ~rejoined => /\ publisher \in {Null, ws} /\ sockets \subseteq {ws}
                     /\ \A p \in Call : p # publisher => chain'[p] = <<>>
    BY <2>2 DEF AloneInv
  <2> QED
    BY <2>1, <2>2, <2>5, <2>6 DEF AloneInv
<1>2. CASE PassesBy(c, track)
  <2>1. /\ at' = [at EXCEPT ![c] = "done"] /\ UNCHANGED chain
        /\ publisher = Null \/ sender[publisher] = Null
        /\ ShowLocally(track)
    BY <1>2 DEF PassesBy
  <2>2. /\ \A d \in Call \ {c} : at'[d] = at[d]
        /\ at'[c] = "done"
    BY <1>t, <2>1
  <2>3. ChainInv'
    <3>1. \A d \in Call : at[d] \in Replacing => at'[d] = at[d]
      BY <2>2
    <3>2. \A d \in Call : at[d] \in {"offering", "done"} => at'[d] \in {"offering", "done"}
      BY <2>2
    <3> QED
      BY <2>1, <3>1, <3>2, ChainKept
  <2>4. localStream' # Null =>
            \A v \in OfKind("video", localStream') :
                v = cameraTrack' \/ (v = screen' /\ sharing')
    BY <1>t, <2>1, <2>2, ShowsLocally DEF OfKind
  <2> QED
    BY <2>1, <2>3, <2>4 DEF AloneInv
<1> QED
  BY <1>1, <1>2, ReplaceCases

\* In either case the call moves on, and the sound stays what it is.
LEMMA ReplaceMoves ==
  ASSUME TypeOK, ChainInv, NEW c \in Call, NEW track \in Track \cup {Null},
         NEW place \in Replacing, track # Null => track[2] = "video",
         Replace(c, track, place)
  PROVE  /\ at' \in [Call -> Place] /\ at'[c] \in {place, "done"}
         /\ \A d \in Call \ {c} : at'[d] = at[d]
         /\ chain' \in [Call -> Seq([call : Call, track : Track \cup {Null}])]
         /\ Stream(localStream') /\ (localStream' = Null <=> localStream = Null)
         /\ localStream # Null =>
               \A t \in localStream : t[2] = "audio" => t \in localStream'
<1>t. /\ at \in [Call -> Place] /\ Stream(localStream)
      /\ chain \in [Call -> Seq([call : Call, track : Track \cup {Null}])]
  BY DEF TypeOK
<1>1. CASE Waits(c, track, place)
  <2>1. chain' \in [Call -> Seq([call : Call, track : Track \cup {Null}])]
    BY <1>1, LastWaits
  <2>2. at' = [at EXCEPT ![c] = place] /\ localStream' = localStream
    BY <1>1 DEF Waits
  <2> QED
    BY <1>t, <2>1, <2>2 DEF Replacing, Place
<1>2. CASE PassesBy(c, track)
  <2>1. /\ at' = [at EXCEPT ![c] = "done"] /\ chain' = chain /\ ShowLocally(track)
    BY <1>2 DEF PassesBy
  <2>2. /\ Stream(localStream') /\ (localStream' = Null <=> localStream = Null)
        /\ localStream # Null =>
               \A t \in localStream : t[2] = "audio" => t \in localStream'
    BY <1>t, <2>1, ShowsLocally
  <2> QED
    BY <1>t, <2>1, <2>2 DEF Place
<1> QED
  BY <1>1, <1>2, ReplaceCases

\* A screen is captured; another that the room had is of an overlapped call.
LEMMA ShareMediaInv ==
  ASSUME IndInv, NEW c \in Call, ShareMedia(c)
  PROVE  IndInv'
<1>0. /\ TypeOK /\ LiveInv /\ OverlapInv /\ ChainInv /\ AloneInv
      /\ at[c] = "pickingScreen"
      /\ live' = live \cup {Video(c)} /\ screen' = Video(c)
      /\ Replace(c, Video(c), "replacingByScreen")
      /\ sharing' = (sharing \/ at'[c] = "done")
      /\ UNCHANGED <<cameraTrack, publisher, open, sender, ws, sockets, listeners,
                     left, raced, rejoined, endedEarly, refilled>>
  BY DEF IndInv, ShareMedia, connVars, history
<1>t. /\ live \subseteq Track /\ raced \subseteq Call
      /\ cameraTrack \in Track \cup {Null} /\ screen \in Track \cup {Null}
      /\ Video(c) \in Track /\ Video(c)[1] = c /\ Video(c)[2] = "video"
      /\ Video(c) # Null /\ "replacingByScreen" \in Replacing
  BY <1>0, Tracks DEF TypeOK, Replacing
<1>1. /\ at' \in [Call -> Place] /\ at'[c] \in {"replacingByScreen", "done"}
      /\ \A d \in Call \ {c} : at'[d] = at[d]
      /\ chain' \in [Call -> Seq([call : Call, track : Track \cup {Null}])]
      /\ Stream(localStream') /\ (localStream' = Null <=> localStream = Null)
      /\ localStream # Null =>
            \A t \in localStream : t[2] = "audio" => t \in localStream'
  BY <1>0, <1>t, ReplaceMoves
<1>2. TypeOK'
  <2>1. live' \subseteq Track /\ screen' \in Track /\ sharing' \in BOOLEAN
    BY <1>0, <1>t DEF TypeOK
  <2> QED
    BY <1>0, <1>1, <2>1 DEF TypeOK
<1>p. \A d \in Call : d # c => at'[d] = at[d]
  BY <1>1
<1>3. LiveInv'
  <2>1. \A t \in live' : /\ at'[t[1]] \in Opened
                         /\ \/ t[1] \in raced
                            \/ t[2] = "video" /\ t \in {cameraTrack, screen'}
                            \/ t[2] = "audio" /\ localStream' # Null /\ t \in localStream'
    <3> SUFFICES ASSUME NEW t \in live'
                 PROVE  /\ at'[t[1]] \in Opened
                        /\ \/ t[1] \in raced
                           \/ t[2] = "video" /\ t \in {cameraTrack, screen'}
                           \/ t[2] = "audio" /\ localStream' # Null /\ t \in localStream'
      OBVIOUS
    <3>1. CASE t = Video(c)
      BY <1>0, <1>1, <1>t, <3>1 DEF Opened
    <3>2. CASE t # Video(c)
      <4>1. t \in live /\ t[1] \in Call /\ at[t[1]] \in Opened
        BY <1>0, <1>t, <3>2, Tracks DEF LiveInv
      <4>2. at'[t[1]] \in Opened
        BY <1>1, <4>1 DEF Opened
      <4>3. t = screen => t[1] \in raced
        BY <1>0, <1>t, <4>1, Tracks DEF OverlapInv
      <4> QED
        BY <1>0, <1>1, <4>1, <4>2, <4>3 DEF LiveInv
    <3> QED
      BY <3>1, <3>2
  <2>2. cameraTrack # Null => /\ cameraTrack[2] = "video" /\ cameraTrack \in live'
                              /\ at'[cameraTrack[1]] \in CameraOf
                              /\ Video(c) # cameraTrack
    <3> SUFFICES ASSUME cameraTrack # Null
                 PROVE  /\ cameraTrack[2] = "video" /\ cameraTrack \in live'
                        /\ at'[cameraTrack[1]] \in CameraOf
                        /\ Video(c) # cameraTrack
      OBVIOUS
    <3>1. /\ cameraTrack[2] = "video" /\ cameraTrack \in live
          /\ at[cameraTrack[1]] \in CameraOf /\ cameraTrack[1] \in Call
      BY <1>0, <1>t, Tracks DEF LiveInv
    <3>2. cameraTrack[1] # c
      BY <1>0, <3>1 DEF CameraOf
    <3> QED
      BY <1>0, <1>p, <1>t, <3>1, <3>2
  <2>3. /\ screen'[2] = "video" /\ screen' # cameraTrack
        /\ at'[screen'[1]] \in ScreenOf /\ screen' \in live'
    BY <1>0, <1>1, <1>t, <2>2 DEF ScreenOf
  <2> QED
    BY <1>0, <2>1, <2>2, <2>3 DEF LiveInv
<1>4. OverlapInv'
  <2>1. /\ Joining' = Joining /\ Sharing' \subseteq Sharing
        /\ \A d \in Call :
              /\ at[d] \in {"connecting", "offering", "done"} => at'[d] = at[d]
              /\ at'[d] \in {"openingCamera", "openingMicrophone"} => at'[d] = at[d]
    BY <1>0, <1>1 DEF Joining, Sharing
  <2>2. localStream = Null => cameraTrack' = Null \/ cameraTrack'[1] \in raced
    BY <1>0 DEF OverlapInv
  <2>3. screen' # Null =>
            /\ sharing' \/ at'[screen'[1]] = "replacingByScreen"
            /\ (\E d \in Call : at'[d] = "pickingScreen") => screen'[1] \in raced
    <3>1. \A d \in Call : at'[d] = "pickingScreen" =>
             d # c /\ d \in Sharing /\ c \in Sharing
      BY <1>0, <1>1 DEF Sharing
    <3> QED
      BY <1>0, <1>1, <1>t, <3>1 DEF OverlapInv
  <2> QED
    BY <1>0, <1>1, <2>1, <2>2, <2>3, OverlapKept
<1>5. ChainInv' /\ AloneInv'
  <2>1. at[c] \notin Replacing \cup {"connecting", "offering", "done"}
    BY <1>0 DEF Replacing
  <2>2. /\ Video(c) = screen' /\ (at'[c] = "done" => sharing')
        /\ "replacingByScreen" # "replacingBack" /\ Video(c) \in Track \cup {Null}
    BY <1>0, <1>t
  <2> QED
    BY <1>0, <1>t, <2>1, <2>2, ReplaceKeeps
<1> QED
  BY <1>2, <1>3, <1>4, <1>5 DEF IndInv

\* The screen is stopped, and the camera is sent again.
LEMMA StopShareInv ==
  ASSUME IndInv, NEW c \in Call, StopShare(c)
  PROVE  IndInv'
<1>0. /\ TypeOK /\ LiveInv /\ OverlapInv /\ ChainInv /\ AloneInv
      /\ at[c] = "unused"
      /\ sharing' = FALSE /\ left' = FALSE
      /\ live' = live \ {screen} /\ screen' = Null
      /\ Replace(c, cameraTrack, "replacingBack")
      /\ UNCHANGED <<cameraTrack, publisher, open, sender, ws, sockets, listeners,
                     raced, rejoined, endedEarly, refilled>>
  BY DEF IndInv, StopShare, connVars
<1>t. /\ live \subseteq Track /\ cameraTrack \in Track \cup {Null}
      /\ screen \in Track \cup {Null} /\ "replacingBack" \in Replacing
      /\ cameraTrack # Null => cameraTrack[2] = "video"
  BY <1>0 DEF TypeOK, Replacing, LiveInv
<1>1. /\ at' \in [Call -> Place] /\ at'[c] \in {"replacingBack", "done"}
      /\ \A d \in Call \ {c} : at'[d] = at[d]
      /\ chain' \in [Call -> Seq([call : Call, track : Track \cup {Null}])]
      /\ Stream(localStream') /\ (localStream' = Null <=> localStream = Null)
      /\ localStream # Null =>
            \A t \in localStream : t[2] = "audio" => t \in localStream'
  BY <1>0, <1>t, ReplaceMoves
<1>2. TypeOK'
  BY <1>0, <1>1 DEF TypeOK
<1>3. LiveInv'
  <2>1. \A t \in live : t[1] \in Call /\ at[t[1]] \in Opened /\ at'[t[1]] \in Opened
    BY <1>0, <1>t, <1>1, Tracks DEF LiveInv, Opened
  <2>2. cameraTrack # Null => /\ cameraTrack \in live'
                              /\ at'[cameraTrack[1]] \in CameraOf
    <3>1. cameraTrack # Null => cameraTrack # screen
      BY <1>0 DEF LiveInv
    <3> QED
      BY <1>0, <1>t, <1>1, <3>1, Tracks DEF LiveInv, CameraOf
  <2>3. \A t \in live' : \/ t[1] \in raced
                         \/ t[2] = "video" /\ t = cameraTrack
                         \/ t[2] = "audio" /\ localStream' # Null /\ t \in localStream'
    BY <1>0, <1>1 DEF LiveInv
  <2> QED
    BY <1>0, <1>t, <2>1, <2>2, <2>3 DEF LiveInv
<1>4. OverlapInv'
  <2>1. /\ Joining' = Joining /\ Sharing' \subseteq Sharing
        /\ \A d \in Call :
              /\ at[d] \in {"connecting", "offering", "done"} => at'[d] = at[d]
              /\ at'[d] \in {"openingCamera", "openingMicrophone"} => at'[d] = at[d]
    BY <1>0, <1>1 DEF Joining, Sharing
  <2>2. localStream = Null => cameraTrack' = Null \/ cameraTrack'[1] \in raced
    BY <1>0 DEF OverlapInv
  <2> QED
    BY <1>0, <1>1, <2>1, <2>2, OverlapKept
<1>5. ChainInv' /\ AloneInv'
  <2>1. at[c] \notin Replacing \cup {"connecting", "offering", "done"}
    BY <1>0 DEF Replacing
  <2>2. cameraTrack = cameraTrack'
    BY <1>0
  <2> QED
    BY <1>0, <1>t, <2>1, <2>2, ReplaceKeeps
<1> QED
  BY <1>2, <1>3, <1>4, <1>5 DEF IndInv

\* The old camera is stopped, and the new one takes its place.
LEMMA CameraMediaInv ==
  ASSUME IndInv, NEW c \in Call, CameraMedia(c)
  PROVE  IndInv'
<1>0. /\ TypeOK /\ LiveInv /\ OverlapInv /\ ChainInv /\ AloneInv
      /\ at[c] = "openingCamera"
      /\ live' = (live \ {cameraTrack}) \cup {Video(c)} /\ cameraTrack' = Video(c)
      /\ Replace(c, Video(c), "replacingCamera")
      /\ UNCHANGED <<screen, sharing, publisher, open, sender, ws, sockets, listeners,
                     left, raced, rejoined, endedEarly, refilled>>
  BY DEF IndInv, CameraMedia, connVars, history
<1>t. /\ live \subseteq Track /\ raced \subseteq Call
      /\ cameraTrack \in Track \cup {Null} /\ screen \in Track \cup {Null}
      /\ Video(c) \in Track /\ Video(c)[1] = c /\ Video(c)[2] = "video"
      /\ Video(c) # Null /\ "replacingCamera" \in Replacing
  BY <1>0, Tracks DEF TypeOK, Replacing
<1>1. /\ at' \in [Call -> Place] /\ at'[c] \in {"replacingCamera", "done"}
      /\ \A d \in Call \ {c} : at'[d] = at[d]
      /\ chain' \in [Call -> Seq([call : Call, track : Track \cup {Null}])]
      /\ Stream(localStream') /\ (localStream' = Null <=> localStream = Null)
      /\ localStream # Null =>
            \A t \in localStream : t[2] = "audio" => t \in localStream'
  BY <1>0, <1>t, ReplaceMoves
<1>2. TypeOK'
  <2>1. live' \subseteq Track /\ cameraTrack' \in Track
    BY <1>0, <1>t
  <2> QED
    BY <1>0, <1>1, <2>1 DEF TypeOK
<1>3. LiveInv'
  <2>1. \A t \in live' : /\ at'[t[1]] \in Opened
                         /\ \/ t[1] \in raced
                            \/ t[2] = "video" /\ t \in {cameraTrack', screen}
                            \/ t[2] = "audio" /\ localStream' # Null /\ t \in localStream'
    <3> SUFFICES ASSUME NEW t \in live'
                 PROVE  /\ at'[t[1]] \in Opened
                        /\ \/ t[1] \in raced
                           \/ t[2] = "video" /\ t \in {cameraTrack', screen}
                           \/ t[2] = "audio" /\ localStream' # Null /\ t \in localStream'
      OBVIOUS
    <3>1. CASE t = Video(c)
      BY <1>0, <1>1, <1>t, <3>1 DEF Opened
    <3>2. CASE t # Video(c)
      <4>1. t \in live /\ t # cameraTrack /\ t[1] \in Call /\ at[t[1]] \in Opened
        BY <1>0, <1>t, <3>2, Tracks DEF LiveInv
      <4>2. at'[t[1]] \in Opened
        BY <1>1, <4>1 DEF Opened
      <4> QED
        BY <1>0, <1>1, <4>1, <4>2 DEF LiveInv
    <3> QED
      BY <3>1, <3>2
  <2>2. screen # Null => /\ screen[2] = "video" /\ screen # Video(c)
                         /\ at'[screen[1]] \in ScreenOf
                         /\ screen \in live' \/ endedEarly
    <3> SUFFICES ASSUME screen # Null
                 PROVE  /\ screen[2] = "video" /\ screen # Video(c)
                        /\ at'[screen[1]] \in ScreenOf
                        /\ screen \in live' \/ endedEarly
      OBVIOUS
    <3>1. /\ screen[2] = "video" /\ screen # cameraTrack
          /\ at[screen[1]] \in ScreenOf /\ screen[1] \in Call
          /\ screen \in live \/ endedEarly
      BY <1>0, <1>t, Tracks DEF LiveInv
    <3>2. screen[1] # c
      BY <1>0, <3>1 DEF ScreenOf
    <3> QED
      BY <1>0, <1>1, <1>t, <3>1, <3>2
  <2>3. /\ cameraTrack'[2] = "video" /\ at'[cameraTrack'[1]] \in CameraOf
        /\ cameraTrack' \in live'
    BY <1>0, <1>1, <1>t DEF CameraOf
  <2> QED
    BY <1>0, <2>1, <2>2, <2>3 DEF LiveInv
<1>4. OverlapInv'
  <2>1. /\ Joining' = Joining /\ Sharing' \subseteq Sharing
        /\ \A d \in Call :
              /\ at[d] \in {"connecting", "offering", "done"} => at'[d] = at[d]
              /\ at'[d] \in {"openingCamera", "openingMicrophone"} => at'[d] = at[d]
    BY <1>0, <1>1 DEF Joining, Sharing
  <2>2. localStream = Null => cameraTrack' = Null \/ cameraTrack'[1] \in raced
    BY <1>0, <1>t DEF OverlapInv
  <2>3. screen' # Null =>
            /\ sharing' \/ at'[screen'[1]] = "replacingByScreen"
            /\ (\E d \in Call : at'[d] = "pickingScreen") => screen'[1] \in raced
    <3>1. screen # Null => screen[1] \in Call
      BY <1>t, Tracks
    <3>2. /\ \A d \in Call : at'[d] = "pickingScreen" => at[d] = "pickingScreen"
          /\ \A d \in Call : at[d] = "replacingByScreen" => at'[d] = at[d]
      BY <1>0, <1>1
    <3> QED
      BY <1>0, <3>1, <3>2 DEF OverlapInv
  <2> QED
    BY <1>0, <1>1, <2>1, <2>2, <2>3, OverlapKept
<1>5. ChainInv' /\ AloneInv'
  <2>1. at[c] \notin Replacing \cup {"connecting", "offering", "done"}
    BY <1>0 DEF Replacing
  <2>2. Video(c) = cameraTrack' /\ Video(c) \in Track \cup {Null}
    BY <1>0, <1>t
  <2> QED
    BY <1>0, <1>t, <2>1, <2>2, ReplaceKeeps
<1> QED
  BY <1>2, <1>3, <1>4, <1>5 DEF IndInv

-----------------------------------------------------------------------------
(* A replacement that is done, and leave(). *)

\* What is left of the chain.
LEMMA HeadGoes ==
  ASSUME TypeOK, NEW p \in Call, chain[p] # <<>>,
         chain' = [chain EXCEPT ![p] = Tail(@)]
  PROVE  /\ 1 \in DOMAIN chain[p] /\ Head(chain[p]) = chain[p][1]
         /\ chain' \in [Call -> Seq([call : Call, track : Track \cup {Null}])]
         /\ \A q \in Call : q # p => chain'[q] = chain[q]
         /\ \A k \in DOMAIN chain'[p] :
               /\ k \in Nat /\ k + 1 \in DOMAIN chain[p] /\ k + 1 # 1
               /\ chain'[p][k] = chain[p][k + 1]
         /\ \A k \in DOMAIN chain[p] :
               k # 1 => /\ k - 1 \in DOMAIN chain'[p]
                        /\ chain'[p][k - 1] = chain[p][k]
         /\ chain'[p] = <<>> => Len(chain[p]) = 1
         /\ chain'[p] # <<>> => /\ Len(chain'[p]) \in DOMAIN chain'[p]
                                /\ Len(chain[p]) = Len(chain'[p]) + 1
<1> DEFINE Entry == [call : Call, track : Track \cup {Null}]
<1>1. chain \in [Call -> Seq(Entry)]
  BY DEF TypeOK
<1> HIDE DEF Entry
<1>2. /\ chain[p] \in Seq(Entry) /\ chain'[p] = Tail(chain[p])
      /\ \A q \in Call : q # p => chain'[q] = chain[q]
  BY <1>1
<1>3. /\ Tail(chain[p]) \in Seq(Entry)
      /\ Len(chain[p]) \in Nat /\ Len(chain[p]) > 0
      /\ DOMAIN chain[p] = 1..Len(chain[p])
      /\ Len(Tail(chain[p])) = Len(chain[p]) - 1
      /\ DOMAIN Tail(chain[p]) = 1..Len(chain[p]) - 1
      /\ \A k \in 1..Len(chain[p]) - 1 : Tail(chain[p])[k] = chain[p][k + 1]
      /\ Head(chain[p]) = chain[p][1]
  BY <1>2
<1>4. /\ chain'[p] = <<>> => Len(chain[p]) = 1
      /\ chain'[p] # <<>> => /\ Len(chain'[p]) \in DOMAIN chain'[p]
                             /\ Len(chain[p]) = Len(chain'[p]) + 1
  <2> DEFINE rest == Tail(chain[p])
  <2>1. rest \in Seq(Entry) /\ Len(rest) = Len(chain[p]) - 1
    BY <1>3
  <2> HIDE DEF rest
  <2>2. rest = <<>> => Len(rest) = 0
    OBVIOUS
  <2>3. rest # <<>> => Len(rest) \in DOMAIN rest
    BY <2>1
  <2>4. chain'[p] = rest
    BY <1>2 DEF rest
  <2> QED
    BY <1>3, <2>1, <2>2, <2>3, <2>4
<1>5. chain' \in [Call -> Seq(Entry)]
  BY <1>1, <1>2, <1>3
<1>6. chain' \in [Call -> Seq([call : Call, track : Track \cup {Null}])]
  BY <1>5 DEF Entry
<1>8. \A k \in DOMAIN chain'[p] :
         /\ k \in Nat /\ k + 1 \in DOMAIN chain[p] /\ k + 1 # 1
         /\ chain'[p][k] = chain[p][k + 1]
  <2> SUFFICES ASSUME NEW k \in 1..(Len(chain[p]) - 1)
               PROVE  /\ k \in Nat /\ k + 1 \in 1..Len(chain[p]) /\ k + 1 # 1
                      /\ chain'[p][k] = chain[p][k + 1]
    BY <1>2, <1>3
  <2>1. k \in Nat /\ k + 1 \in 1..Len(chain[p]) /\ k + 1 # 1
    BY <1>3
  <2> QED
    BY <1>2, <1>3, <2>1
<1>7. \A k \in DOMAIN chain[p] :
         k # 1 => k - 1 \in DOMAIN chain'[p] /\ chain'[p][k - 1] = chain[p][k]
  <2> SUFFICES ASSUME NEW k \in 1..Len(chain[p]), k # 1
               PROVE  /\ k - 1 \in 1..Len(chain[p]) - 1
                      /\ chain'[p][k - 1] = chain[p][k]
    BY <1>2, <1>3
  <2>1. k - 1 \in 1..Len(chain[p]) - 1 /\ (k - 1) + 1 = k
    BY <1>3
  <2> QED
    BY <1>2, <1>3, <2>1
<1> QED
  <2>1. 1 \in DOMAIN chain[p] /\ Head(chain[p]) = chain[p][1]
    BY <1>3
  <2>2. \A q \in Call : q # p => chain'[q] = chain[q]
    BY <1>2
  <2> QED
    BY <2>1, <2>2, <1>4, <1>6, <1>7, <1>8

\* The first that waits goes on: what the connection sends is what it will
\* send when no other waits, and what is then shown.
LEMMA ReplacedInv ==
  ASSUME IndInv, NEW p \in Call, Replaced(p)
  PROVE  IndInv'
<1> DEFINE r == chain[p][1]
           c == chain[p][1].call
           shown == IF at[c] = "replacingBack" THEN cameraTrack ELSE r.track
<1>0. /\ TypeOK /\ LiveInv /\ OverlapInv /\ ChainInv /\ AloneInv
      /\ at \in [Call -> Place]
      /\ chain[p] # <<>> /\ chain' = [chain EXCEPT ![p] = Tail(@)]
      /\ UNCHANGED <<live, cameraTrack, screen, publisher, open, ws, sockets,
                     listeners, left, raced, rejoined, endedEarly>>
  BY DEF IndInv, Replaced, TypeOK
<1>h. /\ 1 \in DOMAIN chain[p] /\ Head(chain[p]) = chain[p][1]
      /\ chain' \in [Call -> Seq([call : Call, track : Track \cup {Null}])]
      /\ \A q \in Call : q # p => chain'[q] = chain[q]
      /\ \A k \in DOMAIN chain'[p] :
            /\ k \in Nat /\ k + 1 \in DOMAIN chain[p] /\ k + 1 # 1
            /\ chain'[p][k] = chain[p][k + 1]
      /\ \A k \in DOMAIN chain[p] :
            k # 1 => k - 1 \in DOMAIN chain'[p] /\ chain'[p][k - 1] = chain[p][k]
      /\ chain'[p] = <<>> => Len(chain[p]) = 1
      /\ chain'[p] # <<>> => /\ Len(chain'[p]) \in DOMAIN chain'[p]
                             /\ Len(chain[p]) = Len(chain'[p]) + 1
  BY <1>0, HeadGoes
<1>a. /\ at' = [at EXCEPT ![c] = "done"]
      /\ sender' = [sender EXCEPT ![p] = r.track]
      /\ ShowLocally(shown)
      /\ sharing' = (sharing \/ at[c] = "replacingByScreen")
      /\ refilled' = (refilled \/ (sender[p] = Null /\ r.track # Null))
  BY <1>h DEF Replaced, Goto
<1>w. /\ c \in Call /\ r.track \in Track \cup {Null} /\ at[c] \in Replacing
      /\ r.track # Null => r.track[2] = "video"
  BY <1>0, <1>h, Waiting
<1>t. /\ live \subseteq Track /\ Stream(localStream)
      /\ cameraTrack \in Track \cup {Null} /\ screen \in Track \cup {Null}
      /\ publisher \in Call \cup {Null} /\ ws \in Call \cup {Null}
      /\ sender \in [Call -> Track \cup {Null}]
      /\ sharing \in BOOLEAN /\ refilled \in BOOLEAN
  BY <1>0 DEF TypeOK
\* No other entry of a chain is of this call.
<1>u. /\ \A q \in Call : q # p => \A k \in DOMAIN chain[q] : chain[q][k].call # c
      /\ \A k \in DOMAIN chain[p] : k # 1 => chain[p][k].call # c
  BY <1>0, <1>h DEF ChainInv
<1>o. \A q \in Call : \A k \in DOMAIN chain[q] :
         /\ chain[q][k].call \in Call /\ at[chain[q][k].call] \in Replacing
         /\ chain[q][k].track # Null => chain[q][k].track[2] = "video"
  BY <1>0, Waiting
<1> HIDE DEF r, c, shown
<1>1. /\ \A d \in Call : d # c => at'[d] = at[d]
      /\ at'[c] = "done" /\ at' \in [Call -> Place]
  BY <1>0, <1>a, <1>w DEF Place
<1>v. /\ shown \in Track \cup {Null} /\ (shown # Null => shown[2] = "video")
      /\ at[c] = "replacingBack" => shown = cameraTrack
      /\ at[c] # "replacingBack" => shown = r.track
  BY <1>0, <1>w, <1>t DEF shown, LiveInv
<1>s. /\ Stream(localStream') /\ (localStream' = Null <=> localStream = Null)
      /\ localStream # Null => \A t : t \in localStream' <=>
            \/ t \in localStream /\ t[2] = "audio"
            \/ t = shown /\ t # Null
  BY <1>a, <1>t, <1>v, ShowsLocally
<1>n. /\ sender'[p] = r.track /\ sender' \in [Call -> Track \cup {Null}]
      /\ \A q \in Call : q # p => sender'[q] = sender[q]
  BY <1>a, <1>w, <1>t
<1>2. TypeOK'
  <2>1. sharing' \in BOOLEAN /\ refilled' \in BOOLEAN
    BY <1>a, <1>t
  <2> QED
    BY <1>0, <1>h, <1>1, <1>s, <1>n, <2>1 DEF TypeOK
<1>3. LiveInv'
  <2>1. \A d \in Call : /\ at[d] \in Opened => at'[d] \in Opened
                        /\ at[d] \in CameraOf => at'[d] \in CameraOf
                        /\ at[d] \in ScreenOf => at'[d] \in ScreenOf
    BY <1>1 DEF Opened, CameraOf, ScreenOf
  <2>2. /\ \A t \in live : t[1] \in Call
        /\ cameraTrack # Null => cameraTrack[1] \in Call
        /\ screen # Null => screen[1] \in Call
    BY <1>t, Tracks
  <2> QED
    BY <1>0, <1>s, <2>1, <2>2 DEF LiveInv
<1>4. OverlapInv'
  <2>1. /\ Joining' = Joining /\ Sharing' \subseteq Sharing
        /\ \A d \in Call :
              /\ at[d] \in {"connecting", "offering", "done"} => at'[d] = at[d]
              /\ at'[d] \in {"openingCamera", "openingMicrophone"} => at'[d] = at[d]
              /\ at'[d] = "pickingScreen" => at[d] = "pickingScreen"
    BY <1>1, <1>w DEF Joining, Sharing, Replacing
  <2>2. localStream = Null => cameraTrack' = Null \/ cameraTrack'[1] \in raced
    BY <1>0 DEF OverlapInv
  <2>3. screen' # Null =>
            /\ sharing' \/ at'[screen'[1]] = "replacingByScreen"
            /\ (\E d \in Call : at'[d] = "pickingScreen") => screen'[1] \in raced
    <3>1. screen # Null => screen[1] \in Call
      BY <1>t, Tracks
    <3> QED
      BY <1>0, <1>a, <1>1, <2>1, <3>1 DEF OverlapInv
  <2> QED
    BY <1>0, <1>s, <2>1, <2>2, <2>3, OverlapKept
\* An entry of a chain was there, and is not the one that went.
<1>e. /\ \A q \in Call : q # p => \A k \in DOMAIN chain'[q] :
            /\ chain'[q][k] = chain[q][k] /\ chain[q][k].call # c
            /\ k \in DOMAIN chain[q]
      /\ \A k \in DOMAIN chain'[p] :
            /\ chain'[p][k] = chain[p][k + 1] /\ chain[p][k + 1].call # c
            /\ k \in Nat /\ k + 1 \in DOMAIN chain[p]
  <2>1. ASSUME NEW q \in Call, q # p, NEW k \in DOMAIN chain'[q]
        PROVE  /\ chain'[q][k] = chain[q][k] /\ chain[q][k].call # c
               /\ k \in DOMAIN chain[q]
    <3>1. chain'[q] = chain[q]
      BY <1>h, <2>1
    <3> QED
      BY <1>u, <2>1, <3>1
  <2>2. \A k \in DOMAIN chain'[p] :
            /\ chain'[p][k] = chain[p][k + 1] /\ chain[p][k + 1].call # c
            /\ k \in Nat /\ k + 1 \in DOMAIN chain[p]
    BY <1>h, <1>u
  <2> QED
    BY <2>1, <2>2
<1>k. \A q \in Call : \A k \in DOMAIN chain'[q] :
         at'[chain'[q][k].call] = at[chain'[q][k].call]
  <2> SUFFICES ASSUME NEW q \in Call, NEW k \in DOMAIN chain'[q]
               PROVE  at'[chain'[q][k].call] = at[chain'[q][k].call]
    OBVIOUS
  <2>1. CASE q = p
    BY <1>1, <1>e, <1>o, <2>1
  <2>2. CASE q # p
    BY <1>1, <1>e, <1>o, <2>2
  <2> QED
    BY <2>1, <2>2
<1>5. ChainInv'
  <2>1. \A q \in Call : chain'[q] # <<>> => at'[q] \in {"offering", "done"}
    <3>1. \A q \in Call : chain'[q] # <<>> => chain[q] # <<>>
      BY <1>0, <1>h
    <3> QED
      BY <1>0, <1>1, <3>1 DEF ChainInv
  <2>2. \A q \in Call : \A k \in DOMAIN chain'[q] :
           /\ at'[chain'[q][k].call] \in Replacing
           /\ chain'[q][k].track # Null => chain'[q][k].track[2] = "video"
    <3> SUFFICES ASSUME NEW q \in Call, NEW k \in DOMAIN chain'[q]
                 PROVE  /\ at[chain'[q][k].call] \in Replacing
                        /\ chain'[q][k].track # Null => chain'[q][k].track[2] = "video"
      BY <1>k
    <3>1. CASE q = p
      BY <1>e, <1>o, <3>1
    <3>2. CASE q # p
      BY <1>e, <1>o, <3>2
    <3> QED
      BY <3>1, <3>2
  <2>3. ASSUME NEW q \in Call, NEW k \in DOMAIN chain'[q],
               NEW s \in Call, NEW l \in DOMAIN chain'[s],
               chain'[q][k].call = chain'[s][l].call
        PROVE  q = s /\ k = l
    <3>1. \A x, y \in Call : \A m \in DOMAIN chain[x] : \A n \in DOMAIN chain[y] :
             chain[x][m].call = chain[y][n].call => x = y /\ m = n
      BY <1>0 DEF ChainInv
    <3>2. CASE q = p /\ s = p
      <4>1. k + 1 = l + 1
        BY <1>e, <2>3, <3>1, <3>2
      <4> QED
        BY <1>e, <3>2, <4>1
    <3>3. CASE q # p /\ s # p
      BY <1>e, <2>3, <3>1, <3>3
    <3>4. CASE q = p /\ s # p
      BY <1>e, <2>3, <3>1, <3>4
    <3>5. CASE q # p /\ s = p
      BY <1>e, <2>3, <3>1, <3>5
    <3> QED
      BY <3>2, <3>3, <3>4, <3>5
  <2>4. \A q \in Call : sender'[q] # Null => sender'[q][2] = "video"
    BY <1>0, <1>w, <1>n DEF ChainInv, r
  <2> QED
    BY <2>1, <2>2, <2>3, <2>4 DEF ChainInv
<1>6. AloneInv'
  <2> SUFFICES ASSUME ~rejoined PROVE AloneInv'
    BY <1>0 DEF AloneInv
  <2>1. /\ publisher = p /\ ws = p /\ sockets' \subseteq {ws'} /\ localStream # Null
        /\ publisher' = p /\ p # Null
    BY <1>0, <1>t, Tracks DEF AloneInv, OverlapInv, TypeOK
  <2>2. \A q \in Call : q # p => chain'[q] = <<>>
    BY <1>0, <1>h, <2>1 DEF AloneInv
  <2>3. ASSUME sender'[p] # Null, ~refilled'
        PROVE  SentInv(p)'
    <3>1. ~refilled /\ sender[p] # Null
      BY <1>a, <1>n, <2>3
    <3>2. SentInv(p)
      BY <1>0, <2>1, <3>1 DEF AloneInv
    <3>3. Last(p) = chain[p][Len(chain[p])].track
      BY <1>0 DEF Last
    <3>4. chain'[p] = <<>> => chain[p][Len(chain[p])] = r
      BY <1>h DEF r
    <3>5. chain'[p] # <<>> => /\ chain'[p][Len(chain'[p])] = chain[p][Len(chain[p])]
                              /\ Len(chain'[p]) \in DOMAIN chain'[p]
      BY <1>h
    <3>6. Last(p)' = Last(p)
      BY <1>n, <3>3, <3>4, <3>5 DEF Last
    <3>7. \/ Last(p)' = cameraTrack'
          \/ /\ Last(p)' = screen'
             /\ \/ sharing'
                \/ \E k \in DOMAIN chain'[p] :
                      at'[chain'[p][k].call] = "replacingByScreen"
      <4>1. CASE Last(p) = cameraTrack
        BY <1>0, <3>6, <4>1
      <4>2. CASE Last(p) = screen /\ sharing
        BY <1>0, <1>a, <3>6, <4>2
      <4>3. ASSUME NEW k \in DOMAIN chain[p],
                   at[chain[p][k].call] = "replacingByScreen"
            PROVE  sharing' \/ \E l \in DOMAIN chain'[p] :
                                  at'[chain'[p][l].call] = "replacingByScreen"
        <5>1. CASE k = 1
          BY <1>a, <4>3, <5>1 DEF c
        <5>2. CASE k # 1
          <6>1. k - 1 \in DOMAIN chain'[p] /\ chain'[p][k - 1] = chain[p][k]
            BY <1>h, <5>2
          <6>2. at'[chain'[p][k - 1].call] = "replacingByScreen"
            BY <1>k, <4>3, <6>1
          <6> QED
            BY <6>1, <6>2
        <5> QED
          BY <5>1, <5>2
      <4> QED
        BY <1>0, <3>2, <3>6, <4>1, <4>2, <4>3 DEF SentInv
    <3>8. chain'[p] = <<>> => sender'[p] \in localStream'
      <4> SUFFICES ASSUME chain'[p] = <<>> PROVE sender'[p] \in localStream'
        OBVIOUS
      <4>1. at[c] = "replacingBack" => Last(p) = cameraTrack
        BY <1>0, <3>2, <3>4 DEF SentInv, c, r
      <4>2. shown = sender'[p]
        BY <1>n, <1>v, <3>3, <3>4, <4>1
      <4> QED
        BY <1>s, <2>1, <2>3, <4>2
    <3>9. chain'[p] # <<>> /\ at'[chain'[p][Len(chain'[p])].call] = "replacingBack" =>
             Last(p)' = cameraTrack'
      BY <1>0, <1>k, <3>2, <3>5, <3>6 DEF SentInv
    <3> QED
      BY <3>7, <3>8, <3>9 DEF SentInv
  <2> QED
    BY <1>0, <2>1, <2>2, <2>3 DEF AloneInv
<1> QED
  BY <1>2, <1>3, <1>4, <1>5, <1>6 DEF IndInv

\* leave(): the calls under way are overlapped, and the rest is let go.
LEMMA LeaveInv ==
  ASSUME IndInv, Leave
  PROVE  IndInv'
<1>0. /\ TypeOK /\ LiveInv /\ OverlapInv /\ ChainInv /\ AloneInv
      /\ at' = [c \in Call |-> IF c \in Abandoned THEN "done" ELSE at[c]]
      /\ live' = live \ ({screen, cameraTrack}
                         \cup (IF localStream = Null THEN {} ELSE localStream))
      /\ screen' = Null /\ cameraTrack' = Null /\ localStream' = Null
      /\ open' = open \ {publisher} /\ publisher' = Null
      /\ chain' = [c \in Call |-> IF c = publisher THEN <<>> ELSE chain[c]]
      /\ sockets' = sockets \ {ws} /\ ws' = Null /\ listeners' = 0
      /\ left' = TRUE /\ raced' = raced \cup Pending /\ refilled' = FALSE
      /\ UNCHANGED <<sharing, sender, rejoined, endedEarly>>
  BY DEF IndInv, Leave
<1>t. /\ at \in [Call -> Place] /\ live \subseteq Track
      /\ chain \in [Call -> Seq([call : Call, track : Track \cup {Null}])]
      /\ publisher \in Call \cup {Null}
  BY <1>0 DEF TypeOK
<1>1. /\ \A d \in Call : at'[d] = at[d] \/ at'[d] = "done"
      /\ \A d \in Call : d \notin Abandoned => at'[d] = at[d]
      /\ at' \in [Call -> Place]
  BY <1>0, <1>t DEF Place
<1>p. \A d \in Call : at'[d] \notin {"unused", "done"} => at'[d] = at[d] /\ d \in raced'
  BY <1>0, <1>1 DEF Pending
<1>2. TypeOK'
  <2>1. /\ live' \subseteq Track /\ open' \subseteq Call /\ sockets' \subseteq Call
        /\ raced' \subseteq Call
    BY <1>0, <1>t DEF TypeOK, Pending
  <2>2. chain' \in [Call -> Seq([call : Call, track : Track \cup {Null}])]
    <3> DEFINE Entry == [call : Call, track : Track \cup {Null}]
    <3>1. chain \in [Call -> Seq(Entry)]
      BY <1>t
    <3> HIDE DEF Entry
    <3>2. <<>> \in Seq(Entry)
      OBVIOUS
    <3>3. chain' \in [Call -> Seq(Entry)]
      BY <1>0, <3>1, <3>2
    <3> QED
      BY <3>3 DEF Entry
  <2>3. Stream(localStream') /\ listeners' \in Nat
    BY <1>0 DEF Stream
  <2> QED
    BY <1>0, <1>1, <2>1, <2>2, <2>3 DEF TypeOK
<1>3. LiveInv'
  <2>1. \A t \in live' : at'[t[1]] \in Opened
    <3>1. \A t \in live' : t[1] \in Call /\ at[t[1]] \in Opened
      BY <1>0, <1>t, Tracks DEF LiveInv
    <3> QED
      BY <1>1, <3>1 DEF Opened
  <2>2. \A t \in live' : t[1] \in raced'
    BY <1>0 DEF LiveInv
  <2> QED
    BY <1>0, <2>1, <2>2 DEF LiveInv
<1>4. OverlapInv'
  <2>1. Joining' \subseteq raced' /\ Sharing' \subseteq raced'
    BY <1>p DEF Joining, Sharing
  <2>2. sockets' \ {ws'} \subseteq raced' /\ open' \ {publisher'} \subseteq raced'
    BY <1>0 DEF OverlapInv
  <2>3. \A d \in Call : at'[d] \in {"openingCamera", "openingMicrophone"} => d \in raced'
    BY <1>p
  <2>4. HandledOnce'
    BY <1>0 DEF HandledOnce
  <2> QED
    BY <1>0, <2>1, <2>2, <2>3, <2>4 DEF OverlapInv
<1>5. ChainInv'
  <2>1. \A q \in Call : /\ q = publisher => chain'[q] = <<>>
                        /\ q # publisher => chain'[q] = chain[q]
    BY <1>0
  <2>2. \A q \in Call : chain'[q] # <<>> => at'[q] \in {"offering", "done"}
    BY <1>0, <1>1, <2>1 DEF ChainInv
  <2>3. ASSUME NEW q \in Call, NEW k \in DOMAIN chain'[q]
        PROVE  /\ q # publisher /\ chain'[q] = chain[q]
               /\ at'[chain[q][k].call] = at[chain[q][k].call]
    <3>1. q # publisher /\ chain'[q] = chain[q]
      BY <2>1, <2>3
    <3>2. chain[q][k].call \in Call /\ at[chain[q][k].call] \in Replacing
      BY <1>0, <2>3, <3>1, Waiting
    <3>3. chain[q][k].call \notin Abandoned
      <4>1. publisher \in Call => \A l \in DOMAIN chain[publisher] :
                                     chain[publisher][l].call # chain[q][k].call
        BY <1>0, <2>3, <3>1 DEF ChainInv
      <4>2. at[chain[q][k].call] # "offering"
        BY <3>2 DEF Replacing
      <4> QED
        BY <1>t, <4>1, <4>2 DEF Abandoned
    <3> QED
      BY <1>1, <3>1, <3>2, <3>3
  <2>4. \A q \in Call : \A k \in DOMAIN chain'[q] :
           /\ at'[chain'[q][k].call] \in Replacing
           /\ chain'[q][k].track # Null => chain'[q][k].track[2] = "video"
    BY <1>0, <2>3 DEF ChainInv
  <2>5. \A q \in Call : \A k \in DOMAIN chain'[q] :
           \A s \in Call : \A l \in DOMAIN chain'[s] :
              chain'[q][k].call = chain'[s][l].call => q = s /\ k = l
    BY <1>0, <2>3 DEF ChainInv
  <2>6. \A q \in Call : sender'[q] # Null => sender'[q][2] = "video"
    BY <1>0 DEF ChainInv
  <2> QED
    BY <2>2, <2>4, <2>5, <2>6 DEF ChainInv
<1>6. AloneInv'
  <2> SUFFICES ASSUME ~rejoined PROVE AloneInv'
    BY <1>0 DEF AloneInv
  <2>1. \A q \in Call : chain'[q] = <<>>
    BY <1>0 DEF AloneInv
  <2>2. sockets' = {}
    BY <1>0 DEF AloneInv
  <2> QED
    BY <1>0, <2>1, <2>2 DEF AloneInv
<1> QED
  BY <1>2, <1>3, <1>4, <1>5, <1>6 DEF IndInv

-----------------------------------------------------------------------------
(* Every state. *)

LEMMA InitInv == Init => IndInv
<1> SUFFICES ASSUME Init PROVE IndInv
  OBVIOUS
<1>0. /\ at = [c \in Call |-> "unused"]
      /\ live = {} /\ localStream = Null /\ cameraTrack = Null /\ screen = Null
      /\ sharing = FALSE
      /\ publisher = Null /\ open = {} /\ sender = [c \in Call |-> Null]
      /\ chain = [c \in Call |-> <<>>]
      /\ ws = Null /\ sockets = {} /\ listeners = 0
      /\ left = FALSE /\ raced = {} /\ rejoined = FALSE
      /\ endedEarly = FALSE /\ refilled = FALSE
  BY DEF Init
<1>1. TypeOK
  <2> DEFINE Entry == [call : Call, track : Track \cup {Null}]
  <2> HIDE DEF Entry
  <2>1. chain \in [Call -> Seq(Entry)]
    BY <1>0
  <2>2. chain \in [Call -> Seq([call : Call, track : Track \cup {Null}])]
    BY <2>1 DEF Entry
  <2>3. at \in [Call -> Place] /\ sender \in [Call -> Track \cup {Null}]
    BY <1>0 DEF Place
  <2> QED
    BY <1>0, <2>2, <2>3 DEF TypeOK, Stream
<1>2. LiveInv
  BY <1>0 DEF LiveInv
<1>3. OverlapInv
  BY <1>0 DEF OverlapInv, HandledOnce, Joining, Sharing
<1>4. ChainInv
  BY <1>0 DEF ChainInv
<1>5. AloneInv
  BY <1>0 DEF AloneInv
<1> QED
  BY <1>1, <1>2, <1>3, <1>4, <1>5 DEF IndInv

LEMMA StepInv == IndInv /\ [Next]_vars => IndInv'
<1> SUFFICES ASSUME IndInv, [Next]_vars PROVE IndInv'
  OBVIOUS
<1>1. ASSUME NEW c \in Call, JoinStep(c) PROVE IndInv'
  BY <1>1, BeginsInv, JoinMediaInv, SocketOpensInv, EndsInv DEF JoinStep
<1>2. ASSUME NEW c \in Call, MediaStep(c) PROVE IndInv'
  BY <1>2, BeginsInv, ShareMediaInv, StopShareInv, ScreenEndsEarlyInv, CameraMediaInv,
     MicrophoneMediaInv, EndsInv DEF MediaStep
<1>3. ASSUME NEW p \in Call, Replaced(p) PROVE IndInv'
  BY <1>3, ReplacedInv
<1>4. CASE Leave
  BY <1>4, LeaveInv
<1>5. CASE UNCHANGED vars
  <2>1. UNCHANGED <<at, live, localStream, cameraTrack, screen, sharing, publisher,
                    open, sender, chain, ws, sockets, listeners, left, raced,
                    rejoined, endedEarly, refilled>>
    BY <1>5 DEF vars, mediaVars, connVars, history
  <2>2. \A p \in Call : SentInv(p) => SentInv(p)'
    BY <2>1 DEF SentInv, Last
  <2>3. AloneInv'
    <3>1. publisher # Null => publisher \in Call
      BY DEF IndInv, TypeOK
    <3> QED
      BY <2>1, <2>2, <3>1 DEF IndInv, AloneInv
  <2>4. TypeOK' /\ LiveInv'
    BY <2>1 DEF IndInv, TypeOK, LiveInv
  <2>c. ChainInv'
    BY <2>1 DEF IndInv, ChainInv
  <2>5. OverlapInv'
    BY <2>1 DEF IndInv, OverlapInv, HandledOnce, Joining, Sharing
  <2> QED
    BY <2>3, <2>4, <2>c, <2>5 DEF IndInv
<1> QED
  BY <1>1, <1>2, <1>3, <1>4, <1>5 DEF Next

\* Whatever calls the application makes, and in whatever order their awaits
\* end: what is captured belongs to the camera, the screen or the stream, what
\* waits for a connection waits in order, and overlaps are noted.
THEOREM Invariance == Spec => []IndInv
<1>1. Init => IndInv
  BY InitInv
<1>2. IndInv /\ [Next]_vars => IndInv'
  BY StepInv
<1> QED
  BY <1>1, <1>2, PTL DEF Spec

\* Every variable keeps its type; a local stream has at most one track of each
\* kind (setLocalVideoTrack, room.ts:386).
THEOREM TypeCorrect == Spec => []TypeOK
<1>1. IndInv => TypeOK
  BY DEF IndInv
<1> QED
  BY <1>1, Invariance, PTL

\* A capture, a connection or a websocket that the room holds no more is
\* stopped or closed, unless a leave, a second join or a second share has
\* overlapped the call that it belongs to.
THEOREM OnlyRacedLeakHolds == Spec => []OnlyRacedLeak
<1>1. IndInv => OnlyRacedLeak
  <2> SUFFICES ASSUME IndInv PROVE OnlyRacedLeak
    OBVIOUS
  <2>1. \A t \in live \ Held : t[1] \in raced
    BY DEF IndInv, LiveInv, Held
  <2>2. /\ \A c \in open \ {publisher} : c \in raced
        /\ \A c \in sockets \ {ws} : c \in raced
    BY DEF IndInv, OverlapInv
  <2> QED
    BY <2>1, <2>2 DEF OnlyRacedLeak
<1> QED
  BY <1>1, Invariance, PTL

\* When no call is under way the others receive the video that is shown
\* locally, and it is the camera unless the screen is shared.
THEOREM SentIsShownHolds == Spec => []SentIsShown
<1>1. IndInv => SentIsShown
  <2> SUFFICES ASSUME IndInv, Quiet, ~rejoined, ~refilled, publisher # Null,
                      sender[publisher] # Null
               PROVE  /\ sender[publisher] \in localStream
                      /\ sender[publisher] \in live \/ endedEarly
                      /\ sharing \/ sender[publisher] = cameraTrack
    BY DEF SentIsShown
  <2>0. TypeOK /\ LiveInv /\ ChainInv /\ SentInv(publisher) /\ publisher \in Call
    BY DEF IndInv, AloneInv, TypeOK
  \* A call that waits is under way.
  <2>1. DOMAIN chain[publisher] = {}
    <3> SUFFICES ASSUME NEW k \in DOMAIN chain[publisher] PROVE FALSE
      OBVIOUS
    <3>1. chain[publisher][k].call \in Call /\ at[chain[publisher][k].call] \in Replacing
      BY <2>0, Waiting
    <3> QED
      BY <3>1 DEF Quiet, Pending, Replacing
  <2>2. chain[publisher] = <<>>
    <3>1. chain[publisher] \in Seq([call : Call, track : Track \cup {Null}])
      BY <2>0 DEF TypeOK
    <3>2. chain[publisher] # <<>> => Len(chain[publisher]) \in DOMAIN chain[publisher]
      BY <3>1
    <3> QED
      BY <2>1, <3>2
  <2>3. Last(publisher) = sender[publisher]
    BY <2>2 DEF Last
  <2>4. /\ sender[publisher] \in localStream
        /\ \/ sender[publisher] = cameraTrack
           \/ sender[publisher] = screen /\ sharing
    BY <2>0, <2>1, <2>2, <2>3 DEF SentInv
  <2> QED
    BY <2>0, <2>4 DEF LiveInv
<1> QED
  BY <1>1, Invariance, PTL

\* There is one listener for the messages of the server, unless join() was
\* called again without a leave() or while another was under way (room.ts:89).
THEOREM HandledOnceHolds == Spec => []HandledOnce
<1>1. IndInv => HandledOnce
  BY DEF IndInv, OverlapInv
<1> QED
  BY <1>1, Invariance, PTL

=============================================================================
