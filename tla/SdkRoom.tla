------------------------------ MODULE SdkRoom ------------------------------
(***************************************************************************)
(* The client at the other end: RoomkitRoom of sdk/src/room.ts and its     *)
(* SignalingClient (sdk/src/signaling.ts).                                 *)
(*                                                                         *)
(* JavaScript runs one piece of code at a time, and an asynchronous method *)
(* gives way at every await, so an action is the code from one await to    *)
(* the next.  A call that is under way is a member of Call, and at[c] is   *)
(* the await it is in.  leave() has none: it is one action.                *)
(*                                                                         *)
(* The browser is external.  Of it the model assumes: a capture is live    *)
(* until stop() is called on its track or the user ends it; replaceTrack   *)
(* operations of a connection are done in the order they were asked for,   *)
(* and never settle once it is closed; closing a websocket that is not     *)
(* open makes connect() fail.                                              *)
(***************************************************************************)
EXTENDS Naturals, Sequences

CONSTANTS
    Call,   \* the asynchronous calls an application may make
    Null    \* JavaScript's null

\* The tracks that a call gets from getUserMedia or getDisplayMedia.
Track    == Call \X {"audio", "video"}
Video(c) == <<c, "video">>
Audio(c) == <<c, "audio">>
OfKind(kind, tracks) == {t \in tracks : t[2] = kind}

\* It is no call, no track and no stream, which is a set of tracks.
ASSUME NullAssumption == /\ Null \notin Call /\ Null \notin Track
                         /\ \A tracks \in SUBSET Track : Null # tracks

VARIABLES
    at,          \* per call: where it is
    live,        \* the tracks that capture a device or the screen
    localStream, \* _localStream: its tracks, or Null
    cameraTrack, \* cameraTrack
    screen,      \* the track of screenStream
    sharing,     \* _sharing
    publisher,   \* publisher: the call of join that made it
    open,        \* the publisher connections that are not closed
    sender,      \* per publisher connection: the track of its video sender
    chain,       \* per publisher connection: the replaceTrack operations
                 \*   that wait, in order
    ws,          \* SignalingClient.ws: the call of join that made it
    sockets,     \* the websockets that are not closed
    listeners,   \* the length of SignalingClient.listeners
    left,        \* history: no call was made since a leave()
    raced,       \* history: the calls that a leave, or another call of join
                 \*   or startScreenShare, has overlapped
    rejoined,    \* history: join() was called again without leave(), or
                 \*   while another join was under way, or went on after it
    endedEarly,  \* history: a shared screen ended before _sharing was set
    refilled     \* history: a sender that had lost its track has got one
                 \*   again, from a replacement that had waited

mediaVars == <<live, localStream, cameraTrack, screen, sharing>>
connVars  == <<publisher, open, sender, ws, sockets, listeners>>
history   == <<left, raced, rejoined, endedEarly, refilled>>
vars      == <<at, mediaVars, connVars, chain, history>>

Init ==
    /\ at = [c \in Call |-> "unused"]
    /\ live = {} /\ localStream = Null /\ cameraTrack = Null /\ screen = Null
    /\ sharing = FALSE
    /\ publisher = Null /\ open = {} /\ sender = [c \in Call |-> Null]
    /\ chain = [c \in Call |-> <<>>]
    /\ ws = Null /\ sockets = {} /\ listeners = 0
    /\ left = FALSE /\ raced = {} /\ rejoined = FALSE
    /\ endedEarly = FALSE /\ refilled = FALSE

Pending == {c \in Call : at[c] \notin {"unused", "done"}}
Goto(c, place) == at' = [at EXCEPT ![c] = place]
Begin(c, place) == at[c] = "unused" /\ Goto(c, place) /\ left' = FALSE

-----------------------------------------------------------------------------
(* join() *)

Begun == {c \in Call : at[c] # "unused"}
Joining == {c \in Call : at[c] \in {"gettingMedia", "connecting", "offering"}}

\* Up to the first await: fetchIceServers and getUserMedia, of which the first
\* never fails.
Join(c) ==
    /\ Begin(c, "gettingMedia")
    /\ IF localStream = Null /\ ws = Null /\ Joining = {}
       THEN UNCHANGED <<raced, rejoined>>
       ELSE raced' = raced \cup {c} \cup Begun /\ rejoined' = TRUE
    /\ UNCHANGED <<mediaVars, connVars, chain, endedEarly, refilled>>

\* The stream is there, with a camera or without; listen, and connect.
JoinMedia(c) ==
    /\ at[c] = "gettingMedia" /\ Goto(c, "connecting")
    /\ \E camera \in {Video(c), Null} :
          /\ localStream' = {Audio(c), camera} \ {Null}
          /\ live' = live \cup localStream'
          /\ cameraTrack' = camera
    /\ listeners' = listeners + 1
    /\ ws' = c /\ sockets' = sockets \cup {c}
    /\ IF localStream = Null
       THEN UNCHANGED <<raced, rejoined>>
       ELSE raced' = raced \cup Begun /\ rejoined' = TRUE
    /\ UNCHANGED <<screen, sharing, publisher, open, sender, chain, left,
                   endedEarly, refilled>>

\* createPublisher and publishLocal, up to the await of the offer.
SocketOpens(c) ==
    /\ at[c] = "connecting" /\ c \in sockets
    /\ publisher' = c /\ open' = open \cup {c}
    /\ IF localStream = Null
       THEN Goto(c, "done") /\ UNCHANGED sender
       ELSE /\ Goto(c, "offering")
            /\ \E video \in IF OfKind("video", localStream) = {}
                            THEN {Null} ELSE OfKind("video", localStream) :
                  sender' = [sender EXCEPT ![c] = video]
    /\ UNCHANGED <<mediaVars, chain, ws, sockets, listeners, history>>

\* The connection is refused, or leave() has closed the websocket.
ConnectFails(c) ==
    /\ at[c] = "connecting" /\ Goto(c, "done")
    /\ sockets' = sockets \ {c}
    /\ UNCHANGED <<mediaVars, publisher, open, sender, ws, listeners, chain,
                   history>>

\* The offer is sent: joined.
JoinDone(c) ==
    /\ at[c] = "offering" /\ Goto(c, "done")
    /\ UNCHANGED <<mediaVars, connVars, chain, history>>

-----------------------------------------------------------------------------
(* replaceVideoTrack and what the callers do after it *)

\* Mutant of ShowLocally: the old video track stays in the stream.
ShowLocallyToo(track) ==
    localStream' = IF localStream = Null THEN Null
                   ELSE localStream \cup ({track} \ {Null})

\* setLocalVideoTrack
ShowLocally(track) ==
    localStream' = IF localStream = Null THEN Null
                   ELSE OfKind("audio", localStream) \cup ({track} \ {Null})

\* Wait in the chain of the publisher; if it has no video to replace, the
\* caller goes on at once.
Replace(c, track, place) ==
    IF publisher # Null /\ sender[publisher] # Null
    THEN /\ Goto(c, place)
         /\ chain' = [chain EXCEPT
                         ![publisher] = Append(@, [call |-> c, track |-> track])]
         /\ UNCHANGED localStream
    ELSE /\ Goto(c, "done")
         /\ ShowLocally(track)
         /\ UNCHANGED chain

\* Mutant of Replaced: stopScreenShare does not change the local stream.
ReplacedNotShown(p) ==
    LET r == Head(chain[p])
        c == r.call
    IN  /\ chain[p] # <<>>
        /\ chain' = [chain EXCEPT ![p] = Tail(@)]
        /\ sender' = [sender EXCEPT ![p] = r.track]
        /\ IF at[c] = "replacingBack" THEN UNCHANGED localStream
                                      ELSE ShowLocally(r.track)
        /\ sharing' = (sharing \/ at[c] = "replacingByScreen")
        /\ refilled' = (refilled \/ (sender[p] = Null /\ r.track # Null))
        /\ Goto(c, "done")
        /\ UNCHANGED <<live, cameraTrack, screen, publisher, open, ws, sockets,
                       listeners, left, raced, rejoined, endedEarly>>

\* The next replaceTrack of the connection p is done and its caller goes on;
\* stopScreenShare reads cameraTrack again.
Replaced(p) ==
    LET r == Head(chain[p])
        c == r.call
    IN  /\ chain[p] # <<>>
        /\ chain' = [chain EXCEPT ![p] = Tail(@)]
        /\ sender' = [sender EXCEPT ![p] = r.track]
        /\ ShowLocally(IF at[c] = "replacingBack" THEN cameraTrack ELSE r.track)
        /\ sharing' = (sharing \/ at[c] = "replacingByScreen")
        /\ refilled' = (refilled \/ (sender[p] = Null /\ r.track # Null))
        /\ Goto(c, "done")
        /\ UNCHANGED <<live, cameraTrack, screen, publisher, open, ws, sockets,
                       listeners, left, raced, rejoined, endedEarly>>

-----------------------------------------------------------------------------
(* startScreenShare(), stopScreenShare(), setCameraDevice(),               *)
(* setMicrophoneDevice()                                                   *)

StartShare(c) ==
    LET other == {d \in Call : at[d] \in {"pickingScreen", "replacingByScreen"}} IN
    /\ ~sharing
    /\ Begin(c, "pickingScreen")
    /\ raced' = raced \cup (IF other = {} THEN {} ELSE other \cup {c})
    /\ UNCHANGED <<mediaVars, connVars, chain, rejoined, endedEarly, refilled>>

ShareMedia(c) ==
    /\ at[c] = "pickingScreen"
    /\ live' = live \cup {Video(c)}
    /\ screen' = Video(c)
    /\ Replace(c, Video(c), "replacingByScreen")
    /\ sharing' = (sharing \/ at'[c] = "done")
    /\ UNCHANGED <<cameraTrack, connVars, history>>

\* Mutant of StopShare: the capture of the screen goes on.
StopShareKeeps(c) ==
    /\ sharing /\ at[c] = "unused"
    /\ sharing' = FALSE /\ left' = FALSE
    /\ screen' = Null
    /\ Replace(c, cameraTrack, "replacingBack")
    /\ UNCHANGED <<live, cameraTrack, connVars, raced, rejoined, endedEarly,
                   refilled>>

\* Called by the application, or by the browser when the user ends the share.
StopShare(c) ==
    /\ sharing /\ at[c] = "unused"
    /\ sharing' = FALSE /\ left' = FALSE
    /\ live' = live \ {screen}
    /\ screen' = Null
    /\ Replace(c, cameraTrack, "replacingBack")
    /\ UNCHANGED <<cameraTrack, connVars, raced, rejoined, endedEarly, refilled>>

\* The user ends the share before _sharing is set: onended returns at once.
ScreenEndsEarly(c) ==
    /\ at[c] = "replacingByScreen" /\ ~sharing /\ Video(c) \in live
    /\ live' = live \ {Video(c)}
    /\ endedEarly' = TRUE
    /\ UNCHANGED <<at, localStream, cameraTrack, screen, sharing, connVars, chain,
                   left, raced, rejoined, refilled>>

SetCamera(c) ==
    /\ localStream # Null /\ ~sharing
    /\ Begin(c, "openingCamera")
    /\ UNCHANGED <<mediaVars, connVars, chain, raced, rejoined, endedEarly,
                   refilled>>

CameraMedia(c) ==
    /\ at[c] = "openingCamera"
    /\ live' = (live \ {cameraTrack}) \cup {Video(c)}
    /\ cameraTrack' = Video(c)
    /\ Replace(c, Video(c), "replacingCamera")
    /\ UNCHANGED <<screen, sharing, connVars, history>>

SetMicrophone(c) ==
    /\ localStream # Null
    /\ Begin(c, "openingMicrophone")
    /\ UNCHANGED <<mediaVars, connVars, chain, raced, rejoined, endedEarly,
                   refilled>>

\* With no local stream any more this throws, after the device was opened.
MicrophoneMedia(c) ==
    /\ at[c] = "openingMicrophone" /\ Goto(c, "done")
    /\ IF localStream = Null
       THEN live' = live \cup {Audio(c)} /\ UNCHANGED localStream
       ELSE /\ live' = (live \ OfKind("audio", localStream)) \cup {Audio(c)}
            /\ localStream' = OfKind("video", localStream) \cup {Audio(c)}
    /\ UNCHANGED <<cameraTrack, screen, sharing, connVars, chain, history>>

\* The user or the browser refuses the device: the call ends.
MediaRefused(c) ==
    /\ at[c] \in {"gettingMedia", "pickingScreen", "openingCamera",
                  "openingMicrophone"}
    /\ Goto(c, "done")
    /\ UNCHANGED <<mediaVars, connVars, chain, history>>

-----------------------------------------------------------------------------
(* leave() *)

\* The calls that wait for the publisher connection never go on.
Abandoned ==
    IF publisher = Null THEN {}
    ELSE {c \in {publisher} : at[c] = "offering"}
         \cup {chain[publisher][k].call : k \in DOMAIN chain[publisher]}

\* Mutant of Leave: the listeners stay.
LeaveListening ==
    /\ at' = [c \in Call |-> IF c \in Abandoned THEN "done" ELSE at[c]]
    /\ live' = live \ ({screen, cameraTrack}
                       \cup (IF localStream = Null THEN {} ELSE localStream))
    /\ screen' = Null /\ cameraTrack' = Null /\ localStream' = Null
    /\ open' = open \ {publisher} /\ publisher' = Null
    /\ chain' = [c \in Call |-> IF c = publisher THEN <<>> ELSE chain[c]]
    /\ sockets' = sockets \ {ws} /\ ws' = Null
    /\ left' = TRUE /\ raced' = raced \cup Pending /\ refilled' = FALSE
    /\ UNCHANGED <<sharing, sender, listeners, rejoined, endedEarly>>

Leave ==
    /\ at' = [c \in Call |-> IF c \in Abandoned THEN "done" ELSE at[c]]
    /\ live' = live \ ({screen, cameraTrack}
                       \cup (IF localStream = Null THEN {} ELSE localStream))
    /\ screen' = Null /\ cameraTrack' = Null /\ localStream' = Null
    /\ open' = open \ {publisher} /\ publisher' = Null
    /\ chain' = [c \in Call |-> IF c = publisher THEN <<>> ELSE chain[c]]
    /\ sockets' = sockets \ {ws} /\ ws' = Null /\ listeners' = 0
    /\ left' = TRUE /\ raced' = raced \cup Pending /\ refilled' = FALSE
    /\ UNCHANGED <<sharing, sender, rejoined, endedEarly>>

-----------------------------------------------------------------------------
JoinStep(c) == \/ Join(c) \/ JoinMedia(c) \/ SocketOpens(c)
               \/ ConnectFails(c) \/ JoinDone(c)

MediaStep(c) == \/ StartShare(c) \/ ShareMedia(c) \/ StopShare(c)
                \/ ScreenEndsEarly(c) \/ SetCamera(c) \/ CameraMedia(c)
                \/ SetMicrophone(c) \/ MicrophoneMedia(c) \/ MediaRefused(c)

Next == \/ \E c \in Call : JoinStep(c) \/ MediaStep(c)
        \/ \E p \in Call : Replaced(p)
        \/ Leave

Spec == Init /\ [][Next]_vars

-----------------------------------------------------------------------------
(* Properties. *)

Place == {"unused", "gettingMedia", "connecting", "offering", "pickingScreen",
          "replacingByScreen", "replacingBack", "openingCamera",
          "replacingCamera", "openingMicrophone", "done"}

\* A local stream, or none: at most one track of each kind.
Stream(s) == /\ s = Null \/ s \subseteq Track
             /\ s # Null => \A t, u \in s : t[2] = u[2] => t = u

TypeOK ==
    /\ at \in [Call -> Place]
    /\ live \subseteq Track /\ Stream(localStream)
    /\ cameraTrack \in Track \cup {Null} /\ screen \in Track \cup {Null}
    /\ publisher \in Call \cup {Null} /\ ws \in Call \cup {Null}
    /\ open \subseteq Call /\ sockets \subseteq Call /\ raced \subseteq Call
    /\ sender \in [Call -> Track \cup {Null}]
    /\ chain \in [Call -> Seq([call : Call, track : Track \cup {Null}])]
    /\ listeners \in Nat
    /\ sharing \in BOOLEAN /\ left \in BOOLEAN /\ rejoined \in BOOLEAN
    /\ endedEarly \in BOOLEAN /\ refilled \in BOOLEAN

Quiet == Pending = {}

Held == {cameraTrack, screen} \cup (IF localStream = Null THEN {} ELSE localStream)

\* What the room holds no more it has stopped or closed, but for what belongs
\* to a call that a leave, a second join or a second share has overlapped:
\* no device stays on, and no connection open, after a call that ran alone.
OnlyRacedLeak ==
    /\ \A t \in live \ Held : t[1] \in raced
    /\ \A c \in open \ {publisher} : c \in raced
    /\ \A c \in sockets \ {ws} : c \in raced

\* When no call is under way the others receive the video that is shown
\* locally: a live one, the camera unless the screen is shared; in whatever
\* order screen shares and changes of the camera overlapped each other, and
\* leaves, and the joins after them.  Except when the sender was without a
\* track: replaceVideoTrack finds it by its track (room.ts:369), so what
\* comes after a share that ended without a camera passes it by, and does
\* not wait for what is still to come to it.
SentIsShown ==
    Quiet /\ ~rejoined /\ ~refilled /\ publisher # Null /\ sender[publisher] # Null =>
        /\ sender[publisher] \in localStream
        /\ sender[publisher] \in live \/ endedEarly
        /\ sharing \/ sender[publisher] = cameraTrack

\* A message of the server is handled once (a sub-offer handled twice is
\* answered twice), unless join() was called again without a leave(), or while
\* another join() was under way.  The exception is not a misuse: "the SDK
\* consumer gets an `error` event and is responsible for calling join() again"
\* (sdk/src/signaling.ts:24-26), and every such join() adds a listener.
HandledOnce == listeners > 1 => rejoined

\* "stop all tracks + close connections" (sdk/README.md:111): after leave(),
\* when the calls made before it are over and there was no other, no device
\* is on and nothing is open.
LeaveReleases ==
    left /\ Quiet => live = {} /\ open = {} /\ sockets = {}

-----------------------------------------------------------------------------
(***************************************************************************)
(* The inductive invariant behind TypeOK, OnlyRacedLeak, SentIsShown and   *)
(* HandledOnce.                                                            *)
(***************************************************************************)

\* What is captured: by calls that have their media, and the camera and the
\* screen of the room are of different ones.  A live video that is neither,
\* or a live sound that is not in the stream, is of an overlapped call.
Opened    == {"connecting", "offering", "replacingByScreen", "replacingBack",
              "replacingCamera", "done"}
CameraOf  == {"connecting", "offering", "replacingCamera", "done"}
ScreenOf  == {"replacingByScreen", "done"}

LiveInv ==
    /\ \A t \in live : at[t[1]] \in Opened
    /\ cameraTrack # Null => /\ cameraTrack[2] = "video" /\ cameraTrack \in live
                             /\ at[cameraTrack[1]] \in CameraOf
    /\ screen # Null => /\ screen[2] = "video" /\ screen # cameraTrack
                        /\ at[screen[1]] \in ScreenOf
                        /\ screen \in live \/ endedEarly
    /\ \A t \in live :
          \/ t[1] \in raced
          \/ t[2] = "video" /\ t \in {cameraTrack, screen}
          \/ t[2] = "audio" /\ localStream # Null /\ t \in localStream

\* What an overlap is: while a call of join is under way, no other is, and the
\* websocket and the publisher are its own, or else the others are known to
\* have overlapped; and the same of startScreenShare and the screen.
Sharing == {c \in Call : at[c] \in {"pickingScreen", "replacingByScreen"}}

OverlapInv ==
    /\ \A c, d \in Joining : c # d => c \in raced
    /\ \A c \in Joining : /\ ws \in {Null, c} \/ {ws, c} \subseteq raced
                          /\ publisher \in {Null, c} \cup raced
    /\ ws = Null => publisher \in {Null} \cup raced
    /\ sockets \ {ws} \subseteq raced /\ open \ {publisher} \subseteq raced
    /\ localStream = Null <=> ws = Null
    /\ localStream = Null =>
          /\ cameraTrack = Null \/ cameraTrack[1] \in raced
          /\ \A c \in Call : at[c] \in {"openingCamera", "openingMicrophone"}
                              => c \in raced
    /\ ws # Null => at[ws] \in {"connecting", "offering", "done"}
    /\ publisher # Null => at[publisher] \in {"offering", "done"}
    /\ listeners > 0 => ws # Null
    /\ HandledOnce
    /\ \A c, d \in Sharing : c # d => c \in raced
    /\ screen # Null =>
          /\ sharing \/ at[screen[1]] = "replacingByScreen"
          /\ (\E c \in Call : at[c] = "pickingScreen") => screen[1] \in raced

\* A call waits for one replacement, on a connection that was made.
Replacing == {"replacingByScreen", "replacingBack", "replacingCamera"}

ChainInv ==
    /\ \A p \in Call : chain[p] # <<>> => at[p] \in {"offering", "done"}
    /\ \A p \in Call : \A k \in DOMAIN chain[p] :
          /\ at[chain[p][k].call] \in Replacing
          /\ chain[p][k].track # Null => chain[p][k].track[2] = "video"
          /\ \A q \in Call : \A l \in DOMAIN chain[q] :
                chain[p][k].call = chain[q][l].call => p = q /\ k = l
    /\ \A p \in Call : sender[p] # Null => sender[p][2] = "video"

\* The video that the connection p will send when nothing waits any more.
Last(p) == IF chain[p] = <<>> THEN sender[p] ELSE chain[p][Len(chain[p])].track

\* It is the camera, or a screen that is shared or about to be; when nothing
\* waits it is shown, and when the end of a share is the last to wait, the
\* camera that is read again then is the one that it sends.
SentInv(p) ==
    /\ \/ Last(p) = cameraTrack
       \/ /\ Last(p) = screen
          /\ \/ sharing
             \/ \E k \in DOMAIN chain[p] :
                   at[chain[p][k].call] = "replacingByScreen"
    /\ chain[p] = <<>> => sender[p] \in localStream
    /\ chain[p] # <<>> /\ at[chain[p][Len(chain[p])].call] = "replacingBack" =>
          Last(p) = cameraTrack

\* A room that was joined again only after leave() has one connection, and
\* before it is made the stream is what it will send.
AloneInv ==
    ~rejoined =>
      /\ publisher \in {Null, ws} /\ sockets \subseteq {ws}
      /\ \A p \in Call : p # publisher => chain[p] = <<>>
      /\ publisher = Null /\ localStream # Null =>
            \A v \in OfKind("video", localStream) :
                v = cameraTrack \/ (v = screen /\ sharing)
      /\ publisher # Null /\ sender[publisher] # Null /\ ~refilled =>
            SentInv(publisher)

IndInv == TypeOK /\ LiveInv /\ OverlapInv /\ ChainInv /\ AloneInv

=============================================================================
