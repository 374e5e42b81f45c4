------------------------------- MODULE Ffmpeg -------------------------------
(***************************************************************************)
(* Mux of internal/recording/ffmpeg.go: the command line that it builds    *)
(* from the recorded tracks, a sequence of records                         *)
(*     [track, kind : {"audio", "video"}, offset : ms since the start].    *)
(* A command has the inputs in order (ffmpeg counts them from 0), the      *)
(* filters of -filter_complex, and the two labels that -map names.  Sizes, *)
(* paths and encoder options are left out.                                 *)
(***************************************************************************)
EXTENDS Naturals, Sequences

\* The tracks of a kind, in their order: what the first loop has appended to
\* the slice of that kind after i tracks, and in the end.
OfKind(tracks, kind) ==
    LET taken[i \in 0 .. Len(tracks)] ==
          IF i = 0 THEN <<>>
          ELSE IF tracks[i].kind = kind THEN Append(taken[i - 1], tracks[i])
          ELSE taken[i - 1]
    IN  taken[Len(tracks)]

\* Mutant of Input: -itsoffset is left out.
InputUnshifted(t) == [source |-> t.track, kind |-> t.kind, delay |-> 0]

\* -i, after -itsoffset when the track starts late.
Input(t) == [source |-> t.track, kind |-> t.kind, delay |-> t.offset]

\* A generated input of lavfi, for a kind of which there is no track.
Generated(kind) == <<[source |-> "lavfi", kind |-> kind, delay |-> 0]>>

\* Mutant of Filters: the audio filter counts its inputs from 0, as if there
\* were no video before them.
FiltersFromZero(v, a) ==
    {f \in {[kind |-> "video", in |-> [i \in 1 .. v |-> i - 1],     out |-> "[vout]"],
            [kind |-> "audio", in |-> [i \in 1 .. a |-> i - 1],     out |-> "[aout]"]} :
       f.in # <<>>}

\* For v videos and a audios: one filter of each kind that there is (scale
\* and hstack; anull or amix), over the inputs of that kind.
Filters(v, a) ==
    {f \in {[kind |-> "video", in |-> [i \in 1 .. v |-> i - 1],     out |-> "[vout]"],
            [kind |-> "audio", in |-> [i \in 1 .. a |-> v + i - 1], out |-> "[aout]"]} :
       f.in # <<>>}

\* The labels for -map.  That of a generated input is the input's own, "[n:v]"
\* or "[n:a]".
Labels(v, a) ==
    {IF v > 0 THEN "[vout]" ELSE "[n:v]", IF a > 0 THEN "[aout]" ELSE "[n:a]"}

Mux(tracks) ==
    LET videos == OfKind(tracks, "video")
        audios == OfKind(tracks, "audio")
        late   == videos \o audios
        v      == Len(videos)
        a      == Len(audios)
    IN  [inputs  |-> [i \in 1 .. v + a |-> Input(late[i])]
                       \o (IF v = 0 THEN Generated("video") ELSE <<>>)
                       \o (IF a = 0 THEN Generated("audio") ELSE <<>>),
         filters |-> Filters(v, a),
         maps    |-> Labels(v, a)]

\* ffmpeg: every input has packets, a filter takes inputs that exist and have
\* its kind, and a label in brackets after -map is the output of a filter,
\* never an input.
Accepts(cmd, empty) ==
    /\ \A i \in DOMAIN cmd.inputs : cmd.inputs[i].source \notin empty
    /\ \A f \in cmd.filters : \A i \in DOMAIN f.in :
         /\ f.in[i] < Len(cmd.inputs)
         /\ cmd.inputs[f.in[i] + 1].kind = f.kind
    /\ cmd.maps \subseteq {f.out : f \in cmd.filters}
=============================================================================
