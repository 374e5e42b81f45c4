---------------------------- MODULE MediaProofs ----------------------------
(***************************************************************************)
(* A recording from its first packet to the command line of ffmpeg, for    *)
(* any number of tracks and however long it runs: IndInv of Media is       *)
(* inductive.  The first part is about Mux, the second about the times,    *)
(* and the third puts them together.                                       *)
(***************************************************************************)
EXTENDS Media, FiniteSetTheorems, SequenceTheorems, TLAPS

-----------------------------------------------------------------------------
(* Mux: what the loop over the tracks has taken.  A loop is a function of  *)
(* the number of turns, which exists for every number, because otherwise   *)
(* there would be a least number without it.                               *)

LEMMA LeastNat ==
  ASSUME NEW T, T \subseteq Nat, T # {}
  PROVE  \E x \in T : \A y \in T : x <= y
<1> DEFINE R == {ss \in Nat \X Nat : ss[1] < ss[2]}
<1>1. IsWellFoundedOn(R, Nat)
  BY NatLessThanWellFounded DEF OpToRel
<1> HIDE DEF R
<1>2. PICK x \in T : \A y \in T : <<y, x>> \notin R
  BY <1>1, WFMin
<1>3. ASSUME NEW y \in T PROVE x <= y
  <2>1. x \in Nat /\ y \in Nat
    OBVIOUS
  <2>2. y < x => <<y, x>> \in R
    BY <2>1 DEF R
  <2> QED
    BY <1>2, <2>1, <2>2
<1> QED
  BY <1>3

\* One turn of the loop.
Turn(tracks, kind, f, i) ==
    IF i = 0 THEN <<>>
    ELSE IF tracks[i].kind = kind THEN Append(f[i - 1], tracks[i])
    ELSE f[i - 1]

LEMMA LoopExists ==
  ASSUME NEW tracks, NEW kind, NEW n \in Nat
  PROVE  \E f : f = [i \in 0 .. n |-> Turn(tracks, kind, f, i)]
<1> DEFINE Bad == {m \in Nat : ~ \E f : f = [i \in 0 .. m |-> Turn(tracks, kind, f, i)]}
<1> SUFFICES ASSUME Bad # {} PROVE FALSE
  OBVIOUS
<1>1. PICK m \in Bad : \A y \in Bad : m <= y
  BY LeastNat
<1>2. m \in Nat /\ ~ \E f : f = [i \in 0 .. m |-> Turn(tracks, kind, f, i)]
  OBVIOUS
<1>3. m # 0
  <2> DEFINE g == [i \in 0 .. 0 |-> <<>>]
  <2>1. g = [i \in 0 .. 0 |-> Turn(tracks, kind, g, i)]
    BY DEF Turn
  <2> QED
    BY <1>2, <2>1
<1>4. m - 1 \in Nat /\ m - 1 \notin Bad
  BY <1>1, <1>2, <1>3
<1>5. PICK f : f = [i \in 0 .. m - 1 |-> Turn(tracks, kind, f, i)]
  BY <1>4
<1> DEFINE g == [i \in 0 .. m |-> IF i = m THEN Turn(tracks, kind, f, m) ELSE f[i]]
<1>6. \A i \in 0 .. m - 1 : g[i] = f[i] /\ f[i] = Turn(tracks, kind, f, i)
  BY <1>2, <1>3, <1>5
<1>7. \A i \in 0 .. m : g[i] = Turn(tracks, kind, g, i)
  <2> SUFFICES ASSUME NEW i \in 0 .. m PROVE g[i] = Turn(tracks, kind, g, i)
    OBVIOUS
  <2>1. g[i] = Turn(tracks, kind, f, i)
    <3>1. CASE i = m
      BY <3>1
    <3>2. CASE i # m
      <4>1. i \in 0 .. m - 1
        BY <1>2, <3>2
      <4> QED
        BY <1>6, <4>1
    <3> QED
      BY <3>1, <3>2
  <2>2. i # 0 => i - 1 \in 0 .. m - 1
    BY <1>2
  <2>3. i # 0 => g[i - 1] = f[i - 1]
    BY <2>2, <1>6
  <2> HIDE DEF g
  <2> QED
    BY <2>1, <2>3 DEF Turn
<1>8. g = [i \in 0 .. m |-> Turn(tracks, kind, g, i)]
  <2>1. g = [i \in 0 .. m |-> g[i]]
    OBVIOUS
  <2> HIDE DEF g
  <2> QED
    BY <1>7, <2>1
<1> QED
  BY <1>2, <1>8

LEMMA OfKindLoop ==
  ASSUME NEW tracks, NEW kind, Len(tracks) \in Nat
  PROVE  \E f : /\ f = [i \in 0 .. Len(tracks) |-> Turn(tracks, kind, f, i)]
                /\ OfKind(tracks, kind) = f[Len(tracks)]
<1> DEFINE taken == CHOOSE f : f = [i \in 0 .. Len(tracks) |-> Turn(tracks, kind, f, i)]
<1>1. taken = [i \in 0 .. Len(tracks) |-> Turn(tracks, kind, taken, i)]
  BY LoopExists
<1>2. OfKind(tracks, kind) = taken[Len(tracks)]
  BY DEF OfKind, Turn
<1> QED
  BY <1>1, <1>2

\* out has the elements of that kind among the first n, in their order: pos is
\* where they are.
Selects(S, tracks, kind, n, out, pos) ==
    /\ out \in Seq(S) /\ pos \in [1 .. Len(out) -> 1 .. n]
    /\ \A k \in 1 .. Len(out) : out[k] = tracks[pos[k]] /\ tracks[pos[k]].kind = kind
    /\ \A k, l \in 1 .. Len(out) : k < l => pos[k] < pos[l]
    /\ \A j \in 1 .. n : tracks[j].kind = kind => \E k \in 1 .. Len(out) : pos[k] = j

LEMMA TurnSelects ==
  ASSUME NEW S, NEW tracks \in Seq(S), NEW kind, NEW n \in 1 .. Len(tracks),
         NEW out, NEW pos, Selects(S, tracks, kind, n - 1, out, pos)
  PROVE  \E q : Selects(S, tracks, kind, n,
                        IF tracks[n].kind = kind THEN Append(out, tracks[n]) ELSE out, q)
<1>0. n \in Nat /\ n # 0 /\ tracks[n] \in S /\ Len(out) \in Nat
  BY DEF Selects
<1>1. CASE tracks[n].kind # kind
  <2>1. pos \in [1 .. Len(out) -> 1 .. n]
    BY <1>0 DEF Selects
  <2>2. \A j \in 1 .. n : tracks[j].kind = kind => j \in 1 .. n - 1
    BY <1>0, <1>1
  <2>3. \A j \in 1 .. n - 1 : tracks[j].kind = kind => \E k \in 1 .. Len(out) : pos[k] = j
    BY DEF Selects
  <2>4. Selects(S, tracks, kind, n, out, pos)
    <3>1. /\ out \in Seq(S)
          /\ \A k \in 1 .. Len(out) : out[k] = tracks[pos[k]] /\ tracks[pos[k]].kind = kind
          /\ \A k, l \in 1 .. Len(out) : k < l => pos[k] < pos[l]
      BY DEF Selects
    <3> QED
      BY <2>1, <2>2, <2>3, <3>1, Zenon DEF Selects
  <2> QED
    BY <1>1, <2>4
<1>2. CASE tracks[n].kind = kind
  <2> DEFINE more == Append(out, tracks[n])
             q == [k \in 1 .. Len(out) + 1 |-> IF k = Len(out) + 1 THEN n ELSE pos[k]]
  <2>1. /\ more \in Seq(S) /\ Len(more) = Len(out) + 1
        /\ more[Len(out) + 1] = tracks[n]
        /\ \A k \in 1 .. Len(out) : more[k] = out[k]
    BY <1>0 DEF Selects
  <2>2. /\ q[Len(out) + 1] = n
        /\ \A k \in 1 .. Len(out) : q[k] = pos[k] /\ pos[k] \in 1 .. n - 1
    BY <1>0 DEF Selects
  <2>3. q \in [1 .. Len(more) -> 1 .. n]
    <3>1. \A k \in 1 .. Len(out) + 1 : k = Len(out) + 1 \/ k \in 1 .. Len(out)
      BY <1>0
    <3>2. \A k \in 1 .. Len(out) + 1 : (IF k = Len(out) + 1 THEN n ELSE pos[k]) \in 1 .. n
      <4>1. n \in 1 .. n /\ \A x \in 1 .. n - 1 : x \in 1 .. n
        BY <1>0
      <4>2. \A k \in 1 .. Len(out) : pos[k] \in 1 .. n - 1
        BY DEF Selects
      <4> QED
        BY <3>1, <4>1, <4>2
    <3> QED
      BY <2>1, <3>2
  <2> HIDE DEF more, q
  <2>k. \A k \in 1 .. Len(more) : k = Len(out) + 1 \/ k \in 1 .. Len(out)
    BY <1>0, <2>1
  <2>4. \A k \in 1 .. Len(more) : more[k] = tracks[q[k]] /\ tracks[q[k]].kind = kind
    BY <1>2, <2>1, <2>2, <2>k DEF Selects
  <2>5. \A k, l \in 1 .. Len(more) : k < l => q[k] < q[l]
    <3> SUFFICES ASSUME NEW k \in 1 .. Len(more), NEW l \in 1 .. Len(more), k < l
                 PROVE  q[k] < q[l]
      OBVIOUS
    <3>1. k \in 1 .. Len(out)
      BY <1>0, <2>1
    <3>2. CASE l = Len(out) + 1
      BY <1>0, <2>2, <3>1, <3>2
    <3>3. CASE l \in 1 .. Len(out)
      BY <2>2, <3>1, <3>3 DEF Selects
    <3> QED
      BY <2>k, <3>2, <3>3
  <2>6. \A j \in 1 .. n : tracks[j].kind = kind => \E k \in 1 .. Len(more) : q[k] = j
    <3> SUFFICES ASSUME NEW j \in 1 .. n, tracks[j].kind = kind
                 PROVE  \E k \in 1 .. Len(more) : q[k] = j
      OBVIOUS
    <3>1. CASE j = n
      BY <1>0, <2>1, <2>2, <3>1
    <3>2. CASE j # n
      <4>1. j \in 1 .. n - 1
        BY <1>0, <3>2
      <4>2. PICK k \in 1 .. Len(out) : pos[k] = j
        BY <4>1 DEF Selects
      <4>3. k \in 1 .. Len(more)
        BY <1>0, <2>1
      <4> QED
        BY <2>2, <4>2, <4>3
    <3> QED
      BY <3>1, <3>2
  <2>7. Selects(S, tracks, kind, n, more, q)
    BY <2>1, <2>3, <2>4, <2>5, <2>6 DEF Selects
  <2> QED
    BY <1>2, <2>7 DEF more
<1> QED
  BY <1>1, <1>2

LEMMA OfKindSelects ==
  ASSUME NEW S, NEW tracks \in Seq(S), NEW kind
  PROVE  \E pos : Selects(S, tracks, kind, Len(tracks), OfKind(tracks, kind), pos)
<1>0. Len(tracks) \in Nat
  OBVIOUS
<1>1. PICK f : /\ f = [i \in 0 .. Len(tracks) |-> Turn(tracks, kind, f, i)]
               /\ OfKind(tracks, kind) = f[Len(tracks)]
  BY <1>0, OfKindLoop
<1>f. \A i \in 0 .. Len(tracks) : f[i] = Turn(tracks, kind, f, i)
  BY <1>1
<1> DEFINE Bad == {n \in 0 .. Len(tracks) :
                      ~ \E pos : Selects(S, tracks, kind, n, f[n], pos)}
<1>2. ASSUME Bad # {} PROVE FALSE
  <2>1. PICK n \in Bad : \A m \in Bad : n <= m
    <3>1. Bad \subseteq Nat
      BY <1>0
    <3> QED
      BY <1>2, <3>1, LeastNat
  <2>2. n \in 0 .. Len(tracks) /\ ~ \E pos : Selects(S, tracks, kind, n, f[n], pos)
    OBVIOUS
  <2>3. n # 0
    <3> DEFINE none == [k \in 1 .. 0 |-> 0]
    <3>1. f[0] = <<>>
      BY <1>0, <1>f DEF Turn
    <3>2. Selects(S, tracks, kind, 0, <<>>, none)
      BY DEF Selects
    <3> QED
      BY <2>2, <3>1, <3>2
  <2>4. n - 1 \in 0 .. Len(tracks) /\ n - 1 \notin Bad /\ n \in 1 .. Len(tracks)
    BY <1>0, <2>1, <2>2, <2>3
  <2>5. PICK pos : Selects(S, tracks, kind, n - 1, f[n - 1], pos)
    BY <2>4
  <2>6. f[n] = IF tracks[n].kind = kind THEN Append(f[n - 1], tracks[n]) ELSE f[n - 1]
    BY <1>f, <2>2, <2>3 DEF Turn
  <2>7. \E q : Selects(S, tracks, kind, n, f[n], q)
    BY <2>4, <2>5, <2>6, TurnSelects
  <2> QED
    BY <2>2, <2>7
<1>3. Len(tracks) \in 0 .. Len(tracks)
  BY <1>0
<1> QED
  BY <1>1, <1>2, <1>3

-----------------------------------------------------------------------------
\* The filters of the command.
VideoFilter(f, v) ==
    /\ v > 0 /\ f.kind = "video" /\ f.out = "[vout]"
    /\ DOMAIN f.in = 1 .. v /\ \A i \in 1 .. v : f.in[i] = i - 1

AudioFilter(f, v, a) ==
    /\ a > 0 /\ f.kind = "audio" /\ f.out = "[aout]"
    /\ DOMAIN f.in = 1 .. a /\ \A i \in 1 .. a : f.in[i] = v + i - 1

LEMMA FiltersAre ==
  ASSUME NEW v \in Nat, NEW a \in Nat
  PROVE  /\ \A f \in Filters(v, a) : VideoFilter(f, v) \/ AudioFilter(f, v, a)
         /\ v > 0 => \E f \in Filters(v, a) : f.out = "[vout]"
         /\ a > 0 => \E f \in Filters(v, a) : f.out = "[aout]"
<1> DEFINE vin == [i \in 1 .. v |-> i - 1]
           ain == [i \in 1 .. a |-> v + i - 1]
           vf  == [kind |-> "video", in |-> vin, out |-> "[vout]"]
           af  == [kind |-> "audio", in |-> ain, out |-> "[aout]"]
<1>1. /\ DOMAIN vin = 1 .. v /\ \A i \in 1 .. v : vin[i] = i - 1
      /\ DOMAIN ain = 1 .. a /\ \A i \in 1 .. a : ain[i] = v + i - 1
  OBVIOUS
<1>2. Filters(v, a) = {f \in {vf, af} : f.in # <<>>}
  BY DEF Filters
<1> HIDE DEF vin, ain
<1>3. /\ vf.kind = "video" /\ vf.in = vin /\ vf.out = "[vout]"
      /\ af.kind = "audio" /\ af.in = ain /\ af.out = "[aout]"
  OBVIOUS
<1> HIDE DEF vf, af
<1>4. /\ vin # <<>> <=> v > 0
      /\ ain # <<>> <=> a > 0
  <2>1. DOMAIN <<>> = {}
    OBVIOUS
  <2>2. v = 0 => vin = <<>>
    BY <1>1 DEF vin
  <2>3. a = 0 => ain = <<>>
    BY <1>1 DEF ain
  <2>4. v > 0 => 1 \in DOMAIN vin
    BY <1>1
  <2>5. a > 0 => 1 \in DOMAIN ain
    BY <1>1
  <2> QED
    BY <2>1, <2>2, <2>3, <2>4, <2>5
<1> QED
  BY <1>1, <1>2, <1>3, <1>4 DEF VideoFilter, AudioFilter

\* The inputs: the videos, then the audios, then what stands for a kind that
\* is missing.
LEMMA InputsAre ==
  ASSUME NEW S, NEW tracks \in Seq(S),
         NEW v, NEW a,
         v = Len(OfKind(tracks, "video")), a = Len(OfKind(tracks, "audio"))
  PROVE  LET in == Mux(tracks).inputs IN
         /\ Len(in) \in Nat /\ Len(in) >= v + a /\ DOMAIN in = 1 .. Len(in)
         /\ v \in Nat /\ a \in Nat
         /\ \A i \in 1 .. v : in[i] = Input(OfKind(tracks, "video")[i])
         /\ \A i \in 1 .. a : in[v + i] = Input(OfKind(tracks, "audio")[i])
         /\ \A i \in DOMAIN in : i > v + a => in[i].source = "lavfi"
<1> DEFINE videos == OfKind(tracks, "video")
           audios == OfKind(tracks, "audio")
           late   == videos \o audios
           noV    == IF v = 0 THEN Generated("video") ELSE <<>>
           noA    == IF a = 0 THEN Generated("audio") ELSE <<>>
           base   == [i \in 1 .. v + a |-> Input(late[i])]
           Lavfi  == {[source |-> "lavfi", kind |-> k, delay |-> 0] : k \in {"video", "audio"}}
           All    == {Input(x) : x \in S} \cup Lavfi
<1>1. videos \in Seq(S) /\ audios \in Seq(S)
  BY OfKindSelects DEF Selects
<1>2. /\ v \in Nat /\ a \in Nat /\ v = Len(videos) /\ a = Len(audios)
  BY <1>1
<1> HIDE DEF videos, audios
<1>3. /\ late \in Seq(S) /\ Len(late) = v + a
      /\ \A i \in 1 .. v : late[i] = videos[i]
      /\ \A i \in 1 .. a : late[v + i] = audios[i]
  <2>1. /\ late \in Seq(S) /\ Len(late) = v + a
        /\ \A i \in 1 .. v + a : late[i] = IF i <= v THEN videos[i] ELSE audios[i - v]
    <3>1. /\ late \in Seq(S) /\ Len(late) = Len(videos) + Len(audios)
          /\ \A i \in 1 .. Len(videos) + Len(audios) :
               late[i] = IF i <= Len(videos) THEN videos[i] ELSE audios[i - Len(videos)]
      BY <1>1, ConcatProperties, Zenon
    <3> QED
      BY <1>2, <3>1
  <2>2. \A i \in 1 .. v : i \in 1 .. v + a /\ i <= v
    BY <1>2
  <2>3. \A i \in 1 .. a : v + i \in 1 .. v + a /\ ~ (v + i <= v) /\ (v + i) - v = i
    BY <1>2
  <2> HIDE DEF late, noV, noA, base, Lavfi, All
  <2>4. \A i \in 1 .. v : late[i] = videos[i]
    BY <2>1, <2>2, Zenon
  <2>5. \A i \in 1 .. a : late[v + i] = audios[i]
    BY <2>1, <2>3
  <2> QED
    BY <2>1, <2>4, <2>5
<1> HIDE DEF late
<1>4. Mux(tracks).inputs = base \o noV \o noA
  BY <1>2 DEF Mux, videos, audios, late
<1>5. /\ base \in Seq(All) /\ Len(base) = v + a
      /\ \A i \in 1 .. v + a : base[i] = Input(late[i])
  <2>1. base \in [1 .. v + a -> All]
    BY <1>2, <1>3
  <2>2. v + a \in Nat
    BY <1>2
  <2> HIDE DEF All
  <2>3. \A i \in 1 .. v + a : base[i] = Input(late[i])
    OBVIOUS
  <2> HIDE DEF base
  <2>4. base \in Seq(All) /\ Len(base) = v + a
    BY <2>1, <2>2, SeqDef, LenProperties
  <2> QED
    BY <2>3, <2>4
<1>6. /\ noV \in Seq(Lavfi) /\ noA \in Seq(Lavfi)
  <2> DEFINE gv == [source |-> "lavfi", kind |-> "video", delay |-> 0]
             ga == [source |-> "lavfi", kind |-> "audio", delay |-> 0]
  <2>1. gv \in Lavfi /\ ga \in Lavfi
    OBVIOUS
  <2>2. noV = (IF v = 0 THEN <<gv>> ELSE <<>>) /\ noA = (IF a = 0 THEN <<ga>> ELSE <<>>)
    BY DEF Generated
  <2> HIDE DEF gv, ga, Lavfi, noV, noA
  <2>3. <<gv>> \in Seq(Lavfi) /\ <<ga>> \in Seq(Lavfi) /\ <<>> \in Seq(Lavfi)
    BY <2>1
  <2>4. CASE v = 0
    BY <2>2, <2>3, <2>4
  <2> QED
    BY <2>2, <2>3
<1>7. Lavfi \subseteq All /\ \A x \in Lavfi : x.source = "lavfi"
  OBVIOUS
<1> HIDE DEF base, noV, noA, Lavfi, All
<1>8. /\ noV \o noA \in Seq(Lavfi) /\ noV \o noA \in Seq(All)
      /\ base \o noV \o noA = base \o (noV \o noA)
  <2>1. noV \in Seq(All) /\ noA \in Seq(All)
    BY <1>6, <1>7, SeqMonotonic
  <2>2. noV \o noA \in Seq(Lavfi)
    BY <1>6, ConcatProperties
  <2>3. noV \o noA \in Seq(All)
    BY <2>1, ConcatProperties
  <2>4. base \o noV \o noA = base \o (noV \o noA)
    <3>1. base \in Seq(All)
      BY <1>5
    <3> HIDE DEF base
    <3> QED
      BY <2>1, <3>1, SMT
  <2> QED
    BY <2>2, <2>3, <2>4
<1> DEFINE rest == noV \o noA
           in   == base \o rest
<1>9. rest \in Seq(Lavfi) /\ rest \in Seq(All) /\ Mux(tracks).inputs = in
  BY <1>4, <1>8
<1> HIDE DEF rest
<1>10. /\ Len(in) = v + a + Len(rest) /\ Len(rest) \in Nat
       /\ DOMAIN in = 1 .. Len(in)
       /\ \A i \in 1 .. Len(in) :
            in[i] = IF i <= v + a THEN base[i] ELSE rest[i - (v + a)]
  <2>1. Len(rest) \in Nat
    BY <1>9
  <2>2. /\ in \in Seq(All) /\ Len(in) = Len(base) + Len(rest)
        /\ \A i \in 1 .. Len(base) + Len(rest) :
             in[i] = IF i <= Len(base) THEN base[i] ELSE rest[i - Len(base)]
    <3>1. base \in Seq(All) /\ rest \in Seq(All)
      BY <1>5, <1>9
    <3> HIDE DEF base, rest
    <3> QED
      BY <3>1, ConcatProperties
  <2> HIDE DEF in
  <2>3. DOMAIN in = 1 .. Len(in)
    BY <2>2, LenProperties
  <2> QED
    BY <1>5, <2>1, <2>2, <2>3
<1> HIDE DEF in
<1>11. \A i \in 1 .. Len(rest) : rest[i].source = "lavfi"
  <2>1. \A i \in 1 .. Len(rest) : rest[i] \in Lavfi
    BY <1>9, ElementOfSeq
  <2> QED
    BY <1>7, <2>1
<1>12. /\ \A i \in 1 .. v : i \in 1 .. v + a /\ i \in 1 .. Len(in) /\ i <= v + a
       /\ \A i \in 1 .. a : v + i \in 1 .. v + a /\ v + i \in 1 .. Len(in) /\ v + i <= v + a
       /\ \A i \in 1 .. Len(in) : i > v + a => ~ (i <= v + a) /\ i - (v + a) \in 1 .. Len(rest)
       /\ Len(in) \in Nat /\ Len(in) >= v + a
  BY <1>2, <1>10
<1>13. \A i \in 1 .. v : in[i] = Input(videos[i])
  BY <1>3, <1>5, <1>10, <1>12
<1>14. \A i \in 1 .. a : in[v + i] = Input(audios[i])
  BY <1>3, <1>5, <1>10, <1>12
<1>15. \A i \in DOMAIN in : i > v + a => in[i].source = "lavfi"
  BY <1>10, <1>11, <1>12
<1> QED
  BY <1>2, <1>9, <1>10, <1>12, <1>13, <1>14, <1>15 DEF videos, audios

\* The kinds of the inputs that come from tracks.
LEMMA KindsOfInputs ==
  ASSUME NEW S, NEW tracks \in Seq(S), NEW v, NEW a,
         v = Len(OfKind(tracks, "video")), a = Len(OfKind(tracks, "audio"))
  PROVE  /\ \A i \in 1 .. v : Mux(tracks).inputs[i].kind = "video"
         /\ \A i \in 1 .. a : Mux(tracks).inputs[v + i].kind = "audio"
<1>1. \A kind : \A i \in 1 .. Len(OfKind(tracks, kind)) : OfKind(tracks, kind)[i].kind = kind
  BY OfKindSelects DEF Selects
<1>2. \A x : Input(x).kind = x.kind
  BY DEF Input
<1>3. /\ \A i \in 1 .. v : Mux(tracks).inputs[i] = Input(OfKind(tracks, "video")[i])
      /\ \A i \in 1 .. a : Mux(tracks).inputs[v + i] = Input(OfKind(tracks, "audio")[i])
  BY InputsAre
<1>4. \A i \in 1 .. v : OfKind(tracks, "video")[i].kind = "video"
  BY <1>1
<1>5. \A i \in 1 .. a : OfKind(tracks, "audio")[i].kind = "audio"
  BY <1>1
<1>6. ASSUME NEW i \in 1 .. v PROVE Mux(tracks).inputs[i].kind = "video"
  <2>1. Mux(tracks).inputs[i] = Input(OfKind(tracks, "video")[i])
    BY <1>3
  <2> QED
    BY <1>2, <1>4, <2>1
<1>7. ASSUME NEW i \in 1 .. a PROVE Mux(tracks).inputs[v + i].kind = "audio"
  <2>1. Mux(tracks).inputs[v + i] = Input(OfKind(tracks, "audio")[i])
    BY <1>3
  <2> QED
    BY <1>2, <1>5, <2>1
<1> QED
  BY <1>6, <1>7

LEMMA AcceptsBoth ==
  ASSUME NEW S, NEW tracks \in Seq(S), NEW v, NEW a,
         v = Len(OfKind(tracks, "video")), a = Len(OfKind(tracks, "audio"))
  PROVE  Accepts(Mux(tracks), {}) <=> v > 0 /\ a > 0
<1> DEFINE c  == Mux(tracks)
           in == c.inputs
<1>1. /\ Len(in) \in Nat /\ Len(in) >= v + a /\ v \in Nat /\ a \in Nat
  BY InputsAre
<1>2. /\ \A i \in 1 .. v : in[i].kind = "video"
      /\ \A i \in 1 .. a : in[v + i].kind = "audio"
  BY KindsOfInputs
<1>3. c.filters = Filters(v, a) /\ c.maps = Labels(v, a)
  BY DEF Mux
<1> HIDE DEF c
<1>4. \A f \in c.filters : \A i \in DOMAIN f.in :
         f.in[i] < Len(in) /\ in[f.in[i] + 1].kind = f.kind
  <2> SUFFICES ASSUME NEW f \in Filters(v, a), NEW i \in DOMAIN f.in
               PROVE  f.in[i] < Len(in) /\ in[f.in[i] + 1].kind = f.kind
    BY <1>3
  <2> HIDE DEF in
  <2>1. CASE VideoFilter(f, v)
    <3>1. i \in 1 .. v /\ f.in[i] = i - 1
      BY <2>1 DEF VideoFilter
    <3>2. f.in[i] + 1 = i /\ f.in[i] < Len(in)
      BY <1>1, <3>1
    <3> QED
      BY <1>2, <2>1, <3>1, <3>2 DEF VideoFilter
  <2>2. CASE AudioFilter(f, v, a)
    <3>1. i \in 1 .. a /\ f.in[i] = v + i - 1
      BY <2>2 DEF AudioFilter
    <3>2. f.in[i] + 1 = v + i /\ f.in[i] < Len(in)
      BY <1>1, <3>1
    <3> QED
      BY <1>2, <2>2, <3>1, <3>2 DEF AudioFilter
  <2>3. VideoFilter(f, v) \/ AudioFilter(f, v, a)
    BY <1>1, FiltersAre
  <2> QED
    BY <2>1, <2>2, <2>3
<1>5. c.maps \subseteq {f.out : f \in c.filters} <=> v > 0 /\ a > 0
  <2>1. c.maps = {IF v > 0 THEN "[vout]" ELSE "[n:v]", IF a > 0 THEN "[aout]" ELSE "[n:a]"}
    BY <1>3 DEF Labels
  <2>2. \A f \in c.filters : f.out \in {"[vout]", "[aout]"}
    BY <1>1, <1>3, FiltersAre DEF VideoFilter, AudioFilter
  <2>3. /\ v > 0 => \E f \in c.filters : f.out = "[vout]"
        /\ a > 0 => \E f \in c.filters : f.out = "[aout]"
    BY <1>1, <1>3, FiltersAre
  <2>4. ASSUME v > 0, a > 0 PROVE c.maps \subseteq {f.out : f \in c.filters}
    BY <2>1, <2>3, <2>4
  <2>5. ASSUME ~ (v > 0) PROVE ~ c.maps \subseteq {f.out : f \in c.filters}
    <3>1. "[n:v]" \in c.maps
      BY <2>1, <2>5
    <3> QED
      BY <2>2, <3>1
  <2>6. ASSUME ~ (a > 0) PROVE ~ c.maps \subseteq {f.out : f \in c.filters}
    <3>1. "[n:a]" \in c.maps
      BY <2>1, <2>6
    <3> QED
      BY <2>2, <3>1
  <2> QED
    BY <2>4, <2>5, <2>6
<1> QED
  BY <1>4, <1>5 DEF Accepts, c

-----------------------------------------------------------------------------
\* An order of the tracks that were recorded has each of them once, in the
\* order of Tracks().
LEMMA OrderIs ==
  ASSUME NEW order \in TrackOrders
  PROVE  /\ Len(order) \in Nat /\ order \in [1 .. Len(order) -> Writers]
         /\ \A i, j \in 1 .. Len(order) : order[i] = order[j] => i = j
         /\ \A t \in Writers : \E i \in 1 .. Len(order) : order[i] = t
         /\ \A i, j \in 1 .. Len(order) : i < j => Before(order[i], order[j])
<1> DEFINE n == Cardinality(Writers)
<1>1. IsFiniteSet(Writers) /\ n \in Nat
  <2>1. Writers \subseteq Track /\ IsFiniteSet(Track)
    BY TrackAssumption DEF Writers
  <2> QED
    BY <2>1, FS_Subset, FS_CardinalityType
<1>2. /\ order \in [1 .. n -> Writers]
      /\ \A i, j \in 1 .. n : i # j => order[i] # order[j]
      /\ \A i, j \in DOMAIN order : i < j => Before(order[i], order[j])
  BY DEF TrackOrders, SetToSeqs
<1>3. Len(order) = n
  BY <1>1, <1>2
<1>4. IsFiniteSet(1 .. n) /\ Cardinality(1 .. n) = n
  BY <1>1, FS_Interval
<1> HIDE DEF n
<1>5. order \in Injection(1 .. n, Writers)
  BY <1>2 DEF Injection, IsInjective
<1>6. order \in Surjection(1 .. n, Writers)
  BY <1>1, <1>4, <1>5, FS_Injection DEF n
<1>7. \A t \in Writers : \E i \in 1 .. n : order[i] = t
  BY <1>6 DEF Surjection
<1> QED
  BY <1>1, <1>2, <1>3, <1>7 DEF n

LEMMA RecordedIs ==
  ASSUME NEW order \in TrackOrders
  PROVE  /\ \E S : Recorded(order) \in Seq(S)
         /\ Len(Recorded(order)) = Len(order)
         /\ \A i \in 1 .. Len(order) :
              /\ Recorded(order)[i].track = order[i]
              /\ Recorded(order)[i].kind = KindOf[order[i]]
              /\ Recorded(order)[i].offset = offset[order[i]]
<1> DEFINE Entry(t) == [track |-> t, kind |-> KindOf[t], offset |-> offset[t]]
           S == {Entry(t) : t \in Writers}
           tr == Recorded(order)
           n == Len(order)
<1>1. n \in Nat /\ order \in [1 .. n -> Writers]
  BY OrderIs
<1>2. tr = [i \in 1 .. n |-> Entry(order[i])]
  BY <1>1 DEF Recorded
<1>3. \A t : Entry(t).track = t /\ Entry(t).kind = KindOf[t] /\ Entry(t).offset = offset[t]
  OBVIOUS
<1> HIDE DEF Entry, tr, n
<1>4. \A i \in 1 .. n : tr[i] = Entry(order[i]) /\ tr[i] \in S
  BY <1>1, <1>2
<1>5. tr \in [1 .. n -> S]
  BY <1>2, <1>4
<1> HIDE DEF S
<1>6. tr \in Seq(S) /\ Len(tr) = n
  BY <1>1, <1>5, SeqDef, LenProperties
<1>7. \E SS : tr \in Seq(SS)
  BY <1>6
<1> QED
  BY <1>3, <1>4, <1>6, <1>7 DEF tr, n

\* Some recorded track has the kind if and only if something was taken.
LEMMA SomeOfKind ==
  ASSUME NEW order \in TrackOrders, NEW kind
  PROVE  Len(OfKind(Recorded(order), kind)) > 0 <=> \E t \in Writers : KindOf[t] = kind
<1> DEFINE tr  == Recorded(order)
           out == OfKind(tr, kind)
<1>1. PICK S : tr \in Seq(S)
  BY RecordedIs
<1>2. PICK pos : Selects(S, tr, kind, Len(tr), out, pos)
  BY <1>1, OfKindSelects
<1>3. /\ Len(tr) = Len(order)
      /\ \A i \in 1 .. Len(order) : tr[i].kind = KindOf[order[i]]
  BY RecordedIs
<1>4. /\ order \in [1 .. Len(order) -> Writers]
      /\ \A t \in Writers : \E i \in 1 .. Len(order) : order[i] = t
  BY OrderIs
<1> HIDE DEF tr, out
<1>5. /\ Len(out) \in Nat
      /\ \A k \in 1 .. Len(out) : pos[k] \in 1 .. Len(order) /\ tr[pos[k]].kind = kind
      /\ \A j \in 1 .. Len(order) : tr[j].kind = kind => \E k \in 1 .. Len(out) : pos[k] = j
  BY <1>2, <1>3 DEF Selects
<1>6. ASSUME Len(out) > 0 PROVE \E t \in Writers : KindOf[t] = kind
  <2>1. 1 \in 1 .. Len(out)
    BY <1>5, <1>6
  <2>2. order[pos[1]] \in Writers /\ KindOf[order[pos[1]]] = kind
    BY <1>3, <1>4, <1>5, <2>1
  <2> QED
    BY <2>2
<1>7. ASSUME NEW t \in Writers, KindOf[t] = kind PROVE Len(out) > 0
  <2>1. PICK i \in 1 .. Len(order) : order[i] = t
    BY <1>4
  <2>2. PICK k \in 1 .. Len(out) : pos[k] = i
    BY <1>3, <1>5, <1>7, <2>1
  <2> QED
    BY <1>5, <2>2
<1> QED
  BY <1>6, <1>7 DEF tr, out

LEMMA BothKindsInv == IndInv => BothKindsAccepted
<1> SUFFICES ASSUME IndInv, cmd # None, Empty = {},
                    {KindOf[t] : t \in Writers} = {"audio", "video"}
             PROVE  Accepts(cmd, {})
  BY DEF BothKindsAccepted
<1>1. PICK order \in TrackOrders : cmd = Mux(Recorded(order))
  BY DEF IndInv, CmdInv
<1> DEFINE v == Len(OfKind(Recorded(order), "video"))
           a == Len(OfKind(Recorded(order), "audio"))
<1>2. Accepts(cmd, {}) <=> v > 0 /\ a > 0
  BY <1>1, RecordedIs, AcceptsBoth
<1>3. /\ v > 0 <=> \E t \in Writers : KindOf[t] = "video"
      /\ a > 0 <=> \E t \in Writers : KindOf[t] = "audio"
  BY SomeOfKind
<1> HIDE DEF v, a
<1> QED
  BY <1>2, <1>3

\* ffmpeg refuses the command of a recording with tracks of one kind only,
\* whatever its files hold: the input that is generated in place of the other
\* kind (ffmpeg.go:69, ffmpeg.go:93) is named in -map like a filter's output.
SingleKindRefused ==
    cmd # None /\ {KindOf[t] : t \in Writers} # {"audio", "video"} => ~Accepts(cmd, {})

LEMMA SingleKindInv == IndInv => SingleKindRefused
<1> SUFFICES ASSUME IndInv, cmd # None,
                    {KindOf[t] : t \in Writers} # {"audio", "video"}
             PROVE  ~Accepts(cmd, {})
  BY DEF SingleKindRefused
<1>1. PICK order \in TrackOrders : cmd = Mux(Recorded(order))
  BY DEF IndInv, CmdInv
<1> DEFINE v == Len(OfKind(Recorded(order), "video"))
           a == Len(OfKind(Recorded(order), "audio"))
<1>2. Accepts(cmd, {}) <=> v > 0 /\ a > 0
  BY <1>1, RecordedIs, AcceptsBoth
<1>3. /\ v > 0 <=> \E t \in Writers : KindOf[t] = "video"
      /\ a > 0 <=> \E t \in Writers : KindOf[t] = "audio"
  BY SomeOfKind
<1>4. \A t \in Writers : KindOf[t] \in {"audio", "video"}
  BY TrackAssumption DEF Writers
<1> HIDE DEF v, a
<1> QED
  BY <1>2, <1>3, <1>4

-----------------------------------------------------------------------------
\* Input i, and no other, is that of the track t.
At(in, t, i) ==
    /\ i \in DOMAIN in /\ in[i].source = t /\ in[i].delay = offset[t]
    /\ \A j \in DOMAIN in : in[j].source = t => j = i

\* Where the inputs of the recorded tracks are: vpos and apos give the places
\* of the videos and of the audios in the order.
Placed(order, v, a, vpos, apos) ==
    LET in == Mux(Recorded(order)).inputs
    IN  /\ v \in Nat /\ a \in Nat
        /\ \A k \in 1 .. v : KindOf[order[vpos[k]]] = "video" /\ At(in, order[vpos[k]], k)
        /\ \A k \in 1 .. a : KindOf[order[apos[k]]] = "audio" /\ At(in, order[apos[k]], v + k)

LEMMA InputPlaces ==
  ASSUME NEW order \in TrackOrders, NEW v, NEW a, NEW vpos, NEW apos, NEW S,
         Recorded(order) \in Seq(S),
         v = Len(OfKind(Recorded(order), "video")),
         a = Len(OfKind(Recorded(order), "audio")),
         Selects(S, Recorded(order), "video", Len(order), OfKind(Recorded(order), "video"), vpos),
         Selects(S, Recorded(order), "audio", Len(order), OfKind(Recorded(order), "audio"), apos)
  PROVE  Placed(order, v, a, vpos, apos)
<1> DEFINE tr == Recorded(order)
           in == Mux(tr).inputs
           videos == OfKind(tr, "video")
           audios == OfKind(tr, "audio")
           n == Len(order)
<1>1. /\ v \in Nat /\ a \in Nat /\ Len(in) \in Nat /\ Len(in) >= v + a
      /\ DOMAIN in = 1 .. Len(in)
      /\ \A i \in 1 .. v : in[i] = Input(videos[i])
      /\ \A i \in 1 .. a : in[v + i] = Input(audios[i])
      /\ \A i \in DOMAIN in : i > v + a => in[i].source = "lavfi"
  BY InputsAre
<1>2. \A i \in 1 .. n : /\ tr[i].track = order[i] /\ tr[i].kind = KindOf[order[i]]
                        /\ tr[i].offset = offset[order[i]]
  BY RecordedIs
<1>3. /\ n \in Nat /\ \A i \in 1 .. n : order[i] \in Track
      /\ \A i, j \in 1 .. n : order[i] = order[j] => i = j
  BY OrderIs DEF Writers
<1>4. /\ \A k \in 1 .. v : /\ vpos[k] \in 1 .. n /\ videos[k] = tr[vpos[k]]
                           /\ tr[vpos[k]].kind = "video"
      /\ \A k, l \in 1 .. v : k < l => vpos[k] < vpos[l]
  BY DEF Selects
<1>5. /\ \A k \in 1 .. a : /\ apos[k] \in 1 .. n /\ audios[k] = tr[apos[k]]
                           /\ tr[apos[k]].kind = "audio"
      /\ \A k, l \in 1 .. a : k < l => apos[k] < apos[l]
  BY DEF Selects
<1>6. \A x : Input(x).source = x.track /\ Input(x).delay = x.offset
  BY DEF Input
<1> HIDE DEF tr, in, videos, audios, n
<1>7. \A k \in 1 .. v : /\ KindOf[order[vpos[k]]] = "video"
                        /\ in[k].source = order[vpos[k]]
                        /\ in[k].delay = offset[order[vpos[k]]]
  <2> SUFFICES ASSUME NEW k \in 1 .. v
               PROVE  /\ KindOf[order[vpos[k]]] = "video"
                      /\ in[k].source = order[vpos[k]]
                      /\ in[k].delay = offset[order[vpos[k]]]
    OBVIOUS
  <2>1. in[k] = Input(videos[k]) /\ videos[k] = tr[vpos[k]]
    BY <1>1, <1>4
  <2>2. in[k].source = tr[vpos[k]].track /\ in[k].delay = tr[vpos[k]].offset
    BY <1>6, <2>1
  <2>3. vpos[k] \in 1 .. n /\ tr[vpos[k]].kind = "video"
    BY <1>4
  <2> QED
    BY <1>2, <2>2, <2>3
<1>8. \A k \in 1 .. a : /\ KindOf[order[apos[k]]] = "audio"
                        /\ in[v + k].source = order[apos[k]]
                        /\ in[v + k].delay = offset[order[apos[k]]]
  <2> SUFFICES ASSUME NEW k \in 1 .. a
               PROVE  /\ KindOf[order[apos[k]]] = "audio"
                      /\ in[v + k].source = order[apos[k]]
                      /\ in[v + k].delay = offset[order[apos[k]]]
    OBVIOUS
  <2>1. in[v + k] = Input(audios[k]) /\ audios[k] = tr[apos[k]]
    BY <1>1, <1>5
  <2>2. in[v + k].source = tr[apos[k]].track /\ in[v + k].delay = tr[apos[k]].offset
    BY <1>6, <2>1
  <2>3. apos[k] \in 1 .. n /\ tr[apos[k]].kind = "audio"
    BY <1>5
  <2> QED
    BY <1>2, <2>2, <2>3
<1>9. \A j \in DOMAIN in : \/ j \in 1 .. v
                           \/ \E k \in 1 .. a : j = v + k
                           \/ in[j].source = "lavfi"
  <2> SUFFICES ASSUME NEW j \in 1 .. Len(in), ~ (j \in 1 .. v), ~ (j > v + a)
               PROVE  \E k \in 1 .. a : j = v + k
    BY <1>1
  <2>1. j - v \in 1 .. a /\ j = v + (j - v)
    BY <1>1
  <2> QED
    BY <2>1
<1>10. \A k, l \in 1 .. v : order[vpos[k]] = order[vpos[l]] => k = l
  <2> SUFFICES ASSUME NEW k \in 1 .. v, NEW l \in 1 .. v, order[vpos[k]] = order[vpos[l]]
               PROVE  k = l
    OBVIOUS
  <2>1. vpos[k] = vpos[l] /\ vpos[k] \in Nat
    BY <1>3, <1>4
  <2>2. ~ (k < l) /\ ~ (l < k)
    BY <1>4, <2>1
  <2> QED
    BY <1>1, <2>2
<1>11. \A k, l \in 1 .. a : order[apos[k]] = order[apos[l]] => k = l
  <2> SUFFICES ASSUME NEW k \in 1 .. a, NEW l \in 1 .. a, order[apos[k]] = order[apos[l]]
               PROVE  k = l
    OBVIOUS
  <2>1. apos[k] = apos[l] /\ apos[k] \in Nat
    BY <1>3, <1>5
  <2>2. ~ (k < l) /\ ~ (l < k)
    BY <1>5, <2>1
  <2> QED
    BY <1>1, <2>2
<1>12. ASSUME NEW k \in 1 .. v PROVE At(in, order[vpos[k]], k)
  <2>1. k \in DOMAIN in /\ order[vpos[k]] \in Track /\ KindOf[order[vpos[k]]] = "video"
    BY <1>1, <1>3, <1>4, <1>7
  <2>2. ASSUME NEW j \in DOMAIN in, in[j].source = order[vpos[k]] PROVE j = k
    <3>1. CASE j \in 1 .. v
      BY <1>7, <1>10, <2>2, <3>1
    <3>2. CASE \E l \in 1 .. a : j = v + l
      <4>1. PICK l \in 1 .. a : j = v + l
        BY <3>2
      <4>2. in[j].source = order[apos[l]] /\ KindOf[order[apos[l]]] = "audio"
        BY <1>8, <4>1
      <4> QED
        BY <2>1, <2>2, <4>2
    <3>3. CASE in[j].source = "lavfi"
      BY <2>1, <2>2, <3>3, TrackAssumption
    <3> QED
      BY <1>9, <3>1, <3>2, <3>3
  <2> QED
    BY <1>7, <2>1, <2>2 DEF At
<1>13. ASSUME NEW k \in 1 .. a PROVE At(in, order[apos[k]], v + k)
  <2>1. v + k \in DOMAIN in /\ order[apos[k]] \in Track /\ KindOf[order[apos[k]]] = "audio"
    BY <1>1, <1>3, <1>5, <1>8
  <2>2. ASSUME NEW j \in DOMAIN in, in[j].source = order[apos[k]] PROVE j = v + k
    <3>1. CASE j \in 1 .. v
      BY <1>7, <2>1, <2>2, <3>1
    <3>2. CASE \E l \in 1 .. a : j = v + l
      <4>1. PICK l \in 1 .. a : j = v + l
        BY <3>2
      <4>2. order[apos[l]] = order[apos[k]]
        BY <1>8, <2>2, <4>1
      <4> QED
        BY <1>11, <4>1, <4>2
    <3>3. CASE in[j].source = "lavfi"
      BY <2>1, <2>2, <3>3, TrackAssumption
    <3> QED
      BY <1>9, <3>1, <3>2, <3>3
  <2> QED
    BY <1>8, <2>1, <2>2 DEF At
<1> QED
  BY <1>1, <1>7, <1>8, <1>12, <1>13 DEF Placed, in, tr

LEMMA MuxedOnceInv == IndInv => MuxedOnce
<1> SUFFICES ASSUME IndInv, cmd # None
             PROVE  /\ \A t \in Writers : \E i \in InputsOf(t) :
                         /\ InputsOf(t) = {i}
                         /\ cmd.inputs[i].delay = offset[t]
                         /\ \A f \in cmd.filters : i - 1 \in Range(f.in) <=> f.kind = KindOf[t]
                    /\ \A t, u \in Video \cap Writers : PeerOf[t] < PeerOf[u] =>
                         \A i \in InputsOf(t), j \in InputsOf(u) : i < j
  BY DEF MuxedOnce
<1>1. PICK order \in TrackOrders : cmd = Mux(Recorded(order))
  BY DEF IndInv, CmdInv
<1> DEFINE tr == Recorded(order)
           in == Mux(tr).inputs
           v  == Len(OfKind(tr, "video"))
           a  == Len(OfKind(tr, "audio"))
           n  == Len(order)
<1>2. PICK S : tr \in Seq(S)
  BY RecordedIs
<1>3. /\ Len(tr) = n /\ \A i \in 1 .. n : tr[i].kind = KindOf[order[i]]
  BY RecordedIs
<1>4. PICK vpos : Selects(S, tr, "video", n, OfKind(tr, "video"), vpos)
  BY <1>2, <1>3, OfKindSelects
<1>5. PICK apos : Selects(S, tr, "audio", n, OfKind(tr, "audio"), apos)
  BY <1>2, <1>3, OfKindSelects
<1>6. /\ v \in Nat /\ a \in Nat
      /\ \A k \in 1 .. v : KindOf[order[vpos[k]]] = "video" /\ At(in, order[vpos[k]], k)
      /\ \A k \in 1 .. a : KindOf[order[apos[k]]] = "audio" /\ At(in, order[apos[k]], v + k)
  <2>1. Placed(order, v, a, vpos, apos)
    BY <1>2, <1>4, <1>5, InputPlaces
  <2> QED
    BY <2>1 DEF Placed
<1>7. /\ \A k \in 1 .. v : vpos[k] \in 1 .. n
      /\ \A k, l \in 1 .. v : k < l => vpos[k] < vpos[l]
      /\ \A i \in 1 .. n : tr[i].kind = "video" => \E k \in 1 .. v : vpos[k] = i
      /\ \A i \in 1 .. n : tr[i].kind = "audio" => \E k \in 1 .. a : apos[k] = i
  BY <1>4, <1>5 DEF Selects
<1>8. cmd.inputs = in /\ cmd.filters = Filters(v, a)
  BY <1>1 DEF Mux
<1> HIDE DEF tr, in, v, a, n
<1>9. /\ n \in Nat /\ \A t \in Writers : \E i \in 1 .. n : order[i] = t
      /\ \A i, j \in 1 .. n : i < j => Before(order[i], order[j])
  BY OrderIs DEF n
<1>10. \A t \in Writers : t \in Track /\ KindOf[t] \in {"video", "audio"} /\ PeerOf[t] \in Nat
  BY TrackAssumption DEF Writers
<1>11. \A f \in Filters(v, a) : VideoFilter(f, v) \/ AudioFilter(f, v, a)
  BY <1>6, FiltersAre
<1>12. \A t : \A i : At(in, t, i) => InputsOf(t) = {i} /\ cmd.inputs[i].delay = offset[t]
  BY <1>8 DEF At, InputsOf
\* A video is among the first v inputs, and in its place.
<1>13. \A t \in Writers : KindOf[t] = "video" =>
          \E k \in 1 .. v : order[vpos[k]] = t /\ At(in, t, k)
  <2> SUFFICES ASSUME NEW t \in Writers, KindOf[t] = "video"
               PROVE  \E k \in 1 .. v : order[vpos[k]] = t /\ At(in, t, k)
    OBVIOUS
  <2>1. PICK i \in 1 .. n : order[i] = t
    BY <1>9
  <2>2. PICK k \in 1 .. v : vpos[k] = i
    BY <1>3, <1>7, <2>1
  <2> QED
    BY <1>6, <2>1, <2>2
<1>14. \A t \in Writers : KindOf[t] = "audio" =>
          \E k \in 1 .. a : At(in, t, v + k)
  <2> SUFFICES ASSUME NEW t \in Writers, KindOf[t] = "audio"
               PROVE  \E k \in 1 .. a : At(in, t, v + k)
    OBVIOUS
  <2>1. PICK i \in 1 .. n : order[i] = t
    BY <1>9
  <2>2. PICK k \in 1 .. a : apos[k] = i
    BY <1>3, <1>7, <2>1
  <2> QED
    BY <1>6, <2>1, <2>2
<1>15. ASSUME NEW t \in Writers
       PROVE  \E i \in InputsOf(t) :
                 /\ InputsOf(t) = {i}
                 /\ cmd.inputs[i].delay = offset[t]
                 /\ \A f \in cmd.filters : i - 1 \in Range(f.in) <=> f.kind = KindOf[t]
  <2>1. CASE KindOf[t] = "video"
    <3>1. PICK k \in 1 .. v : At(in, t, k)
      BY <1>13, <2>1
    <3>2. ASSUME NEW f \in Filters(v, a)
          PROVE  k - 1 \in Range(f.in) <=> f.kind = "video"
      <4>1. CASE VideoFilter(f, v)
        <5>1. k \in DOMAIN f.in /\ f.in[k] = k - 1
          BY <4>1 DEF VideoFilter
        <5> QED
          BY <4>1, <5>1 DEF VideoFilter, Range
      <4>2. CASE AudioFilter(f, v, a)
        <5>1. \A i \in DOMAIN f.in : f.in[i] # k - 1
          BY <1>6, <4>2 DEF AudioFilter
        <5> QED
          BY <4>2, <5>1 DEF AudioFilter, Range
      <4> QED
        BY <1>11, <4>1, <4>2
    <3> QED
      BY <1>8, <1>12, <2>1, <3>1, <3>2
  <2>2. CASE KindOf[t] = "audio"
    <3>1. PICK k \in 1 .. a : At(in, t, v + k)
      BY <1>14, <2>2
    <3> DEFINE i == v + k
    <3>2. i \in Nat /\ i = v + k /\ At(in, t, i)
      BY <1>6, <3>1
    <3> HIDE DEF i
    <3>3. ASSUME NEW f \in Filters(v, a)
          PROVE  i - 1 \in Range(f.in) <=> f.kind = "audio"
      <4>1. CASE VideoFilter(f, v)
        <5>1. \A j \in DOMAIN f.in : f.in[j] # i - 1
          BY <1>6, <3>2, <4>1 DEF VideoFilter
        <5> QED
          BY <4>1, <5>1 DEF VideoFilter, Range
      <4>2. CASE AudioFilter(f, v, a)
        <5>1. k \in DOMAIN f.in /\ f.in[k] = v + k - 1
          BY <4>2 DEF AudioFilter
        <5>2. f.in[k] = i - 1
          BY <1>6, <3>2, <5>1
        <5> QED
          BY <4>2, <5>1, <5>2 DEF AudioFilter, Range
      <4> QED
        BY <1>11, <4>1, <4>2
    <3>4. InputsOf(t) = {i} /\ cmd.inputs[i].delay = offset[t]
      BY <1>12, <3>2
    <3> QED
      BY <1>8, <2>2, <3>3, <3>4
  <2> QED
    BY <1>10, <2>1, <2>2
<1>16. ASSUME NEW t \in Video \cap Writers, NEW u \in Video \cap Writers,
              PeerOf[t] < PeerOf[u], NEW i \in InputsOf(t), NEW j \in InputsOf(u)
       PROVE  i < j
  <2>1. PICK k \in 1 .. v : order[vpos[k]] = t /\ At(in, t, k)
    BY <1>13 DEF Video
  <2>2. PICK l \in 1 .. v : order[vpos[l]] = u /\ At(in, u, l)
    BY <1>13 DEF Video
  <2>3. i = k /\ j = l
    BY <1>12, <2>1, <2>2
  <2>4. ASSUME ~ (k < l) PROVE FALSE
    <3>1. k \in Nat /\ l \in Nat /\ vpos[k] \in 1 .. n /\ vpos[l] \in 1 .. n
      BY <1>6, <1>7
    <3>2. k # l
      <4>1. PeerOf[t] \in Nat /\ t # u
        BY <1>10, <1>16
      <4> QED
        BY <2>1, <2>2, <4>1
    <3>3. vpos[l] < vpos[k]
      BY <1>7, <2>4, <3>1, <3>2
    <3>4. Before(u, t)
      BY <1>9, <2>1, <2>2, <3>1, <3>3
    <3>5. KindOf[t] = KindOf[u] /\ PeerOf[t] \in Nat /\ PeerOf[u] \in Nat
      BY <1>10 DEF Video
    <3> QED
      BY <1>16, <3>4, <3>5 DEF Before
  <2> QED
    BY <2>3, <2>4
<1> QED
  BY <1>15, <1>16
-----------------------------------------------------------------------------
(* The times: the part of IndInv that says nothing of the command. *)

TimesInv == TypeOK /\ StartInv /\ InSync /\ HeldInv

USE TrackAssumption, NoneAssumption

(* The steps that change no recording, and no step makes a time. *)

States == {"absent", "published", "forwarding", "stalled", "broken", "gone"}
Pkt == [time : Time, key : BOOLEAN]

LEMMA RecordingKept ==
  ASSUME TimesInv, UNCHANGED <<now, rec, startedAt, offset, held, closed, first>>,
         track' \in [Track -> States],
         pli' \subseteq Video, quit' \subseteq Video, asked' \subseteq Video,
         starting' \in BOOLEAN
  PROVE  TimesInv'
<1>1. TypeOK'
  BY DEF TimesInv, TypeOK, Writers, States
<1>2. StartInv' /\ InSync' /\ HeldInv'
  BY DEF TimesInv, StartInv, InSync, HeldInv, Writers
<1> QED
  BY <1>1, <1>2 DEF TimesInv

\* The publisher's side.
LEMMA SfuStepInv ==
  ASSUME TimesInv, NEW t \in Track,
         \/ Publish(t) \/ Forward(t) \/ Stall(t)
         \/ \E outcome \in {"arrives", "lost", "fails"} : PliTick(t, outcome)
         \/ Break(PeerOf[t])
  PROVE  TimesInv'
<1>0. /\ track \in [Track -> States]
      /\ pli \subseteq Video /\ quit \subseteq Video /\ asked \subseteq Video
      /\ starting \in BOOLEAN
  BY DEF TimesInv, TypeOK, States
<1> USE DEF recVars, pliVars
<1>1. CASE Publish(t)
  <2>1. track' \in [Track -> States]
    BY <1>0, <1>1 DEF Publish, States
  <2> QED
    BY <1>0, <1>1, <2>1, RecordingKept DEF Publish
<1>2. CASE Forward(t)
  <2>1. track' \in [Track -> States]
    BY <1>0, <1>2 DEF Forward, States
  <2> QED
    BY <1>0, <1>2, <2>1, RecordingKept DEF Forward
<1>3. CASE Stall(t)
  <2>1. track' \in [Track -> States]
    BY <1>0, <1>3 DEF Stall, States
  <2> QED
    BY <1>0, <1>3, <2>1, RecordingKept DEF Stall
<1>4. CASE \E outcome \in {"arrives", "lost", "fails"} : PliTick(t, outcome)
  <2>1. pli' \subseteq Video /\ quit' \subseteq Video /\ asked' \subseteq Video
    BY <1>0, <1>4 DEF PliTick
  <2> QED
    BY <1>0, <1>4, <2>1, RecordingKept DEF PliTick
<1>5. CASE Break(PeerOf[t])
  <2>1. track' \in [Track -> States]
    BY <1>0, <1>5 DEF Break, States
  <2> QED
    BY <1>0, <1>5, <2>1, RecordingKept DEF Break
<1> QED
  BY <1>1, <1>2, <1>3, <1>4, <1>5

LEMMA TickInv == ASSUME TimesInv, Tick PROVE TimesInv'
<1>1. /\ now \in Time /\ now < MaxNow /\ now' = now + 1
      /\ UNCHANGED <<track, pli, quit, asked, rec, starting, startedAt, offset, held,
                     closed, first>>
  BY DEF TimesInv, TypeOK, Tick, recVars, pliVars
<1>2. now' \in Time /\ now <= now'
  BY <1>1 DEF Time
<1>3. startedAt \in Time \cup {None} /\ (startedAt # None => startedAt <= now)
  BY DEF TimesInv, TypeOK, StartInv
<1>4. startedAt # None => startedAt <= now'
  BY <1>1, <1>3 DEF Time
<1>5. TypeOK'
  BY <1>1, <1>2 DEF TimesInv, TypeOK, Writers
<1>6. StartInv'
  BY <1>1, <1>4 DEF TimesInv, StartInv, Writers
<1>7. InSync' /\ HeldInv'
  BY <1>1 DEF TimesInv, InSync, HeldInv, Writers
<1> QED
  BY <1>5, <1>6, <1>7 DEF TimesInv

\* A leave closes files.
LEMMA PeerLeavesInv ==
  ASSUME TimesInv, NEW p, PeerLeaves(p)
  PROVE  TimesInv'
<1> DEFINE Own == {t \in Track : PeerOf[t] = p /\ track[t] # "absent"}
<1>1. /\ track' = [t \in Track |-> IF t \in Own THEN "gone" ELSE track[t]]
      /\ pli' = pli \ Own /\ asked' = asked \ Own
      /\ closed' = IF rec = "on" THEN closed \cup (Own \cap Writers) ELSE closed
      /\ UNCHANGED <<now, quit, rec, starting, startedAt, offset, held, first>>
  BY DEF PeerLeaves
<1> HIDE DEF Own
<1>2. closed' \subseteq Writers /\ closed \subseteq closed'
  BY <1>1 DEF TimesInv, TypeOK
<1>3. TypeOK'
  BY <1>1, <1>2 DEF TimesInv, TypeOK, Writers
<1>4. StartInv' /\ InSync' /\ HeldInv'
  BY <1>1, <1>2 DEF TimesInv, StartInv, InSync, HeldInv, Writers
<1> QED
  BY <1>3, <1>4 DEF TimesInv

\* A packet that finds a writer is held; if it has opened it, the offset is
\* the time of the packet.
LEMMA PacketInv ==
  ASSUME TimesInv, NEW t \in Track, NEW key \in BOOLEAN, Packet(t, key)
  PROVE  TimesInv'
<1> DEFINE open  == rec = "on" /\ t \notin Writers /\ MayOpen(t, key)
           found == open \/ (rec = "on" /\ t \in Writers)
           pkt   == [time |-> now, key |-> key]
<1>1. /\ TypeOK /\ StartInv /\ InSync /\ HeldInv /\ held[t] = None
      /\ key => t \in Video
      /\ offset' = IF open THEN [offset EXCEPT ![t] = now - startedAt] ELSE offset
      /\ held' = IF found THEN [held EXCEPT ![t] = pkt] ELSE held
      /\ asked' = IF key THEN asked \ {t} ELSE asked
      /\ UNCHANGED <<now, track, pli, quit, rec, starting, startedAt, closed, first>>
  BY DEF TimesInv, Packet, pliVars
<1>2. /\ open => rec = "on" /\ offset[t] = None /\ found /\ (t \in Video => key)
      /\ found /\ ~open => offset[t] # None
  BY DEF Writers, MayOpen
<1>3. /\ now \in Time /\ startedAt \in Time \cup {None}
      /\ offset \in [Track -> Time \cup {None}] /\ first \in [Track -> Time \cup {None}]
      /\ held \in [Track -> Pkt \cup {None}] /\ closed \subseteq Writers
  BY <1>1 DEF TypeOK, Pkt
<1>4. rec = "on" => startedAt \in Nat /\ startedAt <= now /\ now - startedAt \in Time
  BY <1>1, <1>3 DEF StartInv, Time
<1>5. pkt \in Pkt /\ pkt.time = now /\ pkt.key = key /\ pkt # None
  <2>1. pkt \in [time : Nat, key : BOOLEAN]
    BY <1>3 DEF Time
  <2> QED
    BY <1>3, <2>1 DEF Pkt
<1> HIDE DEF open, found, pkt
<1>6. CASE found
  <2>1. held' = [held EXCEPT ![t] = pkt]
    BY <1>1, <1>6
  <2>2. /\ held' \in [Track -> Pkt \cup {None}] /\ held'[t] = pkt
        /\ \A u \in Track \ {t} : held'[u] = held[u]
    BY <1>3, <1>5, <2>1
  <2>3. /\ offset' \in [Track -> Time \cup {None}] /\ offset'[t] # None
        /\ \A u \in Track \ {t} : offset'[u] = offset[u]
        /\ open => offset'[t] = now - startedAt
        /\ ~open => offset'[t] = offset[t]
    <3>1. CASE open
      BY <1>1, <1>2, <1>3, <1>4, <3>1 DEF Time
    <3>2. CASE ~open
      BY <1>1, <1>2, <1>3, <1>6, <3>2
    <3> QED
      BY <3>1, <3>2
  <2>4. Writers \subseteq Writers'
    BY <2>3 DEF Writers
  <2>5. TypeOK'
    BY <1>1, <2>2, <2>3, <2>4 DEF TypeOK, Pkt
  <2>6. StartInv'
    <3>1. rec = "on"
      BY <1>6 DEF found, open
    <3> QED
      BY <1>1, <3>1 DEF StartInv
  <2>7. open => first[t] = None
    BY <1>1, <1>2 DEF InSync
  <2>8. InSync'
    <3> SUFFICES ASSUME NEW u \in Track
                 PROVE  /\ first'[u] # None =>
                             offset'[u] # None /\ startedAt' + offset'[u] = first'[u]
                        /\ offset'[u] # None /\ first'[u] = None =>
                             held'[u] # None \/ u \in closed'
      BY DEF InSync
    <3>1. CASE u = t
      BY <1>1, <1>5, <2>2, <2>3, <2>7, <3>1 DEF InSync
    <3>2. CASE u # t
      BY <1>1, <2>2, <2>3, <3>2 DEF InSync
    <3> QED
      BY <3>1, <3>2
  <2>9. HeldInv'
    <3> SUFFICES ASSUME NEW u \in Track, held'[u] # None
                 PROVE  /\ offset'[u] # None
                        /\ first'[u] = None /\ u \notin closed' =>
                             /\ startedAt' + offset'[u] = held'[u].time
                             /\ u \in Video => held'[u].key
      BY DEF HeldInv, Video
    <3>1. CASE u = t /\ open
      BY <1>1, <1>2, <1>3, <1>4, <1>5, <2>2, <2>3, <3>1 DEF Time
    <3>2. CASE u = t /\ ~open
      BY <1>1, <1>2, <1>6, <2>3, <3>2 DEF InSync
    <3>3. CASE u # t
      BY <1>1, <2>2, <2>3, <3>3 DEF HeldInv
    <3> QED
      BY <3>1, <3>2, <3>3
  <2> QED
    BY <2>5, <2>6, <2>8, <2>9 DEF TimesInv
<1>7. CASE ~found
  <2>1. offset' = offset /\ held' = held
    BY <1>1, <1>2, <1>7
  <2>2. starting' \in BOOLEAN /\ asked' \subseteq Video /\ track' \in [Track -> States]
        /\ pli' \subseteq Video /\ quit' \subseteq Video
    BY <1>1 DEF TypeOK, States
  <2> QED
    BY <1>1, <2>1, <2>2, RecordingKept
<1> QED
  BY <1>6, <1>7

\* The packet that opened the writer is the first in the file, if the file is
\* still open when it is written.
LEMMA WriteInv ==
  ASSUME TimesInv, NEW t \in Track, Write(t)
  PROVE  TimesInv'
<1> DEFINE kept == t \notin closed /\ (t \in Video => held[t].key)
<1>1. /\ TypeOK /\ StartInv /\ InSync /\ HeldInv /\ held[t] # None
      /\ held' = [held EXCEPT ![t] = None]
      /\ first' = IF kept /\ first[t] = None
                  THEN [first EXCEPT ![t] = held[t].time] ELSE first
      /\ UNCHANGED <<now, track, pli, quit, asked, rec, starting, startedAt, offset, closed>>
  BY DEF TimesInv, Write, pliVars
<1>2. /\ held \in [Track -> Pkt \cup {None}] /\ held[t] \in Pkt /\ held[t].time \in Time
      /\ first \in [Track -> Time \cup {None}]
  BY <1>1 DEF TypeOK, Pkt
<1>3. /\ offset[t] # None
      /\ first[t] = None /\ t \notin closed => kept /\ startedAt + offset[t] = held[t].time
  BY <1>1 DEF HeldInv
<1>4. kept => t \notin closed
  OBVIOUS
<1> HIDE DEF kept
<1>5. /\ held' \in [Track -> Pkt \cup {None}] /\ held'[t] = None
      /\ \A u \in Track \ {t} : held'[u] = held[u]
  BY <1>1, <1>2
<1>6. /\ first' \in [Track -> Time \cup {None}]
      /\ \A u \in Track \ {t} : first'[u] = first[u]
      /\ first[t] = None /\ t \notin closed => first'[t] = held[t].time
      /\ first[t] # None \/ t \in closed => first'[t] = first[t]
  BY <1>1, <1>2, <1>3, <1>4
<1>7. held[t].time # None
  BY <1>2 DEF Time
<1>8. TypeOK'
  BY <1>1, <1>5, <1>6 DEF TypeOK, Writers, Pkt
<1>9. StartInv'
  BY <1>1 DEF StartInv, Writers
<1>10. InSync'
  <2> SUFFICES ASSUME NEW u \in Track
               PROVE  /\ first'[u] # None =>
                           offset[u] # None /\ startedAt + offset[u] = first'[u]
                      /\ offset[u] # None /\ first'[u] = None =>
                           held'[u] # None \/ u \in closed
    BY <1>1 DEF InSync
  <2>1. CASE u = t
    BY <1>1, <1>3, <1>6, <1>7, <2>1 DEF InSync
  <2>2. CASE u # t
    BY <1>1, <1>5, <1>6, <2>2 DEF InSync
  <2> QED
    BY <2>1, <2>2
<1>11. HeldInv'
  BY <1>1, <1>5, <1>6 DEF HeldInv, Video
<1> QED
  BY <1>8, <1>9, <1>10, <1>11 DEF TimesInv

\* Start, Stop and processAndFinalize.
LEMMA RecordingStepInv ==
  ASSUME TimesInv, StartRecording \/ Stop \/ Finalize
  PROVE  TimesInv'
<1>1. CASE StartRecording
  <2>1. now \in Nat /\ now \in Time
    BY DEF TimesInv, TypeOK, Time
  <2>2. TypeOK'
    BY <1>1, <2>1 DEF StartRecording, TimesInv, TypeOK, Writers, pliVars
  <2>3. StartInv'
    BY <1>1, <2>1 DEF StartRecording, TimesInv, StartInv, Writers
  <2>4. \A u \in Track : offset[u] = None /\ first[u] = None /\ held[u] = None
    BY <1>1 DEF StartRecording, TimesInv, StartInv, InSync, HeldInv, Writers
  <2>5. InSync' /\ HeldInv'
    BY <1>1, <2>4 DEF StartRecording, InSync, HeldInv
  <2> QED
    BY <2>2, <2>3, <2>5 DEF TimesInv
<1>2. CASE Stop
  <2>1. TypeOK'
    BY <1>2 DEF Stop, TimesInv, TypeOK, Writers, pliVars
  <2>2. StartInv' /\ InSync' /\ HeldInv'
    BY <1>2 DEF Stop, TimesInv, StartInv, InSync, HeldInv, Writers
  <2> QED
    BY <2>1, <2>2 DEF TimesInv
<1>3. CASE Finalize
  <2>1. TypeOK'
    BY <1>3 DEF Finalize, TimesInv, TypeOK, Writers, pliVars
  <2>2. StartInv' /\ InSync' /\ HeldInv'
    BY <1>3 DEF Finalize, TimesInv, StartInv, InSync, HeldInv, Writers
  <2> QED
    BY <2>1, <2>2 DEF TimesInv
<1> QED
  BY <1>1, <1>2, <1>3

-----------------------------------------------------------------------------

LEMMA TimesInit == Init => TimesInv
<1> SUFFICES ASSUME Init PROVE TimesInv
  OBVIOUS
<1>1. now \in Time
  BY DEF Init, Time
<1>2. Writers = {}
  BY DEF Init, Writers
<1>3. TypeOK
  BY <1>1, <1>2 DEF Init, TypeOK
<1>4. StartInv /\ InSync /\ HeldInv
  BY <1>2 DEF Init, StartInv, InSync, HeldInv
<1> QED
  BY <1>3, <1>4 DEF TimesInv

LEMMA TimesStep == TimesInv /\ [Next]_vars => TimesInv'
<1> SUFFICES ASSUME TimesInv, [Next]_vars PROVE TimesInv'
  OBVIOUS
<1>1. CASE Tick
  BY <1>1, TickInv
<1>2. ASSUME NEW t \in Track, Publish(t) \/ Forward(t) \/ Stall(t) \/ Write(t)
      PROVE  TimesInv'
  BY <1>2, SfuStepInv, WriteInv
<1>3. ASSUME NEW t \in Track, NEW key \in BOOLEAN, Packet(t, key)
      PROVE  TimesInv'
  BY <1>3, PacketInv
<1>4. ASSUME NEW t \in Track, NEW outcome \in {"arrives", "lost", "fails"},
             PliTick(t, outcome)
      PROVE  TimesInv'
  BY <1>4, SfuStepInv
<1>5. ASSUME NEW t \in Track, Break(PeerOf[t]) \/ PeerLeaves(PeerOf[t])
      PROVE  TimesInv'
  BY <1>5, SfuStepInv, PeerLeavesInv
<1>6. CASE StartRecording \/ Stop \/ Finalize
  BY <1>6, RecordingStepInv
<1>7. CASE RequestKeyframe
  <2>1. /\ track \in [Track -> States]
        /\ pli \subseteq Video /\ quit \subseteq Video /\ asked \subseteq Video
    BY DEF TimesInv, TypeOK, States
  <2> QED
    BY <1>7, <2>1, RecordingKept DEF RequestKeyframe, pliVars
<1>8. CASE UNCHANGED vars
  <2>1. /\ track \in [Track -> States] /\ starting \in BOOLEAN
        /\ pli \subseteq Video /\ quit \subseteq Video /\ asked \subseteq Video
    BY DEF TimesInv, TypeOK, States
  <2> QED
    BY <1>8, <2>1, RecordingKept DEF vars, recVars, pliVars
<1> QED
  BY <1>1, <1>2, <1>3, <1>4, <1>5, <1>6, <1>7, <1>8 DEF Next

-----------------------------------------------------------------------------
(* The command is made once, of tracks that do not change after it. *)

LEMMA CmdKept ==
  ASSUME CmdInv, UNCHANGED <<rec, offset, cmd>>
  PROVE  CmdInv'
BY DEF CmdInv, TrackOrders, Recorded, Writers

LEMMA CmdStep == CmdInv /\ [Next]_vars => CmdInv'
<1> SUFFICES ASSUME CmdInv, [Next]_vars PROVE CmdInv'
  OBVIOUS
<1>1. CASE Tick
  BY <1>1, CmdKept DEF Tick, recVars
<1>2. ASSUME NEW t \in Track, Publish(t) \/ Forward(t) \/ Stall(t) \/ Write(t)
      PROVE  CmdInv'
  BY <1>2, CmdKept DEF Publish, Forward, Stall, Write, recVars
<1>3. ASSUME NEW t \in Track, NEW outcome, PliTick(t, outcome) PROVE CmdInv'
  BY <1>3, CmdKept DEF PliTick, recVars
<1>4. ASSUME NEW t \in Track, NEW key \in BOOLEAN, Packet(t, key) PROVE CmdInv'
  <2>1. CASE rec = "on"
    BY <1>4, <2>1 DEF Packet, CmdInv
  <2>2. CASE rec # "on"
    BY <1>4, <2>2, CmdKept DEF Packet
  <2> QED
    BY <2>1, <2>2
<1>5. ASSUME NEW t \in Track, Break(PeerOf[t]) \/ PeerLeaves(PeerOf[t]) PROVE CmdInv'
  BY <1>5, CmdKept DEF Break, PeerLeaves, recVars
<1>6. CASE StartRecording \/ Stop
  BY <1>6 DEF StartRecording, Stop, CmdInv
<1>7. CASE RequestKeyframe
  BY <1>7, CmdKept DEF RequestKeyframe
<1>8. CASE Finalize
  <2>1. rec' = "done" /\ offset' = offset
    BY <1>8 DEF Finalize
  <2>2. TrackOrders' = TrackOrders /\ \A order : Recorded(order)' = Recorded(order)
    BY <2>1 DEF TrackOrders, Recorded, Writers
  <2>3. cmd' = None \/ \E order \in TrackOrders : cmd' = Mux(Recorded(order))
    BY <1>8 DEF Finalize
  <2> QED
    BY <2>1, <2>2, <2>3 DEF CmdInv
<1>9. CASE UNCHANGED vars
  BY <1>9, CmdKept DEF vars, recVars
<1> QED
  BY <1>1, <1>2, <1>3, <1>4, <1>5, <1>6, <1>7, <1>8, <1>9 DEF Next

-----------------------------------------------------------------------------

\* However packets, leaves and the recording's start and stop interleave: the
\* times of a recording run from its start, and the command of ffmpeg is that
\* of the tracks that were recorded.
THEOREM Invariance == Spec => []IndInv
<1>1. Init => IndInv
  <2>1. Init => CmdInv
    BY DEF Init, CmdInv
  <2> QED
    BY <2>1, TimesInit DEF IndInv, TimesInv
<1>2. IndInv /\ [Next]_vars => IndInv'
  BY TimesStep, CmdStep DEF IndInv, TimesInv
<1> QED
  BY <1>1, <1>2, PTL DEF Spec

\* Every variable keeps its type, and only videos are asked for key frames.
THEOREM TypeCorrect == Spec => []TypeOK
<1>1. IndInv => TypeOK
  BY DEF IndInv
<1> QED
  BY <1>1, Invariance, PTL

\* The offset of a track in the mux is that of the first packet in its file,
\* and only a file that was closed before that packet was written stays empty
\* (WriteRTP, session.go).
THEOREM InSyncHolds == Spec => []InSync
<1>1. IndInv => InSync
  BY DEF IndInv
<1> QED
  BY <1>1, Invariance, PTL

\* ffmpeg accepts the command of a recording that has a track of each kind and
\* no empty file (Mux, ffmpeg.go), however many tracks there are.
THEOREM BothKindsAcceptedHolds == Spec => []BothKindsAccepted
BY BothKindsInv, Invariance, PTL

\* "no video -- generate black 1x1 placeholder" (ffmpeg.go:69; ffmpeg.go:93
\* generates silence likewise) does not come about: no recording with tracks of
\* one kind only is ever muxed.
THEOREM SingleKindRefusedHolds == Spec => []SingleKindRefused
BY SingleKindInv, Invariance, PTL

\* Every recorded track is in the result once, delayed by its offset, in the
\* filter of its kind, and the pictures are in the order of the peers (Mux,
\* ffmpeg.go; Tracks, session.go), however many tracks there are.
THEOREM MuxedOnceHolds == Spec => []MuxedOnce
BY MuxedOnceInv, Invariance, PTL

=============================================================================
