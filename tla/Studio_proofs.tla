----------------------------- MODULE Studio_proofs -----------------------------
(***************************************************************************)
(* The parts of Claude Studio that share nothing but files and rows: each  *)
(* is proved for every value of its constants, in the behaviours of        *)
(* MCStudio where it is the one looked at.                                 *)
(***************************************************************************)
EXTENDS MCStudio, Integers, Sequences, FiniteSetTheorems, TLAPS

------------------------------------------------------------------------------
(* A finished render shows its timeline.                                       *)

Fields == {"at", "timeline", "keys", "seen"}

RenderTypes ==
  /\ DOMAIN render = Renders
  /\ \A r \in Renders :
       /\ Fields \subseteq DOMAIN render[r]
       /\ render[r].timeline \in Timelines \cup {<<>>}
       /\ render[r].keys \in Seq(Re!Shown)
       /\ Len(render[r].keys) <= Len(render[r].timeline)
  /\ source \in [Media -> Versions \cup {Re!Absent}]
  /\ segments \in [Re!Shown -> SUBSET Re!Shown] /\ swapped \subseteq Re!Shown
  /\ DOMAIN film = Outputs /\ DOMAIN wanted = Outputs

\* The keys of a command are those of the first clips of its timeline.
KeysFollowTimeline ==
  \A r \in Renders : \A n \in DOMAIN render[r].keys :
    /\ render[r].keys[n].length = render[r].timeline[n].end - render[r].timeline[n].start
    /\ render[r].keys[n].text = render[r].timeline[n].text

\* A segment shows what its key says, unless its source was replaced meanwhile.
SegmentsAreTrue ==
  \A k \in Re!Shown : /\ \E s \in Re!Shown : segments[k] \subseteq {s}
                      /\ k \notin swapped => segments[k] \subseteq {k}

WholeCommand(r) == Len(render[r].keys) = Len(render[r].timeline)

\* A command that encodes has come to a clip; one that has come to its end has all
\* its keys, and what it joined is what the keys say.
JoinedIsTrue ==
  \A r \in Renders :
    /\ render[r].at = "encode" => render[r].keys # <<>>
    /\ render[r].at \in {"prune", "concat", "mux"} => WholeCommand(r)
    /\ render[r].at = "mux" =>
         /\ DOMAIN render[r].seen = DOMAIN render[r].keys
         /\ Len(render[r].seen) = Len(render[r].keys)
         /\ \A n \in DOMAIN render[r].keys :
              /\ render[r].seen[n].version = render[r].keys[n].version
              /\ render[r].seen[n].swapped \/ render[r].seen[n].shown = render[r].keys[n]

RenderInv == RenderTypes /\ KeysFollowTimeline /\ SegmentsAreTrue /\ JoinedIsTrue /\ Re!RenderIsFaithful

\* The clip a command comes to, and the one it has come to.
LEMMA ClipIsTimed ==
  ASSUME Re!RenderAssumption, RenderTypes, NEW r \in Renders, NEW n \in DOMAIN render[r].timeline
  PROVE  LET clip == render[r].timeline[n]
         IN /\ clip.media \in Media /\ clip.end - clip.start \in Re!Lengths /\ clip.text \in Re!Texts
            /\ source[clip.media] \in Versions \cup {Re!Absent}
<1> DEFINE t == render[r].timeline
<1>1. t \in Timelines
  <2>1. t # <<>>  OBVIOUS
  <2> QED  BY <2>1 DEF RenderTypes
<1>2. t \in Seq([media : Media, start : Int, end : Int, text : Re!Texts])
  BY <1>1 DEF Re!RenderAssumption
<1>0. n \in DOMAIN t  OBVIOUS
<1>3. t[n] \in [media : Media, start : Int, end : Int, text : Re!Texts]
  <2> DEFINE S == [media : Media, start : Int, end : Int, text : Re!Texts]
  <2>1. t \in Seq(S)  BY <1>2
  <2> HIDE DEF t, S
  <2>2. t[n] \in S  BY <1>0, <2>1
  <2> QED  BY <2>2 DEF S
<1>4. t[n].end - t[n].start \in Re!Lengths  BY <1>1 DEF Re!Lengths
<1> QED  BY <1>3, <1>4 DEF RenderTypes

\* A command that ends leaves the invariant.
LEMMA RestKeeps ==
  ASSUME RenderInv, NEW r \in Renders, Re!Quit(r),
         UNCHANGED <<source, segments, swapped>>,
         DOMAIN film' = Outputs, DOMAIN wanted' = Outputs, Re!RenderIsFaithful'
  PROVE  RenderInv'
<1> DEFINE rest == Re!Rest
<1>1. /\ Fields \subseteq DOMAIN rest
      /\ rest.timeline = <<>> /\ rest.keys = <<>> /\ rest.at = "idle"
  BY DEF Re!Rest, Re!NoTimeline, Fields
<1>2. render' = [render EXCEPT ![r] = rest]  BY DEF Re!Quit
<1> HIDE DEF rest
<1>3. /\ DOMAIN render' = Renders /\ render'[r] = rest
      /\ \A s \in Renders \ {r} : render'[s] = render[s]
  BY <1>2 DEF RenderInv, RenderTypes
<1>4. RenderTypes'
  <2>1. rest.keys \in Seq(Re!Shown) /\ Len(rest.keys) <= Len(rest.timeline)  BY <1>1
  <2>2. \A s \in Renders :
          /\ Fields \subseteq DOMAIN render'[s]
          /\ render'[s].timeline \in Timelines \cup {<<>>}
    BY <1>1, <1>3 DEF RenderInv, RenderTypes
  <2> QED  BY <1>3, <2>1, <2>2 DEF RenderInv, RenderTypes
<1>5. KeysFollowTimeline'  BY <1>1, <1>3 DEF RenderInv, KeysFollowTimeline
<1>6. JoinedIsTrue'  BY <1>1, <1>3 DEF RenderInv, JoinedIsTrue, WholeCommand
<1>7. SegmentsAreTrue'  BY DEF RenderInv, SegmentsAreTrue
<1> QED  BY <1>4, <1>5, <1>6, <1>7 DEF RenderInv

\* The commands that begin.
LEMMA BeginKeeps ==
  ASSUME Re!RenderAssumption, RenderInv, NEW r \in Renders, NEW out \in Outputs, NEW t \in Timelines, Re!Begin(r, out, t)
  PROVE  RenderInv'
<1> DEFINE new == [Re!Rest EXCEPT !.at = "clip", !.out = out, !.timeline = t, !.begun = TRUE]
<1>1. /\ Fields \subseteq DOMAIN new
      /\ new.timeline = t /\ new.keys = <<>> /\ new.at = "clip"
  BY DEF Re!Rest, Re!NoTimeline, Fields
<1>2. /\ render' = render \/ render' = [render EXCEPT ![r] = new]
      /\ UNCHANGED <<source, segments, swapped, film, wanted>>
  BY DEF Re!Begin, Re!cache
<1>0. Len(t) >= 0  BY DEF Re!RenderAssumption
<1> HIDE DEF new
<1>3. /\ DOMAIN render' = Renders /\ render'[r] \in {render[r], new}
      /\ \A s \in Renders \ {r} : render'[s] = render[s]
  BY <1>2 DEF RenderInv, RenderTypes
<1>4. RenderTypes'
  <2>1. new.keys \in Seq(Re!Shown) /\ Len(new.keys) <= Len(new.timeline)  BY <1>0, <1>1
  <2>2. \A s \in Renders :
          /\ Fields \subseteq DOMAIN render'[s]
          /\ render'[s].timeline \in Timelines \cup {<<>>}
    BY <1>1, <1>3 DEF RenderInv, RenderTypes
  <2> QED  BY <1>2, <1>3, <2>1, <2>2 DEF RenderInv, RenderTypes
<1>5. KeysFollowTimeline'  BY <1>1, <1>2, <1>3 DEF RenderInv, KeysFollowTimeline
<1>6. JoinedIsTrue'  BY <1>1, <1>2, <1>3 DEF RenderInv, JoinedIsTrue, WholeCommand
<1>7. SegmentsAreTrue'  BY <1>2 DEF RenderInv, SegmentsAreTrue
<1>8. Re!RenderIsFaithful'  BY <1>2 DEF RenderInv, Re!RenderIsFaithful
<1> QED  BY <1>4, <1>5, <1>6, <1>7, <1>8 DEF RenderInv

LEMMA NextClipKeeps ==
  ASSUME Re!RenderAssumption, RenderInv, NEW r \in Renders, Re!NextClip(r) PROVE RenderInv'
<1> DEFINE line == render[r].timeline
           had == render[r].keys
<1>1. /\ UNCHANGED <<source, segments, film, wanted, swapped>> /\ render[r].at = "clip"
      /\ Re!RenderIsFaithful'
  BY DEF Re!NextClip, Re!At, RenderInv, Re!RenderIsFaithful
<1>2. CASE Len(had) # Len(line) /\ source[Re!Clip(r).media] = Re!Absent
  <2>1. Re!Quit(r)  BY <1>2 DEF Re!NextClip
  <2> QED  BY <1>1, <2>1, RestKeeps DEF RenderInv, RenderTypes
<1>3. CASE Len(had) = Len(line)
  <2>1. render' = [render EXCEPT ![r].at = "prune"]  BY <1>3 DEF Re!NextClip
  <2>2. RenderTypes'  BY <1>1, <2>1 DEF RenderInv, RenderTypes, Fields
  <2>3. KeysFollowTimeline'  BY <2>1 DEF RenderInv, KeysFollowTimeline, RenderTypes, Fields
  <2>4. JoinedIsTrue'
    BY <1>3, <2>1 DEF RenderInv, JoinedIsTrue, WholeCommand, RenderTypes, Fields
  <2>5. SegmentsAreTrue'  BY <1>1 DEF RenderInv, SegmentsAreTrue
  <2> QED  BY <1>1, <2>2, <2>3, <2>4, <2>5 DEF RenderInv
<1>4. CASE Len(had) # Len(line) /\ source[Re!Clip(r).media] # Re!Absent
  <2> DEFINE key == Re!SegmentKey(Re!Clip(r))
             n == Len(had) + 1
  <2>1. PICK label \in {"clip", "encode"} :
          render' = [render EXCEPT ![r].keys = Append(@, key), ![r].at = label]
    BY <1>4 DEF Re!NextClip, Re!Remember
  <2>2. n \in DOMAIN line /\ n \in Nat /\ n <= Len(line) /\ had \in Seq(Re!Shown)
    BY <1>4 DEF RenderInv, RenderTypes, Re!RenderAssumption
  <2>3. Re!Clip(r) = line[n]  BY DEF Re!Clip
  <2>4. /\ key \in Re!Shown
        /\ key.length = line[n].end - line[n].start /\ key.text = line[n].text
    BY <1>4, <2>2, <2>3, ClipIsTimed DEF Re!SegmentKey, Re!Shown, RenderInv
  <2> DEFINE after == Append(had, key)
  <2>5. /\ after \in Seq(Re!Shown) /\ Len(after) = n /\ DOMAIN after = 1 .. n
        /\ \A k \in 1 .. n : after[k] = IF k = n THEN key ELSE had[k]
        /\ DOMAIN had = 1 .. n - 1
    <3> HIDE DEF key
    <3> QED  BY <2>2, <2>4
  <2>6. /\ DOMAIN render' = Renders
        /\ render'[r].keys = after /\ render'[r].timeline = line /\ render'[r].at \in {"clip", "encode"}
        /\ Fields \subseteq DOMAIN render'[r]
        /\ \A s \in Renders \ {r} : render'[s] = render[s]
    <3> HIDE DEF key
    <3> QED  BY <2>1 DEF RenderInv, RenderTypes, Fields
  <2> HIDE DEF after, key, n, line, had
  <2>7. line = render[r].timeline  BY DEF line
  <2>8. had = render[r].keys  BY DEF had
  <2>9. RenderTypes'  BY <1>1, <2>2, <2>5, <2>6, <2>7 DEF RenderInv, RenderTypes
  <2>10. KeysFollowTimeline'
    <3>1. ASSUME NEW k \in DOMAIN render'[r].keys
          PROVE  /\ render'[r].keys[k].length = line[k].end - line[k].start
                 /\ render'[r].keys[k].text = line[k].text
      <4>1. CASE k = n  BY <2>4, <2>5, <2>6, <3>1, <4>1
      <4>2. CASE k # n
        <5>1. k \in DOMAIN had /\ after[k] = had[k]  BY <2>2, <2>5, <2>6, <3>1, <4>2
        <5> QED  BY <2>6, <2>7, <2>8, <5>1 DEF RenderInv, KeysFollowTimeline
      <4> QED  BY <4>1, <4>2
    <3> QED  BY <2>6, <3>1 DEF RenderInv, KeysFollowTimeline
  <2>13. after # <<>>
    <3>1. DOMAIN after # {}  BY <2>2, <2>5
    <3> QED  BY <3>1
  <2>11. JoinedIsTrue'  BY <2>6, <2>13 DEF RenderInv, JoinedIsTrue, WholeCommand
  <2>12. SegmentsAreTrue'  BY <1>1 DEF RenderInv, SegmentsAreTrue
  <2> QED  BY <1>1, <2>9, <2>10, <2>11, <2>12 DEF RenderInv
<1> QED  BY <1>2, <1>3, <1>4

\* A step that leaves the keys and timelines of the commands: what is to be shown of it.
LEMMA KeysStay ==
  ASSUME RenderInv, DOMAIN render' = Renders,
         \A r \in Renders : /\ render'[r].keys = render[r].keys
                            /\ render'[r].timeline = render[r].timeline
                            /\ Fields \subseteq DOMAIN render'[r],
         source' = source, segments' \in [Re!Shown -> SUBSET Re!Shown], swapped' \subseteq Re!Shown,
         UNCHANGED <<film, wanted>>
  PROVE  RenderTypes' /\ KeysFollowTimeline' /\ Re!RenderIsFaithful'
<1>1. RenderTypes'  BY DEF RenderInv, RenderTypes
<1>2. KeysFollowTimeline'  BY DEF RenderInv, KeysFollowTimeline
<1>3. Re!RenderIsFaithful'  BY DEF RenderInv, Re!RenderIsFaithful
<1> QED  BY <1>1, <1>2, <1>3

LEMMA EncodeKeeps ==
  ASSUME Re!RenderAssumption, RenderInv, NEW r \in Renders, Re!Encode(r) PROVE RenderInv'
<1> DEFINE key == render[r].keys[Re!Last(r)]
           clip == render[r].timeline[Re!Last(r)]
           version == source[clip.media]
           made == [version |-> version, text |-> clip.text, length |-> clip.end - clip.start]
<1>1. UNCHANGED <<source, film, wanted>> /\ Re!RenderIsFaithful'
  BY DEF Re!Encode, RenderInv, Re!RenderIsFaithful
<1>2. CASE Re!Quit(r) /\ UNCHANGED <<segments, swapped>>
  BY <1>1, <1>2, RestKeeps DEF RenderInv, RenderTypes
<1>3. CASE /\ version # Re!Absent
           /\ segments' = [segments EXCEPT ![key] = {made}]
           /\ swapped' = IF version = key.version THEN swapped \ {key} ELSE swapped \cup {key}
           /\ render' = [render EXCEPT ![r].at = "clip"]
  <2>1. /\ render[r].at = "encode" /\ DOMAIN render = Renders /\ Fields \subseteq DOMAIN render[r]
        /\ render[r].keys \in Seq(Re!Shown) /\ render[r].keys # <<>>
        /\ Len(render[r].keys) <= Len(render[r].timeline)
    BY DEF Re!Encode, Re!At, RenderInv, RenderTypes, JoinedIsTrue
  <2>2. Re!Last(r) \in DOMAIN render[r].keys /\ Re!Last(r) \in DOMAIN render[r].timeline
    <3>1. Len(render[r].keys) \in 1 .. Len(render[r].timeline)  BY <2>1
    <3>2. render[r].timeline \in Seq([media : Media, start : Int, end : Int, text : Re!Texts]) \cup {<<>>}
      BY DEF RenderInv, RenderTypes, Re!RenderAssumption
    <3> QED  BY <2>1, <3>1, <3>2 DEF Re!Last
  <2>3. /\ key \in Re!Shown /\ key.length = clip.end - clip.start /\ key.text = clip.text
    BY <2>1, <2>2 DEF RenderInv, KeysFollowTimeline
  <2>4. made \in Re!Shown
    BY <1>3, <2>2, ClipIsTimed DEF Re!Shown, RenderInv
  <2>5. version = key.version => made = key
    <3>1. key = [version |-> key.version, length |-> key.length, text |-> key.text]  BY <2>3 DEF Re!Shown
    <3> QED  BY <2>3, <3>1
  <2> HIDE DEF key, made, version, clip
  <2>6. /\ segments' \in [Re!Shown -> SUBSET Re!Shown] /\ swapped' \subseteq Re!Shown
        /\ segments'[key] = {made} /\ \A k \in Re!Shown \ {key} : segments'[k] = segments[k]
        /\ key \in swapped' <=> version # key.version
        /\ \A k \in Re!Shown \ {key} : k \in swapped' <=> k \in swapped
    BY <1>3, <2>3, <2>4 DEF RenderInv, RenderTypes
  <2>7. /\ DOMAIN render' = Renders
        /\ \A s \in Renders : /\ render'[s].keys = render[s].keys /\ render'[s].timeline = render[s].timeline
                              /\ render'[s].seen = render[s].seen
                              /\ render'[s].at = IF s = r THEN "clip" ELSE render[s].at
                              /\ Fields \subseteq DOMAIN render'[s]
    BY <1>3, <2>1 DEF RenderInv, RenderTypes, Fields
  <2>8. RenderTypes' /\ KeysFollowTimeline' /\ Re!RenderIsFaithful'  BY <1>1, <2>6, <2>7, KeysStay
  <2>9. JoinedIsTrue'  BY <2>7 DEF RenderInv, JoinedIsTrue, WholeCommand
  <2>10. SegmentsAreTrue'  BY <2>4, <2>5, <2>6 DEF RenderInv, SegmentsAreTrue
  <2> QED  BY <2>8, <2>9, <2>10 DEF RenderInv
<1> QED  BY <1>2, <1>3 DEF Re!Encode

LEMMA PruneKeeps ==
  ASSUME RenderInv, NEW r \in Renders, Re!Prune(r) PROVE RenderInv'
<1> DEFINE old == {k \in Re!Shown \ Re!Used(r) : r \notin newer[k]}
<1>1. /\ UNCHANGED <<source, film, wanted>> /\ swapped' = swapped \ old
      /\ segments' = [k \in Re!Shown |-> IF k \in old THEN {} ELSE segments[k]]
      /\ render' = [render EXCEPT ![r].at = "concat"] /\ render[r].at = "prune"
  BY DEF Re!Prune, Re!At
<1> HIDE DEF old
<1>2. /\ DOMAIN render' = Renders
      /\ \A s \in Renders : /\ render'[s].keys = render[s].keys /\ render'[s].timeline = render[s].timeline
                            /\ render'[s].seen = render[s].seen
                            /\ render'[s].at = IF s = r THEN "concat" ELSE render[s].at
                            /\ Fields \subseteq DOMAIN render'[s]
  BY <1>1 DEF RenderInv, RenderTypes, Fields
<1>3. segments' \in [Re!Shown -> SUBSET Re!Shown] /\ swapped' \subseteq Re!Shown
  BY <1>1 DEF RenderInv, RenderTypes
<1>4. RenderTypes' /\ KeysFollowTimeline' /\ Re!RenderIsFaithful'  BY <1>1, <1>2, <1>3, KeysStay
<1>5. JoinedIsTrue'  BY <1>1, <1>2 DEF RenderInv, JoinedIsTrue, WholeCommand
<1>6. SegmentsAreTrue'  BY <1>1 DEF RenderInv, SegmentsAreTrue
<1> QED  BY <1>4, <1>5, <1>6 DEF RenderInv

LEMMA ConcatKeeps ==
  ASSUME RenderInv, NEW r \in Renders, Re!Concat(r) PROVE RenderInv'
<1> DEFINE had == render[r].keys
           joined == [n \in DOMAIN had |-> [shown |-> CHOOSE s \in segments[had[n]] : TRUE,
                                            swapped |-> had[n] \in swapped, version |-> had[n].version]]
<1>1. /\ UNCHANGED <<source, segments, film, wanted, swapped>> /\ render[r].at = "concat"
      /\ Re!RenderIsFaithful'
  BY DEF Re!Concat, Re!At, RenderInv, Re!RenderIsFaithful
<1>2. CASE \E k \in Re!Used(r) : segments[k] = {}
  <2>1. Re!Quit(r)  BY <1>2 DEF Re!Concat
  <2> QED  BY <1>1, <2>1, RestKeeps DEF RenderInv, RenderTypes
<1>3. CASE ~\E k \in Re!Used(r) : segments[k] = {}
  <2>1. render' = [render EXCEPT ![r].at = "mux", ![r].seen = joined]
    BY <1>3 DEF Re!Concat
  <2>2. had \in Seq(Re!Shown) /\ WholeCommand(r)
    BY <1>1 DEF RenderInv, RenderTypes, JoinedIsTrue
  <2>3. ASSUME NEW n \in DOMAIN had
        PROVE  /\ joined[n].version = had[n].version
               /\ joined[n].swapped \/ joined[n].shown = had[n]
    <3>1. had[n] \in Re!Shown /\ segments[had[n]] # {}
      BY <1>3, <2>2, <2>3 DEF Re!Used
    <3>2. (CHOOSE s \in segments[had[n]] : TRUE) \in segments[had[n]]  BY <3>1
    <3> QED  BY <3>1, <3>2 DEF RenderInv, SegmentsAreTrue
  <2>4. DOMAIN joined = DOMAIN had /\ Len(joined) = Len(had)
    <3>1. DOMAIN joined = 1 .. Len(had) /\ Len(had) \in Nat  BY <2>2
    <3> HIDE DEF joined
    <3> QED  BY <2>2, <3>1
  <2> HIDE DEF joined
  <2>5. /\ DOMAIN render' = Renders /\ render'[r].seen = joined
        /\ \A s \in Renders : /\ render'[s].keys = render[s].keys /\ render'[s].timeline = render[s].timeline
                              /\ s # r => render'[s].seen = render[s].seen
                              /\ render'[s].at = IF s = r THEN "mux" ELSE render[s].at
                              /\ Fields \subseteq DOMAIN render'[s]
    BY <2>1 DEF RenderInv, RenderTypes, Fields
  <2>6. RenderTypes' /\ KeysFollowTimeline' /\ Re!RenderIsFaithful'
    BY <1>1, <2>5, KeysStay DEF RenderInv, RenderTypes
  <2>7. JoinedIsTrue'
    <3>1. ASSUME NEW s \in Renders \ {r}
          PROVE  /\ render'[s].at = "encode" => render'[s].keys # <<>>
                 /\ render'[s].at \in {"prune", "concat", "mux"} => WholeCommand(s)'
                 /\ render'[s].at = "mux" =>
                      /\ DOMAIN render'[s].seen = DOMAIN render'[s].keys
                      /\ Len(render'[s].seen) = Len(render'[s].keys)
                      /\ \A n \in DOMAIN render'[s].keys :
                           /\ render'[s].seen[n].version = render'[s].keys[n].version
                           /\ render'[s].seen[n].swapped \/ render'[s].seen[n].shown = render'[s].keys[n]
      BY <2>5, <3>1 DEF RenderInv, JoinedIsTrue, WholeCommand
    <3>2. WholeCommand(r)'  BY <2>2, <2>5 DEF WholeCommand
    <3> QED  BY <2>3, <2>4, <2>5, <3>1, <3>2 DEF JoinedIsTrue
  <2>8. SegmentsAreTrue'  BY <1>1 DEF RenderInv, SegmentsAreTrue
  <2> QED  BY <2>6, <2>7, <2>8 DEF RenderInv
<1> QED  BY <1>2, <1>3

LEMMA MuxKeeps ==
  ASSUME RenderInv, NEW r \in Renders, Re!Mux(r) PROVE RenderInv'
<1> DEFINE out == render[r].out
<1>1. /\ Re!Quit(r) /\ UNCHANGED <<source, segments, swapped>> /\ render[r].at = "mux"
      /\ \/ UNCHANGED <<film, wanted>>
         \/ /\ film' = [film EXCEPT ![out] = render[r].seen]
            /\ wanted' = [wanted EXCEPT ![out] = render[r].timeline]
  BY DEF Re!Mux, Re!At
<1>2. CASE UNCHANGED <<film, wanted>>
  <2>1. Re!RenderIsFaithful'  BY <1>2 DEF RenderInv, Re!RenderIsFaithful
  <2> QED  BY <1>1, <1>2, <2>1, RestKeeps DEF RenderInv, RenderTypes
<1>3. CASE /\ film' = [film EXCEPT ![out] = render[r].seen]
           /\ wanted' = [wanted EXCEPT ![out] = render[r].timeline]
  <2> DEFINE seen == render[r].seen
  <2> HIDE DEF out
  <2>0. DOMAIN film' = Outputs /\ DOMAIN wanted' = Outputs  BY <1>3 DEF RenderInv, RenderTypes
  <2>1. ASSUME NEW n \in DOMAIN render[r].seen
        PROVE  LET clip == render[r].timeline[n]
                   seg == render[r].seen[n]
               IN /\ Len(render[r].seen) = Len(render[r].timeline)
                  /\ seg.swapped \/ seg.shown = [version |-> seg.version, length |-> clip.end - clip.start,
                                                 text |-> clip.text]
    <3>1. /\ Len(render[r].seen) = Len(render[r].timeline) /\ n \in DOMAIN render[r].keys
          /\ render[r].seen[n].version = render[r].keys[n].version
          /\ render[r].seen[n].swapped \/ render[r].seen[n].shown = render[r].keys[n]
      BY <1>1 DEF RenderInv, JoinedIsTrue, WholeCommand
    <3>2. /\ render[r].keys[n].length = render[r].timeline[n].end - render[r].timeline[n].start
          /\ render[r].keys[n].text = render[r].timeline[n].text
      BY <3>1 DEF RenderInv, KeysFollowTimeline
    <3>3. render[r].keys[n] \in Re!Shown  BY <3>1 DEF RenderInv, RenderTypes
    <3>4. render[r].keys[n] = [version |-> render[r].keys[n].version, length |-> render[r].keys[n].length,
                               text |-> render[r].keys[n].text]
      BY <3>3 DEF Re!Shown
    <3> QED  BY <3>1, <3>2, <3>4
  <2>2. \A o \in Outputs : \/ film'[o] = film[o] /\ wanted'[o] = wanted[o]
                           \/ film'[o] = render[r].seen /\ wanted'[o] = render[r].timeline
    BY <1>3 DEF RenderInv, RenderTypes
  <2>3. Re!RenderIsFaithful'
    <3>1. ASSUME NEW o \in Outputs, NEW n \in DOMAIN film'[o]
          PROVE  /\ Len(film'[o]) = Len(wanted'[o])
                 /\ film'[o][n].swapped \/ film'[o][n].shown =
                      [version |-> film'[o][n].version, length |-> wanted'[o][n].end - wanted'[o][n].start,
                       text |-> wanted'[o][n].text]
      <4>1. CASE film'[o] = film[o] /\ wanted'[o] = wanted[o]
        BY <4>1, <3>1 DEF RenderInv, Re!RenderIsFaithful
      <4>2. CASE film'[o] = render[r].seen /\ wanted'[o] = render[r].timeline
        <5>1. n \in DOMAIN render[r].seen  BY <3>1, <4>2
        <5> QED  BY <2>1, <4>2, <5>1
      <4> QED  BY <2>2, <4>1, <4>2
    <3> QED  BY <3>1 DEF Re!RenderIsFaithful
  <2> QED  BY <1>1, <2>0, <2>3, RestKeeps
<1> QED  BY <1>1, <1>2, <1>3

LEMMA RenderStep ==
  ASSUME Re!RenderAssumption, RenderInv, [Re!Next]_(Re!vars) PROVE RenderInv'
<1>1. ASSUME NEW r \in Renders, Re!Kill(r) PROVE RenderInv'
  <2>1. Re!Quit(r) /\ UNCHANGED <<source, segments, film, wanted, swapped>>  BY <1>1 DEF Re!Kill
  <2>2. Re!RenderIsFaithful'  BY <2>1 DEF RenderInv, Re!RenderIsFaithful
  <2> QED  BY <2>1, <2>2, RestKeeps DEF RenderInv, RenderTypes
<1>2. ASSUME NEW m \in Media, NEW v \in Versions \cup {Re!Absent}, Re!Replace(m, v) PROVE RenderInv'
  <2>1. /\ UNCHANGED <<render, segments, film, wanted, swapped>> /\ source' = [source EXCEPT ![m] = v]
    BY <1>2 DEF Re!Replace, Re!cache
  <2> QED  BY <2>1 DEF RenderInv, RenderTypes, KeysFollowTimeline, SegmentsAreTrue, JoinedIsTrue, WholeCommand,
                       Re!RenderIsFaithful
<1>3. CASE UNCHANGED Re!vars
  <2>1. UNCHANGED <<render, source, segments, film, wanted, swapped>>  BY <1>3 DEF Re!vars, Re!cache
  <2> QED  BY <2>1 DEF RenderInv, RenderTypes, KeysFollowTimeline, SegmentsAreTrue, JoinedIsTrue, WholeCommand,
                       Re!RenderIsFaithful
<1> QED
  BY <1>1, <1>2, <1>3, NextClipKeeps, EncodeKeeps, PruneKeeps, ConcatKeeps, MuxKeeps, BeginKeeps DEF Re!Next

\* The renders keep their keys, their segments and what they join.
LEMMA RenderIsKept ==
  ASSUME Re!RenderAssumption PROVE StudioSpec => [](focus = "render" => RenderInv)
<1> DEFINE Holds == focus = "render" => RenderInv
<1>1. StudioInit => Holds
  <2>1. ASSUME Re!Init PROVE RenderInv
    <3> DEFINE rest == Re!Rest
    <3>1. Fields \subseteq DOMAIN rest /\ rest.timeline = <<>> /\ rest.keys = <<>> /\ rest.at = "idle"
      BY DEF Re!Rest, Re!NoTimeline, Fields
    <3>2. render = [r \in Renders |-> rest]  BY <2>1 DEF Re!Init
    <3> HIDE DEF rest
    <3>6. rest.keys \in Seq(Re!Shown) /\ Len(rest.keys) <= Len(rest.timeline)  BY <3>1
    <3>7. source \in [Media -> Versions]  BY <2>1 DEF Re!Init
    <3>8. /\ segments = [k \in Re!Shown |-> {}] /\ swapped = {}
          /\ DOMAIN film = Outputs /\ DOMAIN wanted = Outputs
      BY <2>1 DEF Re!Init
    <3>9. source \in [Media -> Versions \cup {Re!Absent}]  BY <3>7
    <3>3. RenderTypes  BY <3>1, <3>2, <3>6, <3>8, <3>9 DEF RenderTypes
    <3>4. KeysFollowTimeline /\ JoinedIsTrue  BY <3>1, <3>2 DEF KeysFollowTimeline, JoinedIsTrue
    <3>5. SegmentsAreTrue /\ Re!RenderIsFaithful  BY <2>1 DEF Re!Init, SegmentsAreTrue, Re!RenderIsFaithful
    <3> QED  BY <3>3, <3>4, <3>5 DEF RenderInv
  <2> QED  BY <2>1 DEF StudioInit
<1>2. Holds /\ [StudioNext]_all => Holds'
  <2> SUFFICES ASSUME Holds, [StudioNext]_all, focus' = "render" PROVE RenderInv'  OBVIOUS
  <2>1. focus = "render" /\ (Re!Next \/ UNCHANGED Re!vars)
    <3>1. CASE StudioNext  BY <3>1 DEF StudioNext
    <3>2. CASE UNCHANGED all  BY <3>2 DEF all, tools, montage, Re!vars, Re!cache
    <3> QED  BY <3>1, <3>2
  <2> QED  BY <2>1, RenderStep
<1> HIDE DEF Holds
<1>3. StudioSpec => []Holds  BY <1>1, <1>2, PTL DEF StudioSpec
<1> QED  BY <1>3 DEF Holds

\* A finished render shows its timeline, for any timelines, contents and number of
\* commands at once, through reuse, pruning, failures and kills (render.py).
THEOREM RendersAreFaithful ==
  ASSUME Re!RenderAssumption PROVE StudioSpec => []RenderIsFaithful
<1> DEFINE Holds == focus = "render" => RenderInv
<1>1. Holds => RenderIsFaithful  BY DEF RenderIsFaithful, RenderInv
<1>2. StudioSpec => []Holds  BY RenderIsKept
<1> HIDE DEF Holds
<1> QED  BY <1>1, <1>2, PTL

------------------------------------------------------------------------------
(* The status of the voice names the engine of every line.                     *)

\* The speakers of an engine that speaks.
Voices(x) == CASE x = "gemini" -> {"gemini", "gemini-vertex"}
               [] x = "edge" -> {"edge-tts"}
               [] OTHER -> {x}

Spoken == Voices(Sp!Effective(Sp!Engine, keys))

InLine == {"ask", "file", "meta"}

SpeechTypes ==
  /\ {"at", "script", "trial", "chain", "made", "used", "tries", "vertex"} \subseteq DOMAIN tts
  /\ tts.script \in Scripts \cup {<<>>} /\ tts.chain \in Seq(Sp!Engines) /\ tts.made \in Seq(Sp!Speakers)
  /\ brief \in Briefs /\ keys \in KeySets
  /\ wav \in [Sp!Keys -> Sp!Speakers \cup {Sp!None}]
  /\ described \in [Sp!Keys -> Sp!Speakers \cup {Sp!None, Sp!Torn}]

\* Where the command stands in its chain and in its script.
InScript ==
  /\ tts.at # "idle" => tts.script \in Scripts
  /\ tts.at \in InLine \cup {"line", "tighten", "status"} => tts.chain # <<>>
  /\ tts.at \in InLine => Len(tts.made) < Len(tts.script)

\* What the cache holds is spoken by the engine of its key, and described as it is.
CacheSpeaks ==
  \A k \in Sp!Keys : /\ wav[k] # Sp!None => wav[k] \in Voices(k[3])
                     /\ described[k] \notin {Sp!None, Sp!Torn} => described[k] = wav[k]

\* All the lines of a command are spoken by one engine, and so is the last it names.
CommandSpeaks ==
  /\ tts.at \in InLine \cup {"line", "tighten", "status"} => \A n \in DOMAIN tts.made : tts.made[n] \in Spoken
  /\ tts.at \in {"line", "tighten", "status"} /\ tts.made # <<>> => tts.used \in Spoken
  /\ tts.at \in {"file", "meta"} => tts.used \in Spoken
  /\ tts.at \in InLine => described[Sp!Key] \in {Sp!None, Sp!Torn}
  /\ tts.at = "meta" => wav[Sp!Key] = tts.used
  /\ tts.at \in {"tighten", "status"} => voice = tts.made /\ late /\ tts.made # <<>>

SpeechInv == SpeechTypes /\ InScript /\ CacheSpeaks /\ CommandSpeaks /\ Sp!VoiceIsAsReported

\* The engine that speaks has the voices of its name, which are one.
LEMMA EngineSpeaks ==
  ASSUME NEW e \in Sp!Engines, NEW held
  PROVE  /\ Sp!Effective(e, held) \in Sp!Engines \cup {"edge-tts"}
         /\ Voices(Sp!Effective(e, held)) \subseteq Sp!Speakers
         /\ \A a, b \in Voices(Sp!Effective(e, held)) : Sp!Same(a, b)
<1>1. Sp!Effective(e, held) \in Sp!Engines \cup {"edge-tts"}  BY DEF Sp!Effective, Sp!Engines
<1>2. ASSUME NEW x \in Sp!Engines \cup {"edge-tts"}
      PROVE  Voices(x) \subseteq Sp!Speakers /\ \A a, b \in Voices(x) : Sp!Same(a, b)
  <2>1. CASE x = "gemini"  BY <2>1 DEF Voices, Sp!Speakers, Sp!Engines, Sp!Same
  <2>2. CASE x = "edge"  BY <2>2 DEF Voices, Sp!Speakers, Sp!Engines, Sp!Same
  <2>3. CASE x \notin {"gemini", "edge"}
    <3>1. Voices(x) = {x}  BY <2>3 DEF Voices
    <3>2. x \in Sp!Speakers  BY DEF Sp!Speakers
    <3> QED  BY <3>1, <3>2 DEF Sp!Same
  <2> QED  BY <2>1, <2>2, <2>3
<1> QED  BY <1>1, <1>2

\* The key of the line a command has come to.
LEMMA KeyIsInCache ==
  ASSUME Sp!SpeechAssumption, SpeechTypes, tts.script \in Scripts, tts.chain # <<>>,
         Len(tts.made) < Len(tts.script)
  PROVE  /\ Sp!Key \in Sp!Keys /\ Sp!Key[3] = Sp!Effective(Sp!Engine, keys)
         /\ Sp!Engine \in Sp!Engines /\ Voices(Sp!Key[3]) = Spoken
         /\ Spoken \subseteq Sp!Speakers /\ Sp!Speaker \in Spoken
         /\ Sp!None \notin Sp!Speakers /\ Sp!Torn \notin Sp!Speakers
<1>1. Sp!Engine \in Sp!Engines  BY DEF Sp!Engine, SpeechTypes
<1>2. Sp!Line \in Lines
  <2>1. tts.script \in Seq(Lines) /\ tts.made \in Seq(Sp!Speakers)  BY DEF Sp!SpeechAssumption, SpeechTypes
  <2>2. Len(tts.made) + 1 \in DOMAIN tts.script  BY <2>1
  <2> QED  BY <2>1, <2>2 DEF Sp!Line
<1>3. Sp!Key = <<Sp!Line, Sp!Engine, Sp!Effective(Sp!Engine, keys)>>  BY DEF Sp!Key, Sp!LineKey
<1>4. Sp!Key \in Sp!Keys  BY <1>1, <1>2, <1>3 DEF Sp!Keys, SpeechTypes
<1>5. Spoken \subseteq Sp!Speakers  BY <1>1, EngineSpeaks DEF Spoken
<1>6. Sp!Speaker \in Spoken  BY DEF Sp!Speaker, Spoken, Voices
<1> QED  BY <1>1, <1>3, <1>4, <1>5, <1>6 DEF Spoken, Sp!Speakers, Sp!Engines, Sp!None, Sp!Torn

\* The command is at rest again.
LEMMA SilenceKeeps ==
  ASSUME SpeechTypes, brief' = brief, keys' \in KeySets, tts' = Sp!Rest, wav' = wav,
         described' \in [Sp!Keys -> Sp!Speakers \cup {Sp!None, Sp!Torn}], CacheSpeaks', Sp!VoiceIsAsReported'
  PROVE  SpeechInv'
<1> DEFINE rest == Sp!Rest
<1>1. /\ {"at", "script", "trial", "chain", "made", "used", "tries", "vertex"} \subseteq DOMAIN rest
      /\ rest.at = "idle" /\ rest.script = <<>> /\ rest.chain = <<>> /\ rest.made = <<>>
  BY DEF Sp!Rest
<1> HIDE DEF rest
<1>2. tts' = rest  BY DEF rest
<1>3. rest.chain \in Seq(Sp!Engines) /\ rest.made \in Seq(Sp!Speakers)  BY <1>1
<1>4. SpeechTypes'  BY <1>1, <1>2, <1>3 DEF SpeechTypes
<1>5. InScript' /\ CommandSpeaks'  BY <1>1, <1>2 DEF InScript, CommandSpeaks, InLine
<1> QED  BY <1>4, <1>5 DEF SpeechInv

\* The chain of a request is made of engines.
LEMMA ChainIsTyped ==
  ASSUME Sp!SpeechAssumption, SpeechTypes, NEW asks \in Requests PROVE Sp!Chain(asks) \in Seq(Sp!Engines)
<1>1. ASSUME NEW s \in Seq(Sp!Engines), NEW e \in Sp!Engines PROVE Sp!Then(s, e) \in Seq(Sp!Engines)
  BY DEF Sp!Then
<1>2. brief \in [engine : Sp!Engines \cup {""}, fallback : Sp!Engines \cup {""}, voiced : BOOLEAN]
  BY DEF Sp!SpeechAssumption, SpeechTypes
<1>3. asks \in Sp!Engines \cup {""}  BY DEF Sp!SpeechAssumption
<1> DEFINE primary == IF asks # "" THEN asks ELSE IF brief.engine # "" THEN brief.engine ELSE "azure"
           secours == IF brief.fallback # "" /\ brief.voiced THEN Sp!Then(<<primary>>, brief.fallback)
                      ELSE <<primary>>
<1>4. primary \in Sp!Engines  BY <1>2, <1>3 DEF Sp!Engines
<1>5. secours \in Seq(Sp!Engines)
  <2> HIDE DEF primary
  <2>1. <<primary>> \in Seq(Sp!Engines)  BY <1>4
  <2>2. brief.fallback # "" => brief.fallback \in Sp!Engines  BY <1>2
  <2> QED  BY <1>1, <2>1, <2>2
<1>6. "gemini" \in Sp!Engines /\ "edge" \in Sp!Engines  BY DEF Sp!Engines
<1> HIDE DEF primary, secours
<1>7. Sp!Then(Sp!Then(secours, "gemini"), "edge") \in Seq(Sp!Engines)  BY <1>1, <1>5, <1>6
<1> QED  BY <1>7 DEF Sp!Chain, primary, secours

\* A step that changes the command only.
LEMMA CommandMoves ==
  ASSUME SpeechInv, UNCHANGED <<brief, keys, wav, described, voice, reported, late>>,
         {"at", "script", "trial", "chain", "made", "used", "tries", "vertex"} \subseteq DOMAIN tts',
         tts'.script \in Scripts, tts'.chain \in Seq(Sp!Engines), tts'.made \in Seq(Sp!Speakers),
         tts'.at \in InLine \cup {"line", "tighten", "status"} => tts'.chain # <<>>,
         tts'.at \in InLine => Len(tts'.made) < Len(tts'.script),
         CommandSpeaks'
  PROVE  SpeechInv'
<1>1. SpeechTypes'  BY DEF SpeechInv, SpeechTypes
<1>2. InScript'  BY DEF InScript
<1>3. CacheSpeaks'  BY DEF SpeechInv, CacheSpeaks
<1>4. Sp!VoiceIsAsReported'  BY DEF SpeechInv, Sp!VoiceIsAsReported
<1> QED  BY <1>1, <1>2, <1>3, <1>4 DEF SpeechInv

LEMMA FailsKeeps ==
  ASSUME SpeechInv, Sp!Fails, tts.at \in InLine \cup {"line", "engine"}, tts.chain # <<>>,
         UNCHANGED <<brief, keys, wav, described, voice, reported, late>>
  PROVE  SpeechInv'
<1>1. tts' = [tts EXCEPT !.at = "engine", !.chain = Tail(@)]  BY DEF Sp!Fails
<1>2. tts.chain \in Seq(Sp!Engines) /\ tts.script \in Scripts /\ tts.made \in Seq(Sp!Speakers)
  BY DEF SpeechInv, SpeechTypes, InScript, InLine
<1>3. /\ {"at", "script", "trial", "chain", "made", "used", "tries", "vertex"} \subseteq DOMAIN tts'
      /\ tts'.at = "engine" /\ tts'.chain = Tail(tts.chain) /\ tts'.script = tts.script /\ tts'.made = tts.made
  BY <1>1 DEF SpeechInv, SpeechTypes
<1>4. tts'.chain \in Seq(Sp!Engines)  BY <1>2, <1>3
<1>5. CommandSpeaks'  BY <1>3 DEF CommandSpeaks, InLine
<1> QED  BY <1>2, <1>3, <1>4, <1>5, CommandMoves DEF InLine

LEMMA BeginSpeech ==
  ASSUME Sp!SpeechAssumption, SpeechInv, NEW script \in Scripts, NEW trial \in BOOLEAN,
         NEW asks \in Requests, Sp!Begin(script, trial, asks)
  PROVE  SpeechInv'
<1> DEFINE rest == Sp!Rest
           chain == Sp!Chain(asks)
<1>1. /\ {"at", "script", "trial", "chain", "made", "used", "tries", "vertex"} \subseteq DOMAIN rest
      /\ rest.made = <<>>
  BY DEF Sp!Rest
<1>2. /\ tts' = [rest EXCEPT !.at = "engine", !.script = script, !.trial = trial, !.chain = chain]
      /\ UNCHANGED <<brief, keys, wav, described, voice, reported, late>>
  BY DEF Sp!Begin, Sp!files
<1> HIDE DEF rest
<1>3. chain \in Seq(Sp!Engines)  BY ChainIsTyped DEF SpeechInv
<1> HIDE DEF chain
<1>4. /\ {"at", "script", "trial", "chain", "made", "used", "tries", "vertex"} \subseteq DOMAIN tts'
      /\ tts'.at = "engine" /\ tts'.chain = chain /\ tts'.script = script /\ tts'.made = <<>>
  BY <1>1, <1>2
<1>5. tts'.made \in Seq(Sp!Speakers)  BY <1>4
<1>6. CommandSpeaks'  BY <1>4 DEF CommandSpeaks, InLine
<1> QED  BY <1>2, <1>3, <1>4, <1>5, <1>6, CommandMoves DEF InLine

LEMMA TryEngineKeeps ==
  ASSUME Sp!SpeechAssumption, SpeechInv, Sp!TryEngine PROVE SpeechInv'
<1>1. tts.at = "engine" /\ UNCHANGED <<brief, keys, wav, described, voice, reported, late>>
  BY DEF Sp!TryEngine, Sp!files
<1>2. CASE tts' = Sp!Rest
  BY <1>1, <1>2, SilenceKeeps DEF SpeechInv, SpeechTypes, CacheSpeaks, Sp!VoiceIsAsReported
<1>3. CASE Sp!Fails /\ tts.chain # <<>>  BY <1>1, <1>3, FailsKeeps
<1>4. CASE tts' = [tts EXCEPT !.at = "line", !.made = <<>>, !.used = Sp!Engine] /\ tts.chain # <<>>
  <2>1. /\ {"at", "script", "trial", "chain", "made", "used", "tries", "vertex"} \subseteq DOMAIN tts'
        /\ tts'.at = "line" /\ tts'.chain = tts.chain /\ tts'.script = tts.script /\ tts'.made = <<>>
    BY <1>4 DEF SpeechInv, SpeechTypes
  <2>2. tts'.made \in Seq(Sp!Speakers) /\ tts'.chain \in Seq(Sp!Engines) /\ tts'.script \in Scripts
    BY <1>1, <2>1 DEF SpeechInv, SpeechTypes, InScript
  <2>3. CommandSpeaks'  BY <2>1 DEF CommandSpeaks, InLine
  <2> QED  BY <1>1, <1>4, <2>1, <2>2, <2>3, CommandMoves DEF InLine
<1> QED  BY <1>2, <1>3, <1>4 DEF Sp!TryEngine

LEMMA EngineStays ==
  ASSUME keys' = keys, tts'.chain = tts.chain
  PROVE  /\ Spoken' = Spoken
         /\ tts'.script = tts.script /\ tts'.made = tts.made => Sp!Key' = Sp!Key
BY DEF Spoken, Sp!Effective, Sp!Engine, Voices, Sp!Key, Sp!LineKey, Sp!Line

\* A line more, by the engine of the command.
LEMMA LineIsAdded ==
  ASSUME SpeechTypes, NEW s \in Spoken, Spoken \subseteq Sp!Speakers,
         \A n \in DOMAIN tts.made : tts.made[n] \in Spoken
  PROVE  /\ Append(tts.made, s) \in Seq(Sp!Speakers) /\ Append(tts.made, s) # <<>>
         /\ \A n \in DOMAIN Append(tts.made, s) : Append(tts.made, s)[n] \in Spoken
<1> DEFINE more == Append(tts.made, s)
<1>1. tts.made \in Seq(Sp!Speakers) /\ s \in Sp!Speakers  BY DEF SpeechTypes
<1>2. /\ more \in Seq(Sp!Speakers) /\ Len(more) = Len(tts.made) + 1 /\ Len(tts.made) \in Nat
      /\ \A n \in 1 .. Len(more) : more[n] = IF n = Len(more) THEN s ELSE tts.made[n]
  BY <1>1
<1>3. DOMAIN more = 1 .. Len(more) /\ DOMAIN tts.made = 1 .. Len(tts.made)  BY <1>1, <1>2
<1> HIDE DEF more
<1>4. \A n \in DOMAIN more : more[n] \in Spoken  BY <1>2, <1>3
<1>5. more # <<>>  BY <1>2
<1> QED  BY <1>2, <1>4, <1>5 DEF more

LEMMA TakeLineKeeps ==
  ASSUME Sp!SpeechAssumption, SpeechInv, Sp!TakeLine PROVE SpeechInv'
<1>1. /\ tts.at = "line" /\ Len(tts.made) < Len(tts.script)
      /\ UNCHANGED <<brief, keys, wav, described, voice, reported, late>>
  BY DEF Sp!TakeLine, Sp!files
<1>2. /\ Sp!Key \in Sp!Keys /\ Voices(Sp!Key[3]) = Spoken /\ Spoken \subseteq Sp!Speakers
      /\ tts.script \in Scripts /\ tts.chain # <<>> /\ tts.chain \in Seq(Sp!Engines)
      /\ tts.made \in Seq(Sp!Speakers)
  BY <1>1, KeyIsInCache DEF SpeechInv, InScript, SpeechTypes
<1>3. CASE /\ wav[Sp!Key] # Sp!None /\ described[Sp!Key] \notin {Sp!None, Sp!Torn}
           /\ tts' = [tts EXCEPT !.made = Append(@, wav[Sp!Key]), !.used = described[Sp!Key]]
  <2>1. wav[Sp!Key] \in Spoken /\ described[Sp!Key] = wav[Sp!Key]
    BY <1>2, <1>3 DEF SpeechInv, CacheSpeaks
  <2>2. /\ {"at", "script", "trial", "chain", "made", "used", "tries", "vertex"} \subseteq DOMAIN tts'
        /\ tts'.at = "line" /\ tts'.chain = tts.chain /\ tts'.script = tts.script
        /\ tts'.made = Append(tts.made, wav[Sp!Key]) /\ tts'.used = wav[Sp!Key]
    BY <1>1, <1>3, <2>1 DEF SpeechInv, SpeechTypes
  <2>3. /\ tts'.made \in Seq(Sp!Speakers) /\ tts'.made # <<>>
        /\ \A n \in DOMAIN tts'.made : tts'.made[n] \in Spoken
    BY <1>1, <1>2, <2>1, <2>2, LineIsAdded DEF SpeechInv, CommandSpeaks
  <2>4. CommandSpeaks'  BY <1>1, <2>1, <2>2, <2>3, EngineStays DEF CommandSpeaks, InLine
  <2> QED  BY <1>1, <1>2, <2>2, <2>3, <2>4, CommandMoves DEF InLine
<1>4. CASE /\ ~(wav[Sp!Key] # Sp!None /\ described[Sp!Key] \notin {Sp!None, Sp!Torn})
           /\ tts' = [tts EXCEPT !.at = "ask", !.tries = 0, !.vertex = "gemini" \notin keys]
  <2>1. described[Sp!Key] \in {Sp!None, Sp!Torn}  BY <1>2, <1>4 DEF SpeechInv, CacheSpeaks
  <2>2. /\ {"at", "script", "trial", "chain", "made", "used", "tries", "vertex"} \subseteq DOMAIN tts'
        /\ tts'.at = "ask" /\ tts'.chain = tts.chain /\ tts'.script = tts.script /\ tts'.made = tts.made
    BY <1>4 DEF SpeechInv, SpeechTypes
  <2>3. CommandSpeaks'
    BY <1>1, <2>1, <2>2, EngineStays DEF SpeechInv, CommandSpeaks, InLine
  <2> QED  BY <1>1, <1>2, <2>2, <2>3, CommandMoves DEF InLine
<1> QED  BY <1>3, <1>4 DEF Sp!TakeLine

LEMMA AskKeeps ==
  ASSUME Sp!SpeechAssumption, SpeechInv, Sp!AskEngine PROVE SpeechInv'
<1>1. tts.at = "ask" /\ UNCHANGED <<brief, keys, wav, described, voice, reported, late>>
  BY DEF Sp!AskEngine, Sp!files
<1>2. /\ Spoken \subseteq Sp!Speakers /\ Sp!Speaker \in Spoken
      /\ tts.script \in Scripts /\ tts.chain # <<>> /\ tts.chain \in Seq(Sp!Engines)
      /\ tts.made \in Seq(Sp!Speakers) /\ Len(tts.made) < Len(tts.script)
  BY <1>1, KeyIsInCache DEF SpeechInv, InScript, SpeechTypes, InLine
<1>3. CASE Sp!Fails  BY <1>1, <1>2, <1>3, FailsKeeps DEF InLine
<1>4. ASSUME \/ Sp!Answered
             \/ \E n \in {1, MaxTries} : Sp!TryAgain(n)
             \/ tts' = [tts EXCEPT !.vertex = TRUE, !.tries = 0]
      PROVE  SpeechInv'
  <2>1. /\ {"at", "script", "trial", "chain", "made", "used", "tries", "vertex"} \subseteq DOMAIN tts'
        /\ tts'.chain = tts.chain /\ tts'.script = tts.script /\ tts'.made = tts.made
        /\ (tts'.at = "file" /\ tts'.used = Sp!Speaker) \/ tts'.at = "ask"
    BY <1>1, <1>4 DEF SpeechInv, SpeechTypes, Sp!Answered, Sp!TryAgain
  <2>2. CommandSpeaks'
    BY <1>1, <1>2, <2>1, EngineStays DEF SpeechInv, CommandSpeaks, InLine
  <2> QED  BY <1>1, <1>2, <2>1, <2>2, CommandMoves DEF InLine
<1> QED
  BY <1>3, <1>4 DEF Sp!AskEngine, Sp!AskGemini, Sp!AskVertex, Sp!AskElevenLabs, Sp!AskAzure, Sp!AskEdge

LEMMA StoreLineKeeps ==
  ASSUME Sp!SpeechAssumption, SpeechInv, Sp!StoreLine PROVE SpeechInv'
<1> DEFINE key == Sp!Key
<1>1. /\ tts.at = "file" /\ wav' = [wav EXCEPT ![key] = tts.used] /\ tts' = [tts EXCEPT !.at = "meta"]
      /\ UNCHANGED <<brief, keys, described, voice, reported, late>>
  BY DEF Sp!StoreLine
<1>2. /\ key \in Sp!Keys /\ Voices(key[3]) = Spoken /\ Spoken \subseteq Sp!Speakers
      /\ tts.used \in Spoken /\ described[key] \in {Sp!None, Sp!Torn}
  BY <1>1, KeyIsInCache DEF SpeechInv, InScript, CommandSpeaks, InLine
<1>3. /\ {"at", "script", "trial", "chain", "made", "used", "tries", "vertex"} \subseteq DOMAIN tts'
      /\ tts'.at = "meta" /\ tts'.chain = tts.chain /\ tts'.script = tts.script /\ tts'.made = tts.made
      /\ tts'.used = tts.used
  BY <1>1 DEF SpeechInv, SpeechTypes
<1>4. Spoken' = Spoken /\ Sp!Key' = key  BY <1>1, <1>3, EngineStays
<1> HIDE DEF key
<1>5. wav' \in [Sp!Keys -> Sp!Speakers \cup {Sp!None}] /\ wav'[key] = tts.used
      /\ \A k \in Sp!Keys \ {key} : wav'[k] = wav[k]
  BY <1>1, <1>2 DEF SpeechInv, SpeechTypes
<1>6. SpeechTypes'  BY <1>1, <1>3, <1>5 DEF SpeechInv, SpeechTypes
<1>7. InScript'  BY <1>1, <1>3 DEF SpeechInv, InScript, InLine
<1>8. CacheSpeaks'  BY <1>1, <1>2, <1>5 DEF SpeechInv, CacheSpeaks
<1>9. CommandSpeaks'
  BY <1>1, <1>2, <1>3, <1>4, <1>5 DEF SpeechInv, CommandSpeaks, InLine
<1>10. Sp!VoiceIsAsReported'  BY <1>1 DEF SpeechInv, Sp!VoiceIsAsReported
<1> QED  BY <1>6, <1>7, <1>8, <1>9, <1>10 DEF SpeechInv

LEMMA DescribeLineKeeps ==
  ASSUME Sp!SpeechAssumption, SpeechInv, Sp!DescribeLine PROVE SpeechInv'
<1> DEFINE key == Sp!Key
<1>1. /\ tts.at = "meta" /\ described' = [described EXCEPT ![key] = tts.used]
      /\ tts' = [tts EXCEPT !.at = "line", !.made = Append(@, wav[key])]
      /\ UNCHANGED <<brief, keys, wav, voice, reported, late>>
  BY DEF Sp!DescribeLine
<1>2. /\ key \in Sp!Keys /\ Voices(key[3]) = Spoken /\ Spoken \subseteq Sp!Speakers
      /\ tts.used \in Spoken /\ wav[key] = tts.used /\ tts.chain # <<>> /\ tts.script \in Scripts
      /\ \A n \in DOMAIN tts.made : tts.made[n] \in Spoken
  BY <1>1, KeyIsInCache DEF SpeechInv, InScript, CommandSpeaks, InLine
<1> HIDE DEF key
<1>3. /\ {"at", "script", "trial", "chain", "made", "used", "tries", "vertex"} \subseteq DOMAIN tts'
      /\ tts'.at = "line" /\ tts'.chain = tts.chain /\ tts'.script = tts.script
      /\ tts'.made = Append(tts.made, tts.used) /\ tts'.used = tts.used
  BY <1>1, <1>2 DEF SpeechInv, SpeechTypes
<1>4. Spoken' = Spoken  BY <1>1, <1>3, EngineStays
<1>5. /\ tts'.made \in Seq(Sp!Speakers) /\ \A n \in DOMAIN tts'.made : tts'.made[n] \in Spoken
  BY <1>2, <1>3, LineIsAdded DEF SpeechInv
<1>6. described' \in [Sp!Keys -> Sp!Speakers \cup {Sp!None, Sp!Torn}] /\ described'[key] = tts.used
      /\ \A k \in Sp!Keys \ {key} : described'[k] = described[k]
  BY <1>1, <1>2 DEF SpeechInv, SpeechTypes
<1>7. SpeechTypes'  BY <1>1, <1>3, <1>5, <1>6 DEF SpeechInv, SpeechTypes
<1>8. InScript'  BY <1>2, <1>3 DEF InScript, InLine
<1>9. CacheSpeaks'  BY <1>1, <1>2, <1>6 DEF SpeechInv, CacheSpeaks
<1>10. CommandSpeaks'  BY <1>2, <1>3, <1>4, <1>5 DEF CommandSpeaks, InLine
<1>11. Sp!VoiceIsAsReported'  BY <1>1 DEF SpeechInv, Sp!VoiceIsAsReported
<1> QED  BY <1>7, <1>8, <1>9, <1>10, <1>11 DEF SpeechInv

\* Lines that are joined are all there, so that there is a last one.
LEMMA JoinLinesKeeps ==
  ASSUME Sp!SpeechAssumption, SpeechInv, Sp!JoinLines PROVE SpeechInv'
<1>1. /\ tts.at = "line" /\ Len(tts.made) = Len(tts.script)
      /\ UNCHANGED <<brief, keys, wav, described, reported>>
  BY DEF Sp!JoinLines
<1>2. /\ tts.chain # <<>> /\ tts.script \in Scripts /\ tts.chain \in Seq(Sp!Engines)
      /\ tts.made \in Seq(Sp!Speakers)
  BY <1>1 DEF SpeechInv, SpeechTypes, InScript
<1>3. tts.made # <<>>
  <2>1. tts.script \in Seq(Lines) /\ tts.script # <<>>  BY <1>2 DEF Sp!SpeechAssumption
  <2>2. Len(tts.script) # 0  BY <2>1
  <2> QED  BY <1>1, <2>2
<1>4. CASE tts' = Sp!Rest /\ UNCHANGED <<voice, late>>
  BY <1>1, <1>4, SilenceKeeps DEF SpeechInv, SpeechTypes, CacheSpeaks, Sp!VoiceIsAsReported
<1>5. CASE Sp!Fails /\ UNCHANGED <<voice, late>>  BY <1>1, <1>2, <1>5, FailsKeeps
<1>6. CASE voice' = tts.made /\ late' = TRUE /\ tts' = [tts EXCEPT !.at = "tighten"]
  <2>1. /\ {"at", "script", "trial", "chain", "made", "used", "tries", "vertex"} \subseteq DOMAIN tts'
        /\ tts'.at = "tighten" /\ tts'.chain = tts.chain /\ tts'.script = tts.script /\ tts'.made = tts.made
        /\ tts'.used = tts.used
    BY <1>6 DEF SpeechInv, SpeechTypes
  <2>2. SpeechTypes'  BY <1>1, <2>1 DEF SpeechInv, SpeechTypes
  <2>3. InScript'  BY <1>2, <2>1 DEF InScript, InLine
  <2>4. CacheSpeaks'  BY <1>1 DEF SpeechInv, CacheSpeaks
  <2>5. CommandSpeaks'
    BY <1>1, <1>3, <1>6, <2>1, EngineStays DEF SpeechInv, CommandSpeaks, InLine
  <2>6. Sp!VoiceIsAsReported'  BY <1>6 DEF Sp!VoiceIsAsReported
  <2> QED  BY <2>2, <2>3, <2>4, <2>5, <2>6 DEF SpeechInv
<1> QED  BY <1>4, <1>5, <1>6 DEF Sp!JoinLines

LEMMA TightenKeeps ==
  ASSUME SpeechInv, Sp!TightenPauses PROVE SpeechInv'
<1>1. tts.at = "tighten" /\ UNCHANGED <<brief, keys, wav, described, voice, reported, late>>
  BY DEF Sp!TightenPauses, Sp!files
<1>2. CASE tts' = Sp!Rest
  BY <1>1, <1>2, SilenceKeeps DEF SpeechInv, SpeechTypes, CacheSpeaks, Sp!VoiceIsAsReported
<1>3. CASE tts' = [tts EXCEPT !.at = "status"]
  <2>1. /\ {"at", "script", "trial", "chain", "made", "used", "tries", "vertex"} \subseteq DOMAIN tts'
        /\ tts'.at = "status" /\ tts'.chain = tts.chain /\ tts'.script = tts.script /\ tts'.made = tts.made
        /\ tts'.used = tts.used
    BY <1>3 DEF SpeechInv, SpeechTypes
  <2>2. tts.script \in Scripts /\ tts.chain \in Seq(Sp!Engines) /\ tts.made \in Seq(Sp!Speakers)
    BY <1>1 DEF SpeechInv, SpeechTypes, InScript
  <2>4. tts.chain # <<>>  BY <1>1 DEF SpeechInv, InScript
  <2>3. CommandSpeaks'  BY <1>1, <2>1, EngineStays DEF SpeechInv, CommandSpeaks, InLine
  <2> QED  BY <2>4, <1>1, <2>1, <2>2, <2>3, CommandMoves DEF InLine
<1> QED  BY <1>2, <1>3 DEF Sp!TightenPauses

LEMMA WriteStatusKeeps ==
  ASSUME Sp!SpeechAssumption, SpeechInv, Sp!WriteStatus PROVE SpeechInv'
<1>1. /\ tts.at = "status" /\ reported' = tts.used /\ tts' = Sp!Rest
      /\ UNCHANGED <<brief, keys, wav, described, voice>>
  BY DEF Sp!WriteStatus
<1>2. /\ tts.used \in Spoken /\ voice = tts.made /\ \A n \in DOMAIN tts.made : tts.made[n] \in Spoken
  BY <1>1 DEF SpeechInv, CommandSpeaks
<1>3. \A a, b \in Spoken : Sp!Same(a, b)
  <2>1. CASE tts.chain # <<>>
    <3>1. Sp!Engine \in Sp!Engines  BY <2>1 DEF SpeechInv, SpeechTypes, Sp!Engine
    <3> QED  BY <3>1, EngineSpeaks DEF Spoken
  <2> QED  BY <1>1, <2>1 DEF SpeechInv, InScript
<1>4. Sp!VoiceIsAsReported'  BY <1>1, <1>2, <1>3 DEF Sp!VoiceIsAsReported, Sp!Same
<1> QED  BY <1>1, <1>4, SilenceKeeps DEF SpeechInv, SpeechTypes, CacheSpeaks

LEMMA KillKeeps ==
  ASSUME Sp!SpeechAssumption, SpeechInv, Sp!Kill PROVE SpeechInv'
<1>1. tts' = Sp!Rest /\ UNCHANGED <<brief, keys, wav>>  BY DEF Sp!Kill
<1>6. \/ described' = described
      \/ described' = [described EXCEPT ![Sp!Key] = Sp!Torn]
  BY DEF Sp!Kill
<1>7. \/ voice' = voice /\ (late => late')
      \/ late'
  <2>1. CASE UNCHANGED <<voice, late>>  BY <2>1
  <2>2. CASE voice' \in {voice, <<Sp!Torn>>} /\ late' = (late \/ voice' = <<Sp!Torn>>)
    <3>1. CASE voice' = <<Sp!Torn>>  BY <2>2, <3>1
    <3>2. CASE voice' = voice  BY <2>2, <3>2
    <3> QED  BY <2>2, <3>1, <3>2
  <2> QED  BY <2>1, <2>2 DEF Sp!Kill
<1>8. reported' \in {reported, Sp!None}  BY DEF Sp!Kill
<1>2. described' \in [Sp!Keys -> Sp!Speakers \cup {Sp!None, Sp!Torn}]
  BY <1>6 DEF SpeechInv, SpeechTypes
<1>3. \A k \in Sp!Keys : described'[k] \in {described[k], Sp!Torn}
  BY <1>6 DEF SpeechInv, SpeechTypes
<1>4. CacheSpeaks'  BY <1>1, <1>3 DEF SpeechInv, CacheSpeaks
<1>5. Sp!VoiceIsAsReported'  BY <1>7, <1>8 DEF SpeechInv, Sp!VoiceIsAsReported, Sp!Same
<1> QED  BY <1>1, <1>2, <1>4, <1>5, SilenceKeeps DEF SpeechInv, SpeechTypes

LEMMA SpeechStep ==
  ASSUME Sp!SpeechAssumption, SpeechInv, [Sp!Next]_(Sp!vars) PROVE SpeechInv'
<1>1. CASE Sp!Relaunch
  <2>1. /\ tts.at = "idle" /\ keys' \in KeySets
        /\ UNCHANGED <<brief, tts, wav, described, voice, reported, late>>
    BY <1>1 DEF Sp!Relaunch, Sp!files
  <2>2. SpeechTypes'  BY <2>1 DEF SpeechInv, SpeechTypes
  <2>3. InScript' /\ CommandSpeaks'  BY <2>1 DEF InScript, CommandSpeaks, InLine
  <2>4. CacheSpeaks'  BY <2>1 DEF SpeechInv, CacheSpeaks
  <2>5. Sp!VoiceIsAsReported'  BY <2>1 DEF SpeechInv, Sp!VoiceIsAsReported
  <2> QED  BY <2>2, <2>3, <2>4, <2>5 DEF SpeechInv
<1>2. CASE UNCHANGED Sp!vars
  <2>1. UNCHANGED <<brief, keys, tts, wav, described, voice, reported, late>>
    BY <1>2 DEF Sp!vars, Sp!files
  <2>2. Spoken' = Spoken /\ Sp!Key' = Sp!Key  BY <2>1, EngineStays
  <2>3. SpeechTypes'  BY <2>1 DEF SpeechInv, SpeechTypes
  <2>4. InScript'  BY <2>1 DEF SpeechInv, InScript
  <2>5. CommandSpeaks'  BY <2>1, <2>2 DEF SpeechInv, CommandSpeaks
  <2>6. CacheSpeaks'  BY <2>1 DEF SpeechInv, CacheSpeaks
  <2>7. Sp!VoiceIsAsReported'  BY <2>1 DEF SpeechInv, Sp!VoiceIsAsReported
  <2> QED  BY <2>3, <2>4, <2>5, <2>6, <2>7 DEF SpeechInv
<1>3. ASSUME NEW script \in Scripts, NEW trial \in BOOLEAN, NEW asks \in Requests,
             Sp!Begin(script, trial, asks)
      PROVE  SpeechInv'
  BY <1>3, BeginSpeech
<1> QED
  BY <1>1, <1>2, <1>3, TryEngineKeeps, TakeLineKeeps, AskKeeps, StoreLineKeeps, DescribeLineKeeps,
     JoinLinesKeeps, TightenKeeps, WriteStatusKeeps, KillKeeps DEF Sp!Next

\* The speech keeps its script, its cache and its command.
LEMMA SpeechIsKept ==
  ASSUME Sp!SpeechAssumption PROVE StudioSpec => [](focus = "speech" => SpeechInv)
<1> DEFINE Holds == focus = "speech" => SpeechInv
<1>1. StudioInit => Holds
  <2>1. ASSUME Sp!Init PROVE SpeechInv
    <3> DEFINE rest == Sp!Rest
    <3>1. /\ {"at", "script", "trial", "chain", "made", "used", "tries", "vertex"} \subseteq DOMAIN rest
          /\ rest.at = "idle" /\ rest.script = <<>> /\ rest.chain = <<>> /\ rest.made = <<>>
      BY DEF Sp!Rest
    <3>2. /\ tts = rest /\ brief \in Briefs /\ keys \in KeySets /\ reported = Sp!None
          /\ wav = [k \in Sp!Keys |-> Sp!None] /\ described = [k \in Sp!Keys |-> Sp!None]
      BY <2>1 DEF Sp!Init
    <3> HIDE DEF rest
    <3>3. rest.chain \in Seq(Sp!Engines) /\ rest.made \in Seq(Sp!Speakers)  BY <3>1
    <3>4. SpeechTypes  BY <3>1, <3>2, <3>3 DEF SpeechTypes
    <3>5. InScript /\ CommandSpeaks  BY <3>1, <3>2 DEF InScript, CommandSpeaks, InLine
    <3>6. CacheSpeaks /\ Sp!VoiceIsAsReported  BY <3>2 DEF CacheSpeaks, Sp!VoiceIsAsReported
    <3> QED  BY <3>4, <3>5, <3>6 DEF SpeechInv
  <2> QED  BY <2>1 DEF StudioInit
<1>2. Holds /\ [StudioNext]_all => Holds'
  <2> SUFFICES ASSUME Holds, [StudioNext]_all, focus' = "speech" PROVE SpeechInv'  OBVIOUS
  <2>1. focus = "speech" /\ (Sp!Next \/ UNCHANGED Sp!vars)
    <3>1. CASE StudioNext  BY <3>1 DEF StudioNext
    <3>2. CASE UNCHANGED all  BY <3>2 DEF all, tools, speech, Sp!vars, Sp!files
    <3> QED  BY <3>1, <3>2
  <2> QED  BY <2>1, SpeechStep
<1> HIDE DEF Holds
<1>3. StudioSpec => []Holds  BY <1>1, <1>2, PTL DEF StudioSpec
<1> QED  BY <1>3 DEF Holds

\* The status of the voice names the engine of every line of it, for any lines,
\* narrations, briefs, keys and number of commands and of retries (tools.py, cmd_tts).
THEOREM VoicesAreAsReported ==
  ASSUME Sp!SpeechAssumption PROVE StudioSpec => []VoiceIsAsReported
<1> DEFINE Holds == focus = "speech" => SpeechInv
<1>1. Holds => VoiceIsAsReported  BY DEF VoiceIsAsReported, SpeechInv
<1>2. StudioSpec => []Holds  BY SpeechIsKept
<1> HIDE DEF Holds
<1> QED  BY <1>1, <1>2, PTL

------------------------------------------------------------------------------
(* A call of the sandbox reads its own result.                                 *)

SandboxTypes ==
  /\ DOMAIN call = Calls /\ \A c \in Calls : {"at", "left", "got"} \subseteq DOMAIN call[c]
  /\ DOMAIN worker = Workers
  /\ \A w \in Workers : /\ {"at", "job", "left", "alive"} \subseteq DOMAIN worker[w]
                        /\ worker[w].at # "free" => worker[w].job \in Calls
                        /\ worker[w].job \in Calls \cup {Sb!NoJob}
  /\ job \in [Calls -> {"none", ".json", ".running"}] /\ DOMAIN output = Sb!Dirs

\* The call is between the making of its directory and its end.
Busy(c) == call[c].at \notin Sb!Ended \cup {"idle", "memory"}

\* Two calls that are served in one directory are known for it.
Apart ==
  \A c, d \in Calls : c # d /\ OutDir[c] = OutDir[d] /\ Sb!Served(c) /\ Sb!Served(d) => c \in crossed

\* The directory of a call holds nothing but its result.
HoldsItsOwn ==
  /\ \A d \in Sb!Dirs : output[d].ok => output[d].of # Sb!NoJob
  /\ \A c \in Calls \ crossed : Busy(c) => output[OutDir[c]].of \in {Sb!NoJob, c}

SandboxInv == SandboxTypes /\ Apart /\ HoldsItsOwn /\ Sb!OwnResult

\* A step that nobody begins to be served by, and that keeps the results.
LEMMA ServedLess ==
  ASSUME SandboxInv, SandboxTypes', UNCHANGED <<output, crossed>>,
         \A c \in Calls : /\ Sb!Served(c)' => Sb!Served(c)
                          /\ Busy(c)' => Busy(c)
                          /\ call'[c].at = "ok" => call[c].at = "ok" /\ call'[c].got = call[c].got
  PROVE  SandboxInv'
<1>1. Apart'  BY DEF SandboxInv, Apart
<1>2. HoldsItsOwn'  BY DEF SandboxInv, HoldsItsOwn, Sb!Dirs
<1>3. Sb!OwnResult'  BY DEF SandboxInv, Sb!OwnResult, Sb!On
<1> QED  BY <1>1, <1>2, <1>3 DEF SandboxInv

\* A call that moves on, or ends, without a look at its result.
LEMMA CallMoves ==
  ASSUME SandboxInv, NEW c \in Calls, NEW label, label # "ok", Busy(c) \/ label \in Sb!Ended \cup {"memory"},
         Sb!Goto(c, label) \/ \E n : call' = [call EXCEPT ![c].at = label, ![c].left = n],
         UNCHANGED <<worker, output, crossed>>,
         job' \in [Calls -> {"none", ".json", ".running"}],
         \A d \in Calls : job'[d] # ".json" \/ job'[d] = job[d] \/ (d = c /\ Busy(c))
  PROVE  SandboxInv'
<1>1. /\ DOMAIN call' = Calls /\ \A d \in Calls : {"at", "left", "got"} \subseteq DOMAIN call'[d]
      /\ \A d \in Calls : call'[d].at = IF d = c THEN label ELSE call[d].at
      /\ \A d \in Calls : call'[d].got = call[d].got
  BY DEF SandboxInv, SandboxTypes, Sb!Goto
<1>2. SandboxTypes'  BY <1>1 DEF SandboxInv, SandboxTypes
<1>3. \A d \in Calls : Busy(d)' => Busy(d)  BY <1>1 DEF Busy
<1>4. \A d \in Calls : Sb!Served(d)' => Sb!Served(d)  BY <1>1 DEF Sb!Served, Sb!Holds, Busy
<1> QED  BY <1>1, <1>2, <1>3, <1>4, ServedLess

\* A worker that moves on with its job, or drops it.
LEMMA WorkerMoves ==
  ASSUME SandboxInv, DOMAIN worker' = Workers,
         \A w \in Workers : /\ {"at", "job", "left", "alive"} \subseteq DOMAIN worker'[w]
                            /\ worker'[w].job \in {worker[w].job, Sb!NoJob}
                            /\ worker'[w].at # "free" => worker'[w].job = worker[w].job /\ worker[w].at # "free",
         DOMAIN call' = Calls,
         \A c \in Calls : /\ {"at", "left", "got"} \subseteq DOMAIN call'[c]
                          /\ call'[c].at = call[c].at /\ call'[c].got = call[c].got,
         UNCHANGED <<output, crossed>>,
         job' \in [Calls -> {"none", ".json", ".running"}],
         \A d \in Calls : job'[d] # ".json" \/ job'[d] = job[d],
         Sb!NoJob \notin Calls
  PROVE  SandboxInv'
<1>1. SandboxTypes'  BY DEF SandboxInv, SandboxTypes
<1>2. \A d \in Calls : Busy(d)' => Busy(d)  BY DEF Busy
<1>3. \A d \in Calls : Sb!Served(d)' => Sb!Served(d)  BY DEF Sb!Served, Sb!Holds
<1> QED  BY <1>1, <1>2, <1>3, ServedLess

\* A result is written for a call that is served.
LEMMA ResultIsWritten ==
  ASSUME SandboxInv, NEW d \in Calls, Sb!Served(d), NEW good, Sb!NoJob \notin Calls,
         output' = [output EXCEPT ![OutDir[d]] = [of |-> d, ok |-> good]], crossed' = crossed,
         SandboxTypes',
         \A c \in Calls : /\ Sb!Served(c)' => Sb!Served(c)
                          /\ Busy(c)' => Busy(c)
                          /\ call'[c].at = "ok" => call[c].at = "ok" /\ call'[c].got = call[c].got
  PROVE  SandboxInv'
<1>1. Apart'  BY DEF SandboxInv, Apart
<1>2. Sb!OwnResult'  BY DEF SandboxInv, Sb!OwnResult, Sb!On
<1>3. OutDir[d] \in Sb!Dirs /\ \A c \in Calls : OutDir[c] \in Sb!Dirs  BY DEF Sb!Dirs
<1>4. /\ output'[OutDir[d]].of = d /\ Sb!Dirs' = Sb!Dirs
      /\ \A e \in Sb!Dirs \ {OutDir[d]} : output'[e] = output[e]
  BY <1>3 DEF SandboxInv, SandboxTypes, Sb!Dirs
<1>5. ASSUME NEW c \in Calls \ crossed, Busy(c)' PROVE output'[OutDir[c]].of \in {Sb!NoJob, c}
  <2>1. CASE OutDir[c] # OutDir[d]  BY <1>3, <1>4, <1>5, <2>1 DEF SandboxInv, HoldsItsOwn
  <2>2. CASE OutDir[c] = OutDir[d]
    <3>1. Sb!Served(c)  BY <1>5 DEF Busy, Sb!Served, Sb!Ended
    <3>2. c = d  BY <2>2, <3>1 DEF SandboxInv, Apart
    <3> QED  BY <1>4, <3>2
  <2> QED  BY <2>1, <2>2
<1>6. HoldsItsOwn'  BY <1>4, <1>5 DEF SandboxInv, HoldsItsOwn
<1> QED  BY <1>1, <1>2, <1>6 DEF SandboxInv

LEMMA RecreateKeeps ==
  ASSUME SandboxInv, NEW c \in Calls, Sb!Recreate(c) PROVE SandboxInv'
<1> DEFINE others == {d \in Calls \ {c} : OutDir[d] = OutDir[c] /\ Sb!Served(d)}
<1>1. PICK label \in {"post", "render"} : call' = [call EXCEPT ![c].at = label]
  BY DEF Sb!Recreate, Sb!Goto
<1>2. /\ call[c].at = "memory" /\ output' = [output EXCEPT ![OutDir[c]] = Sb!Nothing]
      /\ crossed' = IF others = {} THEN crossed ELSE crossed \cup others \cup {c}
      /\ UNCHANGED <<job, worker>>
  BY DEF Sb!Recreate, Sb!On
<1>3. /\ DOMAIN call' = Calls /\ \A d \in Calls : {"at", "left", "got"} \subseteq DOMAIN call'[d]
      /\ \A d \in Calls : call'[d].at = IF d = c THEN label ELSE call[d].at
      /\ \A d \in Calls : call'[d].got = call[d].got
  BY <1>1 DEF SandboxInv, SandboxTypes
<1>4. SandboxTypes'  BY <1>2, <1>3 DEF SandboxInv, SandboxTypes, Sb!Dirs
<1>5. \A d \in Calls \ {c} : Sb!Served(d)' <=> Sb!Served(d)  BY <1>2, <1>3 DEF Sb!Served, Sb!Holds
<1>6. crossed \subseteq crossed'  BY <1>2
<1>7. \A d \in others : d \in crossed' /\ c \in crossed'  BY <1>2
<1>8. Apart'
  <2>1. ASSUME NEW a \in Calls, NEW b \in Calls, a # b, OutDir[a] = OutDir[b], Sb!Served(a)', Sb!Served(b)'
        PROVE  a \in crossed'
    <3>1. CASE a = c  BY <1>5, <1>7, <2>1, <3>1
    <3>2. CASE b = c  BY <1>5, <1>7, <2>1, <3>2
    <3>3. CASE a # c /\ b # c  BY <1>5, <1>6, <2>1, <3>3 DEF SandboxInv, Apart
    <3> QED  BY <3>1, <3>2, <3>3
  <2> QED  BY <2>1 DEF Apart
<1>9. OutDir[c] \in Sb!Dirs /\ \A d \in Calls : OutDir[d] \in Sb!Dirs  BY DEF Sb!Dirs
<1>10. /\ output'[OutDir[c]].of = Sb!NoJob /\ ~output'[OutDir[c]].ok
       /\ \A e \in Sb!Dirs \ {OutDir[c]} : output'[e] = output[e]
  BY <1>2, <1>9 DEF SandboxInv, SandboxTypes, Sb!Nothing
<1>11. HoldsItsOwn'
  <2>1. ASSUME NEW d \in Calls \ crossed', Busy(d)' PROVE output'[OutDir[d]].of \in {Sb!NoJob, d}
    <3>1. CASE OutDir[d] = OutDir[c]  BY <1>10, <3>1
    <3>2. CASE OutDir[d] # OutDir[c]
      <4>1. Busy(d) /\ d \notin crossed  BY <1>3, <1>6, <2>1, <3>2 DEF Busy
      <4> QED  BY <1>9, <1>10, <3>2, <4>1 DEF SandboxInv, HoldsItsOwn
    <3> QED  BY <3>1, <3>2
  <2>2. \A d \in Sb!Dirs : output'[d].ok => output'[d].of # Sb!NoJob
    BY <1>10 DEF SandboxInv, HoldsItsOwn
  <2> QED  BY <2>1, <2>2 DEF HoldsItsOwn, Sb!Dirs
<1>12. Sb!OwnResult'  BY <1>3, <1>6 DEF SandboxInv, Sb!OwnResult, Sb!On
<1> QED  BY <1>4, <1>8, <1>11, <1>12 DEF SandboxInv

\* The steps of a call that neither read nor write a result.
LEMMA CallSteps ==
  ASSUME SandboxInv, NEW c \in Calls,
         \/ Sb!Begin(c) \/ Sb!NoMemory(c) \/ Sb!Post(c) \/ Sb!Picked(c) \/ Sb!Answered(c) \/ Sb!GivesUp(c)
         \/ Sb!Leave(c) \/ Sb!Withdraw(c) \/ Sb!AskCancel(c) \/ Sb!ClearDone(c) \/ Sb!Interrupt(c) \/ Sb!KillTool(c)
  PROVE  SandboxInv'
<1>1. UNCHANGED <<worker, output, crossed>>
  BY DEF Sb!Begin, Sb!NoMemory, Sb!Post, Sb!Picked, Sb!Answered, Sb!GivesUp, Sb!Leave, Sb!Withdraw, Sb!AskCancel,
         Sb!ClearDone, Sb!Interrupt, Sb!KillTool, Sb!files
<1>2. job \in [Calls -> {"none", ".json", ".running"}]  BY DEF SandboxInv, SandboxTypes
<1>3. CASE Sb!Begin(c) \/ Sb!NoMemory(c)
  <2>1. PICK label \in {"memory", "failed"} : Sb!Goto(c, label) /\ job' = job
    BY <1>3 DEF Sb!Begin, Sb!NoMemory, Sb!files
  <2> QED  BY <1>1, <1>2, <2>1, CallMoves DEF Sb!Ended
<1>4. CASE Sb!Post(c)
  <2>1. /\ Busy(c) /\ job' = [job EXCEPT ![c] = ".json"]
        /\ call' = [call EXCEPT ![c].at = "wait", ![c].left = QueueWait]
    BY <1>4 DEF Sb!Post, Sb!On, Busy, Sb!Ended
  <2> QED  BY <1>1, <1>2, <2>1, CallMoves
<1>5. CASE Sb!Picked(c) \/ Sb!GivesUp(c)
  <2>1. Busy(c) /\ job' = job
    BY <1>5 DEF Sb!Picked, Sb!SeesPickup, Sb!GivesUp, Sb!Expired, Sb!Waits, Sb!On, Busy, Sb!Ended, Sb!files
  <2>2. \/ \E n : call' = [call EXCEPT ![c].at = "picked", ![c].left = n]
        \/ Sb!Goto(c, "leave")
    BY <1>5 DEF Sb!Picked, Sb!GivesUp, Sb!Goto
  <2>3. CASE Sb!Goto(c, "leave")  BY <1>1, <1>2, <2>1, <2>3, CallMoves
  <2>4. CASE \E n : call' = [call EXCEPT ![c].at = "picked", ![c].left = n]
    BY <1>1, <1>2, <2>1, <2>4, CallMoves
  <2> QED  BY <2>2, <2>3, <2>4
<1>6. CASE Sb!Answered(c) \/ Sb!Leave(c) \/ Sb!AskCancel(c) \/ Sb!ClearDone(c)
  <2>1. PICK label \in {"clear", "failed", "withdraw", "read"} : Sb!Goto(c, label) /\ job' = job /\ Busy(c)
    BY <1>6 DEF Sb!Answered, Sb!Leave, Sb!AskCancel, Sb!ClearDone, Sb!On, Sb!Waits, Busy, Sb!Ended, Sb!files
  <2> QED  BY <1>1, <1>2, <2>1, CallMoves
<1>7. CASE Sb!Withdraw(c)
  <2>1. PICK label \in {"failed", "giveUp"} : Sb!Goto(c, label) /\ Busy(c)
    BY <1>7 DEF Sb!Withdraw, Sb!On, Busy, Sb!Ended
  <2>2. job' = job \/ job' = [job EXCEPT ![c] = "none"]  BY <1>7 DEF Sb!Withdraw
  <2>3. /\ job' \in [Calls -> {"none", ".json", ".running"}]
        /\ \A d \in Calls : job'[d] # ".json" \/ job'[d] = job[d]
    BY <1>2, <2>2
  <2> QED  BY <1>1, <2>1, <2>3, CallMoves
<1>8. CASE Sb!Interrupt(c) \/ Sb!KillTool(c)
  <2>1. PICK label \in {"leave", "failed", "killed"} :
          /\ Sb!Goto(c, label) /\ job' = job
          /\ Busy(c) \/ label \in Sb!Ended
    BY <1>8 DEF Sb!Interrupt, Sb!KillTool, Sb!Waits, Busy, Sb!Ended, Sb!files
  <2> QED  BY <1>1, <1>2, <2>1, CallMoves
<1> QED  BY <1>3, <1>4, <1>5, <1>6, <1>7, <1>8

LEMMA ReadResultKeeps ==
  ASSUME SandboxInv, NEW c \in Calls, Sb!ReadResult(c) PROVE SandboxInv'
<1> DEFINE r == output[OutDir[c]]
           label == IF r.ok THEN "ok" ELSE "failed"
<1>1. /\ call[c].at = "read" /\ call' = [call EXCEPT ![c].at = label, ![c].got = r.of]
      /\ UNCHANGED <<job, worker, output, crossed>>
  BY DEF Sb!ReadResult, Sb!On, Sb!files
<1>2. /\ DOMAIN call' = Calls /\ \A d \in Calls : {"at", "left", "got"} \subseteq DOMAIN call'[d]
      /\ \A d \in Calls : call'[d].at = IF d = c THEN label ELSE call[d].at
      /\ \A d \in Calls \ {c} : call'[d].got = call[d].got
      /\ call'[c].got = r.of
  BY <1>1 DEF SandboxInv, SandboxTypes
<1>3. Busy(c)  BY <1>1 DEF Busy, Sb!Ended
<1>4. c \notin crossed /\ r.ok => r.of = c
  <2>1. OutDir[c] \in Sb!Dirs  BY DEF Sb!Dirs
  <2> QED  BY <1>3, <2>1 DEF SandboxInv, HoldsItsOwn
<1>5. SandboxTypes'  BY <1>1, <1>2 DEF SandboxInv, SandboxTypes
<1>6. \A d \in Calls : Sb!Served(d)' => Sb!Served(d)  BY <1>1, <1>2, <1>3 DEF Sb!Served, Sb!Holds, Busy
<1>7. \A d \in Calls : Busy(d)' => Busy(d)  BY <1>2, <1>3 DEF Busy
<1>8. Apart'  BY <1>1, <1>6 DEF SandboxInv, Apart
<1>9. HoldsItsOwn'  BY <1>1, <1>7 DEF SandboxInv, HoldsItsOwn, Sb!Dirs
<1>10. Sb!OwnResult'  BY <1>1, <1>2, <1>4 DEF SandboxInv, Sb!OwnResult, Sb!On
<1> QED  BY <1>5, <1>8, <1>9, <1>10 DEF SandboxInv

LEMMA RunsItselfKeeps ==
  ASSUME SandboxInv, Sb!NoJob \notin Calls, NEW c \in Calls, Sb!RunsItself(c) PROVE SandboxInv'
<1>1. /\ Busy(c) /\ UNCHANGED <<job, worker, crossed>>
  BY DEF Sb!RunsItself, Sb!On, Busy, Sb!Ended
<1>2. job \in [Calls -> {"none", ".json", ".running"}]  BY DEF SandboxInv, SandboxTypes
<1>3. CASE UNCHANGED output
  <2>1. PICK label \in {"read", "failed"} : Sb!Goto(c, label)  BY DEF Sb!RunsItself
  <2> QED  BY <1>1, <1>2, <1>3, <2>1, CallMoves
<1>4. CASE \E good \in BOOLEAN : output' = [output EXCEPT ![OutDir[c]] = [of |-> c, ok |-> good]]
  <2>1. PICK good \in BOOLEAN : output' = [output EXCEPT ![OutDir[c]] = [of |-> c, ok |-> good]]  BY <1>4
  <2>2. PICK label \in {"read", "failed"} : Sb!Goto(c, label)  BY DEF Sb!RunsItself
  <2>3. /\ DOMAIN call' = Calls /\ \A d \in Calls : {"at", "left", "got"} \subseteq DOMAIN call'[d]
        /\ \A d \in Calls : call'[d].at = IF d = c THEN label ELSE call[d].at
        /\ \A d \in Calls : call'[d].got = call[d].got
    BY <2>2 DEF SandboxInv, SandboxTypes, Sb!Goto
  <2>4. SandboxTypes'  BY <1>1, <2>1, <2>3 DEF SandboxInv, SandboxTypes, Sb!Dirs
  <2>5. \A d \in Calls : /\ Sb!Served(d)' => Sb!Served(d)
                         /\ Busy(d)' => Busy(d)
                         /\ call'[d].at = "ok" => call[d].at = "ok" /\ call'[d].got = call[d].got
    BY <1>1, <2>3 DEF Sb!Served, Sb!Holds, Busy
  <2>6. Sb!Served(c)  BY <1>1 DEF Sb!Served, Busy
  <2> QED  BY <1>1, <2>1, <2>4, <2>5, <2>6, ResultIsWritten
<1> QED  BY <1>3, <1>4 DEF Sb!RunsItself, Sb!Writes

\* What a worker may write, and the rest of the calls and jobs as they are.
LEMMA WorkerWrites ==
  ASSUME SandboxInv, Sb!NoJob \notin Calls, NEW w \in Workers, worker[w].at # "free",
         \/ UNCHANGED output
         \/ \E good \in BOOLEAN :
              output' = [output EXCEPT ![OutDir[worker[w].job]] = [of |-> worker[w].job, ok |-> good]],
         DOMAIN worker' = Workers,
         \A v \in Workers : /\ {"at", "job", "left", "alive"} \subseteq DOMAIN worker'[v]
                            /\ worker'[v].job \in {worker[v].job, Sb!NoJob}
                            /\ worker'[v].at # "free" => worker'[v].job = worker[v].job /\ worker[v].at # "free",
         UNCHANGED <<call, job, crossed>>
  PROVE  SandboxInv'
<1> DEFINE d == worker[w].job
<1>1. d \in Calls /\ Sb!Served(d)  BY DEF SandboxInv, SandboxTypes, Sb!Served, Sb!Holds
<1>2. CASE UNCHANGED output  BY <1>2, WorkerMoves DEF SandboxInv, SandboxTypes
<1>3. CASE \E good \in BOOLEAN : output' = [output EXCEPT ![OutDir[d]] = [of |-> d, ok |-> good]]
  <2>1. PICK good \in BOOLEAN : output' = [output EXCEPT ![OutDir[d]] = [of |-> d, ok |-> good]]  BY <1>3
  <2> HIDE DEF d
  <2>2. SandboxTypes'  BY <2>1 DEF SandboxInv, SandboxTypes, Sb!Dirs
  <2>3. \A c \in Calls : /\ Sb!Served(c)' => Sb!Served(c)
                         /\ Busy(c)' => Busy(c)
                         /\ call'[c].at = "ok" => call[c].at = "ok" /\ call'[c].got = call[c].got
    BY DEF Sb!Served, Sb!Holds, Busy
  <2> QED  BY <1>1, <2>1, <2>2, <2>3, ResultIsWritten
<1> QED  BY <1>2, <1>3

LEMMA WorkerSteps ==
  ASSUME SandboxInv, Sb!NoJob \notin Calls, NEW w \in Workers, Sb!WorkerStep(w) \/ Sb!ExecEnds(w) \/ Sb!CrashWorker(w)
  PROVE  SandboxInv'
<1>0. /\ DOMAIN worker = Workers /\ \A v \in Workers : {"at", "job", "left", "alive"} \subseteq DOMAIN worker[v]
      /\ job \in [Calls -> {"none", ".json", ".running"}]
      /\ DOMAIN call = Calls /\ \A c \in Calls : {"at", "left", "got"} \subseteq DOMAIN call[c]
  BY DEF SandboxInv, SandboxTypes
<1>1. ASSUME NEW c \in Calls, Sb!Claim(w, c) PROVE SandboxInv'
  <2>1. /\ job[c] = ".json" /\ job' = [job EXCEPT ![c] = ".running"] /\ UNCHANGED <<call, output, crossed>>
        /\ worker' = [worker EXCEPT ![w] = [Sb!Rest EXCEPT !.at = "check", !.job = c]]
    BY <1>1 DEF Sb!Claim
  <2> DEFINE new == [Sb!Rest EXCEPT !.at = "check", !.job = c]
  <2>2. {"at", "job", "left", "alive"} \subseteq DOMAIN new /\ new.job = c  BY DEF Sb!Rest
  <2> HIDE DEF new
  <2>3. worker' = [worker EXCEPT ![w] = new]  BY <2>1 DEF new
  <2>4. SandboxTypes'  BY <1>0, <2>1, <2>2, <2>3 DEF SandboxInv, SandboxTypes
  <2>5. \A d \in Calls : Sb!Served(d)' => Sb!Served(d)
    BY <1>0, <2>1, <2>2, <2>3 DEF Sb!Served, Sb!Holds
  <2>6. \A d \in Calls : /\ Busy(d)' => Busy(d)
                         /\ call'[d].at = "ok" => call[d].at = "ok" /\ call'[d].got = call[d].got
    BY <2>1 DEF Busy
  <2> QED  BY <2>1, <2>4, <2>5, <2>6, ServedLess
<1>2. CASE Sb!CheckCancel(w) \/ Sb!Answer(w)
  <2>1. PICK label \in {"unlink", "start", "drop", "touch"} :
          /\ worker' = [worker EXCEPT ![w].at = label] /\ worker[w].at # "free"
          /\ UNCHANGED <<call, job, output, crossed>>
    BY <1>2 DEF Sb!CheckCancel, Sb!Answer, Sb!Turns, Sb!Does, Sb!files
  <2> QED  BY <1>0, <2>1, WorkerMoves
<1>3. CASE Sb!Start(w)
  <2>1. /\ worker[w].at # "free" /\ UNCHANGED <<call, job, crossed>>
        /\ \/ UNCHANGED output
           \/ \E good \in BOOLEAN :
                output' = [output EXCEPT ![OutDir[worker[w].job]] = [of |-> worker[w].job, ok |-> good]]
    BY <1>3 DEF Sb!Start, Sb!Does, Sb!Failure
  <2>2. \/ worker' = [worker EXCEPT ![w].at = "render", ![w].left = Timeout + KillMargin, ![w].alive = TRUE]
        \/ worker' = [worker EXCEPT ![w].at = "unlink"]
    BY <1>3 DEF Sb!Start, Sb!Turns
  <2>3. /\ DOMAIN worker' = Workers
        /\ \A v \in Workers : /\ {"at", "job", "left", "alive"} \subseteq DOMAIN worker'[v]
                              /\ worker'[v].job = worker[v].job
                              /\ v # w => worker'[v].at = worker[v].at
    BY <1>0, <2>2
  <2> QED  BY <2>1, <2>3, WorkerWrites
<1>4. CASE Sb!ExecEnds(w) \/ Sb!Poll(w)
  <2>1. /\ worker[w].at = "render" /\ UNCHANGED <<call, job, crossed>>
        /\ \/ UNCHANGED output
           \/ \E good \in BOOLEAN :
                output' = [output EXCEPT ![OutDir[worker[w].job]] = [of |-> worker[w].job, ok |-> good]]
    BY <1>4 DEF Sb!ExecEnds, Sb!Writes, Sb!Poll, Sb!SeesEnd, Sb!Stops, Sb!Does, Sb!Failure
  <2>2. \/ worker' = [worker EXCEPT ![w].alive = FALSE]
        \/ worker' = [worker EXCEPT ![w].at = "unlink", ![w].alive = FALSE, ![w].left = 0]
    BY <1>4 DEF Sb!ExecEnds, Sb!Poll
  <2> QED  BY <1>0, <2>1, <2>2, WorkerWrites
<1>5. CASE Sb!Unlink(w)
  <2>1. /\ worker[w].at = "unlink" /\ worker' = [worker EXCEPT ![w].at = "answer"]
        /\ job' = [job EXCEPT ![worker[w].job] = "none"] /\ UNCHANGED <<call, output, crossed>>
    BY <1>5 DEF Sb!Unlink, Sb!Turns, Sb!Does
  <2>2. /\ job' \in [Calls -> {"none", ".json", ".running"}]
        /\ \A d \in Calls : job'[d] # ".json" \/ job'[d] = job[d]
    BY <1>0, <2>1
  <2> QED  BY <1>0, <2>1, <2>2, WorkerMoves
<1>6. CASE Sb!Mark(w) \/ Sb!CrashWorker(w)
  <2> DEFINE rest == Sb!Rest
  <2>1. worker' = [worker EXCEPT ![w] = rest] /\ UNCHANGED <<call, job, output, crossed>>
    BY <1>6 DEF Sb!Mark, Sb!CrashWorker, Sb!files
  <2>2. {"at", "job", "left", "alive"} \subseteq DOMAIN rest /\ rest.at = "free" /\ rest.job = Sb!NoJob
    BY DEF Sb!Rest
  <2> HIDE DEF rest
  <2> QED  BY <1>0, <2>1, <2>2, WorkerMoves
<1> QED  BY <1>1, <1>2, <1>3, <1>4, <1>5, <1>6 DEF Sb!WorkerStep

LEMMA SandboxStep ==
  ASSUME Sb!NoJob \notin Calls, SandboxInv, [Sb!Next]_(Sb!vars) PROVE SandboxInv'
<1>0. /\ DOMAIN worker = Workers /\ \A v \in Workers : {"at", "job", "left", "alive"} \subseteq DOMAIN worker[v]
      /\ job \in [Calls -> {"none", ".json", ".running"}]
      /\ DOMAIN call = Calls /\ \A c \in Calls : {"at", "left", "got"} \subseteq DOMAIN call[c]
  BY DEF SandboxInv, SandboxTypes
<1>1. CASE Sb!Tick
  <2>1. /\ call' = [c \in Calls |-> [call[c] EXCEPT !.left = IF Sb!Waits(c) THEN Sb!Less(@) ELSE 0]]
        /\ worker' = [w \in Workers |-> [worker[w] EXCEPT !.left = Sb!Less(@)]]
        /\ UNCHANGED <<job, output, crossed>>
    BY <1>1 DEF Sb!Tick, Sb!files
  <2> QED  BY <1>0, <2>1, WorkerMoves
<1>2. ASSUME NEW c \in Calls, Sb!Sweep(c) PROVE SandboxInv'
  <2>1. UNCHANGED <<call, job, output, worker, crossed>>  BY <1>2 DEF Sb!Sweep
  <2> QED  BY <1>0, <2>1, WorkerMoves DEF SandboxInv, SandboxTypes
<1>3. CASE UNCHANGED Sb!vars
  <2>1. UNCHANGED <<call, job, output, worker, crossed>>  BY <1>3 DEF Sb!vars, Sb!files
  <2> QED  BY <1>0, <2>1, WorkerMoves DEF SandboxInv, SandboxTypes
<1>4. ASSUME NEW c \in Calls, Sb!Begin(c) \/ Sb!CallStep(c) \/ Sb!Interrupt(c) \/ Sb!KillTool(c)
      PROVE  SandboxInv'
  BY <1>4, CallSteps, RecreateKeeps, ReadResultKeeps, RunsItselfKeeps DEF Sb!CallStep
<1> QED  BY <1>1, <1>2, <1>3, <1>4, WorkerSteps DEF Sb!Next

\* The sandbox keeps its calls and its workers apart.
LEMMA SandboxIsKept ==
  ASSUME Sb!SandboxAssumption PROVE StudioSpec => [](focus = "sandbox" => SandboxInv)
<1> DEFINE Holds == focus = "sandbox" => SandboxInv
<1>1. StudioInit => Holds
  <2>1. ASSUME Sb!Init PROVE SandboxInv
    <3> DEFINE rest == Sb!Rest
    <3>1. /\ {"at", "job", "left", "alive"} \subseteq DOMAIN rest /\ rest.at = "free" /\ rest.job = Sb!NoJob
      BY DEF Sb!Rest
    <3>2. worker = [w \in Workers |-> rest]  BY <2>1 DEF Sb!Init
    <3> HIDE DEF rest
    <3>3. /\ call = [c \in Calls |-> [at |-> "idle", left |-> 0, got |-> Sb!NoJob]]
          /\ job = [c \in Calls |-> "none"]
          /\ output = [d \in Sb!Dirs |-> [of |-> Sb!NoJob, ok |-> FALSE]]
      BY <2>1 DEF Sb!Init, Sb!Nothing
    <3>4. SandboxTypes  BY <3>1, <3>2, <3>3 DEF SandboxTypes
    <3>5. \A c \in Calls : ~Busy(c) /\ call[c].at = "idle" /\ job[c] = "none"  BY <3>3 DEF Busy
    <3>6. \A c \in Calls : ~Sb!Served(c)
      <4>1. Sb!NoJob \notin Calls  BY DEF Sb!SandboxAssumption
      <4> QED  BY <3>1, <3>2, <3>5, <4>1 DEF Sb!Served, Sb!Holds
    <3>7. Apart /\ Sb!OwnResult  BY <3>5, <3>6 DEF Apart, Sb!OwnResult, Sb!On
    <3>8. HoldsItsOwn  BY <3>3, <3>5 DEF HoldsItsOwn
    <3> QED  BY <3>4, <3>7, <3>8 DEF SandboxInv
  <2> QED  BY <2>1 DEF StudioInit
<1>2. Holds /\ [StudioNext]_all => Holds'
  <2> SUFFICES ASSUME Holds, [StudioNext]_all, focus' = "sandbox" PROVE SandboxInv'  OBVIOUS
  <2>1. focus = "sandbox" /\ (Sb!Next \/ UNCHANGED Sb!vars)
    <3>1. CASE StudioNext  BY <3>1 DEF StudioNext
    <3>2. CASE UNCHANGED all  BY <3>2 DEF all, sandbox, Sb!vars, Sb!files
    <3> QED  BY <3>1, <3>2
  <2>2. Sb!NoJob \notin Calls  BY DEF Sb!SandboxAssumption
  <2> QED  BY <2>1, <2>2, SandboxStep
<1> HIDE DEF Holds
<1>3. StudioSpec => []Holds  BY <1>1, <1>2, PTL DEF StudioSpec
<1> QED  BY <1>3 DEF Holds

\* What a call of the sandbox reads was written for it, for any calls, directories,
\* workers and delays, through expiries, cancellations, kills and restarts of the
\* workers, unless another call was served in its directory (sandbox.py).
THEOREM ResultsAreOwn ==
  ASSUME Sb!SandboxAssumption PROVE StudioSpec => []OwnResult
<1> DEFINE Holds == focus = "sandbox" => SandboxInv
<1>1. Holds => OwnResult  BY DEF OwnResult, SandboxInv
<1>2. StudioSpec => []Holds  BY SandboxIsKept
<1> HIDE DEF Holds
<1> QED  BY <1>1, <1>2, PTL

------------------------------------------------------------------------------
(* The stream of a session: what its steps record of the sub-agents.           *)

Messages == [kind : St!Kinds, id : Agents \cup {CHOOSE a \in Agents : TRUE},
             status : {"ok", "error", "limit", "completed", "stopped"}]

EndsOfSteps == [id : Agents, status : {"ok", "error", "limit"}]

StreamTypes ==
  /\ work \in [Agents -> {"none", "asked", "started", "working", "done", "failed", "killed"}]
  /\ pipe \in Seq(Messages)
  /\ {"agents", "background", "acks", "notified", "result"} \subseteq DOMAIN parser
  /\ {"open", "lines", "limit", "flush", "copy"} \subseteq DOMAIN recorder
  /\ DOMAIN recorder.lines = Agents /\ DOMAIN recorder.flush = Agents /\ DOMAIN recorder.copy = Agents
  /\ recorder.open \subseteq Agents
  /\ DOMAIN steps = Agents
  /\ \A a \in Agents : {"status", "log", "closed"} \subseteq DOMAIN steps[a] /\ steps[a].closed \in {0, 1}
  /\ {"at", "ends", "outcome"} \subseteq DOMAIN pump /\ pump.ends \in Seq(EndsOfSteps)

\* The pump still reads and records.
Pumping == pump.at \in {"read", "end", "write", "wait"}

Is(k, kind, a) == pipe[k].kind = kind /\ pipe[k].id = a

Acks(k, a) == Is(k, "tool_result", a) /\ pipe[k].status = "ok"

AskedFor(a) == a \in parser.agents \/ \E k \in DOMAIN pipe : Is(k, "tool_use", a)

Announced(a) == a \in parser.background \/ \E k \in DOMAIN pipe : Is(k, "task_started", a)

\* A message tells of the work as it is, after the messages it supposes.
Told(k) ==
  LET a == pipe[k].id IN
    /\ pipe[k].kind # "result" => a \in Agents /\ work[a] # "none"
    /\ pipe[k].kind = "tool_use" =>
         a \notin parser.agents /\ \A j \in DOMAIN pipe \ {k} : ~Is(j, "tool_use", a)
    /\ pipe[k].kind \notin {"tool_use", "result"} =>
         a \in parser.agents \/ \E j \in 1 .. k - 1 : Is(j, "tool_use", a)
    /\ pipe[k].kind = "task_started" => a \in Background
    /\ pipe[k].kind = "task_notification" =>
         /\ a \in Background /\ notifies
         /\ pipe[k].status = "completed" => work[a] = "done"
    /\ Acks(k, a) /\ a \in Background => work[a] \in {"working", "done", "killed"}
    /\ Acks(k, a) /\ a \notin Background => work[a] = "done"
    /\ (Acks(k, a) /\ a \in Background) \/ pipe[k].kind = "task_notification" =>
         a \in parser.background \/ \E j \in 1 .. k - 1 : Is(j, "task_started", a)
    /\ pipe[k].kind = "tool_result" /\ pipe[k].status # "ok" =>
         work[a] = "failed" /\ pipe[k].status \in {"error", "limit"}
    /\ pipe[k].kind = "result" => k = Len(pipe)

\* The messages come in the order of the work they tell of.
InOrder == \A k \in DOMAIN pipe : Told(k)

\* Nothing is at work once a result is written, and nothing comes after it.
ResultIsLast ==
  /\ (\E k \in DOMAIN pipe : pipe[k].kind = "result") \/ parser.result # "none" =>
       \A a \in Agents : work[a] \notin {"asked", "started", "working"}
  /\ parser.result # "none" => pipe = <<>> /\ (notifies \/ parser.acks = {})

\* What is written of a sub-agent is read or in the pipe.
NotLost(a) ==
  /\ work[a] # "none" => AskedFor(a)
  /\ work[a] = "started" => a \in Background
  /\ a \in Background /\ work[a] \in {"started", "working", "done", "killed"} => Announced(a)
  /\ ~notifies /\ a \in Background /\ work[a] = "working" =>
       a \in parser.acks \/ \E k \in DOMAIN pipe : Acks(k, a)
  /\ notifies /\ a \in Background /\ work[a] \in {"done", "killed"} =>
       parser.notified \/ \E k \in DOMAIN pipe : pipe[k].kind = "task_notification"

NothingIsLost == \A a \in Agents : NotLost(a)

\* What the parser knows.
ParserKnows ==
  /\ parser.agents \subseteq {a \in Agents : work[a] # "none"}
  /\ parser.background \subseteq Background
  /\ parser.acks \subseteq {a \in parser.agents : a \in Background /\ work[a] \in {"working", "done", "killed"}}
  /\ IsFiniteSet(parser.acks)
  /\ notifies \/ ~parser.notified

\* A step is closed once; what is to be closed has ended.
StepsClose ==
  /\ recorder.open \subseteq parser.agents
  /\ recorder.limit \subseteq {a \in Agents : work[a] = "failed"}
  /\ \A a \in Agents :
       /\ steps[a].closed > 0 => a \in parser.agents \ recorder.open /\ recorder.flush[a] = "none"
       /\ steps[a].status = "success" => steps[a].closed > 0
  /\ Pumping => pump.outcome = "none"
  /\ pump.at = "read" => pump.ends = <<>>
  /\ pump.at \in {"end", "write"} => pump.ends # <<>>
  /\ pump.at \in {"sigterm", "sigkill", "close"} => pump.outcome \in {"over", "stalled", "cancelled"}
  /\ pump.outcome = "over" => leader = "exited" /\ pump.at \in {"close", "closed"}
  /\ \A n \in DOMAIN pump.ends : LET e == pump.ends[n] IN
       /\ e.id \in parser.agents /\ work[e.id] \in {"done", "failed", "killed"}
       /\ e.status = "ok" => work[e.id] = "done" \/ ~notifies
       /\ e.status # "ok" => work[e.id] = "failed"
  /\ pump.at = "write" => Head(pump.ends).id \notin recorder.open /\ steps[Head(pump.ends).id].closed = 0

\* The message that tells of the end of the work of a.
Proves(k, a) ==
  IF a \in Background /\ notifies THEN Is(k, "task_notification", a) /\ pipe[k].status = "completed"
  ELSE Acks(k, a)

ClosesNow(a) == pump.at = "write" /\ Head(pump.ends).id = a

\* What is at work has its step, and what is done is recorded or will be.
HasStep(a) ==
  work[a] \in {"asked", "started", "working"} =>
    a \in recorder.open \/ \E k \in DOMAIN pipe : Is(k, "tool_use", a)

WillBeRecorded(a) ==
  /\ a \in recorder.open \/ ClosesNow(a) \/ \E k \in DOMAIN pipe : Is(k, "tool_use", a)
  /\ \/ ~notifies /\ a \in parser.acks
     \/ \E k \in DOMAIN pipe : Proves(k, a)
     \/ \E n \in DOMAIN pump.ends : pump.ends[n].id = a

Recorded(a) ==
  /\ Pumping => HasStep(a)
  /\ Pumping /\ ~cut /\ work[a] = "done" => steps[a].status = "success" \/ WillBeRecorded(a)
  /\ pump.outcome = "over" /\ parser.result # "none" /\ ~cut /\ work[a] = "done" => steps[a].status = "success"

DoneWillBeRecorded == \A a \in Agents : Recorded(a)

StreamInv ==
  /\ StreamTypes /\ InOrder /\ ResultIsLast /\ NothingIsLost /\ ParserKnows /\ StepsClose
  /\ DoneWillBeRecorded /\ St!FinalLogKept /\ St!SuccessIsReal

LEMMA TailIs ==
  ASSUME NEW S, NEW s \in Seq(S), s # <<>>
  PROVE  /\ Tail(s) \in Seq(S) /\ Len(s) \in Nat \ {0} /\ Len(Tail(s)) = Len(s) - 1
         /\ DOMAIN s = 1 .. Len(s) /\ DOMAIN Tail(s) = 1 .. Len(s) - 1
         /\ \A k \in 1 .. Len(s) - 1 : Tail(s)[k] = s[k + 1]
         /\ \A k \in 2 .. Len(s) : s[k] = Tail(s)[k - 1]
         /\ Head(s) = s[1] /\ Head(s) \in S /\ 1 \in DOMAIN s
<1>1. Len(s) \in Nat \ {0} /\ DOMAIN s = 1 .. Len(s)  OBVIOUS
<1>2. /\ Tail(s) \in Seq(S) /\ Len(Tail(s)) = Len(s) - 1
      /\ \A k \in 1 .. Len(s) - 1 : Tail(s)[k] = s[k + 1]
  BY <1>1
<1>3. Head(s) = s[1] /\ Head(s) \in S  BY <1>1
<1>4. DOMAIN Tail(s) = 1 .. Len(s) - 1  BY <1>2
<1>5. \A k \in 2 .. Len(s) : s[k] = Tail(s)[k - 1]
  <2>1. \A k \in 2 .. Len(s) : k - 1 \in 1 .. Len(s) - 1 /\ k - 1 + 1 = k  BY <1>1
  <2> QED  BY <1>2, <2>1
<1> QED  BY <1>1, <1>2, <1>3, <1>4, <1>5

LEMMA AppendIs ==
  ASSUME NEW S, NEW s \in Seq(S), NEW e \in S
  PROVE  /\ Append(s, e) \in Seq(S) /\ Len(s) \in Nat /\ Len(Append(s, e)) = Len(s) + 1
         /\ DOMAIN s = 1 .. Len(s) /\ DOMAIN Append(s, e) = 1 .. Len(s) + 1
         /\ \A k \in DOMAIN s : Append(s, e)[k] = s[k] /\ k \in DOMAIN Append(s, e)
         /\ Append(s, e)[Len(s) + 1] = e /\ Append(s, e) # <<>>
<1> DEFINE t == Append(s, e)
<1>1. Len(s) \in Nat /\ DOMAIN s = 1 .. Len(s)  OBVIOUS
<1>2. /\ t \in Seq(S) /\ Len(t) = Len(s) + 1
      /\ \A k \in 1 .. Len(s) : t[k] = s[k]
      /\ t[Len(s) + 1] = e
  BY <1>1
<1> HIDE DEF t
<1>3. DOMAIN t = 1 .. Len(s) + 1  BY <1>2
<1>4. t # <<>>  BY <1>1, <1>2
<1>5. \A k \in DOMAIN s : t[k] = s[k] /\ k \in DOMAIN t  BY <1>1, <1>2, <1>3
<1> QED  BY <1>1, <1>2, <1>3, <1>4, <1>5 DEF t

\* What a step of Claude Code may do to the work of a sub-agent.
Goes(b) ==
  \/ work'[b] = work[b]
  \/ work[b] = "none" /\ work'[b] = "asked"
  \/ work[b] = "asked" /\ work'[b] = IF b \in Background THEN "started" ELSE "working"
  \/ work[b] = "started" /\ b \in Background /\ work'[b] \in {"working", "failed"}
  \/ work[b] = "working" /\ b \in Background /\ work'[b] \in {"done", "killed"}
  \/ work[b] = "working" /\ b \notin Background /\ work'[b] \in {"done", "failed"}

\* What is recorded stays true of the work that goes on.
LEMMA WorkerKeepsRecord ==
  ASSUME StreamInv, UNCHANGED <<notifies, parser, recorder, steps, pump>>,
         work' \in [Agents -> {"none", "asked", "started", "working", "done", "failed", "killed"}],
         \A b \in Agents : Goes(b), leader = "exited" => leader' = "exited"
  PROVE  StepsClose' /\ ParserKnows' /\ St!FinalLogKept' /\ St!SuccessIsReal'
<1>1. \A b \in Agents : /\ work[b] \in {"done", "failed", "killed"} => work'[b] = work[b]
                        /\ work[b] # "none" => work'[b] # "none"
                        /\ b \in Background /\ work[b] \in {"working", "done", "killed"}
                             => work'[b] \in {"working", "done", "killed"}
  BY DEF Goes
<1>2. pump.ends \in Seq(EndsOfSteps)  BY DEF StreamInv, StreamTypes
<1>3. \A n \in DOMAIN pump.ends : pump.ends[n].id \in Agents
  <2> DEFINE ends == pump.ends
  <2>1. \A n \in DOMAIN ends : ends[n] \in EndsOfSteps
    <3>1. ends \in Seq(EndsOfSteps)  BY <1>2
    <3> HIDE DEF ends
    <3> QED  BY <3>1
  <2> QED  BY <2>1 DEF EndsOfSteps
<1>4. ASSUME NEW n \in DOMAIN pump.ends
      PROVE  /\ pump.ends[n].id \in parser.agents /\ work'[pump.ends[n].id] \in {"done", "failed", "killed"}
             /\ pump.ends[n].status = "ok" => work'[pump.ends[n].id] = "done" \/ ~notifies
             /\ pump.ends[n].status # "ok" => work'[pump.ends[n].id] = "failed"
  BY <1>1, <1>3 DEF StreamInv, StepsClose
<1>5. StepsClose'
  <2>1. recorder.limit \subseteq {a \in Agents : work'[a] = "failed"}  BY <1>1 DEF StreamInv, StepsClose
  <2> QED  BY <1>4, <2>1 DEF StreamInv, StepsClose, Pumping
<1>6. ParserKnows'  BY <1>1 DEF StreamInv, ParserKnows
<1>7. St!FinalLogKept'  BY DEF StreamInv, St!FinalLogKept
<1>8. St!SuccessIsReal'  BY <1>1 DEF StreamInv, St!SuccessIsReal
<1> QED  BY <1>5, <1>6, <1>7, <1>8

\* A message more, after those that are in the pipe.
LEMMA MessageIsLast ==
  ASSUME StreamInv, UNCHANGED <<notifies, parser, recorder, steps, pump>>,
         work' \in [Agents -> {"none", "asked", "started", "working", "done", "failed", "killed"}],
         \A b \in Agents : Goes(b),
         NEW m \in Messages, pipe' = Append(pipe, m), ~\E k \in DOMAIN pipe : pipe[k].kind = "result",
         \A n : n = Len(pipe) + 1 => Told(n)',
         m.kind = "tool_use" => \A k \in DOMAIN pipe : ~Is(k, "tool_use", m.id)
  PROVE  InOrder'
<1>1. /\ pipe \in Seq(Messages) /\ pipe' \in Seq(Messages)
      /\ Len(pipe) \in Nat /\ Len(pipe') = Len(pipe) + 1
      /\ DOMAIN pipe = 1 .. Len(pipe) /\ DOMAIN pipe' = 1 .. Len(pipe) + 1
      /\ \A k \in DOMAIN pipe : pipe'[k] = pipe[k]
      /\ pipe'[Len(pipe) + 1] = m
  BY AppendIs DEF StreamInv, StreamTypes
<1>2. ASSUME NEW k \in DOMAIN pipe PROVE Told(k)'
  <2> DEFINE a == pipe[k].id
  <2>0. pipe'[k] = pipe[k] /\ \A j \in 1 .. k - 1 : pipe'[j] = pipe[j]
    BY <1>1
  <2>1. Told(k) /\ pipe[k].kind # "result"  BY DEF StreamInv, InOrder
  <2>2. a \in Agents /\ work[a] # "none" /\ work'[a] # "none"  BY <2>1 DEF Told, Goes
  <2>3. /\ work[a] = "done" => work'[a] = "done"
        /\ work[a] = "failed" => work'[a] = "failed"
        /\ a \in Background /\ work[a] \in {"working", "done", "killed"} => work'[a] \in {"working", "done", "killed"}
    BY <2>2 DEF Goes
  <2>4. pipe[k].kind = "tool_use" => \A j \in DOMAIN pipe' \ {k} : ~Is(j, "tool_use", a)'
    <3>1. ASSUME pipe[k].kind = "tool_use", NEW j \in DOMAIN pipe' \ {k}, pipe'[j].kind = "tool_use", pipe'[j].id = a
          PROVE FALSE
      <4>1. CASE j \in DOMAIN pipe
        BY <1>1, <2>1, <3>1, <4>1 DEF Told, Is
      <4>2. CASE j = Len(pipe) + 1
        <5>1. m.kind = "tool_use" /\ m.id = a  BY <1>1, <3>1, <4>2
        <5> QED  BY <3>1, <5>1 DEF Is
      <4> QED  BY <1>1, <4>1, <4>2
    <3> QED  BY <3>1 DEF Is
  <2>5. (pipe[k].kind \notin {"tool_use", "result"} =>
          a \in parser.agents \/ \E j \in 1 .. k - 1 : Is(j, "tool_use", a)')
    BY <2>0, <2>1 DEF Told, Is
  <2>6. (Acks(k, a) /\ a \in Background) \/ pipe[k].kind = "task_notification" =>
          a \in parser.background \/ \E j \in 1 .. k - 1 : Is(j, "task_started", a)'
    BY <2>0, <2>1 DEF Told, Is
  <2>7. Acks(k, a)' <=> Acks(k, a)  BY <2>0 DEF Acks, Is
  <2> QED  BY <2>0, <2>1, <2>2, <2>3, <2>4, <2>5, <2>6, <2>7 DEF Told, Acks, Is
<1> QED  BY <1>1, <1>2 DEF InOrder

\* Without a message, what the others tell stays true.
LEMMA SilenceKeepsOrder ==
  ASSUME StreamInv, UNCHANGED <<notifies, parser, pipe>>,
         work' \in [Agents -> {"none", "asked", "started", "working", "done", "failed", "killed"}],
         \A b \in Agents : Goes(b)
  PROVE  InOrder'
<1>1. ASSUME NEW k \in DOMAIN pipe PROVE Told(k)'
  <2> DEFINE a == pipe[k].id
  <2>1. Told(k)  BY DEF StreamInv, InOrder
  <2>2. pipe[k].kind # "result" => a \in Agents /\ work[a] # "none" /\ work'[a] # "none"  BY <2>1 DEF Told, Goes
  <2>3. pipe[k].kind # "result" =>
          /\ work[a] = "done" => work'[a] = "done"
          /\ work[a] = "failed" => work'[a] = "failed"
          /\ a \in Background /\ work[a] \in {"working", "done", "killed"} => work'[a] \in {"working", "done", "killed"}
    BY <2>2 DEF Goes
  <2>4. Acks(k, a) => pipe[k].kind = "tool_result"  BY DEF Acks, Is
  <2> QED  BY <2>1, <2>2, <2>3, <2>4 DEF Told, Acks, Is
<1> QED  BY <1>1 DEF InOrder

\* A sub-agent moves, with or without a message.
LEMMA AgentMoves ==
  ASSUME StreamInv, UNCHANGED <<notifies, parser, recorder, steps, pump, cut>>, leader = "exited" => leader' = "exited",
         work' \in [Agents -> {"none", "asked", "started", "working", "done", "failed", "killed"}],
         \A b \in Agents : Goes(b),
         NEW a \in Agents, \A b \in Agents \ {a} : work'[b] = work[b],
         pipe' \in Seq(Messages), \A k \in DOMAIN pipe : k \in DOMAIN pipe' /\ pipe'[k] = pipe[k],
         parser.result = "none", ~\E k \in DOMAIN pipe' : pipe'[k].kind = "result",
         InOrder', NotLost(a)', Recorded(a)'
  PROVE  StreamInv'
<1>1. StreamTypes'  BY DEF StreamInv, StreamTypes
<1>2. ResultIsLast'  BY DEF ResultIsLast
<1>3. ASSUME NEW b \in Agents \ {a} PROVE NotLost(b)' /\ Recorded(b)'
  <2>1. /\ \A kind : (\E k \in DOMAIN pipe : Is(k, kind, b)) => \E k \in DOMAIN pipe' : Is(k, kind, b)'
        /\ (\E k \in DOMAIN pipe : Acks(k, b)) => \E k \in DOMAIN pipe' : Acks(k, b)'
        /\ (\E k \in DOMAIN pipe : Proves(k, b)) => \E k \in DOMAIN pipe' : Proves(k, b)'
        /\ (\E k \in DOMAIN pipe : pipe[k].kind = "task_notification")
              => \E k \in DOMAIN pipe' : pipe'[k].kind = "task_notification"
    BY DEF Proves, Acks, Is
  <2>2. NotLost(b) /\ Recorded(b) /\ work'[b] = work[b]  BY DEF StreamInv, NothingIsLost, DoneWillBeRecorded
  <2>3. NotLost(b)'  BY <2>1, <2>2 DEF NotLost, AskedFor, Announced
  <2>4. Recorded(b)'
    BY <2>1, <2>2 DEF Recorded, WillBeRecorded, HasStep, ClosesNow, Pumping
  <2> QED  BY <2>3, <2>4
<1>4. NothingIsLost' /\ DoneWillBeRecorded'  BY <1>3 DEF NothingIsLost, DoneWillBeRecorded
<1>5. StepsClose' /\ ParserKnows' /\ St!FinalLogKept' /\ St!SuccessIsReal'  BY WorkerKeepsRecord
<1> QED  BY <1>1, <1>2, <1>4, <1>5 DEF StreamInv

\* A message of a sub-agent.
LEMMA AgentSpeaks ==
  ASSUME StreamInv, NEW a \in Agents, NEW kind \in St!Kinds \ {"result"}, NEW how, St!Emit(kind, a, how),
         how \in {"ok", "error", "limit", "completed", "stopped"},
         parser.result = "none", ~\E k \in DOMAIN pipe : pipe[k].kind = "result"
  PROVE  /\ pipe \in Seq(Messages) /\ pipe' \in Seq(Messages) /\ Len(pipe) \in Nat /\ Len(pipe) + 1 \in DOMAIN pipe'
         /\ St!Message(kind, a, how) \in Messages /\ pipe' = Append(pipe, St!Message(kind, a, how))
         /\ DOMAIN pipe = 1 .. Len(pipe) /\ DOMAIN pipe' = 1 .. Len(pipe) + 1 /\ Len(pipe') = Len(pipe) + 1
         /\ \A k \in DOMAIN pipe : k \in DOMAIN pipe' /\ pipe'[k] = pipe[k]
         /\ pipe'[Len(pipe) + 1] = St!Message(kind, a, how)
         /\ ~\E k \in DOMAIN pipe' : pipe'[k].kind = "result"
         /\ Pumping /\ leader = "alive" /\ pump.outcome # "over"
<1> DEFINE m == St!Message(kind, a, how)
<1>1. m \in Messages /\ m.kind = kind  BY DEF St!Message, Messages
<1>2. pipe \in Seq(Messages) /\ pipe' = Append(pipe, m)  BY DEF St!Emit, StreamInv, StreamTypes
<1> HIDE DEF m
<1>3. /\ pipe' \in Seq(Messages) /\ Len(pipe) \in Nat /\ Len(pipe') = Len(pipe) + 1
      /\ DOMAIN pipe = 1 .. Len(pipe) /\ DOMAIN pipe' = 1 .. Len(pipe) + 1
      /\ \A k \in DOMAIN pipe : pipe'[k] = pipe[k] /\ k \in DOMAIN pipe'
      /\ pipe'[Len(pipe) + 1] = m
  BY <1>1, <1>2, AppendIs
<1>4. ~\E k \in DOMAIN pipe' : pipe'[k].kind = "result"
  <2>1. \A k \in DOMAIN pipe' : k \in DOMAIN pipe \/ k = Len(pipe) + 1  BY <1>3
  <2>2. m.kind # "result"  BY <1>1
  <2> QED  BY <1>3, <2>1, <2>2
<1>5. Pumping /\ leader = "alive" /\ pump.outcome # "over"
  BY DEF Pumping, St!Emit, StreamInv, StepsClose
<1>6. Len(pipe) + 1 \in DOMAIN pipe'  BY <1>3
<1> QED  BY <1>1, <1>2, <1>3, <1>4, <1>5, <1>6 DEF m

\* Nothing has ended the session while a sub-agent is at work.
LEMMA NoResultYet ==
  ASSUME StreamInv, NEW a \in Agents, work[a] \in {"asked", "started", "working"}
  PROVE  parser.result = "none" /\ ~\E k \in DOMAIN pipe : pipe[k].kind = "result"
BY DEF StreamInv, ResultIsLast

\* The states of a sub-agent that moves.
LEMMA AgentBecomes ==
  ASSUME StreamInv, NEW a \in Agents, NEW phase \in {"none", "asked", "started", "working", "done", "failed", "killed"},
         work' = [work EXCEPT ![a] = phase]
  PROVE  /\ work' \in [Agents -> {"none", "asked", "started", "working", "done", "failed", "killed"}]
         /\ work'[a] = phase /\ \A b \in Agents \ {a} : work'[b] = work[b]
         /\ Goes(a) => \A b \in Agents : Goes(b)
BY DEF StreamInv, StreamTypes, Goes

LEMMA LaunchAgentKeeps == ASSUME StreamInv, NEW a \in Agents, St!LaunchAgent(a) PROVE StreamInv'
<1> USE DEF St!Unseen
<1>1. /\ work[a] = "none" /\ parser.result = "none" /\ ~\E k \in DOMAIN pipe : pipe[k].kind = "result"
      /\ St!Emit("tool_use", a, "ok") /\ work' = [work EXCEPT ![a] = "asked"] /\ leader' = leader
      /\ UNCHANGED <<notifies, parser, recorder, steps, pump, cut>>
  BY DEF St!LaunchAgent, St!Becomes
<1>2. /\ work' \in [Agents -> {"none", "asked", "started", "working", "done", "failed", "killed"}]
      /\ work'[a] = "asked" /\ (\A b \in Agents \ {a} : work'[b] = work[b]) /\ \A b \in Agents : Goes(b)
  BY <1>1, AgentBecomes DEF Goes
<1> DEFINE m == St!Message("tool_use", a, "ok")
<1>3. /\ pipe \in Seq(Messages) /\ pipe' \in Seq(Messages) /\ Len(pipe) \in Nat /\ Len(pipe) + 1 \in DOMAIN pipe'
      /\ m \in Messages /\ pipe' = Append(pipe, m)
      /\ DOMAIN pipe = 1 .. Len(pipe) /\ DOMAIN pipe' = 1 .. Len(pipe) + 1 /\ Len(pipe') = Len(pipe) + 1
      /\ \A k \in DOMAIN pipe : k \in DOMAIN pipe' /\ pipe'[k] = pipe[k]
      /\ pipe'[Len(pipe) + 1] = m /\ ~\E k \in DOMAIN pipe' : pipe'[k].kind = "result"
  BY <1>1, AgentSpeaks DEF St!Kinds
<1>4. m.kind = "tool_use" /\ m.id = a /\ m.status = "ok"  BY DEF St!Message
<1> HIDE DEF m
<1>5. a \notin parser.agents /\ \A k \in DOMAIN pipe : ~Is(k, "tool_use", a)
  <2>1. a \notin parser.agents  BY <1>1 DEF StreamInv, ParserKnows
  <2>2. \A k \in DOMAIN pipe : ~Is(k, "tool_use", a)
    BY <1>1 DEF StreamInv, InOrder, Told, Is
  <2> QED  BY <2>1, <2>2
<1>6. ASSUME NEW n, n = Len(pipe) + 1 PROVE Told(n)' /\ Is(n, "tool_use", a)' /\ n \in DOMAIN pipe'
  <2>1. \A j \in DOMAIN pipe' \ {n} : ~Is(j, "tool_use", a)'
    <3>1. \A j \in DOMAIN pipe' \ {n} : j \in DOMAIN pipe  BY <1>3, <1>6
    <3> QED  BY <1>3, <1>5, <3>1 DEF Is
  <2> QED  BY <1>1, <1>2, <1>3, <1>4, <1>5, <1>6, <2>1 DEF Told, Is, Acks
<1>7. InOrder'  BY <1>1, <1>2, <1>3, <1>4, <1>5, <1>6, MessageIsLast
<1>8. NotLost(a)'  BY <1>2, <1>3, <1>6 DEF NotLost, AskedFor
<1>9. Recorded(a)'  BY <1>2, <1>3, <1>6 DEF Recorded, HasStep
<1> QED  BY <1>1, <1>2, <1>3, <1>7, <1>8, <1>9, AgentMoves

\* The message of a sub-agent that was asked for comes after its launch.
LEMMA SpokenIsTold ==
  ASSUME StreamInv, UNCHANGED <<notifies, parser, recorder, steps, pump, cut>>,
         work' \in [Agents -> {"none", "asked", "started", "working", "done", "failed", "killed"}],
         \A b \in Agents : Goes(b),
         NEW a \in Agents, NEW kind \in St!Kinds \ {"result", "tool_use"},
         NEW how \in {"ok", "error", "limit", "completed", "stopped"}, St!Emit(kind, a, how),
         work[a] \in {"asked", "started", "working"},
         kind \in {"task_notification", "tool_result"} => work[a] # "asked",
         kind = "task_started" => a \in Background,
         kind = "task_notification" => a \in Background /\ notifies /\ (how = "completed" => work'[a] = "done"),
         kind = "tool_result" =>
           /\ how = "ok" /\ a \in Background => work'[a] = "working" /\ work[a] = "started"
           /\ how = "ok" /\ a \notin Background => work'[a] = "done"
           /\ how # "ok" => work'[a] = "failed" /\ how \in {"error", "limit"}
  PROVE  /\ InOrder' /\ \A n : n = Len(pipe) + 1 => /\ n \in DOMAIN pipe' /\ Is(n, kind, a)'
                                                    /\ pipe'[n].status = how
<1> DEFINE m == St!Message(kind, a, how)
<1>1. parser.result = "none" /\ ~\E k \in DOMAIN pipe : pipe[k].kind = "result"  BY NoResultYet
<1>2. /\ pipe \in Seq(Messages) /\ pipe' \in Seq(Messages) /\ Len(pipe) \in Nat /\ Len(pipe) + 1 \in DOMAIN pipe'
      /\ m \in Messages /\ pipe' = Append(pipe, m)
      /\ DOMAIN pipe = 1 .. Len(pipe) /\ DOMAIN pipe' = 1 .. Len(pipe) + 1 /\ Len(pipe') = Len(pipe) + 1
      /\ \A k \in DOMAIN pipe : k \in DOMAIN pipe' /\ pipe'[k] = pipe[k]
      /\ pipe'[Len(pipe) + 1] = m
  BY <1>1, AgentSpeaks
<1>3. m.kind = kind /\ m.id = a /\ m.status = how  BY DEF St!Message
<1> HIDE DEF m
<1>4. NotLost(a)  BY DEF StreamInv, NothingIsLost
<1>5. ASSUME NEW n, n = Len(pipe) + 1 PROVE Told(n)' /\ n \in DOMAIN pipe' /\ Is(n, kind, a)' /\ pipe'[n].status = how
  <2>1. a \in parser.agents \/ \E j \in 1 .. n - 1 : Is(j, "tool_use", a)'
    <3>1. a \in parser.agents \/ \E j \in DOMAIN pipe : Is(j, "tool_use", a)  BY <1>4 DEF NotLost, AskedFor
    <3>2. 1 .. n - 1 = DOMAIN pipe  BY <1>2, <1>5
    <3> QED  BY <1>2, <3>1, <3>2 DEF Is
  <2>2. kind = "task_notification" \/ (kind = "tool_result" /\ how = "ok" /\ a \in Background) =>
          a \in parser.background \/ \E j \in 1 .. n - 1 : Is(j, "task_started", a)'
    <3>1. SUFFICES ASSUME a \in Background, work[a] \in {"started", "working"}
                   PROVE  a \in parser.background \/ \E j \in 1 .. n - 1 : Is(j, "task_started", a)'
      OBVIOUS
    <3>2. a \in parser.background \/ \E j \in DOMAIN pipe : Is(j, "task_started", a)
      BY <1>4, <3>1 DEF NotLost, Announced
    <3>3. 1 .. n - 1 = DOMAIN pipe  BY <1>2, <1>5
    <3> QED  BY <1>2, <3>2, <3>3 DEF Is
  <2>3. a \in Agents /\ work'[a] # "none"  BY DEF Goes
  <2>4. pipe'[n] = m /\ n \in DOMAIN pipe'  BY <1>2, <1>5
  <2>5. Is(n, kind, a)' /\ pipe'[n].status = how  BY <1>3, <2>4 DEF Is
  <2>6. kind # "result" /\ kind # "tool_use"  OBVIOUS
  <2> QED  BY <1>3, <2>1, <2>2, <2>3, <2>4, <2>5, <2>6 DEF Told, Acks, Is
<1>6. InOrder'  BY <1>1, <1>2, <1>3, <1>5, MessageIsLast
<1> QED  BY <1>5, <1>6

\* A sub-agent at work speaks, and stays or moves: what is still to prove is its own part.
LEMMA SpokenKeeps ==
  ASSUME StreamInv, UNCHANGED <<notifies, parser, recorder, steps, pump, cut, leader>>,
         NEW a \in Agents, NEW kind \in St!Kinds \ {"result", "tool_use"},
         NEW how \in {"ok", "error", "limit", "completed", "stopped"}, St!Emit(kind, a, how),
         NEW phase \in {"started", "working", "done", "failed", "killed"},
         work[a] \in {"asked", "started", "working"}, work' = [work EXCEPT ![a] = phase], Goes(a),
         kind \in {"task_notification", "tool_result"} => work[a] # "asked",
         kind = "task_started" => a \in Background,
         kind = "task_notification" => a \in Background /\ notifies /\ (how = "completed" => phase = "done"),
         kind = "tool_result" =>
           /\ how = "ok" /\ a \in Background => phase = "working" /\ work[a] = "started"
           /\ how = "ok" /\ a \notin Background => phase = "done"
           /\ how # "ok" => phase = "failed" /\ how \in {"error", "limit"},
         phase = "started" => a \in Background,
         a \in Background /\ work[a] = "asked" => kind = "task_started",
         a \in Background /\ work[a] = "started" /\ phase = "working" => kind = "tool_result" /\ how = "ok",
         a \in Background /\ notifies /\ phase \in {"done", "killed"} => kind = "task_notification",
         phase = "done" => \A n : n = Len(pipe) + 1 => Proves(n, a)'
  PROVE  StreamInv'
<1>1. /\ work' \in [Agents -> {"none", "asked", "started", "working", "done", "failed", "killed"}]
      /\ work'[a] = phase /\ (\A b \in Agents \ {a} : work'[b] = work[b]) /\ \A b \in Agents : Goes(b)
  BY AgentBecomes
<1>2. parser.result = "none" /\ ~\E k \in DOMAIN pipe : pipe[k].kind = "result"  BY NoResultYet
<1>3. /\ pipe \in Seq(Messages) /\ pipe' \in Seq(Messages) /\ Len(pipe) \in Nat /\ Len(pipe) + 1 \in DOMAIN pipe'
      /\ \A k \in DOMAIN pipe : k \in DOMAIN pipe' /\ pipe'[k] = pipe[k]
      /\ ~\E k \in DOMAIN pipe' : pipe'[k].kind = "result"
      /\ Pumping /\ pump.outcome # "over"
  BY <1>2, AgentSpeaks
<1>4. /\ InOrder'
      /\ \A n : n = Len(pipe) + 1 => n \in DOMAIN pipe' /\ Is(n, kind, a)' /\ pipe'[n].status = how
  BY <1>1, SpokenIsTold
<1>5. PICK n : n = Len(pipe) + 1  OBVIOUS
<1>6. n \in DOMAIN pipe' /\ Is(n, kind, a)' /\ pipe'[n].status = how  BY <1>4, <1>5
<1>7. NotLost(a) /\ Recorded(a)  BY DEF StreamInv, NothingIsLost, DoneWillBeRecorded
<1>8. /\ \A what : (\E k \in DOMAIN pipe : Is(k, what, a)) => \E k \in DOMAIN pipe' : Is(k, what, a)'
      /\ (\E k \in DOMAIN pipe : Acks(k, a)) => \E k \in DOMAIN pipe' : Acks(k, a)'
  BY <1>3 DEF Acks, Is
<1>9. NotLost(a)'
  <2>1. AskedFor(a)'  BY <1>7, <1>8 DEF NotLost, AskedFor
  <2>2. a \in Background => Announced(a)'
    BY <1>6, <1>7, <1>8 DEF NotLost, Announced
  <2>3. ~notifies /\ a \in Background /\ phase = "working" => a \in parser.acks \/ \E k \in DOMAIN pipe' : Acks(k, a)'
    <3>1. CASE work[a] = "working"  BY <1>7, <1>8, <3>1 DEF NotLost
    <3>2. CASE work[a] = "started"  BY <1>6, <3>2 DEF Acks
    <3>3. CASE work[a] = "asked"  BY <1>1, <3>3 DEF Goes
    <3> QED  BY <3>1, <3>2, <3>3
  <2>4. notifies /\ a \in Background /\ phase \in {"done", "killed"} =>
          \E k \in DOMAIN pipe' : pipe'[k].kind = "task_notification"
    BY <1>6 DEF Is
  <2> QED  BY <1>1, <2>1, <2>2, <2>3, <2>4 DEF NotLost
<1>10. Recorded(a)'
  <2>1. a \in recorder.open \/ \E k \in DOMAIN pipe' : Is(k, "tool_use", a)'
    BY <1>3, <1>7, <1>8 DEF Recorded, HasStep
  <2>2. phase = "done" => \E k \in DOMAIN pipe' : Proves(k, a)'  BY <1>5, <1>6
  <2> QED  BY <1>1, <1>3, <2>1, <2>2 DEF Recorded, HasStep, WillBeRecorded
<1> QED  BY <1>1, <1>2, <1>3, <1>4, <1>9, <1>10, AgentMoves

LEMMA StartTaskKeeps == ASSUME StreamInv, NEW a \in Agents, St!StartTask(a) PROVE StreamInv'
<1>1. /\ work[a] = "asked" /\ a \in Background /\ St!Emit("task_started", a, "ok")
      /\ work' = [work EXCEPT ![a] = "started"] /\ UNCHANGED <<notifies, parser, recorder, steps, pump, cut, leader>>
  BY DEF St!StartTask, St!Becomes, St!Unseen
<1>2. Goes(a)  BY <1>1, AgentBecomes DEF Goes
<1> QED  BY <1>1, <1>2, SpokenKeeps DEF St!Kinds

LEMMA AcknowledgeKeeps == ASSUME StreamInv, NEW a \in Agents, St!Acknowledge(a) PROVE StreamInv'
<1>1. /\ work[a] = "started" /\ St!Emit("tool_result", a, "ok")
      /\ work' = [work EXCEPT ![a] = "working"] /\ UNCHANGED <<notifies, parser, recorder, steps, pump, cut, leader>>
  BY DEF St!Acknowledge, St!Becomes, St!Unseen
<1> "tool_result" \in St!Kinds \ {"result", "tool_use"}  BY DEF St!Kinds
<1>2. a \in Background  BY <1>1 DEF StreamInv, NothingIsLost, NotLost
<1>3. Goes(a)  BY <1>1, <1>2, AgentBecomes DEF Goes
<1> QED  BY <1>1, <1>2, <1>3, SpokenKeeps DEF St!Kinds

LEMMA TraceKeeps == ASSUME StreamInv, NEW a \in Agents, St!Trace(a) PROVE StreamInv'
<1>1. /\ work[a] = "working" /\ St!Emit("trace", a, "ok") /\ work' = work
      /\ UNCHANGED <<notifies, parser, recorder, steps, pump, cut, leader>>
  BY DEF St!Trace, St!Unseen
<1> "trace" \in St!Kinds \ {"result", "tool_use"}  BY DEF St!Kinds
<1>2. Goes(a) /\ work' = [work EXCEPT ![a] = "working"]  BY <1>1 DEF Goes, StreamInv, StreamTypes
<1> QED  BY <1>1, <1>2, SpokenKeeps

LEMMA FailKeeps == ASSUME StreamInv, NEW a \in Agents, St!Fail(a) PROVE StreamInv'
<1>1. /\ work[a] = (IF a \in Background THEN "started" ELSE "working")
      /\ work' = [work EXCEPT ![a] = "failed"] /\ UNCHANGED <<notifies, parser, recorder, steps, pump, cut, leader>>
  BY DEF St!Fail, St!Becomes, St!Unseen
<1>2. Goes(a)  BY <1>1, AgentBecomes DEF Goes
<1>3. PICK why \in {"error", "limit"} : St!Emit("tool_result", a, why)  BY DEF St!Fail
<1> "tool_result" \in St!Kinds \ {"result", "tool_use"}  BY DEF St!Kinds
<1>4. work[a] \in {"started", "working"}  BY <1>1
<1> QED  BY <1>1, <1>2, <1>3, <1>4, SpokenKeeps

\* A sub-agent moves and says nothing.
LEMMA QuietKeeps ==
  ASSUME StreamInv, UNCHANGED <<notifies, parser, recorder, steps, pump, cut, leader, pipe>>,
         NEW a \in Agents, NEW phase \in {"working", "done", "killed"}, work' = [work EXCEPT ![a] = phase],
         work[a] \in {"asked", "working"}, Goes(a), phase = "working" => a \notin Background,
         phase # "working" => ~notifies /\ a \in Background /\ leader = "alive"
  PROVE  StreamInv'
<1>1. /\ work' \in [Agents -> {"none", "asked", "started", "working", "done", "failed", "killed"}]
      /\ work'[a] = phase /\ (\A b \in Agents \ {a} : work'[b] = work[b]) /\ \A b \in Agents : Goes(b)
  BY AgentBecomes
<1>2. parser.result = "none" /\ ~\E k \in DOMAIN pipe : pipe[k].kind = "result"  BY NoResultYet
<1>3. InOrder'  BY <1>1, SilenceKeepsOrder
<1>4. NotLost(a) /\ Recorded(a)  BY DEF StreamInv, NothingIsLost, DoneWillBeRecorded
<1>5. phase # "working" => work[a] = "working"  BY <1>1 DEF Goes
<1>6. NotLost(a)'  BY <1>1, <1>4, <1>5 DEF NotLost, AskedFor, Announced, Is
<1>7. Recorded(a)'
  <2>1. CASE phase = "working"  BY <1>1, <1>4, <2>1 DEF Recorded, HasStep, Pumping, Is
  <2>2. CASE phase # "working"
    <3>1. pump.outcome # "over"  BY <2>2 DEF StreamInv, StepsClose
    <3>2. a \in parser.acks \/ \E k \in DOMAIN pipe : Acks(k, a)  BY <1>4, <1>5, <2>2 DEF NotLost
    <3>3. a \in parser.acks \/ \E k \in DOMAIN pipe' : Proves(k, a)'  BY <2>2, <3>2 DEF Proves, Acks, Is
    <3>4. Pumping => a \in recorder.open \/ \E k \in DOMAIN pipe' : Is(k, "tool_use", a)'
      BY <1>4, <1>5, <2>2 DEF Recorded, HasStep, Is
    <3> QED  BY <1>1, <2>2, <3>1, <3>3, <3>4 DEF Recorded, HasStep, WillBeRecorded, Pumping
  <2> QED  BY <2>1, <2>2
<1>8. pipe' \in Seq(Messages)  BY DEF StreamInv, StreamTypes
<1> QED  BY <1>1, <1>2, <1>3, <1>6, <1>7, <1>8, AgentMoves

LEMMA BeginWorkKeeps == ASSUME StreamInv, NEW a \in Agents, St!BeginWork(a) PROVE StreamInv'
<1>1. /\ work[a] = "asked" /\ a \notin Background /\ work' = [work EXCEPT ![a] = "working"]
      /\ UNCHANGED <<notifies, parser, recorder, steps, pump, cut, leader, pipe>>
  BY DEF St!BeginWork, St!Becomes, St!Unseen
<1>2. Goes(a)  BY <1>1, AgentBecomes DEF Goes
<1> QED  BY <1>1, <1>2, QuietKeeps

LEMMA FinishKeeps == ASSUME StreamInv, NEW a \in Agents, St!Finish(a) PROVE StreamInv'
<1>1. /\ work[a] = "working" /\ work' = [work EXCEPT ![a] = "done"]
      /\ UNCHANGED <<notifies, parser, recorder, steps, pump, cut, leader>>
  BY DEF St!Finish, St!Becomes, St!Unseen
<1>2. Goes(a)  BY <1>1, AgentBecomes DEF Goes
<1>3. parser.result = "none" /\ ~\E k \in DOMAIN pipe : pipe[k].kind = "result"  BY <1>1, NoResultYet
<1>4. CASE a \notin Background
  <2>1. St!Emit("tool_result", a, "ok")  BY <1>4 DEF St!Finish
  <2>2. pipe'[Len(pipe) + 1] = St!Message("tool_result", a, "ok")  BY <1>3, <2>1, AgentSpeaks DEF St!Kinds
  <2>3. \A n : n = Len(pipe) + 1 => Proves(n, a)'  BY <1>4, <2>2 DEF Proves, Acks, Is, St!Message
  <2> "tool_result" \in St!Kinds \ {"result", "tool_use"}  BY DEF St!Kinds
  <2> QED  BY <1>1, <1>2, <1>4, <2>1, <2>3, SpokenKeeps
<1>5. CASE a \in Background /\ notifies
  <2>1. St!Emit("task_notification", a, "completed")  BY <1>5 DEF St!Finish
  <2>2. pipe'[Len(pipe) + 1] = St!Message("task_notification", a, "completed")
    BY <1>3, <2>1, AgentSpeaks DEF St!Kinds
  <2>3. \A n : n = Len(pipe) + 1 => Proves(n, a)'  BY <1>1, <1>5, <2>2 DEF Proves, Is, St!Message
  <2> QED  BY <1>1, <1>2, <1>5, <2>1, <2>3, SpokenKeeps DEF St!Kinds
<1>6. CASE a \in Background /\ ~notifies
  <2>1. leader = "alive" /\ pipe' = pipe  BY <1>6 DEF St!Finish
  <2> QED  BY <1>1, <1>2, <1>6, <2>1, QuietKeeps
<1> QED  BY <1>4, <1>5, <1>6

LEMMA KillAgentKeeps == ASSUME StreamInv, NEW a \in Agents, St!Kill(a) PROVE StreamInv'
<1>1. /\ work[a] = "working" /\ a \in Background /\ work' = [work EXCEPT ![a] = "killed"]
      /\ UNCHANGED <<notifies, parser, recorder, steps, pump, cut, leader>>
  BY DEF St!Kill, St!Becomes, St!Unseen
<1>2. Goes(a)  BY <1>1, AgentBecomes DEF Goes
<1>3. CASE notifies
  <2>1. St!Emit("task_notification", a, "stopped")  BY <1>3 DEF St!Kill
  <2> QED  BY <1>1, <1>2, <1>3, <2>1, SpokenKeeps DEF St!Kinds
<1>4. CASE ~notifies
  <2>1. leader = "alive" /\ pipe' = pipe  BY <1>4 DEF St!Kill
  <2> QED  BY <1>1, <1>2, <1>4, <2>1, QuietKeeps
<1> QED  BY <1>3, <1>4

LEMMA WriteResultKeeps == ASSUME StreamInv, St!WriteResult PROVE StreamInv'
<1>1. /\ \A a \in Agents : work[a] \notin {"asked", "started", "working"}
      /\ ~(\E k \in DOMAIN pipe : pipe[k].kind = "result") /\ parser.result = "none"
      /\ UNCHANGED <<notifies, parser, recorder, steps, pump, cut, work, leader>>
  BY DEF St!WriteResult, St!Unseen
<1> DEFINE who == CHOOSE a \in Agents : TRUE
<1>2. PICK s \in {"ok", "error"} : St!Emit("result", who, s)  BY DEF St!WriteResult
<1> DEFINE m == St!Message("result", who, s)
<1>3. m \in Messages /\ m.kind = "result"  BY DEF Messages, St!Message, St!Kinds
<1>4. pipe \in Seq(Messages) /\ pipe' = Append(pipe, m)  BY <1>2 DEF St!Emit, StreamInv, StreamTypes
<1> HIDE DEF m
<1>5. /\ pipe' \in Seq(Messages) /\ Len(pipe) \in Nat /\ Len(pipe') = Len(pipe) + 1
      /\ DOMAIN pipe = 1 .. Len(pipe) /\ DOMAIN pipe' = 1 .. Len(pipe) + 1
      /\ \A k \in DOMAIN pipe : pipe'[k] = pipe[k] /\ k \in DOMAIN pipe'
      /\ pipe'[Len(pipe) + 1] = m
  BY <1>3, <1>4, AppendIs
<1>6. work' \in [Agents -> {"none", "asked", "started", "working", "done", "failed", "killed"}]
      /\ \A b \in Agents : Goes(b)
  BY <1>1 DEF Goes, StreamInv, StreamTypes
<1>7. \A n : n = Len(pipe) + 1 => Told(n)'  BY <1>3, <1>5 DEF Told, Acks, Is
<1>8. InOrder'  BY <1>1, <1>3, <1>4, <1>6, <1>7, MessageIsLast
<1>9. StepsClose' /\ ParserKnows' /\ St!FinalLogKept' /\ St!SuccessIsReal'  BY <1>1, <1>6, WorkerKeepsRecord
<1>10. StreamTypes'  BY <1>1, <1>5 DEF StreamInv, StreamTypes
<1>11. ResultIsLast'  BY <1>1 DEF ResultIsLast
<1>12. ASSUME NEW b \in Agents PROVE NotLost(b)' /\ Recorded(b)'
  <2>1. /\ \A kind : (\E k \in DOMAIN pipe : Is(k, kind, b)) => \E k \in DOMAIN pipe' : Is(k, kind, b)'
        /\ (\E k \in DOMAIN pipe : Acks(k, b)) => \E k \in DOMAIN pipe' : Acks(k, b)'
        /\ (\E k \in DOMAIN pipe : Proves(k, b)) => \E k \in DOMAIN pipe' : Proves(k, b)'
        /\ (\E k \in DOMAIN pipe : pipe[k].kind = "task_notification")
              => \E k \in DOMAIN pipe' : pipe'[k].kind = "task_notification"
    BY <1>1, <1>5 DEF Proves, Acks, Is
  <2>2. NotLost(b) /\ Recorded(b)  BY DEF StreamInv, NothingIsLost, DoneWillBeRecorded
  <2>3. NotLost(b)'  BY <1>1, <2>1, <2>2 DEF NotLost, AskedFor, Announced
  <2>4. Recorded(b)'
    BY <1>1, <2>1, <2>2 DEF Recorded, WillBeRecorded, HasStep, ClosesNow, Pumping
  <2> QED  BY <2>3, <2>4
<1> QED  BY <1>8, <1>9, <1>10, <1>11, <1>12 DEF StreamInv, NothingIsLost, DoneWillBeRecorded

LEMMA ExitKeeps == ASSUME StreamInv, St!CloseOutput \/ St!Exit PROVE StreamInv'
<1>1. /\ UNCHANGED <<notifies, parser, recorder, steps, pump, cut, work, pipe>>
      /\ leader = "exited" => leader' = "exited"
  BY DEF St!CloseOutput, St!Exit, St!Unseen
<1>2. work' \in [Agents -> {"none", "asked", "started", "working", "done", "failed", "killed"}]
      /\ \A b \in Agents : Goes(b)
  BY <1>1 DEF Goes, StreamInv, StreamTypes
<1>3. StepsClose' /\ ParserKnows' /\ St!FinalLogKept' /\ St!SuccessIsReal'  BY <1>1, <1>2, WorkerKeepsRecord
<1>4. InOrder'  BY <1>1, <1>2, SilenceKeepsOrder
<1>5. StreamTypes' /\ ResultIsLast'  BY <1>1 DEF StreamInv, StreamTypes, ResultIsLast
<1>6. NothingIsLost'  BY <1>1 DEF StreamInv, NothingIsLost, NotLost, AskedFor, Announced, Acks, Is
<1>7. DoneWillBeRecorded'
  BY <1>1 DEF StreamInv, DoneWillBeRecorded, Recorded, WillBeRecorded, HasStep, ClosesNow, Pumping, Proves, Acks, Is
<1> QED  BY <1>3, <1>4, <1>5, <1>6, <1>7 DEF StreamInv

\* The messages that remain are told as they were, one place nearer.
LEMMA ReadKeepsOrder ==
  ASSUME StreamInv, pipe # <<>>, pipe' = Tail(pipe), UNCHANGED <<notifies, work>>,
         parser.agents \subseteq parser'.agents, parser.background \subseteq parser'.background,
         pipe[1].kind # "tool_use" => parser'.agents = parser.agents,
         pipe[1].kind = "tool_use" => parser'.agents = parser.agents \cup {pipe[1].id},
         pipe[1].kind = "task_started" /\ pipe[1].id \in parser.agents => pipe[1].id \in parser'.background
  PROVE  /\ Told(1) /\ 1 \in DOMAIN pipe /\ pipe[1] \in Messages /\ Head(pipe) = pipe[1] /\ parser.result = "none"
         /\ pipe' \in Seq(Messages) /\ InOrder'
         /\ \A b : (AskedFor(b) => AskedFor(b)') /\ (Announced(b) => Announced(b)')
         /\ \A k \in DOMAIN pipe' : k + 1 \in DOMAIN pipe /\ pipe'[k] = pipe[k + 1]
         /\ \A k \in DOMAIN pipe : k # 1 => k - 1 \in DOMAIN pipe' /\ pipe[k] = pipe'[k - 1]
         /\ pipe[1].kind = "result" => pipe' = <<>>
<1>1. /\ pipe' \in Seq(Messages) /\ Len(pipe) \in Nat \ {0} /\ Len(pipe') = Len(pipe) - 1
      /\ DOMAIN pipe = 1 .. Len(pipe) /\ DOMAIN pipe' = 1 .. Len(pipe) - 1
      /\ \A k \in 1 .. Len(pipe) - 1 : pipe'[k] = pipe[k + 1]
      /\ \A k \in 2 .. Len(pipe) : pipe[k] = pipe'[k - 1]
      /\ Head(pipe) = pipe[1] /\ Head(pipe) \in Messages /\ 1 \in DOMAIN pipe
  BY TailIs DEF StreamInv, StreamTypes
<1>2. /\ \A k \in DOMAIN pipe' : k + 1 \in DOMAIN pipe /\ pipe'[k] = pipe[k + 1]
      /\ \A k \in DOMAIN pipe : k # 1 => k - 1 \in DOMAIN pipe' /\ pipe[k] = pipe'[k - 1]
  <2>1. \A k \in 1 .. Len(pipe) - 1 : k + 1 \in 1 .. Len(pipe)  BY <1>1
  <2>2. \A k \in 1 .. Len(pipe) : k # 1 => k \in 2 .. Len(pipe) /\ k - 1 \in 1 .. Len(pipe) - 1  BY <1>1
  <2> QED  BY <1>1, <2>1, <2>2
<1>3. Told(1) /\ parser.result = "none"  BY <1>1 DEF StreamInv, InOrder, ResultIsLast
<1>4. pipe[1].kind = "result" => pipe' = <<>>
  <2>1. pipe[1].kind = "result" => Len(pipe) = 1  BY <1>3 DEF Told
  <2> QED  BY <1>1, <2>1
<1>5. ASSUME NEW b PROVE (AskedFor(b) => AskedFor(b)') /\ (Announced(b) => Announced(b)')
  <2>1. ASSUME NEW k \in DOMAIN pipe, Is(k, "tool_use", b) PROVE AskedFor(b)'
    <3>1. CASE k = 1  BY <2>1, <3>1 DEF Is, AskedFor
    <3>2. CASE k # 1  BY <1>2, <2>1, <3>2 DEF Is, AskedFor
    <3> QED  BY <3>1, <3>2
  <2>2. ASSUME NEW k \in DOMAIN pipe, Is(k, "task_started", b) PROVE Announced(b)'
    <3>1. CASE k = 1
      <4>1. b \in parser.agents
        <5>1. b \in parser.agents \/ \E j \in 1 .. 0 : Is(j, "tool_use", b)
          BY <1>3, <2>2, <3>1 DEF Told, Is
        <5> QED  BY <5>1
      <4> QED  BY <2>2, <3>1, <4>1 DEF Is, Announced
    <3>2. CASE k # 1  BY <1>2, <2>2, <3>2 DEF Is, Announced
    <3> QED  BY <3>1, <3>2
  <2> QED  BY <2>1, <2>2 DEF AskedFor, Announced
<1>6. ASSUME NEW k \in DOMAIN pipe' PROVE Told(k)'
  <2> DEFINE n == k + 1
  <2> PICK a : a = pipe[k + 1].id  OBVIOUS
  <2>1. n \in DOMAIN pipe /\ pipe'[k] = pipe[n] /\ k \in Nat /\ k <= Len(pipe) - 1 /\ n - 1 = k  BY <1>1, <1>2
  <2>2. Told(n)  BY <2>1 DEF StreamInv, InOrder
  <2> HIDE DEF n
  <2>3. ASSUME NEW kind, NEW j \in 1 .. n - 1, Is(j, kind, a), pipe[1].kind = kind => j # 1
        PROVE  \E i \in 1 .. k - 1 : Is(i, kind, a)'
    <3>1. j # 1  BY <2>3 DEF Is
    <3>2. j \in DOMAIN pipe /\ j - 1 \in 1 .. k - 1  BY <1>1, <2>1, <3>1
    <3>3. pipe[j] = pipe'[j - 1]  BY <1>2, <3>1, <3>2
    <3> QED  BY <2>3, <3>2, <3>3 DEF Is
  <2>4. pipe[n].kind = "tool_use" =>
          a \notin parser'.agents /\ \A j \in DOMAIN pipe' \ {k} : ~Is(j, "tool_use", a)'
    <3>1. SUFFICES ASSUME pipe[n].kind = "tool_use"
                   PROVE  a \notin parser'.agents /\ \A j \in DOMAIN pipe' \ {k} : ~Is(j, "tool_use", a)'
      OBVIOUS
    <3>2. a \notin parser.agents /\ \A j \in DOMAIN pipe \ {n} : ~Is(j, "tool_use", a)
      BY <2>2, <3>1 DEF Told, n
    <3>3. n # 1  BY <2>1, <1>1 DEF n
    <3>4. a \notin parser'.agents  BY <1>1, <3>2, <3>3 DEF Is
    <3>5. ASSUME NEW j \in DOMAIN pipe' \ {k} PROVE ~Is(j, "tool_use", a)'
      <4>1. j + 1 \in DOMAIN pipe \ {n} /\ pipe'[j] = pipe[j + 1]  BY <1>1, <1>2, <2>1 DEF n
      <4> QED  BY <3>2, <4>1 DEF Is
    <3> QED  BY <3>4, <3>5
  <2>5. pipe[n].kind \notin {"tool_use", "result"} =>
          a \in parser'.agents \/ \E j \in 1 .. k - 1 : Is(j, "tool_use", a)'
    <3>1. SUFFICES ASSUME NEW j \in 1 .. n - 1, Is(j, "tool_use", a)
                   PROVE  a \in parser'.agents \/ \E i \in 1 .. k - 1 : Is(i, "tool_use", a)'
      BY <2>2 DEF Told, n
    <3>2. CASE j = 1  BY <3>1, <3>2 DEF Is
    <3>3. CASE j # 1  BY <2>3, <3>1, <3>3
    <3> QED  BY <3>2, <3>3
  <2>6. (Acks(n, a) /\ a \in Background) \/ pipe[n].kind = "task_notification" =>
          a \in parser'.background \/ \E j \in 1 .. k - 1 : Is(j, "task_started", a)'
    <3>1. SUFFICES ASSUME NEW j \in 1 .. n - 1, Is(j, "task_started", a)
                   PROVE  a \in parser'.background \/ \E i \in 1 .. k - 1 : Is(i, "task_started", a)'
      BY <2>2 DEF Told, n
    <3>2. CASE j = 1
      <4>1. a \in parser.agents \/ \E i \in 1 .. 0 : Is(i, "tool_use", a)
        BY <1>3, <3>1, <3>2 DEF Told, Is
      <4> QED  BY <3>1, <3>2, <4>1 DEF Is
    <3>3. CASE j # 1  BY <2>3, <3>1, <3>3
    <3> QED  BY <3>2, <3>3
  <2>7. pipe[n].kind = "result" => k = Len(pipe')  BY <1>1, <2>1, <2>2 DEF Told, n
  <2>8. Acks(k, a)' <=> Acks(n, a)  BY <2>1 DEF Acks, Is
  <2>9. pipe'[k].id = a /\ pipe'[k] = pipe[n] /\ a = pipe[n].id  BY <2>1 DEF n
  <2> QED  BY <2>2, <2>4, <2>5, <2>6, <2>7, <2>8, <2>9 DEF Told
<1> QED  BY <1>1, <1>2, <1>3, <1>4, <1>5, <1>6 DEF InOrder

\* The messages of the sub-agents are read one by one: what is read is kept by the parser.
LEMMA ReadingKeeps ==
  ASSUME StreamInv, pump.at = "read", pipe # <<>>, pipe' = Tail(pipe), UNCHANGED <<notifies, work, cut>>,
         pipe[1].kind # "result", parser'.result = parser.result,
         parser.agents \subseteq parser'.agents, parser.background \subseteq parser'.background,
         pipe[1].kind # "tool_use" => parser'.agents = parser.agents,
         pipe[1].kind = "tool_use" => parser'.agents = parser.agents \cup {pipe[1].id},
         pipe[1].kind = "task_started" /\ pipe[1].id \in parser.agents => pipe[1].id \in parser'.background,
         parser.notified \/ pipe[1].kind = "task_notification" => parser'.notified,
         pump'.outcome = pump.outcome,
         \A b \in Agents :
           /\ b \in parser.acks \/ (Acks(1, b) /\ b \in Background) =>
                b \in parser'.acks \/ work[b] # "working"
           /\ b \in recorder.open \/ Is(1, "tool_use", b) => b \in recorder'.open
           /\ steps[b].status = "success" => steps'[b].status = "success"
           /\ (~notifies /\ b \in parser.acks) \/ Proves(1, b) =>
                (~notifies /\ b \in parser'.acks) \/ \E n \in DOMAIN pump'.ends : pump'.ends[n].id = b
  PROVE  InOrder' /\ ResultIsLast' /\ NothingIsLost' /\ DoneWillBeRecorded'
<1>1. /\ parser.result = "none" /\ InOrder'
      /\ \A b : (AskedFor(b) => AskedFor(b)') /\ (Announced(b) => Announced(b)')
      /\ \A k \in DOMAIN pipe' : k + 1 \in DOMAIN pipe /\ pipe'[k] = pipe[k + 1]
      /\ \A k \in DOMAIN pipe : k # 1 => k - 1 \in DOMAIN pipe' /\ pipe[k] = pipe'[k - 1]
  BY ReadKeepsOrder
<1>2. ResultIsLast'  BY <1>1 DEF StreamInv, ResultIsLast
<1>3. pump.outcome = "none" /\ pump.ends = <<>>  BY DEF StreamInv, StepsClose, Pumping
<1>4. ASSUME NEW b \in Agents PROVE NotLost(b)' /\ Recorded(b)'
  <2>1. /\ \A kind : (\E k \in DOMAIN pipe : Is(k, kind, b)) /\ ~Is(1, kind, b)
                       => \E k \in DOMAIN pipe' : Is(k, kind, b)'
        /\ (\E k \in DOMAIN pipe : Acks(k, b)) /\ ~Acks(1, b) => \E k \in DOMAIN pipe' : Acks(k, b)'
        /\ (\E k \in DOMAIN pipe : Proves(k, b)) /\ ~Proves(1, b) => \E k \in DOMAIN pipe' : Proves(k, b)'
        /\ (\E k \in DOMAIN pipe : pipe[k].kind = "task_notification") /\ pipe[1].kind # "task_notification"
              => \E k \in DOMAIN pipe' : pipe'[k].kind = "task_notification"
    <3>1. ASSUME NEW k \in DOMAIN pipe, k # 1
          PROVE  /\ k - 1 \in DOMAIN pipe' /\ pipe'[k - 1] = pipe[k]
                 /\ \A kind : Is(k, kind, b) => Is(k - 1, kind, b)'
                 /\ Acks(k, b) => Acks(k - 1, b)'
                 /\ Proves(k, b) => Proves(k - 1, b)'
      <4>1. k - 1 \in DOMAIN pipe' /\ pipe'[k - 1] = pipe[k]  BY <1>1, <3>1
      <4> QED  BY <4>1 DEF Proves, Acks, Is
    <3>2. ASSUME NEW kind, NEW k \in DOMAIN pipe, Is(k, kind, b), ~Is(1, kind, b)
          PROVE  \E j \in DOMAIN pipe' : Is(j, kind, b)'
      BY <3>1, <3>2
    <3>3. (\E k \in DOMAIN pipe : Acks(k, b)) /\ ~Acks(1, b) => \E k \in DOMAIN pipe' : Acks(k, b)'
      BY <3>1
    <3>4. (\E k \in DOMAIN pipe : Proves(k, b)) /\ ~Proves(1, b) => \E k \in DOMAIN pipe' : Proves(k, b)'
      BY <3>1
    <3>5. (\E k \in DOMAIN pipe : pipe[k].kind = "task_notification") /\ pipe[1].kind # "task_notification"
            => \E k \in DOMAIN pipe' : pipe'[k].kind = "task_notification"
      BY <3>1
    <3> QED  BY <3>2, <3>3, <3>4, <3>5
  <2>2. NotLost(b) /\ Recorded(b)  BY DEF StreamInv, NothingIsLost, DoneWillBeRecorded
  <2>3. NotLost(b)'
    <3>1. ~notifies /\ b \in Background /\ work[b] = "working" =>
            b \in parser'.acks \/ \E k \in DOMAIN pipe' : Acks(k, b)'
      BY <2>1, <2>2 DEF NotLost
    <3>2. notifies /\ b \in Background /\ work[b] \in {"done", "killed"} =>
            parser'.notified \/ \E k \in DOMAIN pipe' : pipe'[k].kind = "task_notification"
      BY <2>1, <2>2 DEF NotLost
    <3> QED  BY <1>1, <2>2, <3>1, <3>2 DEF NotLost
  <2>4. Recorded(b)'
    <3>1. b \in recorder.open \/ (\E k \in DOMAIN pipe : Is(k, "tool_use", b)) =>
            b \in recorder'.open \/ \E k \in DOMAIN pipe' : Is(k, "tool_use", b)'
      BY <2>1
    <3>2. HasStep(b)'  BY <2>2, <3>1 DEF Recorded, HasStep, Pumping
    <3>3. ~cut /\ work[b] = "done" => (steps[b].status = "success" \/ WillBeRecorded(b))'
      <4>1. ~ClosesNow(b) /\ DOMAIN pump.ends = {}  BY <1>3 DEF ClosesNow
      <4>2. (~notifies /\ b \in parser.acks) \/ (\E k \in DOMAIN pipe : Proves(k, b)) =>
              \/ ~notifies /\ b \in parser'.acks
              \/ \E k \in DOMAIN pipe' : Proves(k, b)'
              \/ \E n \in DOMAIN pump'.ends : pump'.ends[n].id = b
        BY <2>1
      <4> QED  BY <2>2, <3>1, <4>1, <4>2 DEF Recorded, WillBeRecorded, Pumping
    <3>4. pump'.outcome # "over"  BY <1>3
    <3> QED  BY <3>2, <3>3, <3>4 DEF Recorded
  <2> QED  BY <2>3, <2>4
<1> QED  BY <1>1, <1>2, <1>4 DEF NothingIsLost, DoneWillBeRecorded

\* What a step that reads a message finds.
LEMMA HeadIsTold ==
  ASSUME StreamInv, NEW kind, St!Read(kind), St!Outside
  PROVE  /\ pump.at = "read" /\ pump.ends = <<>> /\ pump.outcome = "none" /\ pipe # <<>> /\ pipe' = Tail(pipe)
         /\ pipe \in Seq(Messages) /\ pipe' \in Seq(Messages) /\ Told(1)
         /\ pipe[1].kind = kind /\ St!Subject = pipe[1].id /\ Head(pipe) = pipe[1]
         /\ UNCHANGED <<notifies, work, leader, cut>>
         /\ kind # "result" => pipe[1].id \in Agents
         /\ kind \notin {"tool_use", "result"} => pipe[1].id \in parser.agents
         /\ (Acks(1, pipe[1].id) /\ pipe[1].id \in Background) \/ kind = "task_notification" =>
              pipe[1].id \in parser.background
<1>1. /\ pipe \in Seq(Messages) /\ pipe # <<>> /\ pipe' = Tail(pipe) /\ pump.at = "read"
      /\ Head(pipe).kind = kind /\ UNCHANGED <<notifies, work, leader, cut>>
  BY DEF StreamInv, StreamTypes, St!Read, St!Outside
<1>2. pipe' \in Seq(Messages) /\ Head(pipe) = pipe[1] /\ 1 \in DOMAIN pipe  BY <1>1, TailIs
<1>3. Told(1)  BY <1>2 DEF StreamInv, InOrder
<1>4. /\ kind \notin {"tool_use", "result"} =>
           pipe[1].id \in parser.agents \/ \E j \in 1 .. 0 : Is(j, "tool_use", pipe[1].id)
      /\ (Acks(1, pipe[1].id) /\ pipe[1].id \in Background) \/ kind = "task_notification" =>
           pipe[1].id \in parser.background \/ \E j \in 1 .. 0 : Is(j, "task_started", pipe[1].id)
      /\ kind # "result" => pipe[1].id \in Agents
  BY <1>1, <1>2, <1>3 DEF Told
<1>5. pump.ends = <<>> /\ pump.outcome = "none"  BY <1>1 DEF StreamInv, StepsClose, Pumping
<1>6. 1 .. 0 = {}  OBVIOUS
<1> QED  BY <1>1, <1>2, <1>3, <1>4, <1>5, <1>6 DEF St!Subject

LEMMA OnToolUseKeeps == ASSUME StreamInv, St!OnToolUse PROVE StreamInv'
<1>1. St!Read("tool_use") /\ St!Outside /\ pump' = pump  BY DEF St!OnToolUse
<1>2. PICK a \in Agents : a = pipe[1].id  BY <1>1, HeadIsTold
<1>3. /\ pump.at = "read" /\ pipe # <<>> /\ pipe' = Tail(pipe) /\ pipe' \in Seq(Messages) /\ Told(1)
      /\ pipe[1].kind = "tool_use" /\ St!Subject = a /\ UNCHANGED <<notifies, work, leader, cut>>
  BY <1>1, <1>2, HeadIsTold
<1>4. a \notin parser.agents /\ work[a] # "none"  BY <1>2, <1>3 DEF Told
<1>5. /\ parser'.agents = parser.agents \cup {a} /\ parser'.background = parser.background
      /\ parser'.acks = parser.acks /\ parser'.notified = parser.notified /\ parser'.result = parser.result
      /\ DOMAIN parser' = DOMAIN parser
  BY <1>3 DEF St!OnToolUse, StreamInv, StreamTypes
<1>6. /\ recorder'.open = recorder.open \cup {a} /\ recorder'.lines = recorder.lines
      /\ recorder'.limit = recorder.limit /\ recorder'.flush = recorder.flush /\ recorder'.copy = recorder.copy
      /\ DOMAIN recorder' = DOMAIN recorder
  BY <1>3 DEF St!OnToolUse, StreamInv, StreamTypes
<1>7. /\ DOMAIN steps' = Agents /\ steps'[a].status = "running"
      /\ \A b \in Agents : b # a => steps'[b] = steps[b]
      /\ \A b \in Agents : /\ steps'[b].log = steps[b].log /\ steps'[b].closed = steps[b].closed
                           /\ DOMAIN steps'[b] = DOMAIN steps[b]
  BY <1>3 DEF St!OnToolUse, StreamInv, StreamTypes
<1>8. steps[a].closed = 0 /\ steps[a].status # "success"
  BY <1>4 DEF StreamInv, StreamTypes, StepsClose
<1>9. StreamTypes'  BY <1>1, <1>3, <1>5, <1>6, <1>7 DEF StreamInv, StreamTypes
<1>10. InOrder' /\ ResultIsLast' /\ NothingIsLost' /\ DoneWillBeRecorded'
  <2>1. \A b \in Agents : ~Acks(1, b) /\ ~Proves(1, b)  BY <1>3 DEF Acks, Proves, Is
  <2>2. \A b \in Agents : Is(1, "tool_use", b) => b = a  BY <1>2 DEF Is
  <2>3. \A b \in Agents : steps[b].status = "success" => steps'[b].status = "success"  BY <1>7, <1>8
  <2> QED  BY <1>1, <1>2, <1>3, <1>5, <1>6, <2>1, <2>2, <2>3, ReadingKeeps
<1>11. ParserKnows'  BY <1>3, <1>4, <1>5 DEF StreamInv, ParserKnows
<1>12. StepsClose'
  BY <1>1, <1>3, <1>4, <1>5, <1>6, <1>7, <1>8 DEF StreamInv, StepsClose, Pumping
<1>13. St!FinalLogKept'  BY <1>6, <1>7 DEF StreamInv, St!FinalLogKept
<1>14. St!SuccessIsReal'  BY <1>3, <1>7 DEF StreamInv, St!SuccessIsReal
<1> QED  BY <1>9, <1>10, <1>11, <1>12, <1>13, <1>14 DEF StreamInv

LEMMA OnTaskStartedKeeps == ASSUME StreamInv, St!OnTaskStarted PROVE StreamInv'
<1>1. St!Read("task_started") /\ St!Outside /\ UNCHANGED <<recorder, steps, pump>>  BY DEF St!OnTaskStarted
<1>2. PICK a \in Agents : a = pipe[1].id  BY <1>1, HeadIsTold
<1>3. /\ pump.at = "read" /\ pipe # <<>> /\ pipe' = Tail(pipe) /\ pipe' \in Seq(Messages) /\ Told(1)
      /\ pipe[1].kind = "task_started" /\ St!Subject = a /\ UNCHANGED <<notifies, work, leader, cut>>
      /\ a \in parser.agents
  BY <1>1, <1>2, HeadIsTold
<1>4. a \in Background  BY <1>2, <1>3 DEF Told
<1>5. /\ parser'.background = parser.background \cup {a} /\ parser'.agents = parser.agents
      /\ parser'.acks = parser.acks /\ parser'.notified = parser.notified /\ parser'.result = parser.result
      /\ DOMAIN parser' = DOMAIN parser
  BY <1>3 DEF St!OnTaskStarted, StreamInv, StreamTypes
<1>6. StreamTypes'  BY <1>1, <1>3, <1>5 DEF StreamInv, StreamTypes
<1>7. InOrder' /\ ResultIsLast' /\ NothingIsLost' /\ DoneWillBeRecorded'
  <2>1. \A b \in Agents : ~Acks(1, b) /\ ~Proves(1, b) /\ ~Is(1, "tool_use", b)  BY <1>3 DEF Acks, Proves, Is
  <2> QED  BY <1>1, <1>2, <1>3, <1>5, <2>1, ReadingKeeps
<1>8. ParserKnows'  BY <1>3, <1>4, <1>5 DEF StreamInv, ParserKnows
<1>9. StepsClose'  BY <1>1, <1>3, <1>5 DEF StreamInv, StepsClose, Pumping
<1>10. St!FinalLogKept' /\ St!SuccessIsReal'  BY <1>1, <1>3 DEF StreamInv, St!FinalLogKept, St!SuccessIsReal
<1> QED  BY <1>6, <1>7, <1>8, <1>9, <1>10 DEF StreamInv

\* What a step closes next has ended, as it is said.
HasEnded(e) ==
  /\ e.id \in parser.agents /\ work[e.id] \in {"done", "failed", "killed"}
  /\ e.status = "ok" => work[e.id] = "done" \/ ~notifies
  /\ e.status # "ok" => work[e.id] = "failed"

\* The pump turns to steps to close.
LEMMA ClosingKeeps ==
  ASSUME StreamInv, pump.at = "read", NEW ends \in Seq(EndsOfSteps), St!Close(ends),
         UNCHANGED <<notifies, work, leader, cut, recorder, steps>>, pipe' \in Seq(Messages),
         DOMAIN parser' = DOMAIN parser, parser'.agents = parser.agents, \A n \in DOMAIN ends : HasEnded(ends[n])
  PROVE  /\ StreamTypes' /\ StepsClose' /\ St!FinalLogKept' /\ St!SuccessIsReal'
         /\ pump'.ends = ends /\ pump'.outcome = pump.outcome
<1>1. /\ pump'.ends = ends /\ pump'.outcome = pump.outcome /\ DOMAIN pump' = DOMAIN pump
      /\ pump'.at = IF ends = <<>> THEN "read" ELSE "end"
  BY DEF St!Close, StreamInv, StreamTypes
<1>2. StreamTypes'  BY <1>1 DEF StreamInv, StreamTypes
<1>3. pump.outcome = "none"  BY DEF StreamInv, StepsClose, Pumping
<1>4. StepsClose'  BY <1>1, <1>3 DEF StreamInv, StepsClose, Pumping, HasEnded
<1>5. St!FinalLogKept' /\ St!SuccessIsReal'  BY DEF StreamInv, St!FinalLogKept, St!SuccessIsReal
<1> QED  BY <1>1, <1>2, <1>4, <1>5

\* One end, or none.
LEMMA OneEnd ==
  /\ <<>> \in Seq(EndsOfSteps) /\ DOMAIN <<>> = {}
  /\ \A a \in Agents, s \in {"ok", "error", "limit"} :
       /\ <<St!End(a, s)>> \in Seq(EndsOfSteps) /\ DOMAIN <<St!End(a, s)>> = {1}
       /\ <<St!End(a, s)>>[1].id = a /\ <<St!End(a, s)>>[1].status = s
<1>1. <<>> \in Seq(EndsOfSteps) /\ DOMAIN <<>> = {}  OBVIOUS
<1>2. ASSUME NEW a \in Agents, NEW s \in {"ok", "error", "limit"}
      PROVE  /\ <<St!End(a, s)>> \in Seq(EndsOfSteps) /\ DOMAIN <<St!End(a, s)>> = {1}
             /\ <<St!End(a, s)>>[1].id = a /\ <<St!End(a, s)>>[1].status = s
  <2> DEFINE e == St!End(a, s)
  <2>1. e \in EndsOfSteps /\ e.id = a /\ e.status = s  BY DEF St!End, EndsOfSteps
  <2> HIDE DEF e
  <2>2. <<e>> \in Seq(EndsOfSteps) /\ DOMAIN <<e>> = {1} /\ <<e>>[1] = e  BY <2>1
  <2> QED  BY <2>1, <2>2 DEF e
<1> QED  BY <1>1, <1>2

LEMMA OnToolResultKeeps == ASSUME StreamInv, St!OnToolResult PROVE StreamInv'
<1>1. St!Read("tool_result") /\ St!Outside /\ UNCHANGED <<recorder, steps>>  BY DEF St!OnToolResult
<1>2. PICK a \in Agents : a = pipe[1].id  BY <1>1, HeadIsTold
<1>3. PICK s : s = pipe[1].status  OBVIOUS
<1>4. /\ pump.at = "read" /\ pump.ends = <<>> /\ pipe # <<>> /\ pipe' = Tail(pipe) /\ pipe' \in Seq(Messages)
      /\ pipe[1].kind = "tool_result" /\ St!Subject = a /\ UNCHANGED <<notifies, work, leader, cut>>
      /\ Told(1) /\ Head(pipe).status = s /\ a \in parser.agents
      /\ Acks(1, a) /\ a \in Background => a \in parser.background
  BY <1>1, <1>2, <1>3, HeadIsTold
<1>5. /\ Acks(1, a) <=> s = "ok"
      /\ \A b \in Agents : /\ b # a => ~Acks(1, b) /\ ~Proves(1, b)
                           /\ ~Is(1, "tool_use", b)
      /\ Proves(1, a) => s = "ok" /\ (a \in Background => ~notifies)
  BY <1>2, <1>3, <1>4 DEF Acks, Proves, Is
<1>6. CASE a \in parser.background /\ s = "ok"
  <2>1. /\ parser'.acks = parser.acks \cup {a} /\ parser'.agents = parser.agents
        /\ parser'.background = parser.background /\ parser'.notified = parser.notified
        /\ parser'.result = parser.result /\ DOMAIN parser' = DOMAIN parser
    BY <1>4, <1>6 DEF St!OnToolResult, StreamInv, StreamTypes
  <2>2. St!Close(<<>>)  BY <1>4, <1>6 DEF St!OnToolResult
  <2>3. StreamTypes' /\ StepsClose' /\ St!FinalLogKept' /\ St!SuccessIsReal' /\ pump'.outcome = pump.outcome
    BY <1>1, <1>4, <2>1, <2>2, OneEnd, ClosingKeeps
  <2>4. a \in Background /\ work[a] \in {"working", "done", "killed"}
    <3>1. a \in Background  BY <1>6 DEF StreamInv, ParserKnows
    <3> QED  BY <1>2, <1>4, <1>5, <1>6, <3>1 DEF Told
  <2>5. ParserKnows'
    <3>1. IsFiniteSet(parser.acks \cup {a})  BY FS_AddElement DEF StreamInv, ParserKnows
    <3> QED  BY <1>4, <2>1, <2>4, <3>1 DEF StreamInv, ParserKnows
  <2>6. InOrder' /\ ResultIsLast' /\ NothingIsLost' /\ DoneWillBeRecorded'
    BY <1>1, <1>2, <1>4, <1>5, <2>1, <2>3, <2>4, ReadingKeeps
  <2> QED  BY <2>3, <2>5, <2>6 DEF StreamInv
<1>7. CASE ~(a \in parser.background /\ s = "ok")
  <2>1. /\ parser'.acks = parser.acks \ {a} /\ parser'.agents = parser.agents
        /\ parser'.background = parser.background /\ parser'.notified = parser.notified
        /\ parser'.result = parser.result /\ DOMAIN parser' = DOMAIN parser
    BY <1>4, <1>7 DEF St!OnToolResult, StreamInv, StreamTypes
  <2>2. St!Close(<<St!End(a, s)>>)  BY <1>4, <1>7 DEF St!OnToolResult
  <2>3. s = "ok" => work[a] = "done" /\ a \notin Background
    BY <1>2, <1>4, <1>5, <1>7 DEF Told
  <2>4. s # "ok" => work[a] = "failed" /\ s \in {"error", "limit"}
    BY <1>2, <1>3, <1>4 DEF Told
  <2>5. HasEnded(St!End(a, s))  BY <1>4, <2>3, <2>4 DEF HasEnded, St!End
  <2>6. <<St!End(a, s)>> \in Seq(EndsOfSteps) /\ DOMAIN <<St!End(a, s)>> = {1} /\ <<St!End(a, s)>>[1] = St!End(a, s)
        /\ <<St!End(a, s)>>[1].id = a
    BY <2>4, OneEnd
  <2>7. /\ StreamTypes' /\ StepsClose' /\ St!FinalLogKept' /\ St!SuccessIsReal'
        /\ pump'.ends = <<St!End(a, s)>> /\ pump'.outcome = pump.outcome
    BY <1>1, <1>4, <2>1, <2>2, <2>5, <2>6, ClosingKeeps
  <2>8. ParserKnows'
    <3>1. IsFiniteSet(parser.acks \ {a})  BY FS_Subset DEF StreamInv, ParserKnows
    <3> QED  BY <1>4, <2>1, <3>1 DEF StreamInv, ParserKnows
  <2>9. work[a] # "working" /\ \E n \in DOMAIN pump'.ends : pump'.ends[n].id = a  BY <2>3, <2>4, <2>6, <2>7
  <2>10. InOrder' /\ ResultIsLast' /\ NothingIsLost' /\ DoneWillBeRecorded'
    BY <1>1, <1>2, <1>4, <1>5, <2>1, <2>7, <2>9, ReadingKeeps
  <2> QED  BY <2>7, <2>8, <2>10 DEF StreamInv
<1> QED  BY <1>6, <1>7

\* The acknowledged tasks, one end each.
LEMMA AcksAsEnds ==
  ASSUME NEW acks \in SUBSET Agents, IsFiniteSet(acks)
  PROVE  LET ends == St!SetToSeq({St!End(a, "ok") : a \in acks}) IN
           /\ ends \in Seq(EndsOfSteps)
           /\ \A n \in DOMAIN ends : ends[n].id \in acks /\ ends[n].status = "ok"
           /\ \A a \in acks : \E n \in DOMAIN ends : ends[n].id = a
<1> DEFINE set == {St!End(a, "ok") : a \in acks}
           ends == St!SetToSeq(set)
<1>1. IsFiniteSet(set)
  <2> DEFINE f == [a \in acks |-> St!End(a, "ok")]
  <2>1. f \in Surjection(acks, set)  BY DEF Surjection
  <2> QED  BY <2>1, FS_Surjection
<1>2. \A e \in set : e \in EndsOfSteps /\ e.id \in acks /\ e.status = "ok"  BY DEF St!End, EndsOfSteps
<1>3. \A a \in acks : \E e \in set : e.id = a
  <2> SUFFICES ASSUME NEW a \in acks PROVE \E e \in set : e.id = a  OBVIOUS
  <2>1. St!End(a, "ok") \in set  OBVIOUS
  <2>2. St!End(a, "ok").id = a  BY DEF St!End
  <2> QED  BY <2>1, <2>2
<1> HIDE DEF set
<1>4. PICK f : f \in Bijection(1 .. Cardinality(set), set)
  BY <1>1, FS_CardinalityType DEF ExistsBijection
<1> DEFINE F == [1 .. Cardinality(set) -> set]
<1>5. f \in F /\ St!IsInjective(f)
  BY <1>4 DEF Bijection, Injection, IsInjective, St!IsInjective
<1>6. St!Cardinality(set) = Cardinality(set)
  BY DEF St!Cardinality, Cardinality, St!IsFiniteSet, IsFiniteSet
<1>7. ends = CHOOSE g \in F : St!IsInjective(g)
  BY <1>6 DEF St!SetToSeq
<1> HIDE DEF F, ends
<1>8. ends \in F /\ St!IsInjective(ends)
  BY <1>5, <1>7, Zenon
<1>9. ends \in [1 .. Cardinality(set) -> set] /\ ends \in Injection(1 .. Cardinality(set), set)
  BY <1>8 DEF F, Injection, IsInjective, St!IsInjective
<1>10. Cardinality(set) \in Nat /\ Cardinality(1 .. Cardinality(set)) = Cardinality(set)
  BY <1>1, FS_CardinalityType, FS_Interval
<1>11. ends \in Surjection(1 .. Cardinality(set), set)
  BY <1>1, <1>9, <1>10, FS_Injection
<1>12. DOMAIN ends = 1 .. Cardinality(set) /\ \A n \in DOMAIN ends : ends[n] \in set  BY <1>9
<1>13. \A e \in set : \E n \in DOMAIN ends : ends[n] = e  BY <1>11, <1>12 DEF Surjection
<1>14. ends \in Seq(EndsOfSteps)
  <2>1. ends \in [1 .. Cardinality(set) -> EndsOfSteps]  BY <1>2, <1>9
  <2> QED  BY <1>10, <2>1
<1>15. \A n \in DOMAIN ends : ends[n].id \in acks /\ ends[n].status = "ok"  BY <1>2, <1>12
<1>16. \A a \in acks : \E n \in DOMAIN ends : ends[n].id = a
  <2> SUFFICES ASSUME NEW a \in acks PROVE \E n \in DOMAIN ends : ends[n].id = a  OBVIOUS
  <2>1. PICK e \in set : e.id = a  BY <1>3
  <2>2. PICK n \in DOMAIN ends : ends[n] = e  BY <1>13
  <2> QED  BY <2>1, <2>2
<1> QED  BY <1>14, <1>15, <1>16 DEF ends, set

LEMMA OnTraceKeeps == ASSUME StreamInv, St!OnTrace PROVE StreamInv'
<1>1. St!Read("trace") /\ St!Outside /\ UNCHANGED <<parser, steps, pump>>  BY DEF St!OnTrace
<1>2. PICK a \in Agents : a = pipe[1].id  BY <1>1, HeadIsTold
<1>3. /\ pump.at = "read" /\ pipe # <<>> /\ pipe' = Tail(pipe) /\ pipe' \in Seq(Messages)
      /\ pipe[1].kind = "trace" /\ St!Subject = a /\ UNCHANGED <<notifies, work, leader, cut>>
  BY <1>1, <1>2, HeadIsTold
<1>4. /\ recorder'.open = recorder.open /\ recorder'.limit = recorder.limit /\ recorder'.copy = recorder.copy
      /\ DOMAIN recorder' = DOMAIN recorder
      /\ DOMAIN recorder'.lines = Agents /\ DOMAIN recorder'.flush = Agents
      /\ \A b \in Agents : b # a \/ a \notin recorder.open =>
           recorder'.lines[b] = recorder.lines[b] /\ recorder'.flush[b] = recorder.flush[b]
  <2>1. CASE a \notin recorder.open  BY <1>3, <2>1 DEF St!OnTrace, StreamInv, StreamTypes
  <2>2. CASE a \in recorder.open
    <3>1. recorder' = [recorder EXCEPT !.lines[a] = @ + 1,
                                       !.flush[a] = IF @ = "none" THEN "waiting" ELSE @]
      BY <1>3, <2>2 DEF St!OnTrace
    <3> QED  BY <2>2, <3>1 DEF StreamInv, StreamTypes
  <2> QED  BY <2>1, <2>2
<1>5. \A b \in Agents : steps[b].closed > 0 => b # a \/ a \notin recorder.open
  BY DEF StreamInv, StepsClose
<1>6. StreamTypes'  BY <1>1, <1>3, <1>4 DEF StreamInv, StreamTypes
<1>7. InOrder' /\ ResultIsLast' /\ NothingIsLost' /\ DoneWillBeRecorded'
  <2>1. \A b \in Agents : ~Acks(1, b) /\ ~Proves(1, b) /\ ~Is(1, "tool_use", b)  BY <1>3 DEF Acks, Proves, Is
  <2> QED  BY <1>1, <1>2, <1>3, <1>4, <2>1, ReadingKeeps
<1>8. ParserKnows'  BY <1>1, <1>3 DEF StreamInv, ParserKnows
<1>9. StepsClose'
  <2>1. \A b \in Agents :
          /\ steps[b].closed > 0 => b \in parser.agents \ recorder'.open /\ recorder'.flush[b] = "none"
          /\ steps[b].status = "success" => steps[b].closed > 0
    BY <1>4, <1>5 DEF StreamInv, StepsClose
  <2> QED  BY <1>1, <1>3, <1>4, <2>1 DEF StreamInv, StepsClose, Pumping
<1>10. St!FinalLogKept'  BY <1>1, <1>4, <1>5 DEF StreamInv, St!FinalLogKept
<1>11. St!SuccessIsReal'  BY <1>1, <1>3 DEF StreamInv, St!SuccessIsReal
<1> QED  BY <1>6, <1>7, <1>8, <1>9, <1>10, <1>11 DEF StreamInv

LEMMA OnTaskNotificationKeeps == ASSUME StreamInv, St!OnTaskNotification PROVE StreamInv'
<1>1. St!Read("task_notification") /\ St!Outside /\ UNCHANGED <<recorder, steps>>  BY DEF St!OnTaskNotification
<1>2. PICK a \in Agents : a = pipe[1].id  BY <1>1, HeadIsTold
<1>3. PICK s : s = pipe[1].status  OBVIOUS
<1>4. /\ pump.at = "read" /\ pump.ends = <<>> /\ pipe # <<>> /\ pipe' = Tail(pipe) /\ pipe' \in Seq(Messages)
      /\ pipe[1].kind = "task_notification" /\ St!Subject = a /\ UNCHANGED <<notifies, work, leader, cut>>
      /\ Told(1) /\ Head(pipe).status = s /\ a \in parser.agents /\ a \in parser.background
  BY <1>1, <1>2, <1>3, HeadIsTold
<1>5. notifies /\ a \in Background /\ (s = "completed" => work[a] = "done")
  BY <1>2, <1>3, <1>4 DEF Told
<1>6. \A b \in Agents : /\ ~Acks(1, b) /\ ~Is(1, "tool_use", b)
                        /\ Proves(1, b) => b = a /\ s = "completed"
  BY <1>2, <1>3, <1>4 DEF Acks, Proves, Is
<1>7. CASE s = "completed"
  <2>1. /\ parser'.acks = parser.acks \ {a} /\ parser'.agents = parser.agents
        /\ parser'.background = parser.background /\ parser'.notified
        /\ parser'.result = parser.result /\ DOMAIN parser' = DOMAIN parser
    BY <1>4, <1>7 DEF St!OnTaskNotification, StreamInv, StreamTypes
  <2>2. St!Close(<<St!End(a, "ok")>>)  BY <1>4, <1>7 DEF St!OnTaskNotification
  <2>3. HasEnded(St!End(a, "ok"))  BY <1>4, <1>5, <1>7 DEF HasEnded, St!End
  <2>4. /\ <<St!End(a, "ok")>> \in Seq(EndsOfSteps) /\ DOMAIN <<St!End(a, "ok")>> = {1}
        /\ <<St!End(a, "ok")>>[1] = St!End(a, "ok") /\ <<St!End(a, "ok")>>[1].id = a
    BY OneEnd
  <2>5. /\ StreamTypes' /\ StepsClose' /\ St!FinalLogKept' /\ St!SuccessIsReal'
        /\ pump'.ends = <<St!End(a, "ok")>> /\ pump'.outcome = pump.outcome
    BY <1>1, <1>4, <2>1, <2>2, <2>3, <2>4, ClosingKeeps
  <2>6. ParserKnows'
    <3>1. IsFiniteSet(parser.acks \ {a})  BY FS_Subset DEF StreamInv, ParserKnows
    <3> QED  BY <1>4, <1>5, <2>1, <3>1 DEF StreamInv, ParserKnows
  <2>7. \E n \in DOMAIN pump'.ends : pump'.ends[n].id = a  BY <2>4, <2>5
  <2>8. InOrder' /\ ResultIsLast' /\ NothingIsLost' /\ DoneWillBeRecorded'
    BY <1>1, <1>2, <1>4, <1>5, <1>6, <1>7, <2>1, <2>5, <2>7, ReadingKeeps
  <2> QED  BY <2>5, <2>6, <2>8 DEF StreamInv
<1>8. CASE s # "completed"
  <2>1. /\ parser'.acks = parser.acks /\ parser'.agents = parser.agents
        /\ parser'.background = parser.background /\ parser'.notified
        /\ parser'.result = parser.result /\ DOMAIN parser' = DOMAIN parser
    BY <1>4, <1>8 DEF St!OnTaskNotification, StreamInv, StreamTypes
  <2>2. St!Close(<<>>)  BY <1>4, <1>8 DEF St!OnTaskNotification
  <2>3. StreamTypes' /\ StepsClose' /\ St!FinalLogKept' /\ St!SuccessIsReal' /\ pump'.outcome = pump.outcome
    BY <1>1, <1>4, <2>1, <2>2, OneEnd, ClosingKeeps
  <2>4. ParserKnows'  BY <1>4, <1>5, <2>1 DEF StreamInv, ParserKnows
  <2>5. InOrder' /\ ResultIsLast' /\ NothingIsLost' /\ DoneWillBeRecorded'
    BY <1>1, <1>2, <1>4, <1>5, <1>6, <1>8, <2>1, <2>3, ReadingKeeps
  <2> QED  BY <2>3, <2>4, <2>5 DEF StreamInv
<1> QED  BY <1>7, <1>8

LEMMA OnResultKeeps == ASSUME StreamInv, St!OnResult PROVE StreamInv'
<1>1. St!Read("result") /\ St!Outside /\ UNCHANGED <<recorder, steps>>  BY DEF St!OnResult
<1>2. /\ pump.at = "read" /\ pump.ends = <<>> /\ pump.outcome = "none" /\ pipe # <<>> /\ pipe' = Tail(pipe)
      /\ pipe[1].kind = "result" /\ UNCHANGED <<notifies, work, leader, cut>> /\ pipe \in Seq(Messages) /\ Told(1)
      /\ pipe' \in Seq(Messages)
  BY <1>1, HeadIsTold
<1>3. DOMAIN pipe = {1} /\ pipe' = <<>>
  <2>1. Len(pipe) = 1  BY <1>2 DEF Told
  <2> QED  BY <1>2, <2>1
<1>4. \A a \in Agents : work[a] \notin {"asked", "started", "working"}
  BY <1>2, <1>3 DEF StreamInv, ResultIsLast
<1>5. /\ \A kind, b : Is(1, kind, b) => kind = "result"
      /\ \A b : ~Acks(1, b) /\ ~Proves(1, b)
  BY <1>2 DEF Acks, Proves, Is
<1>6. PICK silent \in BOOLEAN : silent <=> ~parser.notified /\ parser.acks # {}  OBVIOUS
<1>7. notifies => ~silent
  <2> SUFFICES ASSUME notifies, ~parser.notified, NEW b \in parser.acks PROVE FALSE  BY <1>6
  <2>1. b \in Agents /\ b \in Background /\ work[b] \in {"done", "killed"}
    BY <1>4 DEF StreamInv, ParserKnows
  <2>2. \E k \in DOMAIN pipe : pipe[k].kind = "task_notification"
    BY <2>1 DEF StreamInv, NothingIsLost, NotLost
  <2> QED  BY <1>2, <1>3, <2>2
<1>8. ~notifies /\ parser.acks # {} => silent  BY <1>6 DEF StreamInv, ParserKnows
<1> DEFINE all_acks == St!SetToSeq({St!End(a, "ok") : a \in parser.acks})
<1>9. PICK ends : ends = IF silent THEN all_acks ELSE <<>>  OBVIOUS
<1>10. /\ parser'.result = Head(pipe).status /\ parser'.acks = IF silent THEN {} ELSE parser.acks
       /\ parser'.agents = parser.agents /\ parser'.background = parser.background
       /\ parser'.notified = parser.notified /\ DOMAIN parser' = DOMAIN parser
  BY <1>6 DEF St!OnResult, StreamInv, StreamTypes
<1>11. St!Close(ends)  BY <1>6, <1>9 DEF St!OnResult
<1>12. parser.acks \in SUBSET Agents /\ IsFiniteSet(parser.acks)  BY DEF StreamInv, ParserKnows
<1>13. /\ ends \in Seq(EndsOfSteps)
       /\ \A n \in DOMAIN ends : silent /\ ends[n].id \in parser.acks /\ ends[n].status = "ok"
       /\ silent => \A a \in parser.acks : \E n \in DOMAIN ends : ends[n].id = a
  <2>1. CASE silent  BY <1>9, <1>12, <2>1, AcksAsEnds
  <2>2. CASE ~silent  BY <1>9, <2>2, OneEnd
  <2> QED  BY <2>1, <2>2
<1>14. ASSUME NEW n \in DOMAIN ends PROVE HasEnded(ends[n])
  <2>1. silent /\ ends[n].id \in parser.acks /\ ends[n].status = "ok"  BY <1>13
  <2>2. ends[n].id \in parser.agents /\ work[ends[n].id] \in {"done", "killed"}
    BY <1>4, <2>1 DEF StreamInv, ParserKnows
  <2> QED  BY <1>7, <2>1, <2>2 DEF HasEnded
<1>15. /\ StreamTypes' /\ StepsClose' /\ St!FinalLogKept' /\ St!SuccessIsReal'
       /\ pump'.ends = ends /\ pump'.outcome = pump.outcome
  BY <1>1, <1>2, <1>10, <1>11, <1>13, <1>14, ClosingKeeps
<1>16. InOrder'  BY <1>3 DEF InOrder
<1>17. ResultIsLast'  BY <1>2, <1>3, <1>4, <1>8, <1>10 DEF ResultIsLast
<1>18. ParserKnows'
  <2>1. IsFiniteSet({})  BY FS_EmptySet
  <2> QED  BY <1>2, <1>10, <2>1 DEF StreamInv, ParserKnows
<1>19. ASSUME NEW b \in Agents PROVE NotLost(b)' /\ Recorded(b)'
  <2>1. NotLost(b) /\ Recorded(b)  BY DEF StreamInv, NothingIsLost, DoneWillBeRecorded
  <2>2. NotLost(b)'
    <3>1. (AskedFor(b) => b \in parser.agents) /\ (Announced(b) => b \in parser.background)
      BY <1>3, <1>5 DEF AskedFor, Announced
    <3>2. pipe[1].kind # "task_notification"  BY <1>2
    <3> QED  BY <1>2, <1>3, <1>4, <1>10, <2>1, <3>1, <3>2 DEF NotLost, AskedFor, Announced
  <2>3. Recorded(b)'
    <3>1. HasStep(b)'  BY <1>2, <1>4 DEF HasStep
    <3>2. ~cut /\ work[b] = "done" => (steps[b].status = "success" \/ WillBeRecorded(b))'
      <4>1. SUFFICES ASSUME ~cut, work[b] = "done", steps[b].status # "success"
                     PROVE  WillBeRecorded(b)'
        BY <1>1, <1>2
      <4>2. WillBeRecorded(b)  BY <1>2, <2>1, <4>1 DEF Recorded, Pumping
      <4>3. b \in recorder.open /\ ~notifies /\ b \in parser.acks
        BY <1>2, <1>3, <1>5, <4>2 DEF WillBeRecorded, ClosesNow
      <4>4. \E n \in DOMAIN pump'.ends : pump'.ends[n].id = b  BY <1>8, <1>13, <1>15, <4>3
      <4>5. b \in recorder'.open  BY <1>1, <4>3
      <4> QED  BY <4>4, <4>5 DEF WillBeRecorded
    <3>3. pump'.outcome # "over"  BY <1>2, <1>15
    <3> QED  BY <1>2, <3>1, <3>2, <3>3 DEF Recorded
  <2> QED  BY <2>2, <2>3
<1> QED  BY <1>15, <1>16, <1>17, <1>18, <1>19 DEF StreamInv, NothingIsLost, DoneWillBeRecorded

\* The steps of the recorder and of the end leave what Claude Code wrote and the parser read.
LEMMA RecordingKeeps ==
  ASSUME StreamInv, UNCHANGED <<notifies, work, pipe, parser>>
  PROVE  InOrder' /\ ResultIsLast' /\ NothingIsLost' /\ ParserKnows'
<1>1. InOrder'  BY DEF StreamInv, InOrder, Told, Acks, Is
<1>2. ResultIsLast' /\ ParserKnows'  BY DEF StreamInv, ResultIsLast, ParserKnows
<1>3. NothingIsLost'  BY DEF StreamInv, NothingIsLost, NotLost, AskedFor, Announced, Acks, Is
<1> QED  BY <1>1, <1>2, <1>3

\* What a step that closes finds.
LEMMA FirstEnd ==
  ASSUME StreamInv, pump.at \in {"end", "write"}
  PROVE  \E e \in EndsOfSteps :
           /\ e = Head(pump.ends) /\ e.id \in parser.agents /\ e.id \in Agents /\ HasEnded(e) /\ pump.ends # <<>>
           /\ e.id \notin recorder.open => ~\E k \in DOMAIN pipe : Is(k, "tool_use", e.id)
           /\ Tail(pump.ends) \in Seq(EndsOfSteps)
           /\ \A n \in DOMAIN Tail(pump.ends) : HasEnded(Tail(pump.ends)[n])
           /\ \A n \in DOMAIN pump.ends : pump.ends[n].id # e.id =>
                \E m \in DOMAIN Tail(pump.ends) : Tail(pump.ends)[m].id = pump.ends[n].id
<1> DEFINE ends == pump.ends
<1>1. ends \in Seq(EndsOfSteps) /\ ends # <<>> /\ \A n \in DOMAIN ends : HasEnded(ends[n])
  BY DEF StreamInv, StreamTypes, StepsClose, HasEnded
<1> HIDE DEF ends
<1>2. /\ Tail(ends) \in Seq(EndsOfSteps) /\ Len(ends) \in Nat \ {0}
      /\ DOMAIN ends = 1 .. Len(ends) /\ DOMAIN Tail(ends) = 1 .. Len(ends) - 1
      /\ \A k \in 1 .. Len(ends) - 1 : Tail(ends)[k] = ends[k + 1]
      /\ \A k \in 2 .. Len(ends) : ends[k] = Tail(ends)[k - 1]
      /\ Head(ends) = ends[1] /\ Head(ends) \in EndsOfSteps /\ 1 \in DOMAIN ends
  BY <1>1, TailIs
<1>3. HasEnded(Head(ends)) /\ Head(ends).id \in parser.agents /\ Head(ends).id \in Agents
  BY <1>1, <1>2 DEF HasEnded, EndsOfSteps
<1>4. ~\E k \in DOMAIN pipe : Is(k, "tool_use", Head(ends).id)
  BY <1>3 DEF StreamInv, InOrder, Told, Is
<1>5. ASSUME NEW n \in DOMAIN Tail(ends) PROVE HasEnded(Tail(ends)[n])
  <2>1. n + 1 \in DOMAIN ends /\ Tail(ends)[n] = ends[n + 1]  BY <1>2
  <2> QED  BY <1>1, <2>1
<1>6. ASSUME NEW n \in DOMAIN ends, ends[n].id # Head(ends).id
      PROVE  \E m \in DOMAIN Tail(ends) : Tail(ends)[m].id = ends[n].id
  <2>1. n # 1  BY <1>2, <1>6
  <2>2. n \in 2 .. Len(ends) /\ n - 1 \in DOMAIN Tail(ends)  BY <1>2, <2>1
  <2> QED  BY <1>2, <2>2
<1> QED  BY <1>1, <1>2, <1>3, <1>4, <1>5, <1>6 DEF ends

\* What is done and not yet recorded does not depend on the first end once its step is closed.
LEMMA EndIsPassed ==
  ASSUME StreamInv, pump.at \in {"end", "write"}, UNCHANGED <<notifies, work, pipe, parser, cut>>,
         recorder'.open = recorder.open, pump'.ends = Tail(pump.ends), pump'.outcome = pump.outcome,
         pump'.at \in {"read", "end", "write"}, NEW first, first = Head(pump.ends).id,
         pump.at = "end" => first \notin recorder.open,
         cut' \/ work[first] # "done" \/ steps'[first].status = "success",
         \A b \in Agents \ {first} : steps'[b].status = steps[b].status
  PROVE  DoneWillBeRecorded'
<1>1. PICK e \in EndsOfSteps :
        /\ e = Head(pump.ends) /\ e.id = first /\ first \in Agents /\ HasEnded(e)
        /\ \A n \in DOMAIN pump.ends : pump.ends[n].id # first =>
             \E m \in DOMAIN Tail(pump.ends) : Tail(pump.ends)[m].id = pump.ends[n].id
  BY FirstEnd
<1>2. pump.outcome = "none"  BY DEF StreamInv, StepsClose, Pumping
<1>3. ASSUME NEW b \in Agents PROVE Recorded(b)'
  <2>1. Recorded(b)  BY DEF StreamInv, DoneWillBeRecorded
  <2>2. HasStep(b)'  BY <2>1 DEF Recorded, HasStep, Is, Pumping
  <2>3. CASE b = first  BY <1>2, <2>2, <1>1, <2>3 DEF Recorded
  <2>4. CASE b # first
    <3>1. ~ClosesNow(b)  BY <1>1, <2>4 DEF ClosesNow
    <3>2. WillBeRecorded(b) => WillBeRecorded(b)'
      BY <1>1, <2>4, <3>1 DEF WillBeRecorded, Proves, Acks, Is
    <3> QED  BY <1>2, <2>1, <2>2, <2>4, <3>2 DEF Recorded, Pumping
  <2> QED  BY <2>3, <2>4
<1> QED  BY <1>3 DEF DoneWillBeRecorded

LEMMA EndStepKeeps == ASSUME StreamInv, St!EndStep PROVE StreamInv'
<1>1. pump.at = "end" /\ UNCHANGED <<notifies, work, leader, cut, parser, steps, pipe>>
  BY DEF St!EndStep, St!Outside
<1>2. PICK e \in EndsOfSteps :
        /\ e = Head(pump.ends) /\ e.id \in parser.agents /\ e.id \in Agents /\ HasEnded(e)
        /\ e.id \notin recorder.open => ~\E k \in DOMAIN pipe : Is(k, "tool_use", e.id)
        /\ Tail(pump.ends) \in Seq(EndsOfSteps)
        /\ \A n \in DOMAIN Tail(pump.ends) : HasEnded(Tail(pump.ends)[n])
  BY <1>1, FirstEnd
<1>3. InOrder' /\ ResultIsLast' /\ NothingIsLost' /\ ParserKnows'  BY <1>1, RecordingKeeps
<1>4. pump.outcome = "none" /\ pump.ends # <<>>  BY <1>1 DEF StreamInv, StepsClose, Pumping
<1>5. CASE e.id \notin recorder.open
  <2>1. recorder' = recorder /\ St!Close(Tail(pump.ends))  BY <1>2, <1>5 DEF St!EndStep
  <2>2. /\ pump'.ends = Tail(pump.ends) /\ pump'.outcome = pump.outcome /\ DOMAIN pump' = DOMAIN pump
        /\ pump'.at = IF Tail(pump.ends) = <<>> THEN "read" ELSE "end"
    BY <2>1 DEF St!Close, StreamInv, StreamTypes
  <2>3. StreamTypes'  BY <1>1, <1>2, <2>1, <2>2 DEF StreamInv, StreamTypes
  <2>4. StepsClose'  BY <1>1, <1>2, <1>4, <2>1, <2>2 DEF StreamInv, StepsClose, Pumping, HasEnded
  <2>5. work[e.id] # "done" \/ steps[e.id].status = "success" \/ cut
    <3>1. Recorded(e.id)  BY <1>2 DEF StreamInv, DoneWillBeRecorded
    <3>2. ~WillBeRecorded(e.id)  BY <1>1, <1>2, <1>5 DEF WillBeRecorded, ClosesNow
    <3> QED  BY <1>1, <3>1, <3>2 DEF Recorded, Pumping
  <2>6. DoneWillBeRecorded'  BY <1>1, <1>2, <1>5, <2>1, <2>2, <2>5, EndIsPassed
  <2>7. St!FinalLogKept' /\ St!SuccessIsReal'  BY <1>1, <2>1 DEF StreamInv, St!FinalLogKept, St!SuccessIsReal
  <2> QED  BY <1>3, <2>3, <2>4, <2>6, <2>7 DEF StreamInv
<1>6. CASE e.id \in recorder.open
  <2>1. /\ recorder' = [recorder EXCEPT !.open = @ \ {e.id},
                                        !.limit = IF e.status = "limit" THEN @ \cup {e.id} ELSE @]
        /\ pump' = [pump EXCEPT !.at = "write"]
    BY <1>2, <1>6 DEF St!EndStep
  <2>2. /\ recorder'.open = recorder.open \ {e.id} /\ recorder'.lines = recorder.lines
        /\ recorder'.limit = IF e.status = "limit" THEN recorder.limit \cup {e.id} ELSE recorder.limit
        /\ recorder'.flush = recorder.flush /\ recorder'.copy = recorder.copy /\ DOMAIN recorder' = DOMAIN recorder
        /\ pump'.at = "write" /\ pump'.ends = pump.ends /\ pump'.outcome = pump.outcome /\ DOMAIN pump' = DOMAIN pump
    BY <2>1 DEF StreamInv, StreamTypes
  <2>3. StreamTypes'  BY <1>1, <2>2 DEF StreamInv, StreamTypes
  <2>4. steps[e.id].closed = 0  BY <1>2, <1>6 DEF StreamInv, StreamTypes, StepsClose
  <2>5. StepsClose'
    <3>1. recorder'.limit \subseteq {a \in Agents : work[a] = "failed"}
      BY <1>2, <2>2 DEF StreamInv, StepsClose, HasEnded
    <3> QED  BY <1>1, <1>2, <1>4, <2>2, <2>4, <3>1 DEF StreamInv, StepsClose, Pumping
  <2>6. DoneWillBeRecorded'
    <3>1. ASSUME NEW b \in Agents PROVE Recorded(b)'
      <4>1. Recorded(b)  BY DEF StreamInv, DoneWillBeRecorded
      <4>2. b = e.id => work[b] \in {"done", "failed", "killed"}  BY <1>2 DEF HasEnded
      <4>3. HasStep(b)'  BY <1>1, <2>2, <4>1, <4>2 DEF Recorded, HasStep, Is, Pumping
      <4>4. b \in recorder.open \/ ClosesNow(b) => b \in recorder'.open \/ ClosesNow(b)'
        BY <1>1, <1>2, <2>2 DEF ClosesNow
      <4>5. WillBeRecorded(b) => WillBeRecorded(b)'
        BY <1>1, <2>2, <4>4 DEF WillBeRecorded, Proves, Acks, Is
      <4> QED  BY <1>1, <1>4, <2>2, <4>1, <4>3, <4>5 DEF Recorded, Pumping
    <3> QED  BY <3>1 DEF DoneWillBeRecorded
  <2>7. St!FinalLogKept' /\ St!SuccessIsReal'  BY <1>1, <2>2 DEF StreamInv, St!FinalLogKept, St!SuccessIsReal
  <2> QED  BY <1>3, <2>3, <2>5, <2>6, <2>7 DEF StreamInv
<1> QED  BY <1>5, <1>6

LEMMA WriteEndKeeps == ASSUME StreamInv, St!WriteEnd PROVE StreamInv'
<1>1. pump.at = "write" /\ UNCHANGED <<notifies, work, leader, cut, parser, pipe>> /\ St!Close(Tail(pump.ends))
  BY DEF St!WriteEnd, St!Outside
<1>2. PICK e \in EndsOfSteps :
        /\ e = Head(pump.ends) /\ e.id \in parser.agents /\ e.id \in Agents /\ HasEnded(e)
        /\ Tail(pump.ends) \in Seq(EndsOfSteps)
        /\ \A n \in DOMAIN Tail(pump.ends) : HasEnded(Tail(pump.ends)[n])
  BY <1>1, FirstEnd
<1>3. InOrder' /\ ResultIsLast' /\ NothingIsLost' /\ ParserKnows'  BY <1>1, RecordingKeeps
<1>4. pump.outcome = "none" /\ e.id \notin recorder.open /\ steps[e.id].closed = 0
  BY <1>1, <1>2 DEF StreamInv, StepsClose, Pumping
<1>5. /\ pump'.ends = Tail(pump.ends) /\ pump'.outcome = pump.outcome /\ DOMAIN pump' = DOMAIN pump
      /\ pump'.at = IF Tail(pump.ends) = <<>> THEN "read" ELSE "end"
  BY <1>1 DEF St!Close, StreamInv, StreamTypes
<1>6. /\ recorder' = [recorder EXCEPT !.flush[e.id] = "none"]
      /\ steps' = [steps EXCEPT ![e.id] = St!Closed(e.id, IF e.status = "ok" THEN "success" ELSE "failed")]
  BY <1>2 DEF St!WriteEnd
<1>7. /\ recorder'.open = recorder.open /\ recorder'.limit = recorder.limit /\ recorder'.copy = recorder.copy
      /\ recorder'.lines = recorder.lines /\ DOMAIN recorder' = DOMAIN recorder /\ DOMAIN recorder'.flush = Agents
      /\ recorder'.flush[e.id] = "none" /\ \A b \in Agents \ {e.id} : recorder'.flush[b] = recorder.flush[b]
  BY <1>2, <1>6 DEF StreamInv, StreamTypes
<1>8. /\ DOMAIN steps' = Agents /\ \A b \in Agents \ {e.id} : steps'[b] = steps[b]
      /\ steps'[e.id].status = (IF e.status = "ok" THEN "success" ELSE "failed") /\ steps'[e.id].closed = 1
      /\ steps'[e.id].log = [lines |-> recorder.lines[e.id], ended |-> TRUE]
      /\ {"status", "log", "closed"} \subseteq DOMAIN steps'[e.id]
  BY <1>2, <1>4, <1>6 DEF StreamInv, StreamTypes, St!Closed
<1>9. StreamTypes'
  <2>1. \A a \in Agents : {"status", "log", "closed"} \subseteq DOMAIN steps'[a] /\ steps'[a].closed \in {0, 1}
    BY <1>8 DEF StreamInv, StreamTypes
  <2> QED  BY <1>1, <1>2, <1>5, <1>7, <1>8, <2>1 DEF StreamInv, StreamTypes
<1>10. StepsClose'
  <2>1. \A a \in Agents :
          /\ steps'[a].closed > 0 => a \in parser.agents \ recorder.open /\ recorder'.flush[a] = "none"
          /\ steps'[a].status = "success" => steps'[a].closed > 0
    BY <1>2, <1>4, <1>7, <1>8 DEF StreamInv, StepsClose
  <2> QED  BY <1>1, <1>2, <1>4, <1>5, <1>7, <2>1 DEF StreamInv, StepsClose, Pumping, HasEnded
<1>11. DoneWillBeRecorded'
  <2>1. work[e.id] # "done" \/ steps'[e.id].status = "success"  BY <1>2, <1>8 DEF HasEnded
  <2> QED  BY <1>1, <1>2, <1>5, <1>7, <1>8, <2>1, EndIsPassed
<1>12. St!FinalLogKept'  BY <1>7, <1>8 DEF StreamInv, St!FinalLogKept
<1>13. St!SuccessIsReal'  BY <1>1, <1>2, <1>8 DEF StreamInv, St!SuccessIsReal, HasEnded
<1> QED  BY <1>3, <1>9, <1>10, <1>11, <1>12, <1>13 DEF StreamInv

LEMMA WriteRefusedKeeps == ASSUME StreamInv, St!WriteRefused PROVE StreamInv'
<1>1. /\ pump.at = "write" /\ UNCHANGED <<notifies, work, leader, parser, pipe, steps>> /\ cut'
      /\ St!Close(Tail(pump.ends))
  BY DEF St!WriteRefused, St!claude
<1>2. PICK e \in EndsOfSteps :
        /\ e = Head(pump.ends) /\ e.id \in parser.agents /\ e.id \in Agents /\ HasEnded(e)
        /\ Tail(pump.ends) \in Seq(EndsOfSteps)
        /\ \A n \in DOMAIN Tail(pump.ends) : HasEnded(Tail(pump.ends)[n])
  BY <1>1, FirstEnd
<1>3. InOrder' /\ ResultIsLast' /\ NothingIsLost' /\ ParserKnows'  BY <1>1, RecordingKeeps
<1>4. pump.outcome = "none"  BY <1>1 DEF StreamInv, StepsClose, Pumping
<1>5. /\ pump'.ends = Tail(pump.ends) /\ pump'.outcome = pump.outcome /\ DOMAIN pump' = DOMAIN pump
      /\ pump'.at = IF Tail(pump.ends) = <<>> THEN "read" ELSE "end"
  BY <1>1 DEF St!Close, StreamInv, StreamTypes
<1>6. recorder' = [recorder EXCEPT !.flush[e.id] = "none"]  BY <1>2 DEF St!WriteRefused
<1>7. /\ recorder'.open = recorder.open /\ recorder'.limit = recorder.limit /\ recorder'.copy = recorder.copy
      /\ recorder'.lines = recorder.lines /\ DOMAIN recorder' = DOMAIN recorder /\ DOMAIN recorder'.flush = Agents
      /\ recorder'.flush[e.id] = "none" /\ \A b \in Agents \ {e.id} : recorder'.flush[b] = recorder.flush[b]
  BY <1>2, <1>6 DEF StreamInv, StreamTypes
<1>8. StreamTypes'  BY <1>1, <1>2, <1>5, <1>7 DEF StreamInv, StreamTypes
<1>9. StepsClose'
  <2>1. \A a \in Agents :
          /\ steps[a].closed > 0 => a \in parser.agents \ recorder.open /\ recorder'.flush[a] = "none"
          /\ steps[a].status = "success" => steps[a].closed > 0
    BY <1>7 DEF StreamInv, StepsClose
  <2> QED  BY <1>1, <1>2, <1>4, <1>5, <1>7, <2>1 DEF StreamInv, StepsClose, Pumping, HasEnded
<1>10. DoneWillBeRecorded'
  BY <1>1, <1>4, <1>5, <1>7 DEF StreamInv, DoneWillBeRecorded, Recorded, HasStep, Is, Pumping
<1>11. St!FinalLogKept' /\ St!SuccessIsReal'  BY <1>1, <1>7 DEF StreamInv, St!FinalLogKept, St!SuccessIsReal
<1> QED  BY <1>3, <1>8, <1>9, <1>10, <1>11 DEF StreamInv

\* A deferred write touches the log of an open step only.
LEMMA FlushBeginsKeeps == ASSUME StreamInv, NEW a \in Agents, St!FlushBegins(a) PROVE StreamInv'
<1>1. recorder.flush[a] = "waiting" /\ UNCHANGED <<notifies, work, leader, cut, parser, steps, pump, pipe>>
  BY DEF St!FlushBegins, St!Outside
<1>2. /\ recorder'.open = recorder.open /\ recorder'.limit = recorder.limit /\ recorder'.lines = recorder.lines
      /\ DOMAIN recorder' = DOMAIN recorder /\ DOMAIN recorder'.flush = Agents /\ DOMAIN recorder'.copy = Agents
      /\ \A b \in Agents \ {a} : recorder'.flush[b] = recorder.flush[b]
  <2>1. CASE a \in recorder.open
    <3>1. recorder' = [recorder EXCEPT !.flush[a] = "writing", !.copy[a] = recorder.lines[a]]
      BY <2>1 DEF St!FlushBegins
    <3> QED  BY <3>1 DEF StreamInv, StreamTypes
  <2>2. CASE a \notin recorder.open
    <3>1. recorder' = [recorder EXCEPT !.flush[a] = "none"]  BY <2>2 DEF St!FlushBegins
    <3> QED  BY <3>1 DEF StreamInv, StreamTypes
  <2> QED  BY <2>1, <2>2
<1>3. steps[a].closed = 0  BY <1>1 DEF StreamInv, StreamTypes, StepsClose
<1>4. InOrder' /\ ResultIsLast' /\ NothingIsLost' /\ ParserKnows'  BY <1>1, RecordingKeeps
<1>5. StreamTypes'  BY <1>1, <1>2 DEF StreamInv, StreamTypes
<1>6. StepsClose'
  <2>1. \A b \in Agents :
          /\ steps[b].closed > 0 => b \in parser.agents \ recorder.open /\ recorder'.flush[b] = "none"
          /\ steps[b].status = "success" => steps[b].closed > 0
    BY <1>2, <1>3 DEF StreamInv, StepsClose
  <2> QED  BY <1>1, <1>2, <2>1 DEF StreamInv, StepsClose, Pumping
<1>7. DoneWillBeRecorded'
  BY <1>1, <1>2 DEF StreamInv, DoneWillBeRecorded, Recorded, WillBeRecorded, HasStep, ClosesNow, Pumping, Proves, Acks, Is
<1>8. St!FinalLogKept' /\ St!SuccessIsReal'  BY <1>1, <1>2 DEF StreamInv, St!FinalLogKept, St!SuccessIsReal
<1> QED  BY <1>4, <1>5, <1>6, <1>7, <1>8 DEF StreamInv

LEMMA FlushEndsKeeps == ASSUME StreamInv, NEW a \in Agents, St!FlushEnds(a) PROVE StreamInv'
<1>1. recorder.flush[a] = "writing" /\ UNCHANGED <<notifies, work, leader, cut, parser, pump, pipe>>
  BY DEF St!FlushEnds, St!Outside
<1>2. /\ recorder'.open = recorder.open /\ recorder'.limit = recorder.limit /\ recorder'.lines = recorder.lines
      /\ DOMAIN recorder' = DOMAIN recorder /\ DOMAIN recorder'.flush = Agents /\ DOMAIN recorder'.copy = Agents
      /\ \A b \in Agents \ {a} : recorder'.flush[b] = recorder.flush[b]
  <2>1. recorder' = [recorder EXCEPT !.flush[a] = "none", !.copy[a] = 0]  BY DEF St!FlushEnds
  <2> QED  BY <2>1 DEF StreamInv, StreamTypes
<1>3. steps[a].closed = 0  BY <1>1 DEF StreamInv, StreamTypes, StepsClose
<1>4. /\ DOMAIN steps' = Agents /\ \A b \in Agents \ {a} : steps'[b] = steps[b]
      /\ steps'[a].status = steps[a].status /\ steps'[a].closed = steps[a].closed
      /\ DOMAIN steps'[a] = DOMAIN steps[a]
  BY DEF St!FlushEnds, StreamInv, StreamTypes
<1>5. InOrder' /\ ResultIsLast' /\ NothingIsLost' /\ ParserKnows'  BY <1>1, RecordingKeeps
<1>6. \A b \in Agents : steps'[b].status = steps[b].status /\ steps'[b].closed = steps[b].closed
                        /\ DOMAIN steps'[b] = DOMAIN steps[b]
  BY <1>4
<1>7. StreamTypes'  BY <1>1, <1>2, <1>4, <1>6 DEF StreamInv, StreamTypes
<1>8. StepsClose'
  <2>1. \A b \in Agents :
          /\ steps'[b].closed > 0 => b \in parser.agents \ recorder.open /\ recorder'.flush[b] = "none"
          /\ steps'[b].status = "success" => steps'[b].closed > 0
    BY <1>2, <1>3, <1>6 DEF StreamInv, StepsClose
  <2>2. pump.at = "write" => steps'[Head(pump.ends).id].closed = 0
    <3>1. SUFFICES ASSUME pump.at = "write" PROVE steps'[Head(pump.ends).id].closed = 0  OBVIOUS
    <3>2. Head(pump.ends).id \in Agents  BY <3>1, FirstEnd
    <3> QED  BY <1>6, <3>1, <3>2 DEF StreamInv, StepsClose
  <2> QED  BY <1>1, <1>2, <2>1, <2>2 DEF StreamInv, StepsClose, Pumping
<1>9. DoneWillBeRecorded'
  BY <1>1, <1>2, <1>6
     DEF StreamInv, DoneWillBeRecorded, Recorded, WillBeRecorded, HasStep, ClosesNow, Pumping, Proves, Acks, Is
<1>10. St!FinalLogKept'  BY <1>2, <1>3, <1>4 DEF StreamInv, St!FinalLogKept
<1>11. St!SuccessIsReal'  BY <1>1, <1>6 DEF StreamInv, St!SuccessIsReal
<1> QED  BY <1>5, <1>7, <1>8, <1>9, <1>10, <1>11 DEF StreamInv

\* The pump is left, and nothing more is read.
LEMMA LeavingKeeps ==
  ASSUME StreamInv, Pumping, NEW place \in {"sigterm", "close"}, NEW ending \in {"over", "stalled", "cancelled"},
         St!Leave(place, ending), UNCHANGED <<notifies, work, leader, pipe, parser, steps>>,
         DOMAIN recorder' = DOMAIN recorder, DOMAIN recorder'.flush = Agents,
         recorder'.open = recorder.open, recorder'.limit = recorder.limit,
         recorder'.lines = recorder.lines, recorder'.copy = recorder.copy,
         \A b \in Agents : recorder'.flush[b] \in {recorder.flush[b], "none"},
         ending = "over" => place = "close" /\ leader = "exited" /\ pipe = <<>> /\ pump.ends = <<>>
  PROVE  StreamInv'
<1>1. /\ pump' = [at |-> place, ends |-> <<>>, outcome |-> ending]
      /\ pump'.at = place /\ pump'.ends = <<>> /\ pump'.outcome = ending /\ {"at", "ends", "outcome"} \subseteq DOMAIN pump'
      /\ ~cut' => ~cut
  BY DEF St!Leave
<1>2. InOrder' /\ ResultIsLast' /\ NothingIsLost' /\ ParserKnows'  BY RecordingKeeps
<1>3. StreamTypes'  BY <1>1, OneEnd DEF StreamInv, StreamTypes
<1>4. StepsClose'
  <2>1. \A b \in Agents :
          /\ steps[b].closed > 0 => b \in parser.agents \ recorder.open /\ recorder'.flush[b] = "none"
          /\ steps[b].status = "success" => steps[b].closed > 0
    BY DEF StreamInv, StepsClose
  <2>2. ~Pumping' /\ pump'.at \notin {"read", "end", "write"}  BY <1>1 DEF Pumping
  <2> QED  BY <1>1, <2>1, <2>2, OneEnd DEF StreamInv, StepsClose
<1>5. ASSUME NEW b \in Agents PROVE Recorded(b)'
  <2>1. ~Pumping'  BY <1>1 DEF Pumping
  <2>2. ASSUME ending = "over", parser.result # "none", ~cut', work[b] = "done" PROVE steps[b].status = "success"
    <3>1. Recorded(b)  BY DEF StreamInv, DoneWillBeRecorded
    <3>2. pump.ends = <<>> /\ pipe = <<>> /\ (notifies \/ parser.acks = {})
      BY <2>2 DEF StreamInv, StepsClose, ResultIsLast
    <3>3. ~WillBeRecorded(b)  BY <2>2, <3>2, OneEnd DEF WillBeRecorded
    <3> QED  BY <1>1, <2>2, <3>1, <3>3 DEF Recorded
  <2> QED  BY <1>1, <2>1, <2>2 DEF Recorded
<1>6. St!FinalLogKept' /\ St!SuccessIsReal'  BY DEF StreamInv, St!FinalLogKept, St!SuccessIsReal
<1> QED  BY <1>2, <1>3, <1>4, <1>5, <1>6 DEF StreamInv, DoneWillBeRecorded

\* While the process is waited for, its output is closed and nothing is left of it.
NothingToRead == pump.at = "wait" => pump.ends = <<>> /\ pipe = <<>> /\ leader # "alive"

LEMMA LeaveSteps ==
  ASSUME StreamInv, NothingToRead, St!EndOfOutput \/ St!Waited \/ St!Stall \/ St!Cancel
  PROVE  StreamInv'
<1>0. CASE St!EndOfOutput
  <2>1. /\ Pumping /\ pump.outcome = "none" /\ pump.ends = <<>> /\ UNCHANGED <<notifies, work, leader, pipe, parser, recorder, steps, cut>>
        /\ pump' = [pump EXCEPT !.at = "wait"] /\ pump.at = "read"
    BY <1>0 DEF St!EndOfOutput, St!claude, Pumping, StreamInv, StepsClose
  <2>2. /\ pump'.at = "wait" /\ pump'.ends = <<>> /\ pump'.outcome = "none" /\ DOMAIN pump' = DOMAIN pump
        /\ Pumping' /\ pump.at # "write"
    BY <2>1 DEF StreamInv, StreamTypes, Pumping
  <2>3. InOrder' /\ ResultIsLast' /\ NothingIsLost' /\ ParserKnows'  BY <2>1, RecordingKeeps
  <2>4. StreamTypes'  BY <2>1, <2>2, OneEnd DEF StreamInv, StreamTypes
  <2>5. StepsClose'  BY <2>1, <2>2 DEF StreamInv, StepsClose
  <2>6. ASSUME NEW b \in Agents PROVE Recorded(b)'
    <3>1. Recorded(b) /\ ~ClosesNow(b)  BY <2>2 DEF StreamInv, DoneWillBeRecorded, ClosesNow
    <3> QED  BY <2>1, <2>2, <3>1 DEF Recorded, WillBeRecorded, HasStep, ClosesNow, Proves, Acks, Is
  <2>7. St!FinalLogKept' /\ St!SuccessIsReal'  BY <2>1 DEF StreamInv, St!FinalLogKept, St!SuccessIsReal
  <2> QED  BY <2>3, <2>4, <2>5, <2>6, <2>7 DEF StreamInv, DoneWillBeRecorded
<1>1. CASE St!Waited
  <2>1. /\ pump.at = "wait" /\ pipe = <<>> /\ pump.ends = <<>> /\ leader = "exited" /\ St!Leave("close", "over")
        /\ UNCHANGED <<notifies, work, leader, pipe, parser, recorder, steps>>
    BY <1>1 DEF St!Waited, St!claude, NothingToRead
  <2> QED  BY <2>1, LeavingKeeps DEF Pumping, StreamInv, StreamTypes
<1>2. CASE St!Stall
  <2>1. /\ pump.at = "read" /\ St!Leave("sigterm", "stalled")
        /\ UNCHANGED <<notifies, work, leader, pipe, parser, recorder, steps>>
    BY <1>2 DEF St!Stall, St!claude
  <2> QED  BY <2>1, LeavingKeeps DEF Pumping, StreamInv, StreamTypes
<1>3. CASE St!Cancel
  <2>1. /\ Pumping /\ St!Leave("sigterm", "cancelled")
        /\ UNCHANGED <<notifies, work, leader, pipe, parser, steps>>
    BY <1>3 DEF St!Cancel, St!claude, Pumping
  <2>2. /\ DOMAIN recorder' = DOMAIN recorder /\ DOMAIN recorder'.flush = Agents
        /\ recorder'.open = recorder.open /\ recorder'.limit = recorder.limit
        /\ recorder'.lines = recorder.lines /\ recorder'.copy = recorder.copy
        /\ \A b \in Agents : recorder'.flush[b] \in {recorder.flush[b], "none"}
    <3>1. CASE pump.at = "write"
      <4>1. PICK first : first = Head(pump.ends).id  OBVIOUS
      <4>2. recorder' = [recorder EXCEPT !.flush[first] = "none"]  BY <1>3, <3>1, <4>1 DEF St!Cancel
      <4> QED  BY <4>2 DEF StreamInv, StreamTypes
    <3>2. CASE pump.at # "write"
      <4>1. recorder' = recorder  BY <1>3, <3>2 DEF St!Cancel
      <4> QED  BY <4>1 DEF StreamInv, StreamTypes
    <3> QED  BY <3>1, <3>2
  <2> QED  BY <2>1, <2>2, LeavingKeeps
<1> QED  BY <1>0, <1>1, <1>2, <1>3

LEMMA KillSteps == ASSUME StreamInv, St!Terminate \/ St!KillGroup PROVE StreamInv'
<1>1. /\ UNCHANGED <<notifies, work, pipe, parser, recorder, steps, cut>>
      /\ pump.at \in {"sigterm", "sigkill"} /\ \E place \in {"sigkill", "close"} : pump' = [pump EXCEPT !.at = place]
  BY DEF St!Terminate, St!KillGroup
<1>2. /\ pump'.at \in {"sigkill", "close"} /\ pump'.ends = pump.ends /\ pump'.outcome = pump.outcome
      /\ DOMAIN pump' = DOMAIN pump
  BY <1>1 DEF StreamInv, StreamTypes
<1>3. InOrder' /\ ResultIsLast' /\ NothingIsLost' /\ ParserKnows'  BY <1>1, RecordingKeeps
<1>4. StreamTypes'  BY <1>1, <1>2 DEF StreamInv, StreamTypes
<1>5. pump.outcome # "over" /\ pump.outcome \in {"over", "stalled", "cancelled"}  BY <1>1 DEF StreamInv, StepsClose
<1>6. StepsClose'  BY <1>1, <1>2, <1>5 DEF StreamInv, StepsClose, Pumping
<1>7. DoneWillBeRecorded'  BY <1>2, <1>5 DEF DoneWillBeRecorded, Recorded, Pumping
<1>8. St!FinalLogKept' /\ St!SuccessIsReal'  BY <1>1 DEF StreamInv, St!FinalLogKept, St!SuccessIsReal
<1> QED  BY <1>3, <1>4, <1>6, <1>7, <1>8 DEF StreamInv

LEMMA CloseDanglingKeeps == ASSUME StreamInv, St!CloseDangling PROVE StreamInv'
<1>1. pump.at = "close" /\ UNCHANGED <<notifies, work, leader, pipe, parser, cut>>
  BY DEF St!CloseDangling, St!claude
<1>2. pump.outcome \in {"over", "stalled", "cancelled"}  BY <1>1 DEF StreamInv, StepsClose
<1>3. St!Endings \subseteq {"failed", "interrupted", "stopped"}  BY <1>2 DEF St!Endings
<1>4. PICK s \in St!Endings, pause \in BOOLEAN :
        steps' = [a \in Agents |->
                    IF a \in recorder.open THEN St!Closed(a, s)
                    ELSE IF pause /\ a \in recorder.limit THEN [steps[a] EXCEPT !.status = "interrupted"] ELSE steps[a]]
  BY DEF St!CloseDangling
<1>5. /\ recorder'.open = {} /\ recorder'.limit = {} /\ recorder'.lines = recorder.lines
      /\ recorder'.copy = recorder.copy /\ DOMAIN recorder' = DOMAIN recorder /\ DOMAIN recorder'.flush = Agents
      /\ \A b \in Agents : recorder'.flush[b] = IF b \in recorder.open THEN "none" ELSE recorder.flush[b]
  BY DEF St!CloseDangling, StreamInv, StreamTypes
<1>6. pump'.at = "closed" /\ pump'.ends = pump.ends /\ pump'.outcome = pump.outcome /\ DOMAIN pump' = DOMAIN pump
  BY DEF St!CloseDangling, StreamInv, StreamTypes
<1>7. ASSUME NEW b \in Agents
      PROVE  /\ {"status", "log", "closed"} \subseteq DOMAIN steps'[b] /\ steps'[b].closed \in {0, 1}
             /\ b \in recorder.open => /\ steps'[b].closed = 1 /\ steps'[b].status # "success"
                                       /\ steps'[b].log = [lines |-> recorder.lines[b], ended |-> TRUE]
             /\ b \notin recorder.open => /\ steps'[b].closed = steps[b].closed /\ steps'[b].log = steps[b].log
                                          /\ steps'[b].status = steps[b].status \/ b \in recorder.limit
                                          /\ steps'[b].status = "success" => steps[b].status = "success"
  <2>1. {"status", "log", "closed"} \subseteq DOMAIN steps[b] /\ steps[b].closed \in {0, 1}
    BY DEF StreamInv, StreamTypes
  <2>2. CASE b \in recorder.open
    <3>1. steps[b].closed = 0  BY <2>1, <2>2 DEF StreamInv, StepsClose
    <3>2. steps'[b] = [status |-> s, log |-> [lines |-> recorder.lines[b], ended |-> TRUE], closed |-> 1]
      <4>1. steps'[b] = St!Closed(b, s)  BY <1>4, <2>2
      <4> QED  BY <3>1, <4>1 DEF St!Closed
    <3>3. s # "success"  BY <1>3
    <3> QED  BY <2>2, <3>2, <3>3
  <2>3. CASE b \notin recorder.open
    <3>1. CASE pause /\ b \in recorder.limit
      <4>1. steps'[b] = [steps[b] EXCEPT !.status = "interrupted"]  BY <1>4, <2>3, <3>1
      <4> QED  BY <2>1, <2>3, <3>1, <4>1
    <3>2. CASE ~(pause /\ b \in recorder.limit)
      <4>1. steps'[b] = steps[b]  BY <1>4, <2>3, <3>2
      <4> QED  BY <2>1, <2>3, <4>1
    <3> QED  BY <3>1, <3>2
  <2> QED  BY <2>2, <2>3
<1>8. InOrder' /\ ResultIsLast' /\ NothingIsLost' /\ ParserKnows'  BY <1>1, RecordingKeeps
<1>9. StreamTypes'
  <2>1. DOMAIN steps' = Agents  BY <1>4
  <2> QED  BY <1>1, <1>5, <1>6, <1>7, <2>1 DEF StreamInv, StreamTypes
<1>10. StepsClose'
  <2>1. \A b \in Agents :
          /\ steps'[b].closed > 0 => b \in parser.agents /\ recorder'.flush[b] = "none"
          /\ steps'[b].status = "success" => steps'[b].closed > 0
    <3>1. ASSUME NEW b \in Agents
          PROVE  /\ b \in recorder.open => b \in parser.agents
                 /\ steps[b].closed > 0 => b \in parser.agents /\ recorder.flush[b] = "none"
                 /\ steps[b].status = "success" => steps[b].closed > 0
      BY DEF StreamInv, StepsClose
    <3>2. ASSUME NEW b \in Agents
          PROVE  /\ steps'[b].closed > 0 => b \in parser.agents /\ recorder'.flush[b] = "none"
                 /\ steps'[b].status = "success" => steps'[b].closed > 0
      <4>1. CASE b \in recorder.open  BY <1>5, <1>7, <3>1, <4>1
      <4>2. CASE b \notin recorder.open
        <5>1. steps'[b].closed = steps[b].closed /\ (steps'[b].status = "success" => steps[b].status = "success")
          BY <1>7, <4>2
        <5> QED  BY <1>5, <3>1, <4>2, <5>1
      <4> QED  BY <4>1, <4>2
    <3> QED  BY <3>2
  <2>2. pump.outcome = "over" => leader = "exited"  BY DEF StreamInv, StepsClose
  <2>3. \A n \in DOMAIN pump.ends : HasEnded(pump.ends[n])  BY DEF StreamInv, StepsClose, HasEnded
  <2> QED  BY <1>1, <1>5, <1>6, <2>1, <2>2, <2>3 DEF StepsClose, Pumping, HasEnded
<1>11. ASSUME NEW b \in Agents PROVE Recorded(b)'
  <2>1. Recorded(b) /\ ~Pumping'  BY <1>6 DEF StreamInv, DoneWillBeRecorded, Pumping
  <2>2. steps[b].status = "success" /\ work[b] = "done" => steps'[b].status = "success"
    BY <1>7 DEF StreamInv, StepsClose
  <2> QED  BY <1>1, <1>6, <2>1, <2>2 DEF Recorded
<1>12. St!FinalLogKept'
  <2>1. ASSUME NEW b \in Agents, steps'[b].closed > 0
        PROVE  steps'[b].log = [lines |-> recorder.lines[b], ended |-> TRUE]
    BY <1>7, <2>1 DEF StreamInv, St!FinalLogKept
  <2> QED  BY <1>5, <2>1 DEF St!FinalLogKept
<1>13. St!SuccessIsReal'
  <2>1. ASSUME NEW b \in Agents
        PROVE  steps'[b].closed <= 1 /\ (steps'[b].status = "success" => work[b] = "done" \/ ~notifies)
    <3>1. steps[b].status = "success" => work[b] = "done" \/ ~notifies
      BY DEF StreamInv, St!SuccessIsReal
    <3>2. CASE b \in recorder.open
      <4>1. steps'[b].closed = 1 /\ steps'[b].status # "success"  BY <1>7, <3>2
      <4> QED  BY <4>1
    <3>3. CASE b \notin recorder.open
      <4>1. steps'[b].closed \in {0, 1} /\ (steps'[b].status = "success" => steps[b].status = "success")
        BY <1>7, <3>3
      <4> QED  BY <3>1, <4>1
    <3> QED  BY <3>2, <3>3
  <2> QED  BY <1>1, <2>1 DEF St!SuccessIsReal
<1> QED  BY <1>8, <1>9, <1>10, <1>11, <1>12, <1>13 DEF StreamInv, DoneWillBeRecorded

\* No message comes while the process is waited for.
LEMMA WaitKeeps ==
  ASSUME StreamInv, NothingToRead, St!Next \/ UNCHANGED St!vars
  PROVE  NothingToRead'
<1>1. ASSUME NEW a \in Agents,
             \/ St!LaunchAgent(a) \/ St!StartTask(a) \/ St!Acknowledge(a) \/ St!BeginWork(a) \/ St!Trace(a)
             \/ St!Finish(a) \/ St!Fail(a) \/ St!Kill(a)
      PROVE  NothingToRead'
  BY <1>1 DEF St!LaunchAgent, St!StartTask, St!Acknowledge, St!BeginWork, St!Trace, St!Finish, St!Fail, St!Kill,
              St!Emit, St!Unseen, NothingToRead
<1>2. ASSUME NEW a \in Agents, St!FlushBegins(a) \/ St!FlushEnds(a) PROVE NothingToRead'
  BY <1>2 DEF St!FlushBegins, St!FlushEnds, St!Outside, NothingToRead
<1>3. CASE St!WriteResult \/ St!CloseOutput \/ St!Exit
  BY <1>3 DEF St!WriteResult, St!CloseOutput, St!Exit, St!Emit, St!Unseen, NothingToRead
<1>5. pump'.at # "wait" => NothingToRead'  BY DEF NothingToRead
<1>6. \A ends : St!Close(ends) => pump'.at # "wait"
  BY DEF St!Close, StreamInv, StreamTypes
<1>7. CASE St!OnToolResult \/ St!OnTaskNotification \/ St!OnResult \/ St!WriteEnd \/ St!WriteRefused
  BY <1>5, <1>6, <1>7 DEF St!OnToolResult, St!OnTaskNotification, St!OnResult, St!WriteEnd, St!WriteRefused
<1>8. CASE St!OnToolUse \/ St!OnTaskStarted \/ St!OnTrace
  BY <1>5, <1>8 DEF St!OnToolUse, St!OnTaskStarted, St!OnTrace, St!Read
<1>9. CASE St!EndStep
  BY <1>5, <1>6, <1>9 DEF St!EndStep, StreamInv, StreamTypes
<1>10. CASE St!EndOfOutput
  BY <1>10 DEF St!EndOfOutput, St!claude, NothingToRead, StreamInv, StepsClose
<1>11. CASE St!Waited \/ St!Stall \/ St!Cancel
  BY <1>5, <1>11 DEF St!Waited, St!Stall, St!Cancel, St!Leave
<1>12. CASE St!Terminate \/ St!KillGroup \/ St!CloseDangling
  BY <1>5, <1>12 DEF St!Terminate, St!KillGroup, St!CloseDangling, StreamInv, StreamTypes
<1>13. CASE UNCHANGED St!vars  BY <1>13 DEF St!vars, NothingToRead
<1> QED
  BY <1>1, <1>2, <1>3, <1>7, <1>8, <1>9, <1>10, <1>11, <1>12, <1>13 DEF St!Next, St!PumpStep

LEMMA StreamStep == ASSUME StreamInv, NothingToRead, St!Next \/ UNCHANGED St!vars PROVE StreamInv'
<1>1. ASSUME NEW a \in Agents,
             \/ St!LaunchAgent(a) \/ St!StartTask(a) \/ St!Acknowledge(a) \/ St!BeginWork(a) \/ St!Trace(a)
             \/ St!Finish(a) \/ St!Fail(a) \/ St!Kill(a) \/ St!FlushBegins(a) \/ St!FlushEnds(a)
      PROVE  StreamInv'
  BY <1>1, LaunchAgentKeeps, StartTaskKeeps, AcknowledgeKeeps, BeginWorkKeeps, TraceKeeps, FinishKeeps, FailKeeps,
     KillAgentKeeps, FlushBeginsKeeps, FlushEndsKeeps
<1>2. CASE St!PumpStep
  BY <1>2, OnToolUseKeeps, OnTaskStartedKeeps, OnToolResultKeeps, OnTraceKeeps, OnTaskNotificationKeeps,
     OnResultKeeps, EndStepKeeps, WriteEndKeeps, LeaveSteps, KillSteps, CloseDanglingKeeps
     DEF St!PumpStep
<1>3. CASE St!WriteResult \/ St!CloseOutput \/ St!Exit \/ St!WriteRefused \/ St!Stall \/ St!Cancel
  BY <1>3, WriteResultKeeps, ExitKeeps, WriteRefusedKeeps, LeaveSteps
<1>4. CASE UNCHANGED St!vars
  <2>1. UNCHANGED <<notifies, work, leader, pipe, parser, recorder, steps, pump, cut>>  BY <1>4 DEF St!vars
  <2>2. InOrder' /\ ResultIsLast' /\ NothingIsLost' /\ ParserKnows'  BY <2>1, RecordingKeeps
  <2>3. StreamTypes' /\ StepsClose'  BY <2>1 DEF StreamInv, StreamTypes, StepsClose, Pumping
  <2>4. DoneWillBeRecorded'
    BY <2>1 DEF StreamInv, DoneWillBeRecorded, Recorded, WillBeRecorded, HasStep, ClosesNow, Pumping, Proves, Acks, Is
  <2>5. St!FinalLogKept' /\ St!SuccessIsReal'  BY <2>1 DEF StreamInv, St!FinalLogKept, St!SuccessIsReal
  <2> QED  BY <2>2, <2>3, <2>4, <2>5 DEF StreamInv
<1> QED  BY <1>1, <1>2, <1>3, <1>4 DEF St!Next

\* The stream of a session keeps what its messages, its parser and its recorder know of
\* one another.
LEMMA StreamIsKept ==
  StudioSpec => [](focus = "stream" => StreamInv)
<1> DEFINE Holds == focus = "stream" => StreamInv /\ NothingToRead
<1>1. StudioInit => Holds
  <2>1. ASSUME St!Init PROVE StreamInv /\ NothingToRead
    <3> DEFINE log == St!Log
    <3>1. /\ work = [a \in Agents |-> "none"] /\ leader = "alive" /\ pipe = <<>>
          /\ parser = [agents |-> {}, background |-> {}, acks |-> {}, notified |-> FALSE, result |-> "none"]
          /\ recorder = [open |-> {}, lines |-> [a \in Agents |-> 0], limit |-> {},
                         flush |-> [a \in Agents |-> "none"], copy |-> [a \in Agents |-> 0]]
          /\ steps = [a \in Agents |-> [status |-> "none", log |-> log, closed |-> 0]]
          /\ pump = [at |-> "read", ends |-> <<>>, outcome |-> "none"]
      BY <2>1 DEF St!Init
    <3> HIDE DEF log
    <3>2. \A a \in Agents : /\ {"status", "log", "closed"} \subseteq DOMAIN steps[a]
                            /\ steps[a].closed = 0 /\ steps[a].status = "none"
      BY <3>1
    <3>3. StreamTypes  BY <3>1, <3>2, OneEnd DEF StreamTypes
    <3>4. InOrder /\ ResultIsLast /\ NothingIsLost  BY <3>1 DEF InOrder, ResultIsLast, NothingIsLost, NotLost
    <3>5. ParserKnows  BY <3>1, FS_EmptySet DEF ParserKnows
    <3>6. StepsClose  BY <3>1, <3>2 DEF StepsClose, Pumping
    <3>7. DoneWillBeRecorded  BY <3>1 DEF DoneWillBeRecorded, Recorded, HasStep
    <3>8. St!FinalLogKept /\ St!SuccessIsReal  BY <3>2 DEF St!FinalLogKept, St!SuccessIsReal
    <3>9. NothingToRead  BY <3>1 DEF NothingToRead
    <3> QED  BY <3>3, <3>4, <3>5, <3>6, <3>7, <3>8, <3>9 DEF StreamInv
  <2> QED  BY <2>1 DEF StudioInit
<1>2. Holds /\ [StudioNext]_all => Holds'
  <2> SUFFICES ASSUME Holds, [StudioNext]_all, focus' = "stream" PROVE (StreamInv /\ NothingToRead)'  OBVIOUS
  <2>1. focus = "stream" /\ (St!Next \/ UNCHANGED St!vars)
    <3>1. CASE StudioNext  BY <3>1 DEF StudioNext
    <3>2. CASE UNCHANGED all  BY <3>2 DEF all, stream, St!vars
    <3> QED  BY <3>1, <3>2
  <2> QED  BY <2>1, StreamStep, WaitKeeps
<1>3. Holds => (focus = "stream" => StreamInv)  OBVIOUS
<1> HIDE DEF Holds
<1>4. StudioSpec => []Holds  BY <1>1, <1>2, PTL DEF StudioSpec
<1> QED  BY <1>3, <1>4, PTL

\* The log of a closed step stays whole: no deferred write of the recorder, of any
\* sub-agent and at any moment, is committed after the final one (_final_log).
THEOREM FinalLogsAreKept == StudioSpec => []FinalLogKept
<1> DEFINE Holds == focus = "stream" => StreamInv
<1>1. Holds => FinalLogKept  BY DEF FinalLogKept, StreamInv
<1>2. StudioSpec => []Holds  BY StreamIsKept
<1> HIDE DEF Holds
<1> QED  BY <1>1, <1>2, PTL

\* A step is closed once, and recorded as a success only of a sub-agent that is done,
\* whatever the order in which its messages and the others' are written and read, unless
\* the CLI notifies no background task (_on_agent_tool_result).
THEOREM SuccessesAreReal == StudioSpec => []SuccessIsReal
<1> DEFINE Holds == focus = "stream" => StreamInv
<1>1. Holds => SuccessIsReal  BY DEF SuccessIsReal, StreamInv
<1>2. StudioSpec => []Holds  BY StreamIsKept
<1> HIDE DEF Holds
<1> QED  BY <1>1, <1>2, PTL

\* A session that was read to its result, and in which no write failed, has recorded all
\* that was done in it, whichever way the CLI tells it (_reconcile_background_agents).
THEOREM AllDoneIsRecorded == StudioSpec => []DoneIsRecorded
<1> DEFINE Holds == focus = "stream" => StreamInv
<1>1. Holds => DoneIsRecorded
  <2>1. DoneWillBeRecorded => St!DoneIsRecorded  BY DEF DoneWillBeRecorded, Recorded, St!DoneIsRecorded
  <2> QED  BY <2>1 DEF DoneIsRecorded, StreamInv
<1>2. StudioSpec => []Holds  BY StreamIsKept
<1> HIDE DEF Holds
<1> QED  BY <1>1, <1>2, PTL

------------------------------------------------------------------------------
(* The media library: a candidate keeps its item, and a file its rights.       *)

CommandFields == {"at", "seen", "found", "number", "item", "name", "held"}

LibraryTypes ==
  /\ registry \in Seq(Items) /\ DOMAIN credits = Li!Places
  /\ DOMAIN cached = Li!Numbers \X Li!Kinds /\ DOMAIN stored = Li!Places
  /\ DOMAIN cmd = Commands
  /\ \A c \in Commands : CommandFields \subseteq DOMAIN cmd[c]

\* The commands that use a candidate, and those that have copied it.
Using(c) == cmd[c].at \in {"fetch", "verify", "copy", "probe", "credit"}
Naming(c) == cmd[c].at \in {"copy", "probe", "credit"}
Copied(c) == cmd[c].at \in {"probe", "credit"}

\* A command works on what the register gave it.
Agrees(c) ==
  /\ cmd[c].at = "list" => /\ cmd[c].seen \in Seq(Items) /\ cmd[c].found \in Seq(Items)
                           /\ \A n \in DOMAIN cmd[c].seen \ shifted :
                                n \in DOMAIN registry /\ registry[n] = cmd[c].seen[n]
  /\ Using(c) => /\ cmd[c].number \in Li!Numbers /\ cmd[c].item \in Items
                 /\ cmd[c].name \in Names \cup {Li!Absent}
                 /\ cmd[c].number \notin shifted =>
                      cmd[c].number \in DOMAIN registry /\ registry[cmd[c].number] = cmd[c].item
  /\ Naming(c) => cmd[c].name \in Names /\ cmd[c].name # Li!Absent
  /\ Copied(c) /\ Li!Place(c) \notin doubt => stored[Li!Place(c)] = cmd[c].item
  /\ cmd[c].at = "credit" => DOMAIN cmd[c].held = Li!Places
  /\ \A d \in Commands \ {c} : cmd[c].name = cmd[d].name => cmd[c].name = Li!Absent

CommandsAgree == \A c \in Commands : Agrees(c)

\* The cache holds the item of its number.
CacheAgrees ==
  \A n \in Li!Numbers, k \in Li!Kinds :
    cached[<<n, k>>] \notin {Li!Absent, Li!Torn} /\ n \notin shifted =>
      n \in DOMAIN registry /\ registry[n] = cached[<<n, k>>]

LibraryInv == LibraryTypes /\ CommandsAgree /\ CacheAgrees /\ Li!RightsFollowFiles

\* A command that uses a candidate names a place of the cache, and of media/.
LEMMA PlacesOfCommand ==
  ASSUME LibraryInv, NEW c \in Commands
  PROVE  /\ Using(c) => Li!Cache(c) \in Li!Numbers \X Li!Kinds
         /\ Naming(c) => Li!Place(c) \in Li!Places
         /\ Copied(c) => Naming(c) /\ Using(c)
<1>1. Using(c) => cmd[c].number \in Li!Numbers /\ cmd[c].item \in Items
  BY DEF LibraryInv, CommandsAgree, Agrees
<1>2. Naming(c) => cmd[c].name \in Names  BY DEF LibraryInv, CommandsAgree, Agrees
<1>3. Naming(c) => Using(c)  BY DEF Naming, Using
<1>4. Copied(c) => Naming(c)  BY DEF Naming, Copied
<1>5. Using(c) => Kind[cmd[c].item] \in Li!Kinds  BY <1>1 DEF Li!Kinds
<1> QED  BY <1>1, <1>2, <1>3, <1>4, <1>5 DEF Li!Cache, Li!Place, Li!Places

\* The other commands keep what they agree on, when the register and the files they have
\* copied stay as they were for them.
LEMMA OthersAgree ==
  ASSUME LibraryInv, NEW c \in Commands, \A d \in Commands \ {c} : cmd'[d] = cmd[d],
         shifted \subseteq shifted',
         \A n \in DOMAIN registry \ shifted' : n \in DOMAIN registry' /\ registry'[n] = registry[n],
         \A d \in Commands \ {c} : Copied(d) /\ Li!Place(d) \notin doubt' =>
           Li!Place(d) \notin doubt /\ stored'[Li!Place(d)] = stored[Li!Place(d)],
         Agrees(c)'
  PROVE  CommandsAgree'
<1>1. ASSUME NEW d \in Commands \ {c} PROVE Agrees(d)'
  <2>1. Agrees(d) /\ cmd'[d] = cmd[d]  BY DEF LibraryInv, CommandsAgree
  <2>2. cmd[d].at = "list" => \A n \in DOMAIN cmd[d].seen \ shifted' :
                                n \in DOMAIN registry' /\ registry'[n] = cmd[d].seen[n]
    BY <2>1 DEF Agrees
  <2>3. Using(d) /\ cmd[d].number \notin shifted' =>
                      cmd[d].number \in DOMAIN registry' /\ registry'[cmd[d].number] = cmd[d].item
    BY <2>1 DEF Agrees
  <2>4. Copied(d) /\ Li!Place(d) \notin doubt' => stored'[Li!Place(d)] = cmd[d].item
    BY <2>1 DEF Agrees
  <2>5. \A x \in Commands \ {d} : cmd[d].name = cmd'[x].name => cmd[d].name = Li!Absent
    BY <2>1 DEF Agrees
  <2> QED  BY <2>1, <2>2, <2>3, <2>4, <2>5 DEF Agrees, Using, Naming, Copied, Li!Place
<1> QED  BY <1>1 DEF CommandsAgree

\* A file of another place stays credited.
LEMMA RightsStay ==
  ASSUME LibraryInv, NEW c \in Commands, \A d \in Commands \ {c} : cmd'[d] = cmd[d],
         \A p \in Li!Places \ doubt' :
           \/ stored'[p] \in {Li!Absent, credits'[p]}
           \/ Copied(c)' /\ Li!Place(c)' = p
           \/ /\ p \notin doubt /\ stored'[p] = stored[p] /\ credits'[p] = credits[p]
              /\ Copied(c) => Li!Place(c) # p
  PROVE  Li!RightsFollowFiles'
<1>1. ASSUME NEW p \in Li!Places \ doubt'
      PROVE  \/ stored'[p] \in {Li!Absent, credits'[p]}
             \/ \E d \in Commands : cmd'[d].at \in {"probe", "credit"} /\ Li!Place(d)' = p
  <2>1. CASE p \notin doubt /\ stored'[p] = stored[p] /\ credits'[p] = credits[p]
             /\ (Copied(c) => Li!Place(c) # p)
    <3>1. CASE stored[p] \in {Li!Absent, credits[p]}  BY <2>1, <3>1
    <3>2. CASE \E d \in Commands : cmd[d].at \in {"probe", "credit"} /\ Li!Place(d) = p
      <4>1. PICK d \in Commands : cmd[d].at \in {"probe", "credit"} /\ Li!Place(d) = p  BY <3>2
      <4>2. d # c  BY <2>1, <4>1 DEF Copied
      <4> QED  BY <4>1, <4>2 DEF Li!Place
    <3> QED  BY <2>1, <3>1, <3>2 DEF LibraryInv, Li!RightsFollowFiles, Li!At
  <2>2. CASE stored'[p] \in {Li!Absent, credits'[p]}  BY <2>2
  <2>3. CASE Copied(c)' /\ Li!Place(c)' = p  BY <2>3 DEF Copied
  <2> QED  BY <2>1, <2>2, <2>3
<1> QED  BY <1>1 DEF Li!RightsFollowFiles, Li!At

\* A command that moves on, and touches no file.
LEMMA QuietMove ==
  ASSUME LibraryInv, NEW c \in Commands, UNCHANGED <<registry, cached, stored, credits, shifted, doubt>>,
         DOMAIN cmd' = Commands, CommandFields \subseteq DOMAIN cmd'[c], \A d \in Commands \ {c} : cmd'[d] = cmd[d],
         Agrees(c)', Copied(c) => Copied(c)' /\ Li!Place(c)' = Li!Place(c)
  PROVE  LibraryInv'
<1>1. LibraryTypes'  BY DEF LibraryInv, LibraryTypes
<1>2. CommandsAgree'  BY OthersAgree
<1>3. CacheAgrees'  BY DEF LibraryInv, CacheAgrees
<1>4. Li!RightsFollowFiles'  BY RightsStay
<1> QED  BY <1>1, <1>2, <1>3, <1>4 DEF LibraryInv

\* The steps of a command: to another label, or to its end.
LEMMA CommandGoes ==
  ASSUME LibraryInv, NEW c \in Commands
  PROVE  /\ \A label : Li!Goto(c, label) =>
              /\ DOMAIN cmd' = Commands /\ DOMAIN cmd'[c] = DOMAIN cmd[c]
              /\ cmd'[c].at = label /\ \A d \in Commands \ {c} : cmd'[d] = cmd[d]
              /\ cmd'[c].seen = cmd[c].seen /\ cmd'[c].found = cmd[c].found /\ cmd'[c].number = cmd[c].number
              /\ cmd'[c].item = cmd[c].item /\ cmd'[c].name = cmd[c].name /\ cmd'[c].held = cmd[c].held
         /\ Li!Ends(c) =>
              /\ DOMAIN cmd' = Commands /\ CommandFields \subseteq DOMAIN cmd'[c] /\ Agrees(c)'
              /\ ~Copied(c)' /\ \A d \in Commands \ {c} : cmd'[d] = cmd[d]
<1>1. ASSUME NEW label, Li!Goto(c, label)
      PROVE  /\ DOMAIN cmd' = Commands /\ DOMAIN cmd'[c] = DOMAIN cmd[c]
             /\ cmd'[c].at = label /\ \A d \in Commands \ {c} : cmd'[d] = cmd[d]
             /\ cmd'[c].seen = cmd[c].seen /\ cmd'[c].found = cmd[c].found /\ cmd'[c].number = cmd[c].number
             /\ cmd'[c].item = cmd[c].item /\ cmd'[c].name = cmd[c].name /\ cmd'[c].held = cmd[c].held
  <2>1. DOMAIN cmd = Commands /\ cmd' = [cmd EXCEPT ![c] = [cmd[c] EXCEPT !.at = label]]
        /\ CommandFields \subseteq DOMAIN cmd[c]
    BY <1>1 DEF Li!Goto, LibraryInv, LibraryTypes
  <2> DEFINE r == cmd[c]
             s == [r EXCEPT !.at = label]
  <2>2. /\ DOMAIN s = DOMAIN r /\ s.at = label /\ s.seen = r.seen /\ s.found = r.found
        /\ s.number = r.number /\ s.item = r.item /\ s.name = r.name /\ s.held = r.held
    BY <2>1 DEF CommandFields
  <2>3. cmd'[c] = s /\ DOMAIN cmd' = Commands /\ \A d \in Commands \ {c} : cmd'[d] = cmd[d]
    BY <2>1
  <2> QED  BY <2>2, <2>3
<1>2. ASSUME Li!Ends(c)
      PROVE  /\ DOMAIN cmd' = Commands /\ CommandFields \subseteq DOMAIN cmd'[c] /\ Agrees(c)'
             /\ ~Copied(c)' /\ \A d \in Commands \ {c} : cmd'[d] = cmd[d]
  <2> DEFINE rest == Li!Rest
  <2>1. DOMAIN cmd = Commands /\ cmd' = [cmd EXCEPT ![c] = rest]
    BY <1>2 DEF Li!Ends, LibraryInv, LibraryTypes
  <2>2. CommandFields \subseteq DOMAIN rest /\ rest.at = "idle" /\ rest.name = Li!Absent
    BY DEF CommandFields, Li!Rest
  <2> HIDE DEF rest
  <2>3. cmd'[c] = rest /\ DOMAIN cmd' = Commands /\ \A d \in Commands \ {c} : cmd'[d] = cmd[d]
    BY <2>1
  <2> QED  BY <2>2, <2>3 DEF Agrees, Using, Naming, Copied
<1> QED  BY <1>1, <1>2

LEMMA SearchKeeps == ASSUME LibraryInv, NEW c \in Commands, Li!Search(c) PROVE LibraryInv'
<1>1. Li!Goto(c, "ask") /\ UNCHANGED <<registry, cached, stored, credits, shifted, doubt>> /\ ~Copied(c)
  BY DEF Li!Search, Li!library, Li!At, Copied
<1>2. Agrees(c)'
  BY <1>1, CommandGoes DEF LibraryInv, CommandsAgree, Agrees, Using, Naming, Copied
<1> QED  BY <1>1, <1>2, CommandGoes, QuietMove DEF LibraryInv, LibraryTypes

LEMMA ReadRegistryKeeps ==
  ASSUME LibraryInv, NEW c \in Commands, NEW found \in Li!Accepted, Li!ReadRegistry(c, found), Li!MediaAssumption
  PROVE  LibraryInv'
<1>1. /\ UNCHANGED <<registry, cached, stored, credits, shifted, doubt>> /\ ~Copied(c)
      /\ cmd' = [cmd EXCEPT ![c].at = "list", ![c].seen = registry, ![c].found = found]
  BY DEF Li!ReadRegistry, Li!library, Li!At, Copied
<1>2. /\ DOMAIN cmd' = Commands /\ CommandFields \subseteq DOMAIN cmd'[c]
      /\ cmd'[c].at = "list" /\ cmd'[c].seen = registry /\ cmd'[c].found = found
      /\ cmd'[c].name = cmd[c].name /\ \A d \in Commands \ {c} : cmd'[d] = cmd[d]
  BY <1>1 DEF LibraryInv, LibraryTypes, CommandFields
<1>3. found \in Seq(Items)
  <2>1. PICK n \in 0 .. MaxFound : found \in [1 .. n -> Items \ Refused]  BY DEF Li!Accepted
  <2>2. n \in Nat  BY DEF Li!MediaAssumption
  <2>3. found \in [1 .. n -> Items]  BY <2>1
  <2> QED  BY <2>2, <2>3
<1>4. registry \in Seq(Items)  BY DEF LibraryInv, LibraryTypes
<1>5. Agrees(c)'
  BY <1>1, <1>2, <1>3, <1>4 DEF LibraryInv, CommandsAgree, Agrees, Using, Naming, Copied
<1> QED  BY <1>1, <1>2, <1>5, QuietMove

LEMMA WriteRegistryKeeps == ASSUME LibraryInv, NEW c \in Commands, Li!WriteRegistry(c) PROVE LibraryInv'
<1>1. /\ cmd[c].at = "list" /\ Li!Ends(c) /\ registry' = cmd[c].seen \o cmd[c].found
      /\ UNCHANGED <<cached, stored, credits, doubt>> /\ ~Copied(c)
      /\ shifted' = IF registry = cmd[c].seen THEN shifted
                    ELSE shifted \cup {n \in DOMAIN registry : n > Len(cmd[c].seen)}
  BY DEF Li!WriteRegistry, Li!Numbered, Li!library, Li!At, Copied
<1> DEFINE seen == cmd[c].seen
           found == cmd[c].found
<1>2. /\ seen \in Seq(Items) /\ found \in Seq(Items)
      /\ \A n \in DOMAIN seen \ shifted : n \in DOMAIN registry /\ registry[n] = seen[n]
  BY <1>1 DEF LibraryInv, CommandsAgree, Agrees
<1>3. registry \in Seq(Items)  BY DEF LibraryInv, LibraryTypes
<1>4. registry' = seen \o found  BY <1>1
<1>5. shifted' = IF registry = seen THEN shifted ELSE shifted \cup {n \in DOMAIN registry : n > Len(seen)}
  BY <1>1
<1> HIDE DEF seen, found
<1>6. /\ registry' \in Seq(Items) /\ Len(seen) \in Nat /\ Len(registry) \in Nat
      /\ DOMAIN seen = 1 .. Len(seen) /\ DOMAIN registry = 1 .. Len(registry)
      /\ \A n \in DOMAIN seen : n \in DOMAIN registry' /\ registry'[n] = seen[n]
  <2>1. /\ Len(seen) \in Nat /\ Len(registry) \in Nat /\ Len(found) \in Nat
        /\ DOMAIN seen = 1 .. Len(seen) /\ DOMAIN registry = 1 .. Len(registry)
    BY <1>2, <1>3
  <2>2. /\ seen \o found \in Seq(Items) /\ Len(seen \o found) = Len(seen) + Len(found)
        /\ \A n \in 1 .. Len(seen) : (seen \o found)[n] = seen[n]
    BY <1>2, <2>1
  <2>3. DOMAIN registry' = 1 .. Len(seen) + Len(found)  BY <1>4, <2>2
  <2> QED  BY <1>4, <2>1, <2>2, <2>3
<1>7. shifted \subseteq shifted'  BY <1>5
<1>8. ASSUME NEW n \in DOMAIN registry \ shifted' PROVE n \in DOMAIN registry' /\ registry'[n] = registry[n]
  <2>1. n \in DOMAIN seen
    <3>1. CASE registry = seen  BY <3>1
    <3>2. CASE registry # seen
      <4>1. ~(n > Len(seen))  BY <1>5, <3>2
      <4> QED  BY <1>6, <4>1
    <3> QED  BY <3>1, <3>2
  <2>2. registry[n] = seen[n]  BY <1>2, <1>7, <2>1
  <2> QED  BY <1>6, <2>1, <2>2
<1>9. LibraryTypes'  BY <1>1, <1>6, CommandGoes DEF LibraryInv, LibraryTypes
<1>10. CommandsAgree'  BY <1>1, <1>7, <1>8, CommandGoes, OthersAgree
<1>11. CacheAgrees'  BY <1>1, <1>7, <1>8 DEF LibraryInv, CacheAgrees
<1>12. Li!RightsFollowFiles'  BY <1>1, CommandGoes, RightsStay
<1> QED  BY <1>9, <1>10, <1>11, <1>12 DEF LibraryInv

LEMMA UseKeeps ==
  ASSUME LibraryInv, NEW c \in Commands, NEW number \in Li!Numbers, NEW name \in Names \cup {Li!Absent},
         Li!Use(c, number, name)
  PROVE  LibraryInv'
<1> DEFINE used == [Li!Rest EXCEPT !.at = "fetch", !.number = number, !.item = registry[number], !.name = name]
<1>1. /\ UNCHANGED <<registry, cached, stored, credits, shifted, doubt>> /\ ~Copied(c)
      /\ number \in DOMAIN registry /\ cmd' = [cmd EXCEPT ![c] = used]
      /\ name # Li!Absent => \A d \in Commands : cmd[d].name # name
  BY DEF Li!Use, Li!library, Li!At, Copied
<1>2. /\ CommandFields \subseteq DOMAIN used /\ used.at = "fetch" /\ used.number = number
      /\ used.item = registry[number] /\ used.name = name
  BY DEF CommandFields, Li!Rest
<1> HIDE DEF used
<1>3. cmd'[c] = used /\ DOMAIN cmd' = Commands /\ \A d \in Commands \ {c} : cmd'[d] = cmd[d]
  BY <1>1 DEF LibraryInv, LibraryTypes
<1>4. registry[number] \in Items
  <2>1. registry \in Seq(Items)  BY DEF LibraryInv, LibraryTypes
  <2> QED  BY <1>1, <2>1
<1>5. Agrees(c)'  BY <1>1, <1>2, <1>3, <1>4 DEF Agrees, Using, Naming, Copied
<1> QED  BY <1>1, <1>2, <1>3, <1>5, QuietMove

\* A command moves between two labels of its use of a candidate.
LEMMA UseGoesOn ==
  ASSUME LibraryInv, NEW c \in Commands, Using(c), NEW label \in {"verify", "copy", "probe"}, Li!Goto(c, label),
         label # "verify" => Naming(c) \/ cmd[c].name \in Names \ {Li!Absent},
         registry' = registry, shifted' = shifted,
         label = "probe" /\ Li!Place(c) \notin doubt' => stored'[Li!Place(c)] = cmd[c].item
  PROVE  /\ Agrees(c)' /\ DOMAIN cmd' = Commands /\ CommandFields \subseteq DOMAIN cmd'[c]
         /\ (\A d \in Commands \ {c} : cmd'[d] = cmd[d]) /\ Li!Place(c)' = Li!Place(c) /\ cmd'[c].at = label
<1>1. /\ DOMAIN cmd' = Commands /\ DOMAIN cmd'[c] = DOMAIN cmd[c]
      /\ cmd'[c].at = label /\ \A d \in Commands \ {c} : cmd'[d] = cmd[d]
      /\ cmd'[c].number = cmd[c].number /\ cmd'[c].item = cmd[c].item /\ cmd'[c].name = cmd[c].name
  BY CommandGoes
<1>2. CommandFields \subseteq DOMAIN cmd'[c]  BY <1>1 DEF LibraryInv, LibraryTypes
<1>3. Li!Place(c)' = Li!Place(c)  BY <1>1 DEF Li!Place
<1>4. Agrees(c)  BY DEF LibraryInv, CommandsAgree
<1>5. Agrees(c)'
  <2>1. label # "verify" => cmd[c].name \in Names /\ cmd[c].name # Li!Absent  BY <1>4 DEF Agrees
  <2> QED  BY <1>1, <1>3, <1>4, <2>1 DEF Agrees, Using, Naming, Copied
<1> QED  BY <1>1, <1>2, <1>3, <1>5

\* A step on the cache.
LEMMA CacheMove ==
  ASSUME LibraryInv, NEW c \in Commands, UNCHANGED <<registry, stored, credits, shifted, doubt>>,
         DOMAIN cmd' = Commands, CommandFields \subseteq DOMAIN cmd'[c], \A d \in Commands \ {c} : cmd'[d] = cmd[d],
         Agrees(c)', Copied(c) => Copied(c)' /\ Li!Place(c)' = Li!Place(c),
         NEW content, Using(c), content \in {cmd[c].item, Li!Absent, Li!Torn},
         cached' \in {cached, [cached EXCEPT ![Li!Cache(c)] = content]}
  PROVE  LibraryInv'
<1>1. LibraryTypes'  BY DEF LibraryInv, LibraryTypes
<1>2. CommandsAgree'  BY OthersAgree
<1>3. Li!RightsFollowFiles'  BY RightsStay
<1>4. CacheAgrees'
  <2>1. Agrees(c)  BY DEF LibraryInv, CommandsAgree
  <2>2. ASSUME NEW n \in Li!Numbers, NEW k \in Li!Kinds, cached'[<<n, k>>] \notin {Li!Absent, Li!Torn}, n \notin shifted
        PROVE  n \in DOMAIN registry /\ registry[n] = cached'[<<n, k>>]
    <3>1. CASE cached'[<<n, k>>] = cached[<<n, k>>]  BY <2>2, <3>1 DEF LibraryInv, CacheAgrees
    <3>2. CASE cached'[<<n, k>>] # cached[<<n, k>>]
      <4>1. cached' = [cached EXCEPT ![Li!Cache(c)] = content]  BY <3>2
      <4>2. Li!Cache(c) = <<n, k>> /\ cached'[<<n, k>>] = content
        BY <3>2, <4>1 DEF LibraryInv, LibraryTypes
      <4>3. n = cmd[c].number /\ content = cmd[c].item  BY <2>2, <4>2 DEF Li!Cache
      <4> QED  BY <2>1, <2>2, <4>2, <4>3 DEF Agrees
    <3> QED  BY <3>1, <3>2
  <2> QED  BY <2>2 DEF CacheAgrees
<1> QED  BY <1>1, <1>2, <1>3, <1>4 DEF LibraryInv

LEMMA FetchKeeps == ASSUME LibraryInv, NEW c \in Commands, Li!Fetch(c) PROVE LibraryInv'
<1>1. /\ cmd[c].at = "fetch" /\ Using(c) /\ ~Copied(c)
      /\ UNCHANGED <<registry, stored, credits, shifted, doubt>>
      /\ Li!Goto(c, "verify") \/ Li!Ends(c)
      /\ cached' = cached \/ \E content \in {cmd[c].item, Li!Torn} : cached' = [cached EXCEPT ![Li!Cache(c)] = content]
  BY DEF Li!Fetch, Li!At, Using, Copied
<1>2. PICK content \in {cmd[c].item, Li!Torn} : cached' \in {cached, [cached EXCEPT ![Li!Cache(c)] = content]}
  BY <1>1
<1>3. /\ Agrees(c)' /\ DOMAIN cmd' = Commands /\ CommandFields \subseteq DOMAIN cmd'[c]
      /\ \A d \in Commands \ {c} : cmd'[d] = cmd[d]
  BY <1>1, UseGoesOn, CommandGoes
<1> QED  BY <1>1, <1>2, <1>3, CacheMove

LEMMA VerifyKeeps == ASSUME LibraryInv, NEW c \in Commands, Li!Verify(c) PROVE LibraryInv'
<1>1. /\ cmd[c].at = "verify" /\ Using(c) /\ ~Copied(c)
      /\ UNCHANGED <<registry, stored, credits, shifted, doubt>>
      /\ (Li!Goto(c, "copy") /\ cmd[c].name # Li!Absent) \/ Li!Ends(c)
      /\ cached' = cached \/ cached' = [cached EXCEPT ![Li!Cache(c)] = Li!Absent]
  BY DEF Li!Verify, Li!At, Using, Copied
<1>2. cmd[c].name \in Names \cup {Li!Absent}  BY <1>1 DEF LibraryInv, CommandsAgree, Agrees
<1>3. /\ Agrees(c)' /\ DOMAIN cmd' = Commands /\ CommandFields \subseteq DOMAIN cmd'[c]
      /\ \A d \in Commands \ {c} : cmd'[d] = cmd[d]
  BY <1>1, <1>2, UseGoesOn, CommandGoes
<1>4. cached' \in {cached, [cached EXCEPT ![Li!Cache(c)] = Li!Absent]}  BY <1>1
<1> QED  BY <1>1, <1>3, <1>4, CacheMove

LEMMA CopyKeeps == ASSUME LibraryInv, NEW c \in Commands, Li!Copy(c) PROVE LibraryInv'
<1>1. cmd[c].at = "copy" /\ UNCHANGED <<registry, cached, credits, shifted>> /\ Using(c) /\ Naming(c) /\ ~Copied(c)
  BY DEF Li!Copy, Li!At, Using, Naming, Copied
<1>2. CASE cached[Li!Cache(c)] = Li!Absent
  <2>1. Li!Ends(c) /\ UNCHANGED <<stored, doubt>>  BY <1>2 DEF Li!Copy
  <2> QED  BY <1>1, <2>1, CommandGoes, QuietMove
<1>3. CASE cached[Li!Cache(c)] # Li!Absent
  <2>1. PICK p \in Li!Places : p = Li!Place(c)  BY <1>1, PlacesOfCommand
  <2>2. PICK content : content = cached[Li!Cache(c)]  OBVIOUS
  <2>3. /\ stored' = [stored EXCEPT ![p] = content] /\ Li!Goto(c, "probe")
        /\ doubt' = IF cmd[c].number \in shifted \/ content = Li!Torn THEN doubt \cup {p} ELSE doubt \ {p}
    BY <1>3, <2>1, <2>2 DEF Li!Copy
  <2>4. cmd[c].number \notin shifted /\ content # Li!Torn => content = cmd[c].item
    <3>1. Li!Cache(c) = <<cmd[c].number, Kind[cmd[c].item]>> /\ Li!Cache(c) \in Li!Numbers \X Li!Kinds
      BY <1>1, PlacesOfCommand DEF Li!Cache
    <3>2. Agrees(c)  BY DEF LibraryInv, CommandsAgree
    <3> QED  BY <1>1, <1>3, <2>2, <3>1, <3>2 DEF LibraryInv, CacheAgrees, Agrees
  <2>5. DOMAIN stored' = Li!Places /\ stored'[p] = content /\ \A q \in Li!Places \ {p} : stored'[q] = stored[q]
    BY <2>3 DEF LibraryInv, LibraryTypes
  <2>6. p \notin doubt' => stored'[p] = cmd[c].item  BY <2>3, <2>4, <2>5
  <2>7. /\ Agrees(c)' /\ DOMAIN cmd' = Commands /\ CommandFields \subseteq DOMAIN cmd'[c]
        /\ (\A d \in Commands \ {c} : cmd'[d] = cmd[d]) /\ Li!Place(c)' = p /\ cmd'[c].at = "probe"
    BY <1>1, <2>1, <2>3, <2>6, UseGoesOn
  <2>8. ASSUME NEW d \in Commands \ {c}, Copied(d) PROVE Li!Place(d) # p /\ Li!Place(d) \in Li!Places
    <3>1. cmd[c].name # cmd[d].name  BY <1>1 DEF LibraryInv, CommandsAgree, Agrees
    <3>2. Li!Place(d) \in Li!Places  BY <2>8, PlacesOfCommand
    <3> QED  BY <2>1, <3>1, <3>2 DEF Li!Place
  <2>9. \A q \in Li!Places \ {p} : q \notin doubt' => q \notin doubt  BY <2>3
  <2>10. CommandsAgree'  BY <1>1, <2>5, <2>7, <2>8, <2>9, OthersAgree
  <2>11. Li!RightsFollowFiles'
    <3>1. Copied(c)'  BY <2>7 DEF Copied
    <3> QED  BY <1>1, <2>5, <2>7, <2>9, <3>1, RightsStay
  <2>12. LibraryTypes' /\ CacheAgrees'
    BY <1>1, <2>5, <2>7 DEF LibraryInv, LibraryTypes, CacheAgrees
  <2> QED  BY <2>10, <2>11, <2>12 DEF LibraryInv
<1> QED  BY <1>2, <1>3

LEMMA ReadCreditsKeeps == ASSUME LibraryInv, NEW c \in Commands, Li!ReadCredits(c) PROVE LibraryInv'
<1>1. /\ cmd[c].at = "probe" /\ UNCHANGED <<registry, cached, stored, credits, shifted, doubt>>
      /\ cmd' = [cmd EXCEPT ![c].at = "credit", ![c].held = credits]
  BY DEF Li!ReadCredits, Li!library, Li!At
<1>2. /\ DOMAIN cmd' = Commands /\ CommandFields \subseteq DOMAIN cmd'[c] /\ cmd'[c].at = "credit"
      /\ cmd'[c].held = credits /\ cmd'[c].number = cmd[c].number /\ cmd'[c].item = cmd[c].item
      /\ cmd'[c].name = cmd[c].name /\ \A d \in Commands \ {c} : cmd'[d] = cmd[d]
  BY <1>1 DEF LibraryInv, LibraryTypes, CommandFields
<1>3. Li!Place(c)' = Li!Place(c)  BY <1>2 DEF Li!Place
<1>4. Agrees(c) /\ DOMAIN credits = Li!Places  BY DEF LibraryInv, CommandsAgree, LibraryTypes
<1>5. Agrees(c)'  BY <1>1, <1>2, <1>3, <1>4 DEF Agrees, Using, Naming, Copied
<1> QED  BY <1>1, <1>2, <1>3, <1>5, QuietMove DEF Copied

LEMMA WriteCreditsKeeps == ASSUME LibraryInv, NEW c \in Commands, Li!WriteCredits(c) PROVE LibraryInv'
<1>1. cmd[c].at = "credit" /\ UNCHANGED <<registry, cached, stored, shifted>> /\ Li!Ends(c) /\ Naming(c) /\ Copied(c)
  BY DEF Li!WriteCredits, Li!At, Naming, Copied
<1>2. PICK p \in Li!Places : p = Li!Place(c)  BY <1>1, PlacesOfCommand
<1>3. /\ credits' = [cmd[c].held EXCEPT ![p] = cmd[c].item]
      /\ doubt' = doubt \cup {q \in Li!Places \ {p} : credits[q] # cmd[c].held[q]}
  BY <1>2 DEF Li!WriteCredits
<1>4. Agrees(c)  BY DEF LibraryInv, CommandsAgree
<1>5. DOMAIN cmd[c].held = Li!Places  BY <1>1, <1>4 DEF Agrees
<1>6. /\ DOMAIN credits' = Li!Places /\ credits'[p] = cmd[c].item
      /\ \A q \in Li!Places \ {p} : credits'[q] = cmd[c].held[q]
  BY <1>3, <1>5
<1>7. doubt \subseteq doubt'  BY <1>3
<1>8. p \notin doubt => stored[p] = cmd[c].item  BY <1>1, <1>2, <1>4 DEF Agrees
<1>9. ASSUME NEW q \in Li!Places \ doubt'
      PROVE  stored[q] = credits'[q] \/ (q \notin doubt /\ credits'[q] = credits[q] /\ q # p)
  <2>1. CASE q = p  BY <1>6, <1>7, <1>8, <1>9, <2>1
  <2>2. CASE q # p  BY <1>3, <1>6, <1>9, <2>2
  <2> QED  BY <2>1, <2>2
<1>10. Li!RightsFollowFiles'  BY <1>1, <1>2, <1>9, CommandGoes, RightsStay
<1>11. CommandsAgree'  BY <1>1, <1>7, CommandGoes, OthersAgree
<1>12. LibraryTypes' /\ CacheAgrees'
  BY <1>1, <1>6, CommandGoes DEF LibraryInv, LibraryTypes, CacheAgrees
<1> QED  BY <1>10, <1>11, <1>12 DEF LibraryInv

LEMMA KillCommandKeeps == ASSUME LibraryInv, NEW c \in Commands, Li!Kill(c) PROVE LibraryInv'
<1>1. /\ Li!Ends(c) /\ UNCHANGED <<registry, cached, credits, shifted>>
      /\ doubt' = IF Naming(c) THEN doubt \cup {Li!Place(c)} ELSE doubt
      /\ stored' = stored \/ (cmd[c].at = "copy" /\ stored' = [stored EXCEPT ![Li!Place(c)] = Li!Torn])
  BY DEF Li!Kill, Li!At, Naming
<1>2. /\ DOMAIN stored' = Li!Places /\ doubt \subseteq doubt'
      /\ \A q \in Li!Places \ doubt' : stored'[q] = stored[q]
  BY <1>1 DEF LibraryInv, LibraryTypes, Naming
<1>3. \A q \in Li!Places \ doubt' : Copied(c) => Li!Place(c) # q  BY <1>1 DEF Naming, Copied
<1>4. Li!RightsFollowFiles'  BY <1>1, <1>2, <1>3, CommandGoes, RightsStay
<1>5. \A d \in Commands : Copied(d) => Li!Place(d) \in Li!Places  BY PlacesOfCommand
<1>6. CommandsAgree'  BY <1>1, <1>2, <1>5, CommandGoes, OthersAgree
<1>7. LibraryTypes' /\ CacheAgrees'
  BY <1>1, <1>2, CommandGoes DEF LibraryInv, LibraryTypes, CacheAgrees
<1> QED  BY <1>4, <1>6, <1>7 DEF LibraryInv

LEMMA LibraryStep == ASSUME LibraryInv, Li!MediaAssumption, Li!Next \/ UNCHANGED Li!vars PROVE LibraryInv'
<1>1. CASE Li!Next
  <2>1. PICK c \in Commands :
          \/ Li!Search(c) \/ Li!WriteRegistry(c) \/ \E found \in Li!Accepted : Li!ReadRegistry(c, found)
          \/ \E number \in Li!Numbers, name \in Names \cup {Li!Absent} : Li!Use(c, number, name)
          \/ Li!Fetch(c) \/ Li!Verify(c) \/ Li!Copy(c) \/ Li!ReadCredits(c) \/ Li!WriteCredits(c) \/ Li!Kill(c)
    BY <1>1 DEF Li!Next
  <2> QED
    BY <2>1, SearchKeeps, WriteRegistryKeeps, ReadRegistryKeeps, UseKeeps, FetchKeeps, VerifyKeeps, CopyKeeps,
       ReadCreditsKeeps, WriteCreditsKeeps, KillCommandKeeps
<1>2. CASE UNCHANGED Li!vars
  <2>1. UNCHANGED <<registry, cached, stored, credits, cmd, shifted, doubt>>  BY <1>2 DEF Li!vars
  <2>2. LibraryTypes' /\ CacheAgrees' /\ Li!RightsFollowFiles'
    BY <2>1 DEF LibraryInv, LibraryTypes, CacheAgrees, Li!RightsFollowFiles, Li!At, Li!Place
  <2>3. CommandsAgree'
    BY <2>1 DEF LibraryInv, CommandsAgree, Agrees, Using, Naming, Copied, Li!Place
  <2> QED  BY <2>2, <2>3 DEF LibraryInv
<1> QED  BY <1>1, <1>2

\* The library keeps what its commands and its cache know of the items.
LEMMA LibraryIsKept ==
  ASSUME Li!MediaAssumption PROVE StudioSpec => [](focus = "library" => LibraryInv)
<1> DEFINE Holds == focus = "library" => LibraryInv
<1>1. StudioInit => Holds
  <2>1. ASSUME Li!Init PROVE LibraryInv
    <3> DEFINE rest == Li!Rest
    <3>1. CommandFields \subseteq DOMAIN rest /\ rest.at = "idle" /\ rest.name = Li!Absent
      BY DEF CommandFields, Li!Rest
    <3>2. cmd = [c \in Commands |-> rest]  BY <2>1 DEF Li!Init
    <3> HIDE DEF rest
    <3>3. /\ registry = <<>> /\ cached = [k \in Li!Numbers \X Li!Kinds |-> Li!Absent]
          /\ stored = [p \in Li!Places |-> Li!Absent] /\ credits = [p \in Li!Places |-> Li!Absent]
      BY <2>1 DEF Li!Init
    <3>4. LibraryTypes  BY <3>1, <3>2, <3>3 DEF LibraryTypes
    <3>5. CommandsAgree  BY <3>1, <3>2 DEF CommandsAgree, Agrees, Using, Naming, Copied
    <3>6. CacheAgrees  BY <3>3 DEF CacheAgrees
    <3>7. Li!RightsFollowFiles  BY <3>3 DEF Li!RightsFollowFiles
    <3> QED  BY <3>4, <3>5, <3>6, <3>7 DEF LibraryInv
  <2> QED  BY <2>1 DEF StudioInit
<1>2. Holds /\ [StudioNext]_all => Holds'
  <2> SUFFICES ASSUME Holds, [StudioNext]_all, focus' = "library" PROVE LibraryInv'  OBVIOUS
  <2>1. focus = "library" /\ (Li!Next \/ UNCHANGED Li!vars)
    <3>1. CASE StudioNext  BY <3>1 DEF StudioNext
    <3>2. CASE UNCHANGED all  BY <3>2 DEF all, tools, library, Li!vars
    <3> QED  BY <3>1, <3>2
  <2> QED  BY <2>1, LibraryStep
<1> HIDE DEF Holds
<1>3. StudioSpec => []Holds  BY <1>1, <1>2, PTL DEF StudioSpec
<1> QED  BY <1>3 DEF Holds

\* Every file of media/ is credited to the item it holds, for any media, names and
\* commands in progress together, unless two searches overlapped, two credits were
\* written at once, or a command was killed between the copy and the credit (media.py).
THEOREM RightsAreKept ==
  ASSUME Li!MediaAssumption PROVE StudioSpec => []RightsFollowFiles
<1> DEFINE Holds == focus = "library" => LibraryInv
<1>1. Holds => RightsFollowFiles  BY DEF RightsFollowFiles, LibraryInv
<1>2. StudioSpec => []Holds  BY LibraryIsKept
<1> HIDE DEF Holds
<1> QED  BY <1>1, <1>2, PTL

------------------------------------------------------------------------------
(* The register of the AI images counts what is paid.                          *)

\* The labels past the lock, up to its release.
PastLock == {"relook", "reserve", "call", "refund", "verify", "file", "meta", "written", "unlock"}

AskStates == [at : Labels, image : Images, seen : Nat]

\* Numbers are naturals and every command has its record; no bound is needed.
AskTypes ==
  /\ ask \in [Tools -> AskStates]
  /\ billed \in Nat /\ paid \in Nat /\ unheard \in Nat

\* A command past the lock holds it, so that two are never there together.
OneIsPast == \A t \in Tools : ask[t].at \in PastLock => lock = t

\* From the reservation to the answer, then to the refund, the register is one
\* above what was read, and what was read covers what is paid.
ReservedFirst ==
  \A t \in Tools : ask[t].at \in {"call", "refund"} =>
    billed = ask[t].seen + 1 /\ paid <= ask[t].seen + unheard

PaidInv == AskTypes /\ OneIsPast /\ ReservedFirst /\ PaidIsCounted

\* It is so when no image was asked yet.
LEMMA PaidStart ==
  ASSUME ImagesAssumption, ImagesInit PROVE PaidInv
<1> USE DEF AskTypes, AskStates, Labels, PastLock, OneIsPast, ReservedFirst, PaidIsCounted, PaidInv,
            At, Goto, Image, tally, cache
<1>1. (CHOOSE i \in Images : TRUE) \in Images  BY DEF ImagesAssumption
<1>2. Rest \in AskStates /\ Rest.at = "idle"  BY <1>1 DEF Rest
<1>3. ask \in [Tools -> AskStates] /\ \A t \in Tools : ask[t].at = "idle"
  BY <1>2 DEF ImagesInit
<1> QED  BY <1>3 DEF ImagesInit

\* An answer costs one generation at most, and an image that is kept or lost is
\* not given back.
LEMMA AnswersAreCounted ==
  ASSUME NEW i \in Images, NEW a \in GenerateWithPlan(i)
  PROVE  a.charged \in {0, 1} /\ a.is \in {"image", "none", "lost", "error"}
BY DEF GenerateWithPlan, FluxGenerate, ImagenGenerate, PostGeneration, Answer

\* A step of the command t, every other command staying where it is.
LEMMA PaidStep ==
  ASSUME ImagesAssumption, PaidInv, [ImagesNext]_imageVars PROVE PaidInv'
<1> USE DEF AskTypes, AskStates, Labels, PastLock, OneIsPast, ReservedFirst, PaidIsCounted, PaidInv,
            At, Goto, Image, tally, cache
<1>0. MaxImages \in Nat /\ (CHOOSE i \in Images : TRUE) \in Images  BY DEF ImagesAssumption
<1>1. ASSUME NEW t \in Tools, NEW i \in Images, Begin(t, i) PROVE PaidInv'
  BY <1>1 DEF Begin
<1>2. ASSUME NEW t \in Tools, Look(t) PROVE PaidInv'
  BY <1>2 DEF Look
<1>3. ASSUME NEW t \in Tools, Lock(t) PROVE PaidInv'
  <2>1. \A u \in Tools : ask[u].at \notin PastLock  BY <1>3 DEF Lock, Nobody, ImagesAssumption
  <2> QED  BY <1>3, <2>1 DEF Lock
<1>4. ASSUME NEW t \in Tools, Reserve(t) PROVE PaidInv'
  BY <1>0, <1>4 DEF Reserve
<1>5. ASSUME NEW t \in Tools, Call(t) PROVE PaidInv'
  <2>1. PICK a \in GenerateWithPlan(Image(t)) :
          /\ paid' = paid + a.charged
          /\ unheard' = IF a.is = "none" THEN unheard + a.charged ELSE unheard
          /\ Goto(t, After(a))
    BY <1>5 DEF Call
  <2>2. a.charged \in {0, 1} /\ a.is \in {"image", "none", "lost", "error"}
    BY <2>1, AnswersAreCounted
  <2>3. a.is = "error" => a.charged = 0
    BY DEF GenerateWithPlan, FluxGenerate, ImagenGenerate, PostGeneration, Answer
  <2> QED  BY <1>5, <2>1, <2>2, <2>3 DEF Call, After
<1>6. ASSUME NEW t \in Tools, Refund(t) PROVE PaidInv'  BY <1>6 DEF Refund
<1>7. ASSUME NEW t \in Tools, Verify(t) PROVE PaidInv'  BY <1>7 DEF Verify
<1>8. ASSUME NEW t \in Tools, StoreFile(t) \/ StoreMeta(t) \/ MetaWritten(t) PROVE PaidInv'
  BY <1>8 DEF StoreFile, StoreMeta, MetaWritten
<1>9. ASSUME NEW t \in Tools, Unlock(t) PROVE PaidInv'  BY <1>0, <1>9 DEF Unlock, Rest, Nobody
<1>10. ASSUME NEW t \in Tools, Kill(t) PROVE PaidInv'  BY <1>0, <1>10 DEF Kill, Rest, Nobody
<1>11. CASE UNCHANGED imageVars  BY <1>11 DEF imageVars
<1> QED
  BY <1>1, <1>2, <1>3, <1>4, <1>5, <1>6, <1>7, <1>8, <1>9, <1>10, <1>11 DEF ImagesNext

\* Whatever the number of commands, images and the cap, what the providers charge is
\* in the register, but for the connections that broke before an answer.
THEOREM PaidIsInRegister ==
  ASSUME ImagesAssumption
  PROVE  ImagesSpec => []PaidIsCounted
<1>1. ImagesInit => PaidInv  BY PaidStart
<1>2. PaidInv /\ [ImagesNext]_imageVars => PaidInv'  BY PaidStep
<1>3. PaidInv => PaidIsCounted  BY DEF PaidInv
<1> QED  BY <1>1, <1>2, <1>3, PTL DEF ImagesSpec

------------------------------------------------------------------------------
(* The 3D shots of a video fit its budget.                                     *)

\* The labels between the lock and its release.
LockLabels == {"reserve", "write", "restore", "remove"}

LockIsHeld == \A c \in Commands : command[c].at \in LockLabels => holder = c

\* No two commands are at the same shot.
NamesApart ==
  \A c, d \in Commands : c # d /\ command[c].at # "idle" /\ command[d].at # "idle"
                         => command[c].name # command[d].name

\* What a command knows of the ledger and of the file of its shot.
KnowsItsShot(c) ==
  /\ command[c].at \in {"enter", "reserve", "write", "undo", "restore"} => command[c].threeD
  /\ command[c].at = "write" =>
       /\ command[c].seen = ledger /\ command[c].previous = ledger[command[c].name]
       /\ Mo!Sum(ledger, Shots \ {command[c].name}) + command[c].length <= Budget
  /\ command[c].at \in {"render", "finish"} /\ command[c].threeD
       => ledger[command[c].name] = command[c].length
  /\ command[c].at \in {"render", "finish", "undo", "restore"} /\ command[c].threeD /\ command[c].previous = 0
       => shot[command[c].name] = 0
  /\ command[c].at \in {"undo", "restore"} => command[c].previous = 0
  /\ command[c].at \in {"forget", "remove"} => shot[command[c].name] = 0

\* The ledger is behind a file only while a command that has it written is to replace it.
Replacing(c, s) ==
  command[c].at \in {"render", "finish"} /\ command[c].threeD /\ command[c].previous # 0 /\ command[c].name = s

FilesAreReserved ==
  \A s \in Shots : shot[s] <= ledger[s] \/ \E c \in Commands : Replacing(c, s)

LedgerFits ==
  /\ NamesApart /\ FilesAreReserved /\ Mo!Sum(ledger, Shots) <= Budget
  /\ \A c \in Commands : KnowsItsShot(c)

MotionInv == Mo!MotionTypeOK /\ LockIsHeld /\ (~astray => LedgerFits)

MotionStates == [at : Mo!Labels, name : Shots, length : Mo!Lengths, threeD : BOOLEAN,
                 seen : [Shots -> Mo!Lengths], previous : Mo!Lengths]

\* What counts in Motion3D is what the facts about finite sets are of.
LEMMA SameCount ==
  ASSUME NEW set
  PROVE  Mo!Cardinality(set) = Cardinality(set) /\ Mo!IsFiniteSet(set) = IsFiniteSet(set)
BY DEF Mo!Cardinality, Cardinality, Mo!IsFiniteSet, IsFiniteSet

LEMMA SumIsCount ==
  ASSUME NEW l, NEW others PROVE Mo!Sum(l, others) = Cardinality(Mo!Seconds(l, others))
BY SameCount DEF Mo!Sum

\* The sum of finitely many durations is a number.
LEMMA SumOfFinite ==
  ASSUME NEW S, IsFiniteSet(S), NEW l, \A s \in S : l[s] \in Nat
  PROVE  IsFiniteSet(Mo!Seconds(l, S)) /\ Mo!Sum(l, S) \in Nat
<1> DEFINE f == [s \in S |-> {s} \X (1 .. l[s])]
           parts == {f[s] : s \in S}
<1>1. f \in Surjection(S, parts)
  BY DEF Surjection
<1>2. IsFiniteSet(parts)
  BY <1>1, FS_Surjection
<1>3. ASSUME NEW s \in S PROVE IsFiniteSet(f[s])
  <2>1. IsFiniteSet({s}) /\ IsFiniteSet(1 .. l[s])
    <3>1. 1 \in Int /\ l[s] \in Int  OBVIOUS
    <3> QED  BY <3>1, FS_Singleton, FS_Interval
  <2> QED  BY <2>1, FS_Product
<1>4. \A T \in parts : IsFiniteSet(T)
  BY <1>3
<1>5. IsFiniteSet(UNION parts)
  <2> HIDE DEF parts
  <2> QED  BY <1>2, <1>4, FS_UNION
<1>6. UNION parts = Mo!Seconds(l, S)
  BY DEF Mo!Seconds
<1> HIDE DEF parts
<1> QED  BY <1>5, <1>6, SumIsCount, FS_CardinalityType

\* The sum follows the durations.
LEMMA SumFollows ==
  ASSUME NEW S, IsFiniteSet(S), NEW l, NEW m,
         \A s \in S : l[s] \in Nat /\ m[s] \in Nat /\ l[s] <= m[s]
  PROVE  Mo!Sum(l, S) <= Mo!Sum(m, S)
<1>1. Mo!Seconds(l, S) \subseteq Mo!Seconds(m, S)
  <2> SUFFICES ASSUME NEW s \in S, NEW x \in {s} \X (1 .. l[s]) PROVE x \in {s} \X (1 .. m[s])
    BY DEF Mo!Seconds
  <2> QED  OBVIOUS
<1>2. IsFiniteSet(Mo!Seconds(m, S))
  BY SumOfFinite
<1> QED  BY <1>1, <1>2, FS_Subset, SumIsCount

\* One duration is written among the others.
LEMMA SumWithOne ==
  ASSUME NEW S, IsFiniteSet(S), NEW s \in S, NEW n \in Nat, NEW l, \A x \in S : l[x] \in Nat,
         NEW m, m[s] = n, \A x \in S \ {s} : m[x] = l[x]
  PROVE  Mo!Sum(m, S) <= Mo!Sum(l, S \ {s}) + n
<1> DEFINE A == Mo!Seconds(l, S \ {s})
           B == {s} \X (1 .. n)
<1>1. IsFiniteSet(A) /\ Cardinality(A) \in Nat
  <2>1. IsFiniteSet(S \ {s})  BY FS_RemoveElement
  <2>2. \A x \in S \ {s} : l[x] \in Nat  OBVIOUS
  <2> QED  BY <2>1, <2>2, SumOfFinite, FS_CardinalityType
<1>2. IsFiniteSet(B) /\ Cardinality(B) = n
  <2>1. IsFiniteSet({s}) /\ Cardinality({s}) = 1  BY FS_Singleton
  <2>2. IsFiniteSet(1 .. n) /\ Cardinality(1 .. n) = n  BY FS_Interval
  <2>3. IsFiniteSet(B) /\ Cardinality(B) = Cardinality({s}) * Cardinality(1 .. n)
    BY <2>1, <2>2, FS_Product
  <2> QED  BY <2>1, <2>2, <2>3
<1>3. Mo!Seconds(m, S) = A \cup B
  BY DEF Mo!Seconds
<1> HIDE DEF A, B
<1>4. IsFiniteSet(A \cap B) /\ Cardinality(A \cap B) \in Nat
  BY <1>1, FS_Intersection, FS_CardinalityType
<1>5. Cardinality(A \cup B) = Cardinality(A) + Cardinality(B) - Cardinality(A \cap B)
  BY <1>1, <1>2, FS_Union
<1>6. Cardinality(Mo!Seconds(m, S)) <= Cardinality(A) + n
  BY <1>1, <1>2, <1>3, <1>4, <1>5
<1> QED  BY <1>6, SumIsCount DEF A

LEMMA MotionTypes ==
  ASSUME Mo!MotionTypeOK
  PROVE  /\ command \in [Commands -> MotionStates] /\ ledger \in [Shots -> Mo!Lengths] /\ shot \in [Shots -> Mo!Lengths]
         /\ holder \in Commands \cup {"none"} /\ issued \in 0 .. MaxCommands /\ astray \in BOOLEAN
         /\ (command' \in [Commands -> MotionStates] /\ ledger' \in [Shots -> Mo!Lengths]
             /\ shot' \in [Shots -> Mo!Lengths] /\ holder' \in Commands \cup {"none"}
             /\ issued' \in 0 .. MaxCommands /\ astray' \in BOOLEAN) => Mo!MotionTypeOK'
BY DEF Mo!MotionTypeOK, MotionStates, Mo!None

\* A command that is over is at rest.
LEMMA MotionRest ==
  ASSUME Mo!MotionAssumption
  PROVE  Mo!Rest \in MotionStates /\ Mo!Rest.at = "idle" /\ Mo!Rest.previous = 0
<1>1. (CHOOSE s \in Shots : TRUE) \in Shots
  BY DEF Mo!MotionAssumption
<1>2. [s \in Shots |-> 0] \in [Shots -> Mo!Lengths] /\ 0 \in Mo!Lengths /\ "idle" \in Mo!Labels
  BY DEF Mo!Lengths, Mo!Labels
<1> QED  BY <1>1, <1>2 DEF Mo!Rest, MotionStates

\* How a command moves: to another label, or to its end.
LEMMA MotionMoves ==
  ASSUME Mo!MotionAssumption, Mo!MotionTypeOK, NEW c \in Commands,
         Mo!Ends(c) \/ \E l \in Mo!Labels : Mo!Goto(c, l)
  PROVE  /\ command' \in [Commands -> MotionStates]
         /\ \A d \in Commands \ {c} : command'[d] = command[d]
         /\ Mo!Ends(c) => command'[c].at = "idle"
         /\ \A l \in Mo!Labels : Mo!Goto(c, l) =>
              command'[c] = [command[c] EXCEPT !.at = l]
<1> DEFINE moved(l) == [command[c] EXCEPT !.at = l]
<1>1. command \in [Commands -> MotionStates] /\ command[c] \in MotionStates
  BY MotionTypes
<1>2. CASE Mo!Ends(c)
  <2>1. ASSUME NEW l \in Mo!Labels, Mo!Goto(c, l) PROVE command'[c] = moved(l)
    BY <1>1, <2>1 DEF Mo!Goto
  <2> QED  BY <1>1, <1>2, <2>1, MotionRest DEF Mo!Ends
<1>3. ASSUME NEW l \in Mo!Labels, Mo!Goto(c, l)
      PROVE  /\ command' \in [Commands -> MotionStates] /\ command'[c] = moved(l)
             /\ \A d \in Commands \ {c} : command'[d] = command[d]
  <2>1. moved(l) \in MotionStates  BY <1>1 DEF MotionStates
  <2>2. command' = [command EXCEPT ![c] = moved(l)]  BY <1>3 DEF Mo!Goto
  <2> HIDE DEF moved
  <2> QED  BY <1>1, <2>1, <2>2
<1>4. Mo!Ends(c) => command'[c].at = "idle"
  BY <1>1, MotionRest DEF Mo!Ends
<1> QED  BY <1>2, <1>3, <1>4

\* The lock has one holder, and a command leaves the labels of the lock with it.
LEMMA LockStays ==
  ASSUME LockIsHeld, NEW c \in Commands, \A d \in Commands \ {c} : command'[d] = command[d],
         command'[c].at \in LockLabels => holder' = c,
         holder' = holder \/ (holder' = c /\ holder = "none") \/ holder = c,
         "none" \notin Commands
  PROVE  LockIsHeld'
BY DEF LockIsHeld

\* What the other commands know of their shots is not disturbed.
LEMMA OthersKnow ==
  ASSUME Mo!MotionTypeOK, LockIsHeld, NamesApart, NEW c \in Commands, NEW d \in Commands \ {c}, KnowsItsShot(d),
         command'[d] = command[d],
         \A s \in Shots : \/ ledger'[s] = ledger[s] /\ shot'[s] = shot[s]
                          \/ command[c].at # "idle" /\ s = command[c].name,
         ledger' = ledger \/ command[c].at \in LockLabels
  PROVE  KnowsItsShot(d)'
<1>1. command[d] \in MotionStates
  BY MotionTypes
<1>2. CASE command[d].at = "idle"
  BY <1>2 DEF KnowsItsShot
<1>3. CASE command[d].at = "write"
  <2>1. ledger' = ledger
    BY <1>3 DEF LockIsHeld, LockLabels
  <2> QED  BY <1>3, <2>1 DEF KnowsItsShot
<1>4. CASE command[d].at \notin {"idle", "write"}
  <2>1. ledger'[command[d].name] = ledger[command[d].name] /\ shot'[command[d].name] = shot[command[d].name]
    BY <1>1, <1>4 DEF NamesApart, MotionStates
  <2> QED  BY <1>4, <2>1 DEF KnowsItsShot
<1> QED  BY <1>2, <1>3, <1>4

\* A command that keeps its name, or that is over, does not come near another.
LEMMA NamesStay ==
  ASSUME NamesApart, NEW c \in Commands, \A d \in Commands \ {c} : command'[d] = command[d],
         command'[c].at = "idle" \/ (command[c].at # "idle" /\ command'[c].name = command[c].name)
  PROVE  NamesApart'
BY DEF NamesApart

\* The part of the invariant that one command disturbs.
LEMMA MotionMove ==
  ASSUME MotionInv, Mo!MotionTypeOK', LockIsHeld', NEW c \in Commands,
         \A d \in Commands \ {c} : command'[d] = command[d],
         \A s \in Shots : \/ ledger'[s] = ledger[s] /\ shot'[s] = shot[s]
                          \/ command[c].at # "idle" /\ s = command[c].name,
         ledger' = ledger \/ command[c].at \in LockLabels,
         ~astray' =>
           /\ ~astray /\ KnowsItsShot(c)' /\ Mo!Sum(ledger', Shots) <= Budget
           /\ \/ command'[c].at = "idle" \/ (command[c].at # "idle" /\ command'[c].name = command[c].name)
              \/ NamesApart'
           /\ \A s \in Shots : command[c].at # "idle" /\ command[c].name = s
                              => shot'[s] <= ledger'[s] \/ Replacing(c, s)'
  PROVE  MotionInv'
<1> SUFFICES ASSUME ~astray' PROVE LedgerFits'
  BY DEF MotionInv
<1>1. ~astray /\ LedgerFits /\ Mo!MotionTypeOK /\ LockIsHeld
  BY DEF MotionInv
<1>2. NamesApart'
  BY <1>1, NamesStay DEF LedgerFits
<1>3. \A d \in Commands : KnowsItsShot(d)'
  <2>1. ASSUME NEW d \in Commands \ {c} PROVE KnowsItsShot(d)'
    <3>1. KnowsItsShot(d) /\ NamesApart  BY <1>1 DEF LedgerFits
    <3> QED  BY <1>1, <3>1, OthersKnow
  <2> QED  BY <2>1
<1>4. FilesAreReserved'
  <2> SUFFICES ASSUME NEW s \in Shots PROVE shot'[s] <= ledger'[s] \/ \E d \in Commands : Replacing(d, s)'
    BY DEF FilesAreReserved
  <2>1. CASE command[c].at # "idle" /\ command[c].name = s
    BY <2>1
  <2>2. CASE ~(command[c].at # "idle" /\ command[c].name = s)
    <3>1. ledger'[s] = ledger[s] /\ shot'[s] = shot[s]
      BY <2>2
    <3>2. ~Replacing(c, s)
      BY <2>2 DEF Replacing
    <3>3. shot[s] <= ledger[s] \/ \E d \in Commands \ {c} : Replacing(d, s)
      BY <1>1, <3>2 DEF LedgerFits, FilesAreReserved
    <3>4. \A d \in Commands \ {c} : Replacing(d, s) => Replacing(d, s)'
      BY DEF Replacing
    <3> QED  BY <3>1, <3>3, <3>4
  <2> QED  BY <2>1, <2>2
<1> QED  BY <1>2, <1>3, <1>4 DEF LedgerFits

\* Who is the only one at its shot, and does not replace its file, has it reserved.
LEMMA OwnFile ==
  ASSUME LedgerFits, NEW c \in Commands, command[c].at # "idle", command[c].name \in Shots,
         ~Replacing(c, command[c].name)
  PROVE  shot[command[c].name] <= ledger[command[c].name]
<1>1. \A d \in Commands : ~Replacing(d, command[c].name)
  BY DEF Replacing, LedgerFits, NamesApart
<1> QED  BY <1>1 DEF LedgerFits, FilesAreReserved

LEMMA Durations3D ==
  ASSUME Mo!MotionAssumption, Mo!MotionTypeOK
  PROVE  /\ IsFiniteSet(Shots) /\ Budget \in Nat /\ Mo!Lengths \subseteq Nat /\ 0 \in Mo!Lengths
         /\ \A s \in Shots : ledger[s] \in Nat /\ shot[s] \in Nat
         /\ "none" \notin Commands
<1>1. IsFiniteSet(Shots)
  BY SameCount DEF Mo!MotionAssumption
<1>2. Mo!Lengths \subseteq Nat /\ 0 \in Mo!Lengths /\ Budget \in Nat /\ "none" \notin Commands
  BY DEF Mo!MotionAssumption, Mo!Lengths
<1>3. ledger \in [Shots -> Mo!Lengths] /\ shot \in [Shots -> Mo!Lengths]
  BY MotionTypes
<1> QED  BY <1>1, <1>2, <1>3

LEMMA IssueKeeps ==
  ASSUME Mo!MotionAssumption, MotionInv, NEW c \in Commands, NEW s \in Shots, NEW n \in Durations,
         NEW threeD \in BOOLEAN, Mo!Issue(c, s, n, threeD)
  PROVE  MotionInv'
<1> DEFINE x == [Mo!Rest EXCEPT !.at = IF threeD THEN "enter" ELSE "render", !.name = s, !.length = n, !.threeD = threeD]
<1>1. /\ command[c].at = "idle" /\ UNCHANGED <<holder, ledger, shot>> /\ command' = [command EXCEPT ![c] = x]
      /\ issued < MaxCommands /\ issued' = issued + 1
      /\ astray' = (astray \/ \E d \in Commands : command[d].at # "idle" /\ command[d].name = s)
  BY DEF Mo!Issue, Mo!At, Mo!Name
<1>2. /\ x \in MotionStates /\ x.at = (IF threeD THEN "enter" ELSE "render") /\ x.name = s /\ x.threeD = threeD
      /\ x.previous = 0
  <2>1. n \in Mo!Lengths /\ {"enter", "render"} \subseteq Mo!Labels  BY DEF Mo!Lengths, Mo!Labels
  <2> QED  BY <2>1, MotionRest DEF MotionStates
<1> HIDE DEF x
<1>3. Mo!MotionTypeOK  BY DEF MotionInv
<1>4. command' \in [Commands -> MotionStates] /\ command'[c] = x /\ \A d \in Commands \ {c} : command'[d] = command[d]
  BY <1>1, <1>2, <1>3, MotionTypes
<1>5. Mo!MotionTypeOK'
  <2>1. issued' \in 0 .. MaxCommands /\ astray' \in BOOLEAN
    BY <1>1, <1>3 DEF Mo!MotionTypeOK, Mo!MotionAssumption
  <2> QED  BY <1>1, <1>3, <1>4, <2>1, MotionTypes
<1>6. LockIsHeld'
  BY <1>1, <1>2, <1>4, LockStays, Durations3D, <1>3 DEF MotionInv, LockLabels
<1>7. ASSUME ~astray'
      PROVE  ~astray /\ KnowsItsShot(c)' /\ Mo!Sum(ledger', Shots) <= Budget /\ NamesApart'
  <2>1. ~astray /\ LedgerFits  BY <1>1, <1>7 DEF MotionInv
  <2>2. KnowsItsShot(c)'  BY <1>2, <1>4 DEF KnowsItsShot
  <2>3. Mo!Sum(ledger', Shots) <= Budget  BY <1>1, <2>1 DEF LedgerFits
  <2>4. \A d \in Commands \ {c} : command[d].at # "idle" => command[d].name # s
    BY <1>1, <1>7
  <2>5. NamesApart'
    BY <1>2, <1>4, <2>1, <2>4 DEF NamesApart, LedgerFits
  <2> QED  BY <2>1, <2>2, <2>3, <2>5
<1> QED  BY <1>1, <1>4, <1>5, <1>6, <1>7, MotionMove

LEMMA EnterKeeps ==
  ASSUME Mo!MotionAssumption, MotionInv, NEW c \in Commands, Mo!Enter(c) PROVE MotionInv'
<1> DEFINE moved(l) == [command[c] EXCEPT !.at = l]
<1>0. Mo!MotionTypeOK /\ "none" \notin Commands  BY Durations3D DEF MotionInv
<1>1. holder = "none" /\ holder' = c /\ UNCHANGED <<ledger, shot, issued, astray>>
  BY DEF Mo!Enter, Mo!None
<1>2. PICK l \in Mo!Labels :
        /\ Mo!Goto(c, l)
        /\ \/ command[c].at = "enter" /\ l = "reserve"
           \/ command[c].at = "undo" /\ l = "restore"
           \/ command[c].at = "forget" /\ l = "remove"
  BY DEF Mo!Enter, Mo!At, Mo!Labels
<1>3. /\ command' \in [Commands -> MotionStates] /\ \A d \in Commands \ {c} : command'[d] = command[d]
      /\ command'[c] = moved(l)
  BY <1>0, <1>2, MotionMoves
<1>4. /\ command'[c].at = l /\ command'[c].name = command[c].name /\ command'[c].threeD = command[c].threeD
      /\ command'[c].previous = command[c].previous /\ command'[c].length = command[c].length
  <2>1. command[c] \in MotionStates  BY <1>0, MotionTypes
  <2> QED  BY <1>3, <2>1 DEF MotionStates
<1> HIDE DEF moved
<1>5. Mo!MotionTypeOK'  BY <1>0, <1>1, <1>3, MotionTypes
<1>6. LockIsHeld'  BY <1>0, <1>1, <1>3, LockStays DEF MotionInv
<1>7. ASSUME ~astray'
      PROVE  /\ ~astray /\ KnowsItsShot(c)' /\ Mo!Sum(ledger', Shots) <= Budget
             /\ \A s \in Shots : command[c].name = s => shot'[s] <= ledger'[s]
  <2>1. ~astray /\ LedgerFits  BY <1>1, <1>7 DEF MotionInv
  <2>2. KnowsItsShot(c)'  BY <1>1, <1>2, <1>4, <2>1 DEF LedgerFits, KnowsItsShot
  <2>3. Mo!Sum(ledger', Shots) <= Budget  BY <1>1, <2>1 DEF LedgerFits
  <2>4. ~Replacing(c, command[c].name)  BY <1>2 DEF Replacing
  <2> QED  BY <1>1, <1>2, <2>1, <2>2, <2>3, <2>4, OwnFile
<1> QED  BY <1>1, <1>2, <1>3, <1>4, <1>5, <1>6, <1>7, MotionMove

LEMMA ReserveKeeps ==
  ASSUME Mo!MotionAssumption, MotionInv, NEW c \in Commands, Mo!Reserve(c) PROVE MotionInv'
<1> DEFINE x == [command[c] EXCEPT !.at = "write", !.seen = ledger, !.previous = ledger[Mo!Name(c)]]
           fits == Mo!Sum(ledger, Shots \ {command[c].name}) + command[c].length <= Budget
<1>0. Mo!MotionTypeOK /\ "none" \notin Commands  BY Durations3D DEF MotionInv
<1>1. command[c].at = "reserve" /\ UNCHANGED <<ledger, shot, issued, astray>> /\ holder = c
  BY DEF Mo!Reserve, Mo!At, MotionInv, LockIsHeld, LockLabels
<1>2. command \in [Commands -> MotionStates] /\ command[c] \in MotionStates /\ ledger \in [Shots -> Mo!Lengths]
  BY <1>0, MotionTypes
<1>3. \/ Mo!Ends(c) /\ holder' = "none"
      \/ fits /\ command' = [command EXCEPT ![c] = x] /\ holder' = c
  <2>1. CASE Mo!Sum(ledger, Shots \ {Mo!Name(c)}) + command[c].length > Budget
    BY <2>1 DEF Mo!Reserve, Mo!None
  <2>2. CASE ~(Mo!Sum(ledger, Shots \ {Mo!Name(c)}) + command[c].length > Budget)
    <3>1. fits
      <4>1. IsFiniteSet(Shots \ {command[c].name})  BY <1>0, Durations3D, FS_RemoveElement
      <4>2. \A s \in Shots \ {command[c].name} : ledger[s] \in Nat  BY <1>0, Durations3D
      <4>3. Mo!Sum(ledger, Shots \ {command[c].name}) \in Nat  BY <4>1, <4>2, SumOfFinite
      <4>4. command[c].length \in Nat /\ Budget \in Nat  BY <1>0, <1>2, Durations3D DEF MotionStates
      <4> HIDE DEF x
      <4> QED  BY <2>2, <4>3, <4>4 DEF Mo!Name
    <3> QED  BY <1>1, <2>2, <3>1 DEF Mo!Reserve
  <2> QED  BY <2>1, <2>2
<1>4. /\ x \in MotionStates /\ x.at = "write" /\ x.name = command[c].name /\ x.threeD = command[c].threeD
      /\ x.seen = ledger /\ x.previous = ledger[command[c].name] /\ x.length = command[c].length
  BY <1>2 DEF MotionStates, Mo!Labels, Mo!Name
<1> HIDE DEF x
<1>5. /\ command' \in [Commands -> MotionStates] /\ \A d \in Commands \ {c} : command'[d] = command[d]
      /\ \/ command'[c].at = "idle" /\ holder' = "none"
         \/ fits /\ command'[c] = x /\ holder' = c
  <2>1. CASE Mo!Ends(c) /\ holder' = "none"  BY <1>0, <2>1, MotionMoves
  <2>2. CASE fits /\ command' = [command EXCEPT ![c] = x] /\ holder' = c  BY <1>2, <1>4, <2>2
  <2> QED  BY <1>3, <2>1, <2>2
<1>6. Mo!MotionTypeOK'  BY <1>0, <1>1, <1>5, MotionTypes
<1>7. LockIsHeld'  BY <1>0, <1>1, <1>5, LockStays DEF MotionInv, LockLabels
<1>8. ASSUME ~astray'
      PROVE  /\ ~astray /\ KnowsItsShot(c)' /\ Mo!Sum(ledger', Shots) <= Budget
             /\ \A s \in Shots : command[c].name = s => shot'[s] <= ledger'[s]
  <2>1. ~astray /\ LedgerFits  BY <1>1, <1>8 DEF MotionInv
  <2>2. command[c].threeD  BY <1>1, <2>1 DEF LedgerFits, KnowsItsShot
  <2>3. KnowsItsShot(c)'
    <3>1. CASE command'[c].at = "idle"  BY <3>1 DEF KnowsItsShot
    <3>2. CASE fits /\ command'[c] = x  BY <1>1, <1>4, <2>2, <3>2 DEF KnowsItsShot
    <3> QED  BY <1>5, <3>1, <3>2
  <2>4. Mo!Sum(ledger', Shots) <= Budget  BY <1>1, <2>1 DEF LedgerFits
  <2>5. ~Replacing(c, command[c].name)  BY <1>1 DEF Replacing
  <2> QED  BY <1>1, <2>1, <2>3, <2>4, <2>5, OwnFile
<1> QED  BY <1>1, <1>4, <1>5, <1>6, <1>7, <1>8, MotionMove

LEMMA WriteLedgerKeeps ==
  ASSUME Mo!MotionAssumption, MotionInv, NEW c \in Commands, Mo!WriteLedger(c) PROVE MotionInv'
<1> DEFINE moved(l) == [command[c] EXCEPT !.at = l]
           name == command[c].name
           n == command[c].length
<1>0. Mo!MotionTypeOK /\ "none" \notin Commands  BY Durations3D DEF MotionInv
<1>1. /\ command[c].at = "write" /\ holder' = "none" /\ holder = c /\ Mo!Goto(c, "render")
      /\ ledger' = [command[c].seen EXCEPT ![name] = n] /\ UNCHANGED <<shot, issued, astray>>
  BY DEF Mo!WriteLedger, Mo!At, Mo!Name, Mo!None, MotionInv, LockIsHeld, LockLabels
<1>2. command[c] \in MotionStates  BY <1>0, MotionTypes
<1>3. name \in Shots /\ n \in Mo!Lengths /\ n \in Nat /\ command[c].seen \in [Shots -> Mo!Lengths]
  BY <1>0, <1>2, Durations3D DEF MotionStates
<1>4. /\ command' \in [Commands -> MotionStates] /\ \A d \in Commands \ {c} : command'[d] = command[d]
      /\ command'[c] = moved("render")
  <2>1. "render" \in Mo!Labels  BY DEF Mo!Labels
  <2> QED  BY <1>0, <1>1, <2>1, MotionMoves
<1>5. /\ command'[c].at = "render" /\ command'[c].name = name /\ command'[c].threeD = command[c].threeD
      /\ command'[c].previous = command[c].previous /\ command'[c].length = n
  BY <1>2, <1>4 DEF MotionStates
<1> HIDE DEF moved
<1>6. ledger' \in [Shots -> Mo!Lengths] /\ ledger'[name] = n
  BY <1>1, <1>3
<1>7. Mo!MotionTypeOK'  BY <1>0, <1>1, <1>4, <1>6, MotionTypes
<1>8. LockIsHeld'  BY <1>0, <1>1, <1>4, <1>5, LockStays DEF MotionInv, LockLabels
<1>9. ASSUME ~astray, ~astray'
      PROVE  /\ KnowsItsShot(c)' /\ Mo!Sum(ledger', Shots) <= Budget
             /\ \A s \in Shots \ {name} : ledger'[s] = ledger[s]
             /\ \A s \in Shots : name = s => shot'[s] <= ledger'[s] \/ Replacing(c, s)'
  <2>1. LedgerFits  BY <1>9 DEF MotionInv
  <2>2. /\ command[c].threeD /\ command[c].seen = ledger /\ command[c].previous = ledger[name]
        /\ Mo!Sum(ledger, Shots \ {name}) + n <= Budget
    BY <1>1, <2>1 DEF LedgerFits, KnowsItsShot
  <2>3. \A s \in Shots \ {name} : ledger'[s] = ledger[s]
    BY <1>1, <2>2, <1>3
  <2>4. shot[name] <= ledger[name] /\ shot[name] \in Nat
    <3>1. ~Replacing(c, name)  BY <1>1 DEF Replacing
    <3> QED  BY <1>0, <1>1, <1>3, <2>1, <3>1, OwnFile, Durations3D
  <2>5. command[c].previous = 0 => shot[name] = 0
    BY <2>2, <2>4
  <2>6. KnowsItsShot(c)'
    BY <1>1, <1>5, <1>6, <2>5 DEF KnowsItsShot
  <2>7. Mo!Sum(ledger', Shots) <= Budget
    <3>1. IsFiniteSet(Shots) /\ Budget \in Nat /\ \A s \in Shots : ledger[s] \in Nat
      BY <1>0, Durations3D
    <3>2. Mo!Sum(ledger', Shots) <= Mo!Sum(ledger, Shots \ {name}) + n
      BY <1>3, <1>6, <2>3, <3>1, SumWithOne
    <3>3. Mo!Sum(ledger, Shots \ {name}) \in Nat
      <4>1. IsFiniteSet(Shots \ {name}) /\ \A s \in Shots \ {name} : ledger[s] \in Nat
        BY <3>1, FS_RemoveElement
      <4> QED  BY <4>1, SumOfFinite
    <3>4. Mo!Sum(ledger', Shots) \in Nat
      BY <1>6, <3>1, SumOfFinite, <1>0, Durations3D
    <3> QED  BY <1>3, <2>2, <3>1, <3>2, <3>3, <3>4
  <2>8. ASSUME NEW s \in Shots, name = s PROVE shot'[s] <= ledger'[s] \/ Replacing(c, s)'
    <3>1. CASE command[c].previous = 0
      BY <1>1, <1>3, <1>6, <2>5, <2>8, <3>1
    <3>2. CASE command[c].previous # 0
      BY <1>5, <2>2, <2>8, <3>2 DEF Replacing
    <3> QED  BY <3>1, <3>2
  <2> QED  BY <2>3, <2>6, <2>7, <2>8
<1> QED  
  <2>1. CASE astray'
    BY <1>7, <1>8, <2>1 DEF MotionInv
  <2>2. CASE ~astray'
    <3>1. ~astray  BY <1>1, <2>2
    <3>2. /\ KnowsItsShot(c)' /\ Mo!Sum(ledger', Shots) <= Budget
          /\ \A s \in Shots \ {name} : ledger'[s] = ledger[s] /\ shot'[s] = shot[s]
          /\ \A s \in Shots : name = s => shot'[s] <= ledger'[s] \/ Replacing(c, s)'
      BY <1>1, <1>9, <2>2, <3>1
    <3>3. command[c].at # "idle" /\ command[c].at \in LockLabels
      BY <1>1 DEF LockLabels
    <3> QED  BY <1>4, <1>5, <1>7, <1>8, <3>1, <3>2, <3>3, MotionMove
  <2> QED  BY <2>1, <2>2

LEMMA FailedMoves ==
  ASSUME Mo!MotionAssumption, Mo!MotionTypeOK, NEW c \in Commands, Mo!Failed(c)
  PROVE  /\ command' \in [Commands -> MotionStates] /\ \A d \in Commands \ {c} : command'[d] = command[d]
         /\ \/ command'[c].at = "idle" /\ ~command[c].threeD
            \/ command'[c] = [command[c] EXCEPT !.at = "undo"] /\ command[c].threeD
<1>1. "undo" \in Mo!Labels  BY DEF Mo!Labels
<1> QED  BY <1>1, MotionMoves DEF Mo!Failed

LEMMA RenderKeeps ==
  ASSUME Mo!MotionAssumption, MotionInv, NEW c \in Commands, Mo!Render(c) PROVE MotionInv'
<1> DEFINE name == command[c].name
<1>0. Mo!MotionTypeOK /\ "none" \notin Commands  BY Durations3D DEF MotionInv
<1>1. /\ command[c].at = "render" /\ UNCHANGED <<holder, ledger, shot, issued>>
      /\ \/ Mo!Goto(c, "finish") /\ astray' = astray
         \/ Mo!Failed(c) /\ astray' = (astray \/ Mo!Replaces(c))
  BY DEF Mo!Render, Mo!At
<1>2. command[c] \in MotionStates  BY <1>0, MotionTypes
<1>3. /\ command' \in [Commands -> MotionStates] /\ \A d \in Commands \ {c} : command'[d] = command[d]
      /\ \/ command'[c] = [command[c] EXCEPT !.at = "finish"]
         \/ command'[c].at = "idle" /\ ~command[c].threeD
         \/ /\ command'[c] = [command[c] EXCEPT !.at = "undo"] /\ command[c].threeD
            /\ astray' = (astray \/ Mo!Replaces(c))
  <2>1. CASE Mo!Goto(c, "finish")
    <3>1. "finish" \in Mo!Labels  BY DEF Mo!Labels
    <3> QED  BY <1>0, <2>1, <3>1, MotionMoves
  <2>2. CASE Mo!Failed(c) /\ astray' = (astray \/ Mo!Replaces(c))
    BY <1>0, <2>2, FailedMoves
  <2> QED  BY <1>1, <2>1, <2>2
<1>4. \/ command'[c].at = "idle" /\ ~command[c].threeD
      \/ /\ \/ command'[c].at = "finish"
            \/ command'[c].at = "undo" /\ command[c].threeD /\ (~astray' => command[c].previous = 0)
         /\ command'[c].name = name /\ command'[c].threeD = command[c].threeD
         /\ command'[c].previous = command[c].previous /\ command'[c].length = command[c].length
  BY <1>2, <1>3 DEF MotionStates, Mo!Replaces
<1>5. astray' \in BOOLEAN /\ (~astray' => ~astray)
  <2>1. astray \in BOOLEAN  BY <1>0, MotionTypes
  <2>2. astray' = astray \/ astray' = (astray \/ Mo!Replaces(c))  BY <1>1
  <2> QED  BY <2>1, <2>2
<1>6. Mo!MotionTypeOK'  BY <1>0, <1>1, <1>3, <1>5, MotionTypes
<1>7. LockIsHeld'  BY <1>0, <1>1, <1>3, <1>4, LockStays DEF MotionInv, LockLabels
<1>8. ASSUME ~astray'
      PROVE  /\ KnowsItsShot(c)' /\ Mo!Sum(ledger', Shots) <= Budget
             /\ \A s \in Shots : name = s => shot'[s] <= ledger'[s] \/ Replacing(c, s)'
  <2>1. LedgerFits  BY <1>5, <1>8 DEF MotionInv
  <2>2. KnowsItsShot(c)
    BY <2>1 DEF LedgerFits
  <2>3. KnowsItsShot(c)'
    BY <1>1, <1>4, <1>8, <2>2 DEF KnowsItsShot
  <2>4. Mo!Sum(ledger', Shots) <= Budget  BY <1>1, <2>1 DEF LedgerFits
  <2>5. ASSUME NEW s \in Shots, name = s PROVE shot'[s] <= ledger'[s] \/ Replacing(c, s)'
    <3>1. CASE Replacing(c, s)
      BY <1>4, <1>8, <3>1 DEF Replacing
    <3>2. CASE ~Replacing(c, s)
      BY <1>1, <2>1, <2>5, <3>2, OwnFile
    <3> QED  BY <3>1, <3>2
  <2> QED  BY <2>3, <2>4, <2>5
<1> QED  BY <1>1, <1>3, <1>4, <1>5, <1>6, <1>7, <1>8, MotionMove

LEMMA FinishMotionKeeps ==
  ASSUME Mo!MotionAssumption, MotionInv, NEW c \in Commands, Mo!Finish(c) PROVE MotionInv'
<1> DEFINE name == command[c].name
           n == IF command[c].threeD THEN command[c].length ELSE 0
<1>0. Mo!MotionTypeOK /\ "none" \notin Commands  BY Durations3D DEF MotionInv
<1>1. /\ command[c].at = "finish" /\ UNCHANGED <<holder, ledger, issued>>
      /\ shot' = [shot EXCEPT ![name] = n]
      /\ \/ command[c].threeD /\ Mo!Ends(c) /\ astray' = astray
         \/ ~command[c].threeD /\ Mo!Goto(c, "forget") /\ astray' = astray
         \/ Mo!Failed(c) /\ astray' = (astray \/ command[c].threeD)
  BY DEF Mo!Finish, Mo!At, Mo!Name
<1>2. command[c] \in MotionStates /\ command[c].threeD \in BOOLEAN /\ name \in Shots /\ n \in Mo!Lengths
  BY <1>0, MotionTypes, Durations3D DEF MotionStates
<1>3. shot \in [Shots -> Mo!Lengths]  BY <1>0, MotionTypes
<1>4. shot' \in [Shots -> Mo!Lengths] /\ shot'[name] = n /\ \A s \in Shots \ {name} : shot'[s] = shot[s]
  BY <1>1, <1>2, <1>3
<1>5. /\ command' \in [Commands -> MotionStates] /\ \A d \in Commands \ {c} : command'[d] = command[d]
      /\ \/ command'[c].at = "idle"
         \/ ~command[c].threeD /\ command'[c] = [command[c] EXCEPT !.at = "forget"]
         \/ command'[c] = [command[c] EXCEPT !.at = "undo"] /\ astray'
  <2>1. CASE command[c].threeD /\ Mo!Ends(c)  BY <1>0, <2>1, MotionMoves
  <2>2. CASE ~command[c].threeD /\ Mo!Goto(c, "forget")
    <3>1. "forget" \in Mo!Labels  BY DEF Mo!Labels
    <3> QED  BY <1>0, <2>2, <3>1, MotionMoves
  <2>3. CASE Mo!Failed(c) /\ astray' = (astray \/ command[c].threeD)
    BY <1>0, <1>2, <2>3, FailedMoves
  <2> QED  BY <1>1, <2>1, <2>2, <2>3
<1>6. \/ command'[c].at = "idle"
      \/ command'[c].name = name /\ command'[c].at = "forget" /\ n = 0
      \/ command'[c].name = name /\ command'[c].at = "undo" /\ astray'
  BY <1>2, <1>5 DEF MotionStates
<1>7. astray' \in BOOLEAN /\ (~astray' => ~astray)
  <2>1. astray \in BOOLEAN  BY <1>0, MotionTypes
  <2>2. astray' = astray \/ astray' = (astray \/ command[c].threeD)  BY <1>1
  <2> QED  BY <1>2, <2>1, <2>2
<1>8. Mo!MotionTypeOK'  BY <1>0, <1>1, <1>4, <1>5, <1>7, MotionTypes
<1>9. LockIsHeld'  BY <1>0, <1>1, <1>5, <1>6, LockStays DEF MotionInv, LockLabels
<1>10. ASSUME ~astray'
       PROVE  /\ KnowsItsShot(c)' /\ Mo!Sum(ledger', Shots) <= Budget
              /\ \A s \in Shots : name = s => shot'[s] <= ledger'[s]
  <2>1. LedgerFits  BY <1>7, <1>10 DEF MotionInv
  <2>2. command[c].threeD => ledger[name] = command[c].length
    BY <1>1, <2>1 DEF LedgerFits, KnowsItsShot
  <2>3. KnowsItsShot(c)'
    BY <1>4, <1>6, <1>10 DEF KnowsItsShot
  <2>4. Mo!Sum(ledger', Shots) <= Budget  BY <1>1, <2>1 DEF LedgerFits
  <2>5. n <= ledger[name]
    BY <1>0, <1>2, <2>2, Durations3D
  <2> QED  BY <1>1, <1>4, <2>3, <2>4, <2>5
<1> QED  
  <2>1. /\ \A s \in Shots : \/ ledger'[s] = ledger[s] /\ shot'[s] = shot[s]
                            \/ command[c].at # "idle" /\ s = command[c].name
        /\ ledger' = ledger /\ command[c].at # "idle"
    BY <1>1, <1>4
  <2>2. ~astray' => command'[c].at = "idle" \/ command'[c].name = command[c].name
    BY <1>6
  <2> QED  BY <1>5, <1>7, <1>8, <1>9, <1>10, <2>1, <2>2, MotionMove

\* A command writes its entry and leaves the lock: the file of its shot is not 3D.
LEMMA EntryIsReleased ==
  ASSUME Mo!MotionAssumption, MotionInv, NEW c \in Commands, NEW n \in Mo!Lengths,
         command[c].at \in {"restore", "remove"}, Mo!Ends(c), holder' = "none",
         ledger' = [ledger EXCEPT ![command[c].name] = n], UNCHANGED <<shot, issued, astray>>,
         ~astray => n = 0 /\ shot[command[c].name] = 0
  PROVE  MotionInv'
<1> DEFINE name == command[c].name
<1>0. Mo!MotionTypeOK /\ "none" \notin Commands /\ holder = c
  BY Durations3D DEF MotionInv, LockIsHeld, LockLabels
<1>1. name \in Shots /\ ledger \in [Shots -> Mo!Lengths]
  BY <1>0, MotionTypes DEF MotionStates
<1>2. ledger' \in [Shots -> Mo!Lengths] /\ ledger'[name] = n /\ \A s \in Shots \ {name} : ledger'[s] = ledger[s]
  BY <1>1
<1>3. /\ command' \in [Commands -> MotionStates] /\ \A d \in Commands \ {c} : command'[d] = command[d]
      /\ command'[c].at = "idle"
  BY <1>0, MotionMoves
<1>4. Mo!MotionTypeOK'  BY <1>0, <1>2, <1>3, MotionTypes
<1>5. LockIsHeld'  BY <1>0, <1>3, LockStays DEF MotionInv, LockLabels
<1>6. ASSUME ~astray
      PROVE  /\ KnowsItsShot(c)' /\ Mo!Sum(ledger', Shots) <= Budget
             /\ \A s \in Shots : name = s => shot'[s] <= ledger'[s]
  <2>1. LedgerFits  BY <1>6 DEF MotionInv
  <2>2. KnowsItsShot(c)'  BY <1>3 DEF KnowsItsShot
  <2>3. Mo!Sum(ledger', Shots) <= Budget
    <3>1. IsFiniteSet(Shots) /\ Budget \in Nat /\ \A s \in Shots : ledger[s] \in Nat
      BY <1>0, Durations3D
    <3>2. \A s \in Shots : ledger'[s] \in Nat /\ ledger'[s] <= ledger[s]
      BY <1>2, <1>6, <3>1
    <3>3. Mo!Sum(ledger', Shots) <= Mo!Sum(ledger, Shots)
      BY <3>1, <3>2, SumFollows
    <3>4. Mo!Sum(ledger, Shots) \in Nat /\ Mo!Sum(ledger', Shots) \in Nat
      BY <3>1, <3>2, SumOfFinite
    <3> QED  BY <2>1, <3>1, <3>3, <3>4 DEF LedgerFits
  <2> QED  BY <1>2, <1>6, <2>2, <2>3
<1> QED
  <2>1. /\ \A s \in Shots : \/ ledger'[s] = ledger[s] /\ shot'[s] = shot[s]
                            \/ command[c].at # "idle" /\ s = command[c].name
        /\ command[c].at \in LockLabels /\ command[c].at # "idle" /\ astray' = astray
    BY <1>2 DEF LockLabels
  <2>2. ~astray' => ~astray /\ KnowsItsShot(c)' /\ Mo!Sum(ledger', Shots) <= Budget
                    /\ \A s \in Shots : command[c].name = s => shot'[s] <= ledger'[s]
    BY <1>6, <2>1
  <2> QED  BY <1>3, <1>4, <1>5, <2>1, <2>2, MotionMove

LEMMA RestoreKeeps ==
  ASSUME Mo!MotionAssumption, MotionInv, NEW c \in Commands, Mo!Restore(c) PROVE MotionInv'
<1>1. /\ command[c].at = "restore" /\ Mo!Ends(c) /\ holder' = "none" /\ UNCHANGED <<shot, issued, astray>>
      /\ ledger' = [ledger EXCEPT ![command[c].name] = command[c].previous]
  BY DEF Mo!Restore, Mo!At, Mo!Name, Mo!None
<1>2. command[c].previous \in Mo!Lengths  BY MotionTypes DEF MotionInv, MotionStates
<1>3. ~astray => command[c].previous = 0 /\ shot[command[c].name] = 0
  BY <1>1 DEF MotionInv, LedgerFits, KnowsItsShot
<1> QED  BY <1>1, <1>2, <1>3, EntryIsReleased

LEMMA RemoveKeeps ==
  ASSUME Mo!MotionAssumption, MotionInv, NEW c \in Commands, Mo!Remove(c) PROVE MotionInv'
<1>1. /\ command[c].at = "remove" /\ Mo!Ends(c) /\ holder' = "none" /\ UNCHANGED <<shot, issued, astray>>
      /\ ledger' = [ledger EXCEPT ![command[c].name] = 0]
  BY DEF Mo!Remove, Mo!At, Mo!Name, Mo!None
<1>2. 0 \in Mo!Lengths  BY DEF Mo!Lengths
<1>3. ~astray => shot[command[c].name] = 0
  BY <1>1 DEF MotionInv, LedgerFits, KnowsItsShot
<1> QED  BY <1>1, <1>2, <1>3, EntryIsReleased

LEMMA KillMotionKeeps ==
  ASSUME Mo!MotionAssumption, MotionInv, NEW c \in Commands, Mo!Kill(c) PROVE MotionInv'
<1>0. Mo!MotionTypeOK /\ "none" \notin Commands  BY Durations3D DEF MotionInv
<1>1. /\ command[c].at # "idle" /\ holder' = (IF holder = c THEN "none" ELSE holder)
      /\ Mo!Ends(c) /\ UNCHANGED <<shot, issued>>
      /\ \/ ledger' = ledger /\ astray' = (astray \/ Mo!Replaces(c))
         \/ ledger' = [s \in Shots |-> 0] /\ astray' = TRUE
  BY DEF Mo!Kill, Mo!At, Mo!None
<1>2. /\ command' \in [Commands -> MotionStates] /\ \A d \in Commands \ {c} : command'[d] = command[d]
      /\ command'[c].at = "idle"
  BY <1>0, <1>1, MotionMoves
<1>3. ledger' \in [Shots -> Mo!Lengths] /\ astray' \in BOOLEAN
  <2>1. ledger \in [Shots -> Mo!Lengths] /\ astray \in BOOLEAN  BY <1>0, MotionTypes
  <2>2. ledger' \in [Shots -> Mo!Lengths]  BY <1>1, <2>1 DEF Mo!Lengths
  <2>3. astray' = (astray \/ Mo!Replaces(c)) \/ astray' = TRUE  BY <1>1
  <2> QED  BY <2>1, <2>2, <2>3
<1>4. holder' \in Commands \cup {"none"} /\ (holder' = holder \/ holder = c)
  BY <1>0, <1>1, MotionTypes
<1>5. Mo!MotionTypeOK'  BY <1>0, <1>1, <1>2, <1>3, <1>4, MotionTypes
<1>6. LockIsHeld'  BY <1>0, <1>2, <1>4, LockStays DEF MotionInv, LockLabels
<1>7. CASE astray'
  BY <1>5, <1>6, <1>7 DEF MotionInv
<1>8. CASE ~astray'
  <2>1. ~astray /\ ledger' = ledger /\ ~Mo!Replaces(c)  BY <1>1, <1>8
  <2>2. LedgerFits  BY <2>1 DEF MotionInv
  <2>3. KnowsItsShot(c)'  BY <1>2 DEF KnowsItsShot
  <2>4. Mo!Sum(ledger', Shots) <= Budget  BY <2>1, <2>2 DEF LedgerFits
  <2>5. ASSUME NEW s \in Shots, command[c].name = s PROVE shot'[s] <= ledger'[s]
    <3>1. ~Replacing(c, command[c].name)  BY <2>1 DEF Replacing, Mo!Replaces
    <3> QED  BY <1>1, <2>1, <2>2, <2>5, <3>1, OwnFile
  <2> QED  BY <1>1, <1>2, <1>5, <1>6, <2>1, <2>3, <2>4, <2>5, MotionMove
<1> QED  BY <1>7, <1>8

LEMMA MotionStep ==
  ASSUME Mo!MotionAssumption, MotionInv, Mo!Next \/ UNCHANGED Mo!vars PROVE MotionInv'
<1>1. CASE Mo!Next
  <2>1. PICK c \in Commands :
          \/ Mo!Enter(c) \/ Mo!Reserve(c) \/ Mo!WriteLedger(c) \/ Mo!Render(c) \/ Mo!Finish(c)
          \/ Mo!Restore(c) \/ Mo!Remove(c) \/ Mo!Kill(c)
          \/ \E s \in Shots, n \in Durations, threeD \in BOOLEAN : Mo!Issue(c, s, n, threeD)
    BY <1>1 DEF Mo!Next
  <2> QED
    BY <2>1, EnterKeeps, ReserveKeeps, WriteLedgerKeeps, RenderKeeps, FinishMotionKeeps, RestoreKeeps, RemoveKeeps,
       KillMotionKeeps, IssueKeeps
<1>2. CASE UNCHANGED Mo!vars
  <2>1. UNCHANGED <<command, holder, ledger, shot, issued, astray>>  BY <1>2 DEF Mo!vars
  <2>2. Mo!MotionTypeOK' /\ LockIsHeld'
    BY <2>1, MotionTypes DEF MotionInv, LockIsHeld
  <2>3. ASSUME ~astray PROVE LedgerFits'
    <3>1. LedgerFits  BY <2>3 DEF MotionInv
    <3>2. NamesApart' /\ FilesAreReserved' /\ \A c \in Commands : KnowsItsShot(c)'
      BY <2>1, <3>1 DEF LedgerFits, NamesApart, FilesAreReserved, Replacing, KnowsItsShot
    <3>3. Mo!Sum(ledger', Shots) <= Budget  BY <2>1, <3>1 DEF LedgerFits
    <3> QED  BY <3>2, <3>3 DEF LedgerFits
  <2> QED  BY <2>1, <2>2, <2>3 DEF MotionInv
<1> QED  BY <1>1, <1>2

\* The motion tool keeps its types, its lock and its ledger.
LEMMA MotionIsKept ==
  ASSUME Mo!MotionAssumption PROVE StudioSpec => [](focus = "motion" => MotionInv)
<1> DEFINE Holds == focus = "motion" => MotionInv
<1>1. StudioInit => Holds
  <2>1. ASSUME Mo!Init PROVE MotionInv
    <3> DEFINE rest == Mo!Rest
    <3>1. rest \in MotionStates /\ rest.at = "idle"  BY MotionRest
    <3>2. /\ command = [c \in Commands |-> rest] /\ holder = "none"
          /\ ledger = [s \in Shots |-> 0] /\ shot = [s \in Shots |-> 0] /\ issued = 0 /\ astray = FALSE
      BY <2>1 DEF Mo!Init, Mo!None
    <3> HIDE DEF rest
    <3>3. Mo!MotionTypeOK
      <4>1. command \in [Commands -> MotionStates]  BY <3>1, <3>2
      <4>2. ledger \in [Shots -> Mo!Lengths] /\ shot \in [Shots -> Mo!Lengths]
        BY <3>2 DEF Mo!Lengths
      <4>3. issued \in 0 .. MaxCommands  BY <3>2 DEF Mo!MotionAssumption
      <4>4. astray \in BOOLEAN  BY <3>2
      <4> QED  BY <3>2, <4>1, <4>2, <4>3, <4>4 DEF Mo!MotionTypeOK, Mo!None, MotionStates
    <3>4. LockIsHeld  BY <3>1, <3>2 DEF LockIsHeld, LockLabels
    <3>5. NamesApart /\ FilesAreReserved /\ \A c \in Commands : KnowsItsShot(c)
      BY <3>1, <3>2 DEF NamesApart, FilesAreReserved, KnowsItsShot
    <3>6. Mo!Sum(ledger, Shots) <= Budget
      <4>1. Mo!Seconds(ledger, Shots) = {}  BY <3>2 DEF Mo!Seconds
      <4>2. Mo!Sum(ledger, Shots) = 0  BY <4>1, SumIsCount, FS_EmptySet
      <4> QED  BY <3>3, <4>2, Durations3D
    <3> QED  BY <3>3, <3>4, <3>5, <3>6 DEF MotionInv, LedgerFits
  <2> QED  BY <2>1 DEF StudioInit
<1>2. Holds /\ [StudioNext]_all => Holds'
  <2> SUFFICES ASSUME Holds, [StudioNext]_all, focus' = "motion" PROVE MotionInv'  OBVIOUS
  <2>1. focus = "motion" /\ (Mo!Next \/ UNCHANGED Mo!vars)
    <3>1. CASE StudioNext  BY <3>1 DEF StudioNext
    <3>2. CASE UNCHANGED all  BY <3>2 DEF all, tools, motion, Mo!vars
    <3> QED  BY <3>1, <3>2
  <2> QED  BY <2>1, MotionStep
<1> HIDE DEF Holds
<1>3. StudioSpec => []Holds  BY <1>1, <1>2, PTL DEF StudioSpec
<1> QED  BY <1>3 DEF Holds

\* Once the commands are over, the 3D shots of a video last no longer than its budget,
\* for any shots, durations, budget and commands in progress together, unless two
\* commands rendered one shot at once, or one failed or was killed that replaced, or
\* was to replace, a 3D shot (animate.py, motion3d.md).
THEOREM BudgetIsKept ==
  ASSUME Mo!MotionAssumption PROVE StudioSpec => []ShotsFit
<1> DEFINE Holds == focus = "motion" => MotionInv
<1>1. Holds => ShotsFit
  <2> SUFFICES ASSUME MotionInv, ~astray, \A c \in Commands : command[c].at = "idle"
               PROVE  Mo!Sum(shot, Shots) <= Budget
    BY DEF ShotsFit, Mo!ShotsFit, Mo!At
  <2>1. LedgerFits /\ Mo!MotionTypeOK  BY DEF MotionInv
  <2>2. \A s \in Shots : shot[s] <= ledger[s]
    BY <2>1 DEF LedgerFits, FilesAreReserved, Replacing
  <2>3. IsFiniteSet(Shots) /\ Budget \in Nat /\ \A s \in Shots : shot[s] \in Nat /\ ledger[s] \in Nat
    BY <2>1, Durations3D
  <2>4. Mo!Sum(shot, Shots) <= Mo!Sum(ledger, Shots)
    BY <2>2, <2>3, SumFollows
  <2>5. Mo!Sum(shot, Shots) \in Nat /\ Mo!Sum(ledger, Shots) \in Nat
    BY <2>3, SumOfFinite
  <2>6. Mo!Sum(ledger, Shots) <= Budget  BY <2>1 DEF LedgerFits
  <2> QED  BY <2>3, <2>4, <2>5, <2>6
<1>2. StudioSpec => []Holds  BY MotionIsKept
<1> HIDE DEF Holds
<1> QED  BY <1>1, <1>2, PTL

================================================================================
