-------------------------------- MODULE Render --------------------------------
(***************************************************************************)
(* render_timeline: each clip of timeline.json is encoded into a segment,  *)
(* kept in a cache of the run dir for the next iterations, and the         *)
(* segments are joined into renders/vN.mp4.  Another render of the same    *)
(* run dir may be in progress, the other commands replace media files, and *)
(* a render may be killed at any step.  Renders in progress together have  *)
(* different outputs.                                                      *)
(***************************************************************************)
EXTENDS Integers, Sequences

CONSTANTS
  Renders,    \* commands that may be in progress at once
  Outputs,    \* renders/vN.mp4
  Media,      \* files named by timelines
  Versions,   \* contents of a media file: size and date; copy2 brings one back
  Timelines,  \* sequences of clips [media, start, end, text]
  VoiceEnd,   \* duration of voice.wav
  Tolerance,  \* TIMELINE_DURATION_TOLERANCE_S
  Slack,      \* tolerance between a clip and the next
  MaxRenders, \* bound of the number of commands
  MaxChanges  \* bound of the number of replacements of a media file

VARIABLES
  render,   \* commands in progress
  source,   \* media files
  segments, \* the cache: what the file of each key shows
  newer,    \* for each key, the renders that began before the file was made
  film,     \* finished outputs: what each of their segments shows
  wanted,   \* what each of them was to show
  renders, changes,
  swapped   \* history: keys whose file was encoded from a source replaced meanwhile

Texts == UNION {{t[n].text : n \in DOMAIN t} : t \in Timelines}

RenderAssumption ==
  /\ MaxRenders \in Nat /\ MaxChanges \in Nat /\ VoiceEnd \in Nat /\ Outputs # {}
  /\ Timelines \subseteq Seq([media : Media, start : Int, end : Int, text : Texts])

cache == <<segments, newer>>
vars == <<render, source, cache, film, wanted, renders, changes, swapped>>

Absent == "absent"

Lengths == UNION {{t[n].end - t[n].start : n \in DOMAIN t} : t \in Timelines}

\* What a segment shows: a content, for a time, under a text.
Shown == [version : Versions, length : Lengths, text : Texts]

NoTimeline == <<>>
Rest == [at |-> "idle", out |-> CHOOSE o \in Outputs : TRUE, timeline |-> NoTimeline, keys |-> <<>>,
         seen |-> <<>>, begun |-> FALSE]

Init ==
  /\ render = [r \in Renders |-> Rest]
  /\ source \in [Media -> Versions]
  /\ segments = [k \in Shown |-> {}] /\ newer = [k \in Shown |-> {}]
  /\ film = [o \in Outputs |-> <<>>] /\ wanted = [o \in Outputs |-> <<>>]
  /\ renders = 0 /\ changes = 0 /\ swapped = {}

Labels == {"idle", "clip", "encode", "prune", "concat", "mux"}

RenderTypeOK ==
  /\ \A r \in Renders :
       /\ render[r].at \in Labels /\ render[r].out \in Outputs
       /\ render[r].timeline \in Timelines \cup {NoTimeline}
       /\ render[r].keys \in Seq(Shown) /\ render[r].begun \in BOOLEAN
       /\ Len(render[r].keys) <= Len(render[r].timeline)
  /\ source \in [Media -> Versions \cup {Absent}]
  /\ \A k \in Shown : segments[k] \in {{}} \cup {{s} : s \in Shown} /\ newer[k] \subseteq Renders
  /\ swapped \subseteq Shown
  /\ renders \in 0 .. MaxRenders /\ changes \in 0 .. MaxChanges

Distance(a, b) == IF a < b THEN b - a ELSE a - b

\* The contract of timeline.json: clips in order that follow each other from 0.
Contiguous(t) ==
  /\ Len(t) > 0 /\ Distance(t[1].start, 0) <= Slack
  /\ \A n \in DOMAIN t : t[n].start < t[n].end
  /\ \A n \in 1 .. Len(t) - 1 : Distance(t[n + 1].start, t[n].end) <= Slack

\* _validate_inputs, before anything is encoded.
Valid(t) ==
  /\ Contiguous(t) /\ Distance(t[Len(t)].end, VoiceEnd) <= Tolerance
  /\ \A n \in DOMAIN t : source[t[n].media] # Absent

At(r, label) == render[r].at = label

Begin(r, out, t) ==
  /\ At(r, "idle") /\ renders < MaxRenders /\ renders' = renders + 1
  /\ \A s \in Renders : At(s, "idle") \/ render[s].out # out
  /\ render' = IF Valid(t) THEN [render EXCEPT ![r] = [Rest EXCEPT !.at = "clip", !.out = out,
                                                          !.timeline = t, !.begun = TRUE]]
               ELSE render
  /\ UNCHANGED <<source, cache, film, wanted, changes, swapped>>

\* The end of a command forgets who began before whom.
Quit(r) ==
  /\ render' = [render EXCEPT ![r] = Rest]
  /\ newer' = [k \in Shown |-> newer[k] \ {r}]

Clip(r) == render[r].timeline[Len(render[r].keys) + 1]

\* Mutation of SegmentKey: the text of the clip is left out of the key.
SegmentKeyWithoutText(clip) ==
  [version |-> source[clip.media], length |-> clip.end - clip.start,
   text |-> CHOOSE t \in Texts : TRUE]

\* _segment_key: what enters _render_clip and nothing else; neither the name of
\* the file nor the place of the clip counts.
SegmentKey(clip) ==
  [version |-> source[clip.media], length |-> clip.end - clip.start, text |-> clip.text]

Remember(r, key, label) ==
  render' = [render EXCEPT ![r].keys = Append(@, key), ![r].at = label]

\* The next clip: its key is taken from the source, then its segment is looked for.
NextClip(r) ==
  /\ At(r, "clip")
  /\ IF Len(render[r].keys) = Len(render[r].timeline)
     THEN render' = [render EXCEPT ![r].at = "prune"] /\ UNCHANGED newer
     ELSE IF source[Clip(r).media] = Absent THEN Quit(r)
     ELSE LET key == SegmentKey(Clip(r))
          IN /\ Remember(r, key, IF segments[key] # {} THEN "clip" ELSE "encode")
             /\ UNCHANGED newer
  /\ UNCHANGED <<source, segments, film, wanted, renders, changes, swapped>>

Last(r) == Len(render[r].keys)

\* _render_clip reads the source later than the key did; the segment is renamed
\* into the cache when it is whole.  A failure or a delay ends the command.
Encode(r) ==
  /\ At(r, "encode")
  /\ LET key == render[r].keys[Last(r)]
         clip == render[r].timeline[Last(r)]
         version == source[clip.media]
     IN \/ Quit(r) /\ UNCHANGED <<segments, swapped>>
        \/ /\ version # Absent
           /\ segments' = [segments EXCEPT ![key] = {[version |-> version, text |-> clip.text,
                                                      length |-> clip.end - clip.start]}]
           /\ newer' = [newer EXCEPT ![key] = {s \in Renders : render[s].begun}]
           /\ swapped' = IF version = key.version THEN swapped \ {key} ELSE swapped \cup {key}
           /\ render' = [render EXCEPT ![r].at = "clip"]
  /\ UNCHANGED <<source, film, wanted, renders, changes>>

Used(r) == {render[r].keys[n] : n \in DOMAIN render[r].keys}

\* _prune_segments: what is older than this render and not used by it.
Prune(r) ==
  /\ At(r, "prune")
  /\ LET old == {k \in Shown \ Used(r) : r \notin newer[k]}
     IN /\ segments' = [k \in Shown |-> IF k \in old THEN {} ELSE segments[k]]
        /\ newer' = [k \in Shown |-> IF k \in old THEN {} ELSE newer[k]]
        /\ swapped' = swapped \ old
  /\ render' = [render EXCEPT ![r].at = "concat"]
  /\ UNCHANGED <<source, film, wanted, renders, changes>>

\* The segments are joined as they are by now; one that another render has
\* removed ends the command.
Concat(r) ==
  /\ At(r, "concat")
  /\ IF \E k \in Used(r) : segments[k] = {} THEN Quit(r)
     ELSE /\ render' = [render EXCEPT ![r].at = "mux", ![r].seen =
                          [n \in DOMAIN render[r].keys |->
                             [shown |-> CHOOSE s \in segments[render[r].keys[n]] : TRUE,
                              swapped |-> render[r].keys[n] \in swapped,
                              version |-> render[r].keys[n].version]]]
          /\ UNCHANGED newer
  /\ UNCHANGED <<source, segments, film, wanted, renders, changes, swapped>>

\* The sound is mixed and muxed in the work directory; the output appears whole.
Mux(r) ==
  /\ At(r, "mux")
  /\ \/ UNCHANGED <<film, wanted>>
     \/ /\ film' = [film EXCEPT ![render[r].out] = render[r].seen]
        /\ wanted' = [wanted EXCEPT ![render[r].out] = render[r].timeline]
  /\ Quit(r)
  /\ UNCHANGED <<source, segments, renders, changes, swapped>>

Kill(r) ==
  /\ ~At(r, "idle") /\ Quit(r)
  /\ UNCHANGED <<source, segments, film, wanted, renders, changes, swapped>>

\* A download, an image or an animation replaces a media file; an old content may
\* come back with its date.
Replace(m, v) ==
  /\ changes < MaxChanges /\ source[m] # v
  /\ source' = [source EXCEPT ![m] = v] /\ changes' = changes + 1
  /\ UNCHANGED <<render, cache, film, wanted, renders, swapped>>

Next ==
  \/ \E r \in Renders :
       \/ NextClip(r) \/ Encode(r) \/ Prune(r) \/ Concat(r) \/ Mux(r) \/ Kill(r)
       \/ \E out \in Outputs, t \in Timelines : Begin(r, out, t)
  \/ \E m \in Media, v \in Versions \cup {Absent} : Replace(m, v)

Spec == Init /\ [][Next]_vars

------------------------------------------------------------------------------
(* Properties.                                                                 *)

\* "From one iteration to the next only the clips that changed are encoded
\* again": a finished render shows, clip by clip, the text and the length of its
\* timeline and the content the media had when the render came to the clip, through
\* reuse, pruning by another render, failures and kills, unless a source was
\* replaced between the computation of a key and the encoding.
RenderIsFaithful ==
  \A o \in Outputs : \A n \in DOMAIN film[o] :
    LET clip == wanted[o][n]
        seg == film[o][n]
    IN /\ Len(film[o]) = Len(wanted[o])
       /\ seg.swapped \/ seg.shown = [version |-> seg.version, length |-> clip.end - clip.start,
                                      text |-> clip.text]
===============================================================================
