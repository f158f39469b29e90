------------------------------- MODULE MCStudio -------------------------------
(***************************************************************************)
(* The parts of Claude Studio share files and rows that only one of them   *)
(* writes: they are checked side by side.  The initial state chooses one,  *)
(* and only its steps are taken; the properties of the others hold in it.  *)
(***************************************************************************)
EXTENDS StudioSession, AiImages, TLC

\* Constants of StudioStream, Sandbox, Motion3D, Speech, Render and MediaLibrary.
CONSTANTS
  Agents, Background, MaxPipe, MaxLines,
  Calls, OutDir, Modes, Workers, QueueWait, Timeout, ResultMargin, KillMargin, MaxKills,
  Shots, Durations, Budget, Commands, MaxCommands,
  Lines, Scripts, Requests, Briefs, KeySets, MaxTries, MaxNarrations,
  Renders, Outputs, Media, Versions, Timelines, VoiceEnd, Tolerance, Slack, MaxRenders, MaxChanges,
  Items, Kind, Refused, Broken, Names, MaxFound, MaxSearches, MaxUses

VARIABLES
  focus,   \* the part that is checked in this behaviour
  notifies, work, leader, pipe, written, parser, recorder, steps, pump, cut,
  mode, call, job, done, cancel, output, worker, kills, crossed,
  command, holder, ledger, shot, issued, astray,
  brief, keys, tts, wav, described, voice, reported, narrations, late,
  render, source, segments, newer, film, wanted, renders, changes, swapped,
  registry, cached, stored, credits, cmd, searches, uses, shifted, doubt

St == INSTANCE StudioStream
Sb == INSTANCE Sandbox
Mo == INSTANCE Motion3D
Sp == INSTANCE Speech WITH meta <- described, status <- reported, asked <- narrations,
                           MaxCommands <- MaxNarrations
Re == INSTANCE Render
Li == INSTANCE MediaLibrary

ASSUME PartsAssumption ==
  /\ St!StreamAssumption /\ Sb!SandboxAssumption /\ ImagesAssumption /\ Mo!MotionAssumption
  /\ Sp!SpeechAssumption /\ Re!RenderAssumption /\ Li!MediaAssumption

\* A retry renders into the directory of the first call.
SameDirectory == [c \in Calls |-> "d"]

\* Two lines, the first of them alone or with the second; the voice of a channel with
\* and without a fallback; two clips whose texts change places, and a timeline with
\* an empty clip; an image that comes down as a page, and a video.
TwoScripts == {<<"l1">>, <<"l1", "l2">>}
TwoBriefs == {[engine |-> "gemini", fallback |-> "", voiced |-> FALSE],
              [engine |-> "elevenlabs", fallback |-> "gemini", voiced |-> TRUE]}
TwoKeySets == {{}, {"gemini", "gcp"}}
Clip(m, start, end, text) == [media |-> m, start |-> start, end |-> end, text |-> text]
ThreeTimelines == {<<Clip("m", 0, 1, "a"), Clip("m", 1, 2, "b")>>, <<Clip("m", 0, 1, "b"), Clip("m", 1, 2, "a")>>,
                   <<Clip("m", 0, 1, "a"), Clip("m", 2, 2, "b")>>}
OneOfEach == [i \in Images |-> IF i = "i1" THEN "flux" ELSE "imagen"]
OneVideo == [i \in Items |-> IF i = "k" THEN "mp4" ELSE "jpg"]

stream == <<notifies, work, leader, pipe, written, parser, recorder, steps, pump, cut>>
sandbox == <<mode, call, job, done, cancel, output, worker, kills, crossed>>
motion == <<command, holder, ledger, shot, issued, astray>>
speech == <<brief, keys, tts, wav, described, voice, reported, narrations, late>>
montage == <<render, source, segments, newer, film, wanted, renders, changes, swapped>>
library == <<registry, cached, stored, credits, cmd, searches, uses, shifted, doubt>>

tools == <<imageVars, motion, speech, montage, library>>
all == <<focus, vars, stream, sandbox, tools>>

\* The parts that are not checked keep one initial state.
StudioInit ==
  /\ focus \in {"session", "stream", "sandbox", "images", "motion", "speech", "render", "library"}
  /\ Init /\ St!Init /\ Sb!Init /\ ImagesInit /\ Mo!Init /\ Sp!Init /\ Re!Init /\ Li!Init
  /\ focus # "stream" => notifies
  /\ focus # "sandbox" => mode = "container"
  /\ focus # "speech" => brief.fallback = "" /\ keys = {}
  /\ focus # "render" => \A m \in Media : source[m] = "1"

StudioNext ==
  \/ focus = "session" /\ Next /\ UNCHANGED <<focus, stream, sandbox, tools>>
  \/ focus = "stream" /\ St!Next /\ UNCHANGED <<focus, vars, sandbox, tools>>
  \/ focus = "sandbox" /\ Sb!Next /\ UNCHANGED <<focus, vars, stream, tools>>
  \/ focus = "images" /\ ImagesNext
     /\ UNCHANGED <<focus, vars, stream, sandbox, motion, speech, montage, library>>
  \/ focus = "motion" /\ Mo!Next
     /\ UNCHANGED <<focus, vars, stream, sandbox, imageVars, speech, montage, library>>
  \/ focus = "speech" /\ Sp!Next
     /\ UNCHANGED <<focus, vars, stream, sandbox, imageVars, motion, montage, library>>
  \/ focus = "render" /\ Re!Next
     /\ UNCHANGED <<focus, vars, stream, sandbox, imageVars, motion, speech, library>>
  \/ focus = "library" /\ Li!Next
     /\ UNCHANGED <<focus, vars, stream, sandbox, imageVars, motion, speech, montage>>

\* The fairness of StudioStream!FairSpec and of Sandbox!Fairness.
StudioFairness ==
  /\ WF_stream(focus = "stream" /\ St!PumpStep) /\ WF_stream(focus = "stream" /\ St!Stall)
  /\ \A a \in Agents : /\ WF_stream(focus = "stream" /\ St!FlushBegins(a))
                       /\ WF_stream(focus = "stream" /\ St!FlushEnds(a))
  /\ \A c \in Calls : /\ WF_sandbox(focus = "sandbox" /\ Sb!CallStep(c))
                      /\ WF_sandbox(focus = "sandbox" /\ Sb!Sweep(c))
  /\ \A w \in Workers : WF_sandbox(focus = "sandbox" /\ Sb!WorkerStep(w))
  /\ WF_sandbox(focus = "sandbox" /\ Sb!Tick)

StudioSpec == StudioInit /\ [][StudioNext]_all /\ StudioFairness

\* The type invariant of the part that is checked: its states, positions and
\* bounded counters are those of its code.
TypeOK ==
  CASE focus = "session" -> StudioTypeOK
    [] focus = "stream" -> St!StreamTypeOK
    [] focus = "sandbox" -> Sb!SandboxTypeOK
    [] focus = "images" -> ImagesTypeOK
    [] focus = "motion" -> Mo!MotionTypeOK
    [] focus = "speech" -> Sp!SpeechTypeOK
    [] focus = "render" -> Re!RenderTypeOK
    [] focus = "library" -> Li!MediaTypeOK

\* The properties below are stated and commented in the modules of their names; those
\* of StudioSession and AiImages are taken as they are.
FinalLogKept == focus = "stream" => St!FinalLogKept
SuccessIsReal == focus = "stream" => St!SuccessIsReal
DoneIsRecorded == focus = "stream" => St!DoneIsRecorded
SessionEnds == focus = "stream" => St!SessionEnds

OwnResult == focus = "sandbox" => Sb!OwnResult
JobsAreCleared == focus = "sandbox" => Sb!JobsAreCleared

ShotsFit == focus = "motion" => Mo!ShotsFit

VoiceIsAsReported == focus = "speech" => Sp!VoiceIsAsReported

RenderIsFaithful == focus = "render" => Re!RenderIsFaithful

RightsFollowFiles == focus = "library" => Li!RightsFollowFiles
==============================================================================
