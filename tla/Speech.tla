-------------------------------- MODULE Speech --------------------------------
(***************************************************************************)
(* The voice of a creation: `studio.tools tts`, which the voice role calls *)
(* one command after another in one run dir.  Each line of the narration   *)
(* is synthesised by itself and kept in a cache; an engine that fails is   *)
(* replaced by the next of a chain for all the lines; the engine that      *)
(* spoke goes into a status file.  The keys are those of the owner, read   *)
(* at each launch of the session; a command may be killed at any step.     *)
(***************************************************************************)
EXTENDS Naturals, Sequences

CONSTANTS
  Lines,      \* narration lines with their settings
  Scripts,    \* narrations
  Requests,   \* engines asked for by --engine, "" for none
  Briefs,     \* voices of the channel: its engine, its fallback engine, whether that has a voice
  KeySets,    \* keys the owner may have: gemini, gcp, azure, elevenlabs
  MaxTries,   \* MAX_TRANSIENT_RETRIES
  MaxCommands \* bound of the number of commands

Engines == {"azure", "gemini", "edge", "elevenlabs"}

SpeechAssumption ==
  /\ MaxTries \in Nat \ {0} /\ MaxCommands \in Nat
  /\ Scripts \subseteq Seq(Lines) \ {<<>>}
  /\ Requests \subseteq Engines \cup {""}
  /\ Briefs \subseteq [engine : Engines \cup {""}, fallback : Engines \cup {""}, voiced : BOOLEAN]

Speakers == Engines \cup {"edge-tts", "gemini-vertex"}
None == "none"
Torn == "torn"

VARIABLES
  brief,   \* brief.json
  keys,    \* STUDIO_* variables of the session
  tts,     \* the command in progress
  wav,     \* who speaks in each file of the cache
  meta,    \* who its description names
  voice,   \* voice.wav: who speaks each line
  status,  \* tts_status.json
  asked,   \* commands so far
  late     \* history: voice.wav is newer than its status

files == <<wav, meta, voice, status>>
vars == <<brief, keys, tts, files, asked, late>>

\* resolve_engine
Effective(engine, held) ==
  CASE engine = "gemini" /\ held \cap {"gemini", "gcp"} = {} ->
         IF "azure" \in held THEN "azure" ELSE "edge-tts"
    [] engine = "azure" /\ "azure" \notin held -> "edge-tts"
    [] OTHER -> engine

Keys == {<<l, e, Effective(e, held)>> : l \in Lines, e \in Engines, held \in KeySets}

Rest == [at |-> "idle", script |-> <<>>, trial |-> FALSE, chain |-> <<>>, made |-> <<>>,
         used |-> None, tries |-> 0, vertex |-> FALSE]

Init ==
  /\ brief \in Briefs /\ keys \in KeySets
  /\ tts = Rest
  /\ wav = [k \in Keys |-> None] /\ meta = [k \in Keys |-> None]
  /\ voice = <<>> /\ status = None
  /\ asked = 0 /\ late = FALSE

Labels == {"idle", "engine", "line", "ask", "file", "meta", "tighten", "status"}

SpeechTypeOK ==
  /\ brief \in Briefs /\ keys \in KeySets
  /\ tts.at \in Labels /\ tts.script \in Scripts \cup {<<>>}
  /\ tts.chain \in Seq(Engines)
  /\ tts.made \in Seq(Speakers) /\ tts.used \in Speakers \cup {None}
  /\ tts.tries \in 0 .. MaxTries - 1 /\ tts.trial \in BOOLEAN /\ tts.vertex \in BOOLEAN
  /\ wav \in [Keys -> Speakers \cup {None}] /\ meta \in [Keys -> Speakers \cup {None, Torn}]
  /\ voice \in Seq(Speakers \cup {Torn})
  /\ status \in Speakers \cup {None}
  /\ asked \in 0 .. MaxCommands /\ late \in BOOLEAN

Then(chain, e) == IF \E n \in DOMAIN chain : chain[n] = e THEN chain ELSE Append(chain, e)

\* _tts_engine_chain: the engine asked for or the channel's, its fallback if it
\* has a voice, Gemini, edge; each once.
Chain(requested) ==
  LET primary == IF requested # "" THEN requested
                 ELSE IF brief.engine # "" THEN brief.engine ELSE "azure"
      secours == IF brief.fallback # "" /\ brief.voiced THEN Then(<<primary>>, brief.fallback)
                 ELSE <<primary>>
  IN Then(Then(secours, "gemini"), "edge")

Begin(script, trial, requested) ==
  /\ tts.at = "idle" /\ asked < MaxCommands /\ asked' = asked + 1
  /\ tts' = [Rest EXCEPT !.at = "engine", !.script = script, !.trial = trial,
                         !.chain = Chain(requested)]
  /\ UNCHANGED <<brief, keys, files, late>>

\* The next engine takes over, for all the lines.
Fails == tts' = [tts EXCEPT !.at = "engine", !.chain = Tail(@)]

Engine == Head(tts.chain)

\* The head of _synthesize: with a fallback engine in the brief, an engine that
\* would be replaced for want of a key fails instead.
TryEngine ==
  /\ tts.at = "engine"
  /\ CASE tts.chain = <<>> -> tts' = Rest
       [] tts.chain # <<>> /\ brief.fallback # "" /\ Effective(Engine, keys) # Engine -> Fails
       [] OTHER -> tts' = [tts EXCEPT !.at = "line", !.made = <<>>, !.used = Engine]
  /\ UNCHANGED <<brief, keys, files, asked, late>>

\* Mutation of LineKey: the cache is keyed on the engine asked for.
LineKeyOfRequest(line, engine) == <<line, engine, engine>>

\* _line_cache_key: the line and its settings, the voice, which goes with the
\* engine asked for, and the engine that speaks.
LineKey(line, engine) == <<line, engine, Effective(engine, keys)>>

Line == tts.script[Len(tts.made) + 1]
Key == LineKey(Line, Engine)

\* A line found whole in the cache is taken from it.
TakeLine ==
  /\ tts.at = "line" /\ Len(tts.made) < Len(tts.script)
  /\ IF wav[Key] # None /\ meta[Key] \notin {None, Torn}
     THEN tts' = [tts EXCEPT !.made = Append(@, wav[Key]), !.used = meta[Key]]
     ELSE tts' = [tts EXCEPT !.at = "ask", !.tries = 0, !.vertex = "gemini" \notin keys]
  /\ UNCHANGED <<brief, keys, files, asked, late>>

Speaker ==
  CASE Effective(Engine, keys) = "gemini" -> IF tts.vertex THEN "gemini-vertex" ELSE "gemini"
    [] Effective(Engine, keys) = "edge" -> "edge-tts"
    [] OTHER -> Effective(Engine, keys)

Answered == tts' = [tts EXCEPT !.at = "file", !.used = Speaker]

TryAgain(tries) == tts.tries + 1 < tries /\ tts' = [tts EXCEPT !.tries = @ + 1]

\* Vertex serves Gemini's voice when the owner has a GCP account.
VertexTarget == "gcp" \in keys

\* synthesize_gemini_tts, with the key, which is tried once with Vertex in reserve
\* and gives way to it when it is refused or out of quota.
AskGemini ==
  /\ Speaker = "gemini"
  /\ \/ Answered \/ TryAgain(IF VertexTarget THEN 1 ELSE MaxTries)
     \/ VertexTarget /\ tts' = [tts EXCEPT !.vertex = TRUE, !.tries = 0]
     \/ Fails

AskVertex == Speaker = "gemini-vertex" /\ (Answered \/ TryAgain(MaxTries) \/ Fails)

\* Without a key it fails; a request that left and got no answer may be charged, and
\* is not repeated.
AskElevenLabs ==
  /\ Speaker = "elevenlabs"
  /\ \/ "elevenlabs" \in keys /\ (Answered \/ TryAgain(MaxTries))
     \/ Fails

AskAzure == Speaker = "azure" /\ (Answered \/ Fails)

AskEdge == Speaker = "edge-tts" /\ (Answered \/ Fails)

\* generate_tts: one request to the engine; an audio that cannot be normalised fails.
AskEngine ==
  /\ tts.at = "ask"
  /\ AskGemini \/ AskVertex \/ AskElevenLabs \/ AskAzure \/ AskEdge
  /\ UNCHANGED <<brief, keys, files, asked, late>>

\* The file is renamed into the cache, its description written next.
StoreLine ==
  /\ tts.at = "file"
  /\ wav' = [wav EXCEPT ![Key] = tts.used] /\ tts' = [tts EXCEPT !.at = "meta"]
  /\ UNCHANGED <<brief, keys, meta, voice, status, asked, late>>

DescribeLine ==
  /\ tts.at = "meta"
  /\ meta' = [meta EXCEPT ![Key] = tts.used]
  /\ tts' = [tts EXCEPT !.at = "line", !.made = Append(@, wav[Key])]
  /\ UNCHANGED <<brief, keys, wav, voice, status, asked, late>>

\* The lines are joined into the output, which a trial writes elsewhere.
JoinLines ==
  /\ tts.at = "line" /\ Len(tts.made) = Len(tts.script)
  /\ \/ /\ IF tts.trial THEN tts' = Rest /\ UNCHANGED <<voice, late>>
           ELSE voice' = tts.made /\ late' = TRUE /\ tts' = [tts EXCEPT !.at = "tighten"]
     \/ \* files of different rates
        Len(tts.made) > 1 /\ Fails /\ UNCHANGED <<voice, late>>
  /\ UNCHANGED <<brief, keys, wav, meta, status, asked>>

\* tighten_pauses rewrites voice.wav; its failure ends the command.
TightenPauses ==
  /\ tts.at = "tighten"
  /\ tts' = [tts EXCEPT !.at = "status"] \/ tts' = Rest
  /\ UNCHANGED <<brief, keys, files, asked, late>>

WriteStatus ==
  /\ tts.at = "status"
  /\ status' = tts.used /\ late' = FALSE /\ tts' = Rest
  /\ UNCHANGED <<brief, keys, wav, meta, voice, asked>>

\* A command is killed: what it was writing is torn, and a torn status reads as none.
Kill ==
  /\ tts.at # "idle" /\ tts' = Rest
  /\ meta' \in {meta} \cup (IF tts.at = "meta" THEN {[meta EXCEPT ![Key] = Torn]} ELSE {})
  /\ IF (tts.at = "line" /\ Len(tts.made) = Len(tts.script) /\ ~tts.trial) \/ tts.at = "tighten"
     THEN voice' \in {voice, <<Torn>>} /\ late' = (late \/ voice' = <<Torn>>)
     ELSE UNCHANGED <<voice, late>>
  /\ status' \in {status} \cup (IF tts.at = "status" THEN {None} ELSE {})
  /\ UNCHANGED <<brief, keys, wav, asked>>

\* The session is launched again, with the keys its owner has by then.
Relaunch ==
  /\ tts.at = "idle" /\ keys' \in KeySets \ {keys}
  /\ UNCHANGED <<brief, tts, files, asked, late>>

Next ==
  \/ \E script \in Scripts, trial \in BOOLEAN, requested \in Requests : Begin(script, trial, requested)
  \/ TryEngine \/ TakeLine \/ AskEngine \/ StoreLine \/ DescribeLine
  \/ JoinLines \/ TightenPauses \/ WriteStatus \/ Kill \/ Relaunch

Spec == Init /\ [][Next]_vars

------------------------------------------------------------------------------
(* Properties.                                                                 *)

\* Gemini with a key or through Vertex is one voice.
Same(a, b) == a = b \/ {a, b} = {"gemini", "gemini-vertex"}

\* "A line put in the cache then must not be taken later for a true Gemini line"
\* (_synthesize): the status names the engine of every line of voice.wav,
\* whatever engines spoke in earlier commands, trials and sessions with other
\* keys, unless a command stopped between voice.wav and its status.
VoiceIsAsReported ==
  status # None /\ ~late => \A n \in DOMAIN voice : Same(voice[n], status)
===============================================================================
