------------------------------- MODULE LlmCalls -------------------------------
(***************************************************************************)
(* The calls of the planner, of the distribution and of the comment        *)
(* replies to a language model: the choice of provider, model and key from *)
(* the preferences and keys of the owner, read one by one while the owner  *)
(* may change them, then the request with its retries and continuations.   *)
(***************************************************************************)
EXTENDS Naturals

CONSTANTS
  Agents,           \* CONFIGURABLE_AGENTS that call
  FreeModels,       \* GEMINI_TEXT_FREE_MODELS
  PaidModels,       \* GEMINI_TEXT_PAID_MODELS
  ClaudeModels,     \* ANTHROPIC_TEXT_MODELS
  CliModels,        \* CLAUDE_CLI_MODELS
  DefaultModel,     \* first model of each list, and resolve_model for "config"
  MaxTries,         \* MAX_TRANSIENT_RETRIES
  MaxContinuations, \* MAX_CONTINUATIONS
  MaxEdits,         \* bound of the number of changes by the owner
  MaxCalls          \* bound of the number of calls

Claude == ClaudeModels \cup CliModels
Gemini == FreeModels \cup PaidModels

LlmAssumption ==
  /\ MaxTries \in Nat \ {0} /\ MaxContinuations \in Nat /\ MaxEdits \in Nat /\ MaxCalls \in Nat
  /\ Claude \cap Gemini = {} /\ DefaultModel["config"] \in ClaudeModels
  /\ DefaultModel["free"] \in FreeModels /\ DefaultModel["paid"] \in PaidModels
  /\ DefaultModel["anthropic"] \in ClaudeModels /\ DefaultModel["cli"] \in CliModels

Providers == {"gemini", "anthropic", "claude_cli"}

\* Rows of user_api_keys that serve the agents.
KeyNames == {"gemini", "anthropic", "gcp", "claude_subscription"}

\* The key a preference needs (update_agent_llm_config).
KeyOf(provider) == IF provider = "claude_cli" THEN "claude_subscription" ELSE provider

VARIABLES
  admin,   \* users.is_admin
  cli,     \* the claude command is on the machine of the agents
  held,    \* keys on file
  pref,    \* agent_llm_preferences of each agent
  saving,  \* a preference tested and not yet written
  llm,     \* calls in progress
  edits, calls,
  through  \* history: keys that could be used all through the resolution of each call

vars == <<admin, cli, held, pref, saving, llm, edits, calls, through>>

None == "none"
NoPref == [provider |-> None, model |-> None, tier |-> "free"]

Models(provider, tier) ==
  CASE provider = "anthropic" -> ClaudeModels
    [] provider = "claude_cli" -> CliModels
    [] provider = "gemini" -> IF tier = "paid" THEN PaidModels ELSE FreeModels

DefaultOf(provider, tier) ==
  DefaultModel[CASE provider = "anthropic" -> "anthropic"
                 [] provider = "claude_cli" -> "cli"
                 [] OTHER -> tier]

Tier(provider, tier) == CASE provider = "anthropic" -> "paid"
                          [] provider = "claude_cli" -> "free"
                          [] OTHER -> tier

\* normalize_preference: provider, tier and model agree.
Normal(p) ==
  LET tier == Tier(p.provider, p.tier)
  IN [provider |-> p.provider, tier |-> tier,
      model |-> IF p.model \in Models(p.provider, tier) THEN p.model ELSE DefaultOf(p.provider, tier)]

Proposed == [provider : Providers, model : Claude \cup Gemini, tier : {"free", "paid"}]
Preferences == {Normal(p) : p \in Proposed}

Rest == [at |-> "idle", pref |-> NoPref, provider |-> None, model |-> None, vertex |-> FALSE,
         tries |-> 0, continued |-> 0]

Init ==
  /\ admin \in BOOLEAN /\ cli \in BOOLEAN /\ held = {}
  /\ pref = [a \in Agents |-> NoPref] /\ saving = NoPref
  /\ llm = [a \in Agents |-> Rest]
  /\ edits = 0 /\ calls = 0 /\ through = [a \in Agents |-> {}]

Labels == {"idle", "cli", "has anthropic", "anthropic", "has gemini", "gemini", "vertex",
           "any gemini", "any anthropic", "any cli", "request"}

LlmTypeOK ==
  /\ admin \in BOOLEAN /\ cli \in BOOLEAN /\ held \subseteq KeyNames
  /\ pref \in [Agents -> Preferences \cup {NoPref}] /\ saving \in Preferences \cup {NoPref}
  /\ llm \in [Agents -> [at : Labels, pref : Preferences \cup {NoPref}, vertex : BOOLEAN,
                         provider : Providers \cup {None}, model : Claude \cup Gemini \cup {None},
                         tries : 0 .. MaxTries - 1, continued : 0 .. MaxContinuations]]
  /\ edits \in 0 .. MaxEdits /\ calls \in 0 .. MaxCalls
  /\ through \in [Agents -> SUBSET KeyNames]

------------------------------------------------------------------------------
(* The owner's account.                                                        *)

\* resolve_api_key: keys reserved to admins are not there for others.
Key(name) == name \in held /\ (name = "claude_subscription" => admin)

\* _try_user_subscription: the key of a subscription serves where the command is
\* (claude_cli_available).
Usable(name) == Key(name) /\ (name = "claude_subscription" => cli)

Edit == edits < MaxEdits /\ edits' = edits + 1

\* upsert_my_api_key, once the provider has validated the key.
SaveKey(name) ==
  /\ Edit
  /\ name = "claude_subscription" => admin
  /\ held' = held \cup {name}
  /\ UNCHANGED <<admin, cli, pref, saving, llm, calls, through>>

DeleteKey(name) ==
  /\ Edit /\ name \in held
  /\ held' = held \ {name} /\ through' = [a \in Agents |-> through[a] \ {name}]
  /\ UNCHANGED <<admin, cli, pref, saving, llm, calls>>

\* update_agent_llm_config: the key of each provider chosen is looked for, then
\* the normalised preferences are written.
TestPreference(p) ==
  /\ Edit /\ saving = NoPref
  /\ saving' = IF Key(KeyOf(p.provider)) THEN Normal(p) ELSE NoPref
  /\ UNCHANGED <<admin, cli, held, pref, llm, calls, through>>

\* The body is the whole map: agents it does not name lose their preference.
SavePreference(named) ==
  /\ saving # NoPref
  /\ pref' = [a \in Agents |-> IF a \in named THEN saving ELSE NoPref] /\ saving' = NoPref
  /\ UNCHANGED <<admin, cli, held, llm, edits, calls, through>>

------------------------------------------------------------------------------
(* resolve_llm_call                                                            *)

At(a, label) == llm[a].at = label
Goto(a, label) == llm' = [llm EXCEPT ![a].at = label]
Account == <<admin, cli, held, pref, saving, edits>>

Decided(a, provider, model, vertex) ==
  llm' = [llm EXCEPT ![a].at = "request", ![a].provider = provider, ![a].model = model,
                     ![a].vertex = vertex]

\* Mutation of Requested: the model of the configuration comes before the owner's.
RequestedByConfig(p) == DefaultModel["config"]

Requested(p) == IF p = NoPref THEN DefaultModel["config"] ELSE p.model

WantsAnthropic(p) == Requested(p) \in Claude \/ p.provider = "anthropic"

AfterCli(p) == IF WantsAnthropic(p) THEN "has anthropic" ELSE "has gemini"
AfterAnthropic(p) == IF p # NoPref THEN "has gemini" ELSE "vertex"

\* The owner is read with the preferences; the keys are read as they come.
Call(a) ==
  /\ At(a, "idle") /\ calls < MaxCalls /\ calls' = calls + 1
  /\ LET p == pref[a]
     IN llm' = [llm EXCEPT ![a] = [Rest EXCEPT !.pref = p,
                  !.at = IF p.provider = "claude_cli" THEN "cli" ELSE AfterCli(p)]]
  /\ through' = [through EXCEPT ![a] = {k \in KeyNames : Usable(k)}]
  /\ UNCHANGED Account

Pref(a) == llm[a].pref

CliModel(p) == IF p.model \in CliModels THEN p.model ELSE DefaultModel["cli"]

\* _try_user_subscription, first.
TryCli(a) ==
  /\ At(a, "cli")
  /\ IF Usable("claude_subscription") THEN Decided(a, "claude_cli", CliModel(Pref(a)), FALSE)
     ELSE Goto(a, AfterCli(Pref(a)))
  /\ UNCHANGED <<Account, calls, through>>

\* _has_user_key, then _try_user_anthropic reads the key again.
HasAnthropic(a) ==
  /\ At(a, "has anthropic")
  /\ Goto(a, IF Key("anthropic") THEN "anthropic" ELSE AfterAnthropic(Pref(a)))
  /\ UNCHANGED <<Account, calls, through>>

TryAnthropic(a) ==
  /\ At(a, "anthropic")
  /\ IF Key("anthropic")
     THEN Decided(a, "anthropic", IF Requested(Pref(a)) \in Claude THEN Requested(Pref(a))
                                  ELSE DefaultModel["config"], FALSE)
     ELSE Goto(a, AfterAnthropic(Pref(a)))
  /\ UNCHANGED <<Account, calls, through>>

\* _resolve_gemini_model: "a valid Gemini model, never a Claude one".
GeminiModel(p, tier) ==
  IF p # NoPref /\ p.model \in Models("gemini", tier) THEN p.model ELSE DefaultOf("gemini", tier)

HasGemini(a) ==
  /\ At(a, "has gemini")
  /\ Goto(a, IF Key("gemini") THEN "gemini" ELSE "vertex")
  /\ UNCHANGED <<Account, calls, through>>

TryGemini(a) ==
  /\ At(a, "gemini")
  /\ IF Key("gemini") THEN Decided(a, "gemini", GeminiModel(Pref(a), Pref(a).tier), FALSE)
     ELSE Goto(a, "vertex")
  /\ UNCHANGED <<Account, calls, through>>

\* _default_llm: whatever key there is, Vertex first.
TryDefault(a) ==
  /\ LET free == GeminiModel(Pref(a), "free")
     IN \/ At(a, "vertex") /\ IF Key("gcp") THEN Decided(a, "gemini", free, TRUE)
                              ELSE Goto(a, "any gemini")
        \/ At(a, "any gemini") /\ IF Key("gemini") THEN Decided(a, "gemini", free, FALSE)
                                  ELSE Goto(a, "any anthropic")
        \/ At(a, "any anthropic")
           /\ IF Key("anthropic") THEN Decided(a, "anthropic", DefaultModel["config"], FALSE)
              ELSE Goto(a, "any cli")
        \/ At(a, "any cli")
           /\ IF Usable("claude_subscription")
              THEN Decided(a, "claude_cli", DefaultModel["cli"], FALSE)
              ELSE llm' = [llm EXCEPT ![a] = Rest] \* no key at all: RuntimeError
  /\ UNCHANGED <<Account, calls, through>>

------------------------------------------------------------------------------
(* call_llm                                                                    *)

Ends(a) == llm' = [llm EXCEPT ![a] = Rest]

\* A passing failure: the same request is asked again.
Retried(a) ==
  /\ llm[a].provider # "claude_cli" /\ llm[a].tries + 1 < MaxTries
  /\ llm' = [llm EXCEPT ![a].tries = @ + 1]

\* An answer that is cut and has a text is asked to go on.
Continued(a) ==
  /\ llm[a].provider # "claude_cli" /\ llm[a].continued < MaxContinuations
  /\ llm' = [llm EXCEPT ![a].tries = 0, ![a].continued = @ + 1]

\* One request: the CLI answers or fails at once.
Request(a) ==
  /\ At(a, "request")
  /\ Ends(a) \/ Retried(a) \/ Continued(a)
  /\ UNCHANGED <<Account, calls, through>>

Next ==
  \/ \E k \in KeyNames : SaveKey(k) \/ DeleteKey(k)
  \/ \E p \in Proposed : TestPreference(p)
  \/ \E named \in SUBSET Agents : SavePreference(named)
  \/ \E a \in Agents :
       \/ Call(a) \/ TryCli(a) \/ HasAnthropic(a) \/ TryAnthropic(a)
       \/ HasGemini(a) \/ TryGemini(a) \/ TryDefault(a) \/ Request(a)

Spec == Init /\ [][Next]_vars

------------------------------------------------------------------------------
(* Properties.                                                                 *)

\* The provider and the model the owner chose are used whenever their key can be
\* used all through the resolution, whatever other keys are added or removed: the
\* key is on file and, for a Claude subscription, the claude command is on the
\* machine of the agents (without it another provider is taken, without a word).
PreferenceIsHonoured ==
  \A a \in Agents : At(a, "request") /\ Pref(a) # NoPref /\ KeyOf(Pref(a).provider) \in through[a]
    => llm[a].provider = Pref(a).provider /\ llm[a].model = Pref(a).model
===============================================================================
