----------------------------- MODULE MediaLibrary -----------------------------
(***************************************************************************)
(* The media of a creation: `studio.tools search-media`, `preview` and     *)
(* `download`, several of which may run at once.  What a search finds is   *)
(* numbered in candidates.json, a candidate is fetched once into a cache   *)
(* by its number, and credits.json holds the rights of each file of        *)
(* media/.  The registers are read, then written whole, without a lock.    *)
(* Downloads in progress together have different names.                    *)
(***************************************************************************)
EXTENDS Naturals, Sequences

CONSTANTS
  Commands,    \* commands that may be in progress at once
  Items,       \* media of the sources: each with its own rights
  Kind,        \* extension of each of them
  Refused,     \* those whose licence is not publishable, or without a URL
  Broken,      \* those that come down unreadable
  Names,       \* names given by --name
  MaxFound,    \* MAX_RESULTS_PER_SOURCE, for all the sources
  MaxSearches, \* bound of the number of searches
  MaxUses      \* bound of the number of previews and downloads

VARIABLES
  registry, \* candidates.json: candidate cN is the N-th
  cached,   \* media/.cache, by number and extension
  stored,   \* media/: what each file holds
  credits,  \* credits.json: the rights of which item
  cmd,      \* commands in progress
  searches, uses,
  shifted,  \* history: numbers given twice by searches that overlapped
  doubt     \* history: files whose credit was lost by an overlap or a kill

MediaAssumption ==
  /\ Kind \in [Items -> STRING] /\ Refused \subseteq Items /\ Broken \subseteq Items
  /\ MaxFound \in Nat /\ MaxSearches \in Nat /\ MaxUses \in Nat

vars == <<registry, cached, stored, credits, cmd, searches, uses, shifted, doubt>>

Absent == "absent"
Torn == "torn"

Kinds == {Kind[i] : i \in Items}
Numbers == 1 .. MaxFound * MaxSearches
Places == Names \X Kinds

\* What the sources find and filter_publishable accepts, with a URL: a source that
\* failed finds nothing, what is refused is left out.
Accepted == UNION {[1 .. n -> Items \ Refused] : n \in 0 .. MaxFound}

Rest == [at |-> "idle", seen |-> <<>>, found |-> <<>>, number |-> 0, item |-> Absent,
         name |-> Absent, held |-> <<>>]

Init ==
  /\ registry = <<>> /\ cached = [k \in Numbers \X Kinds |-> Absent]
  /\ stored = [p \in Places |-> Absent] /\ credits = [p \in Places |-> Absent]
  /\ cmd = [c \in Commands |-> Rest]
  /\ searches = 0 /\ uses = 0 /\ shifted = {} /\ doubt = {}

Labels == {"idle", "ask", "list", "fetch", "verify", "copy", "probe", "credit"}

MediaTypeOK ==
  /\ registry \in Seq(Items \ Refused) /\ Len(registry) \in {0} \cup Numbers
  /\ cached \in [Numbers \X Kinds -> Items \cup {Absent, Torn}]
  /\ stored \in [Places -> Items \cup {Absent, Torn}]
  /\ credits \in [Places -> Items \cup {Absent}]
  /\ \A c \in Commands : /\ cmd[c].at \in Labels
                         /\ cmd[c].item \in Items \cup {Absent}
                         /\ cmd[c].number \in {0} \cup Numbers
                         /\ cmd[c].name \in Names \cup {Absent}
  /\ searches \in 0 .. MaxSearches /\ uses \in 0 .. MaxUses
  /\ shifted \subseteq Numbers /\ doubt \subseteq Places

At(c, label) == cmd[c].at = label
Goto(c, label) == cmd' = [cmd EXCEPT ![c].at = label]
Ends(c) == cmd' = [cmd EXCEPT ![c] = Rest]
library == <<cached, stored, credits>>

------------------------------------------------------------------------------
(* search_media                                                                *)

Search(c) ==
  /\ At(c, "idle") /\ searches < MaxSearches /\ searches' = searches + 1
  /\ Goto(c, "ask")
  /\ UNCHANGED <<registry, library, uses, shifted, doubt>>

\* The sources have answered, and the register is read.
ReadRegistry(c, found) ==
  /\ At(c, "ask")
  /\ cmd' = [cmd EXCEPT ![c].at = "list", ![c].seen = registry, ![c].found = found]
  /\ UNCHANGED <<registry, library, searches, uses, shifted, doubt>>

\* Mutation of Numbered: each search numbers its candidates from 1.
NumberedAnew(seen, found) == found

\* The candidates of a search are numbered after those of the register.
Numbered(seen, found) == seen \o found

WriteRegistry(c) ==
  /\ At(c, "list") /\ Ends(c)
  /\ registry' = Numbered(cmd[c].seen, cmd[c].found)
  /\ shifted' = IF registry = cmd[c].seen THEN shifted
                ELSE shifted \cup {n \in DOMAIN registry : n > Len(cmd[c].seen)}
  /\ UNCHANGED <<library, searches, uses, doubt>>

------------------------------------------------------------------------------
(* preview_candidates and download_candidate                                   *)

\* A preview of a candidate, or a download of it under a name.
Use(c, number, name) ==
  /\ At(c, "idle") /\ number \in DOMAIN registry /\ uses < MaxUses /\ uses' = uses + 1
  /\ \A d \in Commands : name # Absent => cmd[d].name # name
  /\ cmd' = [cmd EXCEPT ![c] = [Rest EXCEPT !.at = "fetch", !.number = number,
                                            !.item = registry[number], !.name = name]]
  /\ UNCHANGED <<registry, library, searches, shifted, doubt>>

Cache(c) == <<cmd[c].number, Kind[cmd[c].item]>>
Place(c) == <<cmd[c].name, Kind[cmd[c].item]>>

\* Two commands that fetch the same candidate write the same .part file.
Shared(c) == \E d \in Commands \ {c} : At(d, "fetch") /\ Cache(d) = Cache(c)

\* _cached_download: what is in the cache already is not fetched again.
Fetch(c) ==
  /\ At(c, "fetch")
  /\ \/ cached[Cache(c)] # Absent /\ Goto(c, "verify") /\ UNCHANGED cached
     \/ /\ cached[Cache(c)] = Absent /\ Goto(c, "verify")
        /\ \E content \in {cmd[c].item} \cup (IF Shared(c) THEN {Torn} ELSE {}) :
             cached' = [cached EXCEPT ![Cache(c)] = content]
     \/ \* the source does not answer, or another command took the .part file
        cached[Cache(c)] = Absent /\ Ends(c) /\ UNCHANGED cached
  /\ UNCHANGED <<registry, stored, credits, searches, uses, shifted, doubt>>

\* _verified_cache_file: an unreadable file leaves the cache; a torn video may pass.
Verify(c) ==
  /\ At(c, "verify")
  /\ \/ /\ cached[Cache(c)] \notin Broken \cup {Absent}
        /\ IF cmd[c].name = Absent THEN Ends(c) ELSE Goto(c, "copy")
        /\ UNCHANGED cached
     \/ /\ cached[Cache(c)] \in Broken \cup {Torn, Absent}
        /\ cached' = [cached EXCEPT ![Cache(c)] = Absent] /\ Ends(c)
  /\ UNCHANGED <<registry, stored, credits, searches, uses, shifted, doubt>>

\* The cached file is copied; its number may have changed hands.
Copy(c) ==
  /\ At(c, "copy")
  /\ IF cached[Cache(c)] = Absent THEN Ends(c) /\ UNCHANGED <<stored, doubt>>
     ELSE /\ stored' = [stored EXCEPT ![Place(c)] = cached[Cache(c)]] /\ Goto(c, "probe")
          /\ doubt' = IF cmd[c].number \in shifted \/ cached[Cache(c)] = Torn
                      THEN doubt \cup {Place(c)} ELSE doubt \ {Place(c)}
  /\ UNCHANGED <<registry, cached, credits, searches, uses, shifted>>

\* The copy is probed, then record_credit reads the register.
ReadCredits(c) ==
  /\ At(c, "probe")
  /\ cmd' = [cmd EXCEPT ![c].at = "credit", ![c].held = credits]
  /\ UNCHANGED <<registry, library, searches, uses, shifted, doubt>>

WriteCredits(c) ==
  /\ At(c, "credit") /\ Ends(c)
  /\ credits' = [cmd[c].held EXCEPT ![Place(c)] = cmd[c].item]
  /\ doubt' = doubt \cup {p \in Places \ {Place(c)} : credits[p] # cmd[c].held[p]}
  /\ UNCHANGED <<registry, cached, stored, searches, uses, shifted>>

\* A command is killed; a copy without its credit, or half a copy, stays.
Kill(c) ==
  /\ ~At(c, "idle") /\ Ends(c)
  /\ stored' \in {stored} \cup (IF At(c, "copy") THEN {[stored EXCEPT ![Place(c)] = Torn]} ELSE {})
  /\ doubt' = IF At(c, "copy") \/ At(c, "probe") \/ At(c, "credit")
              THEN doubt \cup {Place(c)} ELSE doubt
  /\ UNCHANGED <<registry, cached, credits, searches, uses, shifted>>

Next ==
  \E c \in Commands :
    \/ Search(c) \/ WriteRegistry(c) \/ \E found \in Accepted : ReadRegistry(c, found)
    \/ \E number \in Numbers, name \in Names \cup {Absent} : Use(c, number, name)
    \/ Fetch(c) \/ Verify(c) \/ Copy(c) \/ ReadCredits(c) \/ WriteCredits(c) \/ Kill(c)

Spec == Init /\ [][Next]_vars

------------------------------------------------------------------------------
(* Properties.                                                                 *)

\* "The rights of each downloaded file are held in media/credits.json"
\* (media.py): a file of media/ is credited to the item it holds, whatever the
\* cache kept from earlier searches, previews and failed downloads, unless two
\* searches overlapped, two credits were written at once, or a command was killed
\* between the copy and the credit.
RightsFollowFiles ==
  \A p \in Places \ doubt :
    \/ stored[p] \in {Absent, credits[p]}
    \/ \E c \in Commands : (At(c, "probe") \/ At(c, "credit")) /\ Place(c) = p
===============================================================================
