------------------------- MODULE CommentReplies_proofs -------------------------
(* Proof that a comment has the answers of one call of client.reply at most,   *)
(* that the agent implements AtMostOnce, and that the cap of a publication is  *)
(* passed by the answers whose word was lost at most.                          *)
EXTENDS CommentReplies, FiniteSetTheorems, TLAPS

\* A comment that left "none" and "pending" never gets back there.
Closed(c) == Status(c) \in {"sending", "replied", "skipped", "failed"}

Plan == [at : Labels, todo : SUBSET Pubs, list : SUBSET Comments, answered : SUBSET Comments,
         kept : SUBSET Comments, dropped : SUBSET Comments, due : SUBSET Comments,
         tries : [Comments -> Nat], posts : Nat, sent : BOOLEAN]

RowPlan == [status : Statuses, due : BOOLEAN, attempts : Nat]

\* Types, without the bounds of the counters.
Types ==
  /\ seen \subseteq Comments /\ replies \in [Comments -> Nat] /\ sendings \in [Comments -> Nat]
  /\ row \in [Comments -> RowPlan]
  /\ pass \in [Passes -> Plan] /\ client \in [Pubs -> Clients]

Answering == {"claim", "send", "write"}

\* A pass about to answer has one comment in hand, which is known.
InHand ==
  \A p \in Passes : pass[p].at \in Answering =>
    \E c \in Comments : pass[p].kept = {c} /\ Status(c) # "none"

\* What a pass selected, and what it is about to give back, is known already.
Known ==
  \A p \in Passes :
    /\ \A c \in pass[p].due : Status(c) # "none"
    /\ pass[p].at = "commit" =>
         \A c \in pass[p].list : Status(c) # "none" /\ c \notin pass[p].kept \cup pass[p].dropped

\* The POSTs of an answer are counted while it is sent.
Unposted == \A p \in Passes : pass[p].at \notin {"send", "write"} => pass[p].posts = 0

\* What pass p, about to post the answer to c, knows of it.
Posting(p, c) ==
  /\ sendings[c] = IF pass[p].posts = 0 THEN 0 ELSE 1
  /\ replies[c] <= pass[p].posts /\ pass[p].posts < MaxPosts
  /\ Client(c) = "once" => pass[p].posts = 0

\* An answer is sent for a comment that is closed, by one pass.
InOneHand ==
  \A p \in Passes : \A c \in Comments :
    pass[p].at \in {"send", "write"} /\ pass[p].kept = {c} =>
      /\ Closed(c)
      /\ pass[p].at = "send" => Posting(p, c)
      /\ \A q \in Passes : pass[q].at \in {"send", "write"} /\ pass[q].kept = {c} => q = p

\* A comment the agent called client.reply for is closed, and has the answers of one
\* call at most.
Answered ==
  \A c \in Comments :
    /\ (sendings[c] = 0 /\ replies[c] = 0) \/ (sendings[c] = 1 /\ Closed(c))
    /\ replies[c] <= Most(c)

Inv == Types /\ InHand /\ Known /\ Unposted /\ InOneHand /\ Answered

------------------------------------------------------------------------------
(* What a step does to the rows.                                               *)

\* A row goes from none to pending or closed, from pending to closed, and not back.
Moves ==
  \A c \in Comments :
    /\ Status(c)' = "none" => Status(c) = "none"
    /\ Status(c)' = "pending" => Status(c) \in {"none", "pending"}

\* The rows of a step, whatever it does to the rest.
LEMMA BecomesMoves ==
  ASSUME Types, NEW c \in Comments, NEW s \in Statuses \ {"none", "pending"}, Becomes(c, s)
  PROVE  Moves
BY DEF Types, RowPlan, Becomes, Moves, Status, Statuses

LEMMA StepsMove ==
  ASSUME CommentAssumption, Inv, [Next]_vars PROVE Moves
<1> USE DEF Inv, Types, RowPlan
<1>1. CASE UNCHANGED row  BY <1>1 DEF Moves, Status
<1>2. ASSUME NEW p \in Passes, Commit(p) PROVE Moves
  <2> DEFINE new == pass[p].kept \cup pass[p].dropped
  <2>1. CASE \E c \in new : Status(c) # "none"  BY <1>1, <1>2, <2>1 DEF Commit
  <2>2. CASE \A c \in new : Status(c) = "none"
    <3>1. ASSUME NEW c \in Comments
          PROVE  row'[c] = CASE c \in pass[p].kept -> Row("pending")
                             [] c \in pass[p].dropped -> Row("skipped")
                             [] c \in pass[p].list -> [row[c] EXCEPT !.status = "skipped", !.due = FALSE]
                             [] OTHER -> row[c]
      BY <1>2, <2>2 DEF Commit
    <3>2. ASSUME NEW c \in Comments
          PROVE  \/ row'[c].status = row[c].status
                 \/ c \in new \/ row'[c].status = "skipped"
      BY <3>1 DEF Row
    <3> QED  BY <2>2, <3>2 DEF Moves, Status
  <2> QED  BY <2>1, <2>2
<1>3. ASSUME NEW p \in Passes, NEW c \in Comments, Unsupported(p, c) PROVE Moves
  BY <1>3, BecomesMoves DEF Unsupported, Statuses
<1>4. ASSUME NEW p \in Passes, NEW c \in Comments, Decide(p, c) PROVE Moves
  <2>1. CASE Becomes(c, "skipped")  BY <2>1, BecomesMoves DEF Statuses
  <2>2. CASE row' = [row EXCEPT ![c].attempts = pass[p].tries[c] + 1, ![c].due = FALSE,
                       ![c].status = IF pass[p].tries[c] + 1 >= MaxAttempts THEN "failed" ELSE @]
    BY <2>2 DEF Moves, Status
  <2> QED  BY <1>1, <1>4, <2>1, <2>2 DEF Decide
<1>5. ASSUME NEW p \in Passes, Claim(p) \/ Write(p) PROVE Moves
  <2>1. pass[p].at \in Answering /\ Subject(p) \in Comments
    <3>1. pass[p].at \in Answering  BY <1>5 DEF Claim, Write, At, Answering
    <3> QED  BY <3>1 DEF InHand, Subject
  <2> QED  BY <1>1, <1>5, <2>1, BecomesMoves DEF Claim, Write, Statuses
<1>6. ASSUME NEW c \in Comments, BecomeDue(c) PROVE Moves
  BY <1>6 DEF BecomeDue, Moves, Status
<1> QED
  <2>1. CASE Next
    BY <2>1, <1>1, <1>2, <1>3, <1>4, <1>5, <1>6 DEF Next, Step, Begin, List, Upsert, Select, Send,
       ReadLock, DeleteLock, WriteRefused, Arrive, HumanReply, Expire, Lapse, LimitBegins, LimitEnds,
       ChangeProvider, Crash
  <2>2. CASE UNCHANGED vars  BY <1>1, <2>2 DEF vars
  <2> QED  BY <2>1, <2>2

LEMMA ClosedStays ==
  ASSUME Types, Types', Moves, NEW c \in Comments
  PROVE  (Closed(c) => Closed(c)') /\ (Status(c) # "none" => Status(c)' # "none")
<1>1. Status(c) \in Statuses /\ Status(c)' \in Statuses  BY DEF Types, RowPlan, Status
<1> QED  BY <1>1 DEF Moves, Closed, Statuses

------------------------------------------------------------------------------
(* The invariant.                                                              *)

\* A step that leaves the passes and the answers alone.
LEMMA RowsOnly ==
  ASSUME Inv, Types', Moves, UNCHANGED <<pass, replies, sendings, client>> PROVE Inv'
<1> USE DEF Inv
<1>1. InHand'  BY ClosedStays DEF InHand
<1>2. Known'
  <2>1. Types  OBVIOUS
  <2>2. ASSUME NEW c \in Comments, Status(c) # "none" PROVE Status(c)' # "none"
    BY <2>1, <2>2, ClosedStays
  <2>3. \A p \in Passes : pass[p].due \subseteq Comments /\ pass[p].list \subseteq Comments
    BY <2>1 DEF Types, Plan
  <2> QED  BY <2>2, <2>3 DEF Known
<1>3. InOneHand'  BY ClosedStays DEF InOneHand, Posting, Client
<1>4. Answered'  BY ClosedStays DEF Answered, Most, Client
<1>5. Unposted'  BY DEF Unposted
<1> QED  BY <1>1, <1>2, <1>3, <1>4, <1>5

\* A step that changes one pass, which does not answer then.
LEMMA OnePass ==
  ASSUME Inv, Types', Moves, UNCHANGED <<replies, sendings, client>>,
         NEW p \in Passes, NEW r \in Plan, pass' = [pass EXCEPT ![p] = r],
         r.at \notin {"send", "write"}, r.posts = 0,
         r.at = "claim" => \E c \in Comments : r.kept = {c} /\ Status(c)' # "none",
         \A c \in r.due : Status(c)' # "none",
         r.at = "commit" => \A c \in r.list : Status(c)' # "none" /\ c \notin r.kept \cup r.dropped
  PROVE  Inv'
<1> USE DEF Inv
<1>1. /\ pass'[p] = r
      /\ \A q \in Passes \ {p} : pass'[q] = pass[q]
  BY DEF Types
<1>2. ASSUME NEW c \in Comments PROVE (Closed(c) => Closed(c)') /\ (Status(c) # "none" => Status(c)' # "none")
  BY ClosedStays
<1>3. InHand'  BY <1>1, <1>2 DEF InHand, Answering
<1>4. Known'
  <2>1. \A q \in Passes : pass[q].due \subseteq Comments /\ pass[q].list \subseteq Comments
    BY DEF Types, Plan
  <2>2. ASSUME NEW q \in Passes \ {p}
        PROVE /\ \A c \in pass'[q].due : Status(c)' # "none"
              /\ pass'[q].at = "commit" =>
                   \A c \in pass'[q].list : Status(c)' # "none" /\ c \notin pass'[q].kept \cup pass'[q].dropped
    BY <1>1, <1>2, <2>1 DEF Known
  <2> QED  BY <1>1, <2>2 DEF Known
<1>5. InOneHand'
  BY <1>1, <1>2 DEF InOneHand, Posting, Client
<1>6. Answered'  BY <1>2 DEF Answered, Most, Client
<1>7. Unposted'  BY <1>1 DEF Unposted
<1> QED  BY <1>3, <1>4, <1>5, <1>6, <1>7

\* Rows keep their type.
LEMMA RowsTyped ==
  ASSUME Types, [Next]_vars
  PROVE  row' \in [Comments -> RowPlan]
<1> USE DEF Types
<1>1. CASE UNCHANGED row  BY <1>1
<1>2. ASSUME NEW p \in Passes, Commit(p) PROVE row' \in [Comments -> RowPlan]
  <2>1. Row("pending") \in RowPlan /\ Row("skipped") \in RowPlan  BY DEF Row, RowPlan, Statuses
  <2>2. \A c \in Comments : [row[c] EXCEPT !.status = "skipped", !.due = FALSE] \in RowPlan
    BY DEF RowPlan, Statuses
  <2> QED  BY <1>1, <1>2, <2>1, <2>2 DEF Commit
<1>3. ASSUME NEW p \in Passes, NEW c \in Comments, Unsupported(p, c) \/ Decide(p, c)
      PROVE row' \in [Comments -> RowPlan]
  <2>1. pass[p].tries[c] + 1 \in Nat  BY DEF Plan
  <2> QED  BY <1>1, <1>3, <2>1 DEF Unsupported, Decide, Becomes, RowPlan, Statuses
<1>4. ASSUME NEW p \in Passes, Claim(p) \/ Write(p) PROVE row' \in [Comments -> RowPlan]
  BY <1>1, <1>4 DEF Claim, Write, Becomes, RowPlan, Statuses
<1>5. ASSUME NEW c \in Comments, BecomeDue(c) PROVE row' \in [Comments -> RowPlan]
  BY <1>5 DEF BecomeDue, RowPlan
<1> QED
  <2>1. CASE Next
    BY <2>1, <1>1, <1>2, <1>3, <1>4, <1>5 DEF Next, Step, Begin, List, Upsert, Select, Send,
       ReadLock, DeleteLock, WriteRefused, Arrive, HumanReply, Expire, Lapse, LimitBegins, LimitEnds,
       ChangeProvider, Crash
  <2>2. CASE UNCHANGED vars  BY <1>1, <2>2 DEF vars
  <2> QED  BY <2>1, <2>2

\* A step that changes one pass, with the types it needs.
LEMMA QuietPass ==
  ASSUME Inv, Moves, row' \in [Comments -> RowPlan], seen' \subseteq Comments,
         UNCHANGED <<replies, sendings, client>>,
         NEW p \in Passes, NEW r \in Plan, pass' = [pass EXCEPT ![p] = r],
         r.at \notin {"send", "write"}, r.posts = 0,
         r.at = "claim" => \E c \in Comments : r.kept = {c} /\ Status(c) # "none",
         \A c \in r.due : Status(c) # "none",
         r.at = "commit" => \A c \in r.list : Status(c) # "none" /\ c \notin r.kept \cup r.dropped
  PROVE  Inv'
<1>1. Types'  BY DEF Inv, Types
<1>2. ASSUME NEW c \in Comments, Status(c) # "none" PROVE Status(c)' # "none"
  BY <1>1, <1>2, ClosedStays DEF Inv
<1>3. r.due \subseteq Comments /\ r.list \subseteq Comments  BY DEF Plan
<1> QED  BY <1>1, <1>2, <1>3, OnePass

\* The pass after it is done with a comment.
After(p, c) == [pass[p] EXCEPT !.at = "next", !.due = @ \ {c}, !.tries[c] = 0, !.posts = 0,
                               !.sent = FALSE, !.kept = {}]

LEMMA DoneIs ==
  ASSUME Types, NEW p \in Passes, NEW c \in Comments, Done(p, c)
  PROVE  /\ pass' = [pass EXCEPT ![p] = After(p, c)]
         /\ After(p, c) \in Plan /\ After(p, c).at = "next" /\ After(p, c).posts = 0
         /\ After(p, c).due = pass[p].due \ {c} /\ After(p, c).kept = {}
<1>1. pass' = [pass EXCEPT ![p] = After(p, c)]  BY DEF Done, After
<1>2. pass[p] \in Plan  BY DEF Types
<1>3. /\ After(p, c) \in Plan /\ After(p, c).at = "next" /\ After(p, c).posts = 0
      /\ After(p, c).due = pass[p].due \ {c} /\ After(p, c).kept = {}
  BY <1>2 DEF After, Plan, Labels
<1> QED  BY <1>1, <1>3

\* The steps of a pass that neither take a comment nor answer.
LEMMA QuietSteps ==
  ASSUME CommentAssumption, Inv, Moves, row' \in [Comments -> RowPlan], NEW p \in Passes,
         \/ Begin(p) \/ WriteRefused(p) \/ Upsert(p) \/ Commit(p) \/ Select(p) \/ ReadLock(p) \/ DeleteLock(p)
         \/ \E b \in Pubs : List(p, b)
         \/ \E c \in Comments : Unsupported(p, c) \/ Decide(p, c)
  PROVE  Inv'
<1> USE DEF At
<1>0. /\ Types /\ pass[p] \in Plan /\ Idle \in Plan /\ Idle.posts = 0
      /\ \A c \in pass[p].due : Status(c) # "none"
  BY DEF Inv, Types, Known, Idle, Plan, Labels, NoTries
<1>9. ASSUME pass[p].at \notin {"send", "write"} PROVE pass[p].posts = 0
  BY <1>9 DEF Inv, Unposted
<1>1. CASE Begin(p)
  <2> DEFINE r == [Idle EXCEPT !.at = "collect", !.todo = Pubs]
  <2>1. r \in Plan /\ r.at = "collect" /\ r.due = {} /\ r.posts = 0  BY DEF Idle, Plan, Labels, NoTries
  <2> QED  BY <1>0, <1>1, <2>1, QuietPass DEF Begin, platform, setting, Types
<1>2. CASE WriteRefused(p)
  <2> DEFINE r == [Idle EXCEPT !.at = "next"]
  <2>1. r \in Plan /\ r.at = "next" /\ r.due = {} /\ r.posts = 0  BY DEF Idle, Plan, Labels, NoTries
  <2> QED  BY <1>0, <1>2, <2>1, QuietPass DEF WriteRefused, platform, setting, Types
<1>3. CASE Upsert(p)
  <2> DEFINE fresh == {c \in pass[p].list : Status(c) = "none"}
             freed == {c \in pass[p].list \cap pass[p].answered : Status(c) = "pending"}
             r(kept) == [pass[p] EXCEPT !.at = "commit", !.list = freed, !.answered = {},
                                        !.kept = kept, !.dropped = fresh \ kept]
  <2>0. PICK kept \in SUBSET (fresh \ (Noise \cup pass[p].answered)) :
          pass' = [pass EXCEPT ![p].at = "commit", ![p].list = freed, ![p].answered = {},
                               ![p].kept = kept, ![p].dropped = fresh \ kept]
    BY <1>3, Zenon DEF Upsert
  <2> HIDE DEF fresh, freed
  <2>1. pass' = [pass EXCEPT ![p] = r(kept)]
    BY <1>0, <2>0 DEF Types
  <2> USE DEF fresh, freed
  <2>2. kept \subseteq fresh  OBVIOUS
  <2>3. r(kept) \in Plan /\ r(kept).at = "commit" /\ r(kept).due = pass[p].due /\ r(kept).posts = 0
    BY <1>0, <1>3, <1>9, <2>2 DEF Plan, Labels, Upsert
  <2>4. \A c \in r(kept).list : Status(c) # "none" /\ c \notin r(kept).kept \cup r(kept).dropped
    BY <1>0, <2>2 DEF Plan
  <2>5. UNCHANGED <<seen, replies, sendings, client>> /\ seen' \subseteq Comments
    BY <1>0, <1>3 DEF Upsert, platform, setting, Types
  <2> HIDE DEF r
  <2> QED  BY <1>0, <2>1, <2>3, <2>4, <2>5, QuietPass
<1>4. CASE Commit(p)
  <2> DEFINE r == [pass[p] EXCEPT !.at = "collect", !.list = {}, !.kept = {}, !.dropped = {}]
  <2>1. r \in Plan /\ r.at = "collect" /\ r.due = pass[p].due /\ r.posts = 0
    BY <1>0, <1>4, <1>9 DEF Plan, Labels, Commit
  <2>2. pass' = [pass EXCEPT ![p] = r]  BY <1>4 DEF Commit
  <2>3. UNCHANGED <<seen, replies, sendings, client>>  BY <1>4 DEF Commit, platform, setting
  <2>4. seen' \subseteq Comments  BY <1>0, <2>3 DEF Types
  <2> HIDE DEF r
  <2> QED  BY <1>0, <2>1, <2>2, <2>3, <2>4, QuietPass
<1>5. CASE Select(p)
  <2> DEFINE read(some) == [c \in Comments |-> IF c \in some THEN row[c].attempts ELSE 0]
             r(some) == [pass[p] EXCEPT !.at = "next", !.due = some, !.tries = read(some)]
             due == IF limited THEN {} ELSE {c \in Comments : Status(c) = "pending" /\ row[c].due}
  <2>1. \E some \in SUBSET due :
          pass' = [pass EXCEPT ![p].at = "next", ![p].due = some, ![p].tries = read(some)]
    BY <1>5, Zenon DEF Select
  <2> HIDE DEF read
  <2>2. PICK some \in SUBSET due : pass' = [pass EXCEPT ![p] = r(some)]
    BY <1>0, <2>1 DEF Types
  <2>3. some \subseteq Comments /\ \A c \in some : Status(c) # "none"
    BY <2>2
  <2>6. read(some) \in [Comments -> Nat]  BY <1>0 DEF read, Types, RowPlan
  <2>4. r(some) \in Plan /\ r(some).at = "next" /\ r(some).due = some /\ r(some).posts = 0
    BY <1>0, <1>5, <1>9, <2>3, <2>6 DEF Plan, Labels, Select
  <2>5. UNCHANGED <<seen, replies, sendings, client>> /\ seen' \subseteq Comments
    BY <1>0, <1>5 DEF Select, platform, setting, Types
  <2> HIDE DEF r
  <2> QED  BY <2>2, <2>3, <2>4, <2>5, QuietPass
<1>6. CASE ReadLock(p) \/ DeleteLock(p)
  <2> DEFINE r(label) == [pass[p] EXCEPT !.at = label]
  <2>1. PICK label \in {"delete", "idle"} : pass' = [pass EXCEPT ![p] = r(label)]
    BY <1>6 DEF ReadLock, DeleteLock, Goto
  <2>2. r(label) \in Plan /\ r(label).at = label /\ r(label).due = pass[p].due /\ r(label).posts = 0
    BY <1>0, <1>6, <1>9 DEF Plan, Labels, ReadLock, DeleteLock
  <2>3. UNCHANGED <<seen, replies, sendings, client>> /\ seen' \subseteq Comments
    BY <1>0, <1>6 DEF ReadLock, DeleteLock, platform, setting, Types
  <2>4. r(label).at \in {"delete", "idle"}  BY <2>1, <2>2
  <2> HIDE DEF r
  <2> QED  BY <1>0, <2>1, <2>2, <2>3, <2>4, QuietPass
<1>7. ASSUME NEW b \in Pubs, List(p, b) PROVE Inv'
  <2> DEFINE all == {c \in seen : PubOf[c] = b}
             rest == pass[p].todo \ {b}
             read == [pass[p] EXCEPT !.at = "upsert", !.todo = rest, !.list = all,
                                     !.answered = {c \in all : c \in human \/ replies[c] > 0}]
             passed == [pass[p] EXCEPT !.todo = rest]
  <2>1. PICK r \in {read, passed} : pass' = [pass EXCEPT ![p] = r]
    BY <1>7 DEF List
  <2>2. all \subseteq Comments  BY <1>0 DEF Types
  <2>3. read \in Plan /\ read.at = "upsert" /\ read.due = pass[p].due /\ read.posts = 0
    BY <1>0, <1>7, <1>9, <2>2 DEF Plan, Labels, List
  <2>4. passed \in Plan /\ passed.at = "collect" /\ passed.due = pass[p].due /\ passed.posts = 0
    BY <1>0, <1>7, <1>9 DEF Plan, List
  <2>5. UNCHANGED <<seen, replies, sendings, client>> /\ seen' \subseteq Comments
    BY <1>0, <1>7 DEF List, platform, setting, Types
  <2> HIDE DEF read, passed
  <2>6. r \in Plan /\ r.at \in {"upsert", "collect"} /\ r.due = pass[p].due /\ r.posts = 0  BY <2>1, <2>3, <2>4
  <2> QED  BY <1>0, <2>1, <2>5, <2>6, QuietPass
<1>8. ASSUME NEW c \in Comments, Unsupported(p, c) \/ Decide(p, c) PROVE Inv'
  <2> DEFINE done == After(p, c)
             chosen == [pass[p] EXCEPT !.at = "claim", !.kept = {c}]
  <2>1. \/ pass' = [pass EXCEPT ![p] = done] /\ Done(p, c)
        \/ pass' = [pass EXCEPT ![p] = chosen]
    <3>1. CASE Done(p, c)  BY <1>0, <3>1, DoneIs
    <3>2. CASE pass' = [pass EXCEPT ![p].at = "claim", ![p].kept = {c}]  BY <3>2
    <3> QED  BY <1>8, <3>1, <3>2 DEF Unsupported, Decide
  <2>2. Done(p, c) =>
          done \in Plan /\ done.at = "next" /\ done.due \subseteq pass[p].due /\ done.posts = 0
    BY <1>0, DoneIs
  <2>3. chosen \in Plan /\ chosen.at = "claim" /\ chosen.due = pass[p].due /\ chosen.kept = {c} /\ chosen.posts = 0
    BY <1>0, <1>8, <1>9 DEF Plan, Labels, Unsupported, Decide
  <2>4. Status(c) # "none"  BY <1>0, <1>8 DEF Unsupported, Decide
  <2>5. UNCHANGED <<seen, replies, sendings, client>> /\ seen' \subseteq Comments
    BY <1>0, <1>8 DEF Unsupported, Decide, platform, setting, Types
  <2>6. Done(p, c) => \A d \in done.due : Status(d) # "none"  BY <1>0, <2>2
  <2>7. \A d \in chosen.due : Status(d) # "none"  BY <1>0, <2>3
  <2> HIDE DEF done, chosen
  <2>8. CASE pass' = [pass EXCEPT ![p] = done] /\ Done(p, c)  BY <2>2, <2>5, <2>6, <2>8, QuietPass
  <2>9. CASE pass' = [pass EXCEPT ![p] = chosen]  BY <2>3, <2>4, <2>5, <2>7, <2>9, QuietPass
  <2> QED  BY <2>1, <2>8, <2>9
<1> QED  BY <1>1, <1>2, <1>3, <1>4, <1>5, <1>6, <1>7, <1>8

\* The end of a comment in hand.
LEMMA EndsQuietly ==
  ASSUME Inv, Moves, row' \in [Comments -> RowPlan], UNCHANGED <<platform, setting>>,
         NEW p \in Passes, NEW c \in Comments, Done(p, c)
  PROVE  Inv'
<1> DEFINE done == After(p, c)
<1>1. pass[p] \in Plan /\ \A d \in pass[p].due : Status(d) # "none"  BY DEF Inv, Types, Known
<1>2. done \in Plan /\ done.at = "next" /\ done.posts = 0 /\ \A d \in done.due : Status(d) # "none"
  BY <1>1, DoneIs DEF Inv
<1>3. pass' = [pass EXCEPT ![p] = done]  BY DoneIs DEF Inv
<1>4. UNCHANGED <<seen, replies, sendings, client>> /\ seen' \subseteq Comments
  BY DEF Inv, Types, platform, setting
<1> HIDE DEF done
<1> QED  BY <1>2, <1>3, <1>4, QuietPass

\* Claim takes a pending comment, or leaves the one that is no longer so.
LEMMA ClaimKeeps ==
  ASSUME CommentAssumption, Inv, Moves, row' \in [Comments -> RowPlan], NEW p \in Passes, Claim(p)
  PROVE  Inv'
<1>1. PICK c \in Comments : pass[p].kept = {c}  BY DEF Claim, At, Inv, InHand, Answering
<1>2. Subject(p) = c  BY <1>1 DEF Subject
<1>3. CASE Status(c) # "pending"
  <2>1. Done(p, c) /\ UNCHANGED <<platform, setting>>  BY <1>2, <1>3 DEF Claim
  <2> QED  BY <2>1, EndsQuietly
<1>4. CASE Status(c) = "pending"
  <2>1. Becomes(c, "sending") /\ Goto(p, "send") /\ UNCHANGED <<seen, replies, sendings, client>>
    BY <1>2, <1>4 DEF Claim, platform, setting
  <2>2. Types /\ pass[p] \in Plan  BY DEF Inv, Types
  <2>3. /\ pass'[p] = [pass[p] EXCEPT !.at = "send"]
        /\ \A q \in Passes \ {p} : pass'[q] = pass[q]
    BY <2>1, <2>2 DEF Goto, Types
  <2>4. pass'[p].at = "send" /\ pass'[p].kept = {c} /\ pass'[p].due = pass[p].due
        /\ pass'[p].posts = 0
    BY <1>1, <2>2, <2>3 DEF Plan, Inv, Unposted, Claim, At
  <2>5. Types'
    <3>1. [pass[p] EXCEPT !.at = "send"] \in Plan  BY <2>2 DEF Plan, Labels
    <3> QED  BY <2>1, <2>2, <3>1 DEF Types, Goto
  <2>6. ASSUME NEW d \in Comments
        PROVE (Closed(d) => Closed(d)') /\ (Status(d) # "none" => Status(d)' # "none")
    BY <2>2, <2>5, ClosedStays
  <2>7. Closed(c)' /\ ~Closed(c) /\ Status(c)' # "none"
    BY <1>4, <2>1, <2>2 DEF Closed, Status, Becomes, Types, RowPlan
  <2>8. replies[c] = 0 /\ sendings[c] = 0  BY <2>7 DEF Inv, Answered
  <2>13. Posting(p, c)'  BY <2>1, <2>4, <2>8 DEF Posting, CommentAssumption
  <2>9. InHand'
    <3>1. ASSUME NEW q \in Passes \ {p}, pass[q].at \in Answering
          PROVE  \E d \in Comments : pass[q].kept = {d} /\ Status(d)' # "none"
      BY <2>6, <3>1 DEF Inv, InHand
    <3>2. ASSUME NEW q \in Passes, pass'[q].at \in Answering
          PROVE  \E d \in Comments : pass'[q].kept = {d} /\ Status(d)' # "none"
      <4>1. CASE q = p  BY <2>4, <2>7, <4>1
      <4>2. CASE q # p
        <5>1. pass'[q] = pass[q]  BY <2>3, <4>2
        <5> QED  BY <3>1, <3>2, <4>2, <5>1
      <4> QED  BY <4>1, <4>2
    <3> QED  BY <3>2 DEF InHand, Answering
  <2>10. Known'
    <3>1. ASSUME NEW q \in Passes PROVE pass[q].due \subseteq Comments /\ pass[q].list \subseteq Comments
      BY <2>2 DEF Types, Plan
    <3>2. ASSUME NEW q \in Passes
          PROVE  /\ \A d \in pass[q].due : Status(d)' # "none"
                 /\ pass[q].at = "commit" =>
                      \A d \in pass[q].list : Status(d)' # "none" /\ d \notin pass[q].kept \cup pass[q].dropped
      BY <2>6, <3>1 DEF Inv, Known
    <3> QED  BY <2>3, <2>4, <3>2 DEF Known
  <2>11. InOneHand'
    <3>1. ASSUME NEW q \in Passes, pass[q].at \in {"send", "write"} PROVE pass[q].kept # {c}
      BY <2>7, <3>1 DEF Inv, InOneHand
    <3>2. ASSUME NEW q \in Passes, NEW d \in Comments, pass'[q].at \in {"send", "write"}, pass'[q].kept = {d}
          PROVE  /\ Closed(d)'
                 /\ pass'[q].at = "send" => Posting(q, d)'
                 /\ \A o \in Passes : pass'[o].at \in {"send", "write"} /\ pass'[o].kept = {d} => o = q
      <4>1. CASE q = p
        <5>1. d = c  BY <2>4, <3>2, <4>1
        <5> QED  BY <2>3, <2>7, <2>13, <3>1, <4>1, <5>1
      <4>2. CASE q # p
        <5>1. pass'[q] = pass[q]  BY <2>3, <4>2
        <5>2. d # c  BY <3>1, <3>2, <5>1
        <5>3. /\ Closed(d)
              /\ pass[q].at = "send" => Posting(q, d)
              /\ \A o \in Passes : pass[o].at \in {"send", "write"} /\ pass[o].kept = {d} => o = q
          BY <3>2, <5>1 DEF Inv, InOneHand
        <5>4. \A o \in Passes : pass'[o].at \in {"send", "write"} /\ pass'[o].kept = {d} => o = q
          BY <2>3, <2>4, <5>2, <5>3
        <5>5. pass[q].at = "send" => Posting(q, d)'  BY <2>1, <5>1, <5>3 DEF Posting, Client
        <5> QED  BY <2>6, <5>1, <5>3, <5>4, <5>5
      <4> QED  BY <4>1, <4>2
    <3> QED  BY <3>2 DEF InOneHand
  <2>12. Answered'  BY <2>1, <2>6 DEF Inv, Answered, Most, Client
  <2>14. Unposted'  BY <2>3, <2>4 DEF Inv, Unposted
  <2> QED  BY <2>5, <2>9, <2>10, <2>11, <2>12, <2>14 DEF Inv
<1> QED  BY <1>3, <1>4

\* The one pass that holds a comment sends its answer.
LEMMA SendKeeps ==
  ASSUME CommentAssumption, Inv, NEW p \in Passes, Send(p)
  PROVE  Inv'
<1>1. PICK c \in Comments : pass[p].kept = {c}  BY DEF Send, At, Inv, InHand, Answering
<1>2. Subject(p) = c  BY <1>1 DEF Subject
<1>3. Types /\ pass[p] \in Plan  BY DEF Inv, Types
<1>4. /\ pass[p].at = "send" /\ Closed(c) /\ Posting(p, c)
      /\ \A q \in Passes : pass[q].at \in {"send", "write"} /\ pass[q].kept = {c} => q = p
  BY <1>1 DEF Send, At, Inv, InOneHand
<1>5. /\ sendings' = [sendings EXCEPT ![c] = 1]
      /\ UNCHANGED <<seen, row, client>>
  <2>1. sendings' = IF pass[p].posts = 0 THEN [sendings EXCEPT ![c] = @ + 1] ELSE sendings
    BY <1>2 DEF Send
  <2>2. sendings \in [Comments -> Nat] /\ sendings[c] = IF pass[p].posts = 0 THEN 0 ELSE 1
    BY <1>3, <1>4 DEF Types, Posting
  <2>3. sendings' = [sendings EXCEPT ![c] = 1]
    <3>1. CASE pass[p].posts = 0  BY <2>1, <2>2, <3>1
    <3>2. CASE pass[p].posts # 0  BY <2>1, <2>2, <3>2
    <3> QED  BY <3>1, <3>2
  <2> QED  BY <2>3 DEF Send, setting
<1>6. \/ replies' = replies
      \/ replies' = [replies EXCEPT ![c] = @ + 1] /\ (Client(c) # "keyed" \/ replies[c] = 0)
  <2>1. replies' = replies \/ Taken(c)  BY <1>2 DEF Send
  <2>2. replies[c] \in Nat  BY <1>3 DEF Types
  <2> QED  BY <2>1, <2>2 DEF Taken
<1>7. PICK r \in Plan : /\ r.kept = {c} /\ r.due = pass[p].due
                       /\ \/ r.at = "write"
                          \/ /\ r.at = "send" /\ r.posts = pass[p].posts + 1
                             /\ Client(c) # "once" /\ r.posts < MaxPosts
                       /\ pass' = [pass EXCEPT ![p] = r]
  <2> DEFINE silent == [pass[p] EXCEPT !.at = "write"]
             heard == [pass[p] EXCEPT !.at = "write", !.sent = TRUE]
             again == [pass[p] EXCEPT !.posts = @ + 1]
  <2>1. silent \in Plan /\ silent.at = "write" /\ silent.kept = {c} /\ silent.due = pass[p].due
    BY <1>1, <1>3 DEF Plan, Labels
  <2>2. heard \in Plan /\ heard.at = "write" /\ heard.kept = {c} /\ heard.due = pass[p].due
    BY <1>1, <1>3 DEF Plan, Labels
  <2>3. again \in Plan /\ again.at = "send" /\ again.posts = pass[p].posts + 1 /\ again.kept = {c}
        /\ again.due = pass[p].due
    BY <1>1, <1>3, <1>4 DEF Plan, Labels
  <2>4. CASE Goto(p, "write")  BY <2>1, <2>4 DEF Goto
  <2>5. CASE pass' = [pass EXCEPT ![p].at = "write", ![p].sent = TRUE]
    <3>1. pass' = [pass EXCEPT ![p] = heard]  BY <1>3, <2>5 DEF Types
    <3> QED  BY <2>2, <3>1
  <2>6. CASE /\ Client(c) # "once" /\ pass[p].posts + 1 < MaxPosts
             /\ pass' = [pass EXCEPT ![p].posts = @ + 1]
    <3>1. pass' = [pass EXCEPT ![p] = again]  BY <2>6
    <3> HIDE DEF again
    <3> QED  BY <2>3, <2>6, <3>1
  <2> QED  BY <1>2, <2>4, <2>5, <2>6 DEF Send
<1>8. pass'[p] = r /\ \A q \in Passes \ {p} : pass'[q] = pass[q]  BY <1>3, <1>7 DEF Types
<1>9. \A d \in Comments : (Closed(d)' <=> Closed(d)) /\ Status(d)' = Status(d) /\ Client(d)' = Client(d)
  BY <1>5 DEF Closed, Status, Client
<1>10. /\ replies \in [Comments -> Nat] /\ sendings \in [Comments -> Nat] /\ pass[p].posts \in Nat
       /\ MaxPosts \in Nat
  BY <1>3 DEF Types, Plan, CommentAssumption
<1>11. /\ sendings'[c] = 1 /\ replies'[c] \in Nat /\ replies'[c] <= pass[p].posts + 1
       /\ Client(c) = "keyed" => replies'[c] <= 1
       /\ \A d \in Comments \ {c} : replies'[d] = replies[d] /\ sendings'[d] = sendings[d]
  <2>1. replies[c] <= pass[p].posts /\ replies[c] \in Nat  BY <1>4, <1>10 DEF Posting
  <2>2. Client(c) = "keyed" => replies[c] <= 1  BY DEF Inv, Answered, Most
  <2>3. sendings'[c] = 1 /\ \A d \in Comments \ {c} : sendings'[d] = sendings[d]  BY <1>5, <1>10
  <2>4. CASE replies' = replies  BY <1>10, <2>1, <2>2, <2>3, <2>4
  <2>5. CASE replies' = [replies EXCEPT ![c] = @ + 1] /\ (Client(c) # "keyed" \/ replies[c] = 0)
    <3>1. replies'[c] = replies[c] + 1 /\ \A d \in Comments \ {c} : replies'[d] = replies[d]
      BY <1>10, <2>5
    <3> QED  BY <1>10, <2>1, <2>3, <2>5, <3>1
  <2> QED  BY <1>6, <2>4, <2>5
<1>12. Types'
  <2>1. replies' \in [Comments -> Nat]
    <3>1. CASE replies' = replies  BY <1>10, <3>1
    <3>2. CASE replies' = [replies EXCEPT ![c] = @ + 1]
      <4>1. replies[c] + 1 \in Nat  BY <1>10
      <4> QED  BY <1>10, <3>2, <4>1
    <3> QED  BY <1>6, <3>1, <3>2
  <2>2. sendings' \in [Comments -> Nat]  BY <1>5, <1>10
  <2>3. pass' \in [Passes -> Plan]  BY <1>3, <1>7 DEF Types
  <2> QED  BY <1>3, <1>5, <2>1, <2>2, <2>3 DEF Types
<1>13. InHand'  BY <1>1, <1>4, <1>7, <1>8, <1>9 DEF Inv, InHand, Answering
<1>14. Known'
  <2>1. ASSUME NEW q \in Passes PROVE pass[q].due \subseteq Comments /\ pass[q].list \subseteq Comments
    BY <1>3 DEF Types, Plan
  <2>2. ASSUME NEW q \in Passes
        PROVE  /\ \A d \in pass[q].due : Status(d)' # "none"
               /\ pass[q].at = "commit" =>
                    \A d \in pass[q].list : Status(d)' # "none" /\ d \notin pass[q].kept \cup pass[q].dropped
    BY <1>9, <2>1 DEF Inv, Known
  <2> QED  BY <1>7, <1>8, <2>2 DEF Known
<1>15. Unposted'  BY <1>7, <1>8 DEF Inv, Unposted
<1>16. InOneHand'
  <2>1. ASSUME r.at = "send" PROVE Posting(p, c)'
    <3>1. r.posts = pass[p].posts + 1 /\ Client(c) # "once" /\ r.posts < MaxPosts  BY <1>7, <2>1
    <3> QED  BY <1>8, <1>9, <1>10, <1>11, <3>1 DEF Posting
  <2>2. ASSUME NEW q \in Passes, NEW d \in Comments, pass'[q].at \in {"send", "write"}, pass'[q].kept = {d}
        PROVE  /\ Closed(d)'
               /\ pass'[q].at = "send" => Posting(q, d)'
               /\ \A o \in Passes : pass'[o].at \in {"send", "write"} /\ pass'[o].kept = {d} => o = q
    <3>1. CASE q = p
      <4>1. d = c  BY <1>7, <1>8, <2>2, <3>1
      <4> QED  BY <1>4, <1>7, <1>8, <1>9, <2>1, <3>1, <4>1
    <3>2. CASE q # p
      <4>1. pass'[q] = pass[q]  BY <1>8, <3>2
      <4>2. d # c  BY <1>4, <2>2, <3>2, <4>1
      <4>3. /\ Closed(d)
            /\ pass[q].at = "send" => Posting(q, d)
            /\ \A o \in Passes : pass[o].at \in {"send", "write"} /\ pass[o].kept = {d} => o = q
        BY <2>2, <4>1 DEF Inv, InOneHand
      <4>4. \A o \in Passes : pass'[o].at \in {"send", "write"} /\ pass'[o].kept = {d} => o = q
        BY <1>7, <1>8, <4>2, <4>3
      <4>5. Posting(q, d) => Posting(q, d)'
        BY <1>9, <1>11, <4>1, <4>2 DEF Posting
      <4> QED  BY <1>9, <4>1, <4>3, <4>4, <4>5
    <3> QED  BY <3>1, <3>2
  <2> QED  BY <2>2 DEF InOneHand
<1>17. Answered'
  <2>1. replies'[c] <= Most(c)
    <3>1. CASE Client(c) = "once"
      <4>1. pass[p].posts = 0  BY <1>4, <3>1 DEF Posting
      <4> QED  BY <1>11, <3>1, <4>1 DEF Most
    <3>2. CASE Client(c) = "keyed"  BY <1>11, <3>2 DEF Most
    <3>3. CASE Client(c) = "again"  BY <1>4, <1>10, <1>11, <3>3 DEF Most, Posting
    <3>4. Client(c) \notin {"once", "keyed", "again"} => FALSE
      BY DEF Inv, Types, Client, CommentAssumption, ClientKinds
    <3> QED  BY <3>1, <3>2, <3>3, <3>4
  <2> QED  BY <1>4, <1>9, <1>11, <2>1 DEF Inv, Answered, Most
<1> QED  BY <1>12, <1>13, <1>14, <1>15, <1>16, <1>17 DEF Inv

LEMMA CrashKeeps ==
  ASSUME Inv, Crash
  PROVE  Inv'
<1>1. /\ pass' = [p \in Passes |-> Idle] /\ UNCHANGED <<seen, replies, sendings, row, client>>
  BY DEF Crash, platform, setting
<1>2. Idle \in Plan /\ Idle.at = "idle" /\ Idle.due = {} /\ Idle.posts = 0  BY DEF Idle, Plan, Labels, NoTries
<1> HIDE DEF Idle
<1>3. Types'  BY <1>1, <1>2 DEF Inv, Types
<1>4. \A p \in Passes : pass'[p] = Idle  BY <1>1
<1>5. InHand' /\ Known' /\ Unposted' /\ InOneHand'
  BY <1>2, <1>4 DEF InHand, Known, Unposted, InOneHand, Answering
<1>6. Answered'  BY <1>1 DEF Inv, Answered, Closed, Status, Most, Client
<1> QED  BY <1>3, <1>5, <1>6 DEF Inv

LEMMA InvInit == ASSUME CommentAssumption, Init PROVE Inv
<1>1. Idle \in Plan /\ Idle.at = "idle" /\ Idle.due = {} /\ Idle.posts = 0  BY DEF Idle, Plan, Labels, NoTries
<1>2. Row("none") \in RowPlan  BY DEF Row, RowPlan, Statuses
<1> HIDE DEF Idle
<1>3. Types  BY <1>1, <1>2 DEF Init, Types
<1>4. \A p \in Passes : pass[p] = Idle  BY DEF Init
<1>5. InHand /\ Known /\ Unposted /\ InOneHand
  BY <1>1, <1>4 DEF InHand, Known, Unposted, InOneHand, Answering
<1>6. Answered  BY DEF Init, Answered, Most, CommentAssumption
<1> QED  BY <1>3, <1>5, <1>6 DEF Inv

LEMMA InvStep == ASSUME CommentAssumption, Inv, [Next]_vars PROVE Inv'
<1>1. Moves  BY StepsMove
<1>2. row' \in [Comments -> RowPlan]  BY RowsTyped DEF Inv
<1>3. ASSUME NEW p \in Passes, Begin(p) \/ Step(p) \/ WriteRefused(p) PROVE Inv'
  <2>1. CASE Claim(p)  BY <1>1, <1>2, <2>1, ClaimKeeps
  <2>2. CASE Send(p)  BY <2>2, SendKeeps
  <2>3. CASE Write(p)
    <3>1. PICK c \in Comments : pass[p].kept = {c}  BY <2>3 DEF Write, At, Inv, InHand, Answering
    <3>2. Done(p, c) /\ UNCHANGED <<platform, setting>>  BY <2>3, <3>1 DEF Write, Subject
    <3> QED  BY <1>1, <1>2, <3>2, EndsQuietly
  <2>4. CASE \/ Begin(p) \/ WriteRefused(p) \/ Upsert(p) \/ Commit(p) \/ Select(p) \/ ReadLock(p) \/ DeleteLock(p)
             \/ \E b \in Pubs : List(p, b)
             \/ \E c \in Comments : Unsupported(p, c) \/ Decide(p, c)
    BY <1>1, <1>2, <2>4, QuietSteps
  <2> QED  BY <1>3, <2>1, <2>2, <2>3, <2>4 DEF Step
<1>4. CASE \/ \E c \in Comments : Arrive(c) \/ HumanReply(c) \/ BecomeDue(c)
           \/ Expire \/ Lapse \/ LimitBegins \/ LimitEnds \/ ChangeProvider \/ UNCHANGED vars
  <2>1. UNCHANGED <<pass, replies, sendings, client>>
    BY <1>4 DEF Arrive, HumanReply, BecomeDue, Expire, Lapse, LimitBegins, LimitEnds, ChangeProvider, vars, platform,
       setting
  <2>2. seen' = seen \/ \E c \in Comments : seen' = seen \cup {c}
    BY <1>4 DEF Arrive, HumanReply, BecomeDue, Expire, Lapse, LimitBegins, LimitEnds, ChangeProvider, vars, platform
  <2>3. seen' \subseteq Comments  BY <2>2 DEF Inv, Types
  <2>4. Types'  BY <1>2, <2>1, <2>3 DEF Inv, Types
  <2> QED  BY <1>1, <2>1, <2>4, RowsOnly
<1>5. CASE Crash  BY <1>5, CrashKeeps
<1> QED  BY <1>3, <1>4, <1>5 DEF Next

\* A comment has the answers of one call of client.reply at most, whatever passes
\* overlap, locks lapse, answers are lost and processes die (comment_reply_agent.py):
\* one, but where Zernio posts an answer again (tiktok_providers.py, _request) that
\* TikTok does not know by its Idempotency-Key.
THEOREM RepliedOnceHolds == ASSUME CommentAssumption PROVE Spec => []RepliedOnce
<1>1. Init => Inv  BY InvInit
<1>2. Inv /\ [Next]_vars => Inv'  BY InvStep
<1>3. Inv => RepliedOnce  BY DEF Inv, Answered, RepliedOnce
<1> QED  BY <1>1, <1>2, <1>3, PTL DEF Spec

------------------------------------------------------------------------------
(* The refinement.                                                             *)

\* The state of the comments as AtMostOnce sees it.
Abs == [c \in Comments |-> CASE Status(c) = "none" -> "unknown"
                             [] Status(c) = "pending" -> "open"
                             [] OTHER -> "closed"]

\* What a step does to the calls of client.reply: nothing, or one for a closed comment.
LEMMA AnswersMove ==
  ASSUME Inv, [Next]_vars
  PROVE  \/ UNCHANGED sendings
         \/ /\ UNCHANGED row
            /\ \E c \in Comments : Closed(c) /\ sendings[c] = 0 /\ sendings' = [sendings EXCEPT ![c] = 1]
<1>1. ASSUME NEW p \in Passes, Send(p), sendings' # sendings
      PROVE  \E c \in Comments : Closed(c) /\ sendings[c] = 0 /\ sendings' = [sendings EXCEPT ![c] = 1]
  <2>1. PICK c \in Comments : pass[p].kept = {c}  BY <1>1 DEF Send, At, Inv, InHand, Answering
  <2>2. Closed(c) /\ Posting(p, c)  BY <1>1, <2>1 DEF Send, At, Inv, InOneHand
  <2>3. pass[p].posts = 0 /\ sendings' = [sendings EXCEPT ![c] = @ + 1]  BY <1>1, <2>1 DEF Send, Subject
  <2>4. sendings[c] = 0  BY <2>2, <2>3 DEF Posting
  <2>5. sendings' = [sendings EXCEPT ![c] = 1]  BY <2>3, <2>4
  <2> QED  BY <2>2, <2>4, <2>5
<1>2. ASSUME NEW p \in Passes, Send(p) PROVE UNCHANGED row  BY <1>2 DEF Send
<1>5. ASSUME NEW p \in Passes, Begin(p) \/ Step(p) \/ WriteRefused(p), ~Send(p) PROVE UNCHANGED sendings
  BY <1>5 DEF Step, platform, Begin, List, Upsert, Commit, Select, Unsupported, Decide, Claim, Write,
     ReadLock, DeleteLock, WriteRefused
<1>6. CASE \/ \E c \in Comments : Arrive(c) \/ HumanReply(c) \/ BecomeDue(c)
           \/ Expire \/ Lapse \/ LimitBegins \/ LimitEnds \/ ChangeProvider \/ Crash
  BY <1>6 DEF platform, Arrive, HumanReply, BecomeDue, Expire, Lapse, LimitBegins, LimitEnds, ChangeProvider, Crash
<1>3. CASE Next  BY <1>1, <1>2, <1>3, <1>5, <1>6 DEF Next
<1>4. CASE UNCHANGED vars  BY <1>4 DEF vars
<1> QED  BY <1>3, <1>4

\* The agent implements AtMostOnce: a comment it calls client.reply for was taken out
\* of the pending ones before, and none gets back there (comment_reply_agent.py).
\* What one call leaves on the platform is the client's part, not the agent's.
THEOREM RepliesRefine == ASSUME CommentAssumption PROVE Spec => RepliesAtMostOnce
<1>1. Init => Promise!Init
  BY DEF Init, Promise!Init, Status, Row
<1>2. ASSUME Inv, Inv', [Next]_vars PROVE [Promise!Next]_<<Abs, sendings>>
  <2>1. Moves  BY <1>2, StepsMove
  <2>2. ASSUME UNCHANGED sendings PROVE \E X, Y \in SUBSET Comments : Promise!Record(X, Y)
    <3> DEFINE X == {c \in Comments : Status(c) = "none" /\ Status(c)' # "none"}
               Y == {c \in Comments : Status(c) = "pending" /\ Status(c)' # "pending"}
               s == [c \in X |-> Abs'[c]]
    <3>1. ASSUME NEW c \in Comments PROVE Status(c) \in Statuses /\ Status(c)' \in Statuses
      BY <1>2 DEF Inv, Types, RowPlan, Status
    <3>2. s \in [X -> {"open", "closed"}]  BY DEF Abs
    <3>3. Abs' = [c \in Comments |-> IF c \in X THEN s[c] ELSE IF c \in Y THEN "closed" ELSE Abs[c]]
      BY <2>1, <3>1 DEF Abs, Moves, Statuses
    <3>4. (\A c \in X : Abs[c] = "unknown") /\ (\A c \in Y : Abs[c] = "open")  BY DEF Abs
    <3>5. Promise!Record(X, Y)  BY <2>2, <3>2, <3>3, <3>4 DEF Promise!Record, Abs
    <3> QED  BY <3>5
  <2>3. ASSUME UNCHANGED row, NEW c \in Comments, Closed(c), sendings[c] = 0, sendings' = [sendings EXCEPT ![c] = 1]
        PROVE  Promise!Act(c)
    <3>1. Abs[c] = "closed" /\ Abs' = Abs  BY <2>3 DEF Abs, Closed, Status
    <3> QED  BY <2>3, <3>1 DEF Promise!Act, Abs
  <2> QED  BY <1>2, <2>2, <2>3, AnswersMove DEF Promise!Next
<1>3. Init => Inv  BY InvInit
<1>4. Inv /\ [Next]_vars => Inv'  BY InvStep
<1> QED  BY <1>1, <1>2, <1>3, <1>4, PTL DEF Spec, RepliesAtMostOnce, Promise!Spec, Abs

------------------------------------------------------------------------------
(* The cap.                                                                    *)

\* The comments of a channel are rows of a table: finitely many.
FiniteComments == IsFiniteSet(Comments)

Holding == {"pending", "sending", "replied"}

OfPub(b) == {c \in Comments : PubOf[c] = b}

\* The answers of a publication that the rows count.
Places(b) == {c \in Comments : PubOf[c] = b /\ Status(c) \in Holding}

WithinCap == \A b \in Pubs : Cardinality(Places(b)) <= Cap

\* A pass in progress holds the lock: it is the only one.
Alone == \A p \in Passes : pass[p].at # "idle" => lock = p

\* An answer the platform took is that of a row being sent, replied or failed.
Shown == \A c \in Comments : replies[c] > 0 => Status(c) \in {"sending", "replied", "failed"}

\* What a pass is about to commit concerns one publication and fits its cap; what
\* it sends was taken, what it is about to take or to pass over is pending.
Fits(p) ==
  /\ pass[p].at \in {"upsert", "commit"} => \E b \in Pubs : pass[p].list \subseteq OfPub(b)
  /\ pass[p].at = "commit" =>
       \E b \in Pubs :
         /\ pass[p].list \cup pass[p].kept \subseteq OfPub(b)
         /\ \A c \in pass[p].list : Status(c) = "pending"
         /\ Cardinality(Places(b)) + Cardinality(pass[p].kept) <= Cap + Cardinality(pass[p].list)
  /\ pass[p].at \in {"send", "write"} =>
       /\ \A c \in pass[p].kept : Status(c) = "sending"
       /\ \A c \in pass[p].due \ pass[p].kept : Status(c) = "pending"
  /\ pass[p].at \in {"next", "claim"} => \A c \in pass[p].due : Status(c) = "pending"
  /\ pass[p].at = "claim" => \A c \in pass[p].kept : Status(c) = "pending"

InOrder == WithinCap /\ Alone /\ Shown /\ \A p \in Passes : Fits(p)

CapInv == ~lapsed => InOrder

\* Sets of comments are finite and counted as such.
LEMMA Counts ==
  ASSUME FiniteComments, NEW A \in SUBSET Comments
  PROVE  /\ IsFiniteSet(A) /\ Cardinality(A) \in Nat
         /\ \A B \in SUBSET A : Cardinality(B) <= Cardinality(A)
BY FS_Subset, FS_CardinalityType DEF FiniteComments

\* A step that posts nothing, and moves only rows that have no answer or one to show.
LEMMA ShownStays ==
  ASSUME Inv, Shown, UNCHANGED replies,
         \A c \in Comments : \/ Status(c)' = Status(c)
                            \/ Status(c) \in {"none", "pending"}
                            \/ Status(c)' \in {"sending", "replied", "failed"}
  PROVE  Shown'
<1> SUFFICES ASSUME NEW c \in Comments, replies'[c] > 0
             PROVE  Status(c)' \in {"sending", "replied", "failed"}
  BY DEF Shown
<1>1. replies[c] > 0 /\ Closed(c)  BY DEF Inv, Answered, Types
<1> QED  BY <1>1 DEF Shown, Closed

\* A step of one pass, alone, that gives no comment a place.
LEMMA StepOfOne ==
  ASSUME CommentAssumption, FiniteComments, WithinCap, NEW p \in Passes,
         \A q \in Passes \ {p} : pass[q].at = "idle" /\ pass'[q] = pass[q],
         pass'[p].at # "idle" => lock' = p,
         \A c \in Comments : Status(c)' \in Holding => Status(c) \in Holding,
         Shown', Fits(p)'
  PROVE  InOrder'
<1>1. WithinCap'
  <2> SUFFICES ASSUME NEW b \in Pubs PROVE Cardinality(Places(b)') <= Cap
    BY DEF WithinCap
  <2>1. Places(b)' \subseteq Places(b) /\ Places(b) \subseteq Comments  BY DEF Places
  <2>2. Cardinality(Places(b)') <= Cardinality(Places(b)) /\ Cardinality(Places(b)) \in Nat
        /\ Cardinality(Places(b)') \in Nat
    BY <2>1, Counts
  <2> QED  BY <2>2 DEF WithinCap, CommentAssumption
<1>2. Alone'  BY DEF Alone
<1>3. \A q \in Passes : Fits(q)'  BY DEF Fits
<1> QED  BY <1>1, <1>2, <1>3 DEF InOrder

\* A step that leaves the passes and the statuses alone.
LEMMA StepOfNone ==
  ASSUME Inv, InOrder, UNCHANGED <<pass, replies>>, \A c \in Comments : Status(c)' = Status(c),
         lock' = lock \/ \A q \in Passes : pass[q].at = "idle"
  PROVE  InOrder'
<1>1. \A b \in Pubs : Places(b)' = Places(b)  BY DEF Places
<1>2. WithinCap'  BY <1>1 DEF InOrder, WithinCap
<1>3. Alone'  BY DEF InOrder, Alone
<1>4. ASSUME NEW q \in Passes PROVE Fits(q)'
  <2>1. pass[q].list \subseteq Comments /\ pass[q].kept \subseteq Comments /\ pass[q].due \subseteq Comments
    BY DEF Inv, Types, Plan
  <2>2. Fits(q)  BY DEF InOrder
  <2>3. pass'[q] = pass[q]  OBVIOUS
  <2> QED  BY <1>1, <2>1, <2>2, <2>3 DEF Fits, OfPub
<1>5. Shown'  BY ShownStays DEF InOrder
<1> QED  BY <1>2, <1>3, <1>4, <1>5 DEF InOrder

\* A pass that collects or ends: nothing to fit.
LEMMA NothingToFit ==
  ASSUME NEW p \in Passes, pass'[p].at \in {"collect", "idle", "select", "get", "delete"}
  PROVE  Fits(p)'
BY DEF Fits

\* The steps of the pass in progress that neither choose what to keep nor commit.
LEMMA RepliesFit ==
  ASSUME CommentAssumption, FiniteComments, Inv, InOrder, NEW p \in Passes,
         \A q \in Passes \ {p} : pass[q].at = "idle",
         \/ Begin(p) \/ Select(p) \/ Claim(p) \/ Send(p) \/ Write(p) \/ ReadLock(p) \/ DeleteLock(p) \/ WriteRefused(p)
         \/ \E c \in Comments : Unsupported(p, c) \/ Decide(p, c),
         lock = p \/ Begin(p)
  PROVE  InOrder'
<1> USE DEF At
<1>0. Types /\ pass[p] \in Plan /\ WithinCap /\ Shown /\ Fits(p)  BY DEF Inv, Types, InOrder
<1>1. ASSUME NEW c \in Comments, NEW s \in Statuses, Becomes(c, s)
      PROVE  Status(c)' = s /\ \A d \in Comments \ {c} : Status(d)' = Status(d)
  BY <1>0, <1>1 DEF Types, RowPlan, Becomes, Status
<1>2. ASSUME NEW r \in Plan, pass' = [pass EXCEPT ![p] = r]
      PROVE  pass'[p] = r /\ \A q \in Passes \ {p} : pass[q].at = "idle" /\ pass'[q] = pass[q]
  BY <1>0, <1>2 DEF Types
<1>3. ASSUME NEW c \in Comments, Done(p, c)
      PROVE  /\ pass'[p].at = "next" /\ pass'[p].due = pass[p].due \ {c} /\ pass'[p].kept = {}
             /\ \A q \in Passes \ {p} : pass[q].at = "idle" /\ pass'[q] = pass[q]
  <2>1. /\ pass' = [pass EXCEPT ![p] = After(p, c)]
        /\ After(p, c) \in Plan /\ After(p, c).at = "next" /\ After(p, c).due = pass[p].due \ {c}
        /\ After(p, c).kept = {}
    BY <1>0, <1>3, DoneIs
  <2> QED  BY <1>2, <2>1
<1>4. ASSUME NEW label \in Labels, Goto(p, label)
      PROVE  /\ pass'[p].at = label /\ pass'[p].kept = pass[p].kept /\ pass'[p].due = pass[p].due
             /\ \A q \in Passes \ {p} : pass[q].at = "idle" /\ pass'[q] = pass[q]
  <2> DEFINE r == [pass[p] EXCEPT !.at = label]
  <2>1. r \in Plan /\ r.at = label /\ r.kept = pass[p].kept /\ r.due = pass[p].due  BY <1>0 DEF Plan, Labels
  <2>2. pass' = [pass EXCEPT ![p] = r]  BY <1>4 DEF Goto
  <2> HIDE DEF r
  <2> QED  BY <1>2, <2>1, <2>2
<1>5. ASSUME UNCHANGED row PROVE \A d \in Comments : Status(d)' = Status(d)  BY <1>5 DEF Status
<1>14. pass[p].due \subseteq Comments /\ pass[p].kept \subseteq Comments  BY <1>0 DEF Plan
<1>15. UNCHANGED replies \/ Send(p)
  BY DEF platform, Begin, Select, Claim, Write, ReadLock, DeleteLock, WriteRefused, Unsupported, Decide
<1>16. ASSUME UNCHANGED replies, UNCHANGED row PROVE Shown'  BY <1>0, <1>5, <1>16, ShownStays
<1>6. CASE Begin(p)
  <2> DEFINE r == [Idle EXCEPT !.at = "collect", !.todo = Pubs]
  <2>1. r \in Plan /\ r.at = "collect"  BY DEF Idle, Plan, Labels, NoTries
  <2>2. pass' = [pass EXCEPT ![p] = r] /\ lock' = p /\ UNCHANGED <<row, replies>>  BY <1>6 DEF Begin, platform
  <2> HIDE DEF r
  <2>3. Fits(p)'  BY <1>2, <2>1, <2>2, NothingToFit
  <2> QED  BY <1>0, <1>2, <1>5, <1>16, <2>1, <2>2, <2>3, StepOfOne
<1>7. CASE Select(p)
  <2> DEFINE due == IF limited THEN {} ELSE {c \in Comments : Status(c) = "pending" /\ row[c].due}
             read(some) == [c \in Comments |-> IF c \in some THEN row[c].attempts ELSE 0]
             r(some) == [pass[p] EXCEPT !.at = "next", !.due = some, !.tries = read(some)]
  <2>1. \E some \in SUBSET due :
          pass' = [pass EXCEPT ![p].at = "next", ![p].due = some, ![p].tries = read(some)]
    BY <1>7, Zenon DEF Select
  <2> HIDE DEF read
  <2>2. PICK some \in SUBSET due : pass' = [pass EXCEPT ![p] = r(some)]
    BY <1>0, <2>1 DEF Types
  <2>3. some \subseteq Comments /\ \A c \in some : Status(c) = "pending"
    BY <2>2
  <2>4. read(some) \in [Comments -> Nat]  BY <1>0 DEF read, Types, RowPlan
  <2>5. r(some) \in Plan /\ r(some).at = "next" /\ r(some).due = some
    BY <1>0, <2>3, <2>4 DEF Plan, Labels
  <2>6. lock' = lock /\ UNCHANGED <<row, replies>> /\ lock = p  BY <1>7 DEF Select, Begin, platform
  <2> HIDE DEF r
  <2>7. Fits(p)'  BY <1>2, <1>5, <2>2, <2>3, <2>5, <2>6 DEF Fits
  <2> QED  BY <1>0, <1>2, <1>5, <1>16, <2>2, <2>5, <2>6, <2>7, StepOfOne
<1>8. CASE Claim(p)
  <2>1. PICK c \in Comments : pass[p].kept = {c}  BY <1>8 DEF Claim, Inv, InHand, Answering
  <2>2. Subject(p) = c /\ lock' = lock /\ lock = p /\ UNCHANGED replies
    BY <1>8, <2>1 DEF Subject, Claim, Begin, platform
  <2>3. Status(c) = "pending" /\ \A d \in pass[p].due : Status(d) = "pending"
    BY <1>0, <1>8, <2>1 DEF Fits, Claim
  <2>4. Becomes(c, "sending") /\ Goto(p, "send")  BY <1>8, <2>2, <2>3 DEF Claim
  <2>5. Status(c)' = "sending" /\ \A d \in Comments \ {c} : Status(d)' = Status(d)
    BY <1>1, <2>4 DEF Statuses
  <2>6. Fits(p)'  BY <1>4, <1>14, <2>1, <2>3, <2>4, <2>5 DEF Fits, Labels
  <2>7. Shown'  BY <1>0, <2>2, <2>5, ShownStays
  <2> QED  BY <1>0, <1>4, <2>2, <2>3, <2>4, <2>5, <2>6, <2>7, StepOfOne DEF Labels, Holding
<1>9. CASE Send(p)
  <2>1. UNCHANGED row /\ lock' = lock /\ lock = p  BY <1>9 DEF Send, Begin
  <2>2. /\ pass'[p].at \in {"send", "write"} /\ pass'[p].kept = pass[p].kept /\ pass'[p].due = pass[p].due
        /\ \A q \in Passes \ {p} : pass[q].at = "idle" /\ pass'[q] = pass[q]
    <3> DEFINE heard == [pass[p] EXCEPT !.at = "write", !.sent = TRUE]
               again == [pass[p] EXCEPT !.posts = @ + 1]
    <3>1. CASE Goto(p, "write")  BY <1>4, <3>1 DEF Labels
    <3>2. CASE pass' = [pass EXCEPT ![p].at = "write", ![p].sent = TRUE]
      <4>1. heard \in Plan /\ heard.at = "write" /\ heard.kept = pass[p].kept /\ heard.due = pass[p].due
        BY <1>0 DEF Plan, Labels
      <4>2. pass' = [pass EXCEPT ![p] = heard]  BY <1>0, <3>2 DEF Types
      <4> HIDE DEF heard
      <4> QED  BY <1>2, <4>1, <4>2
    <3>3. CASE pass' = [pass EXCEPT ![p].posts = @ + 1]
      <4>1. again \in Plan /\ again.at = "send" /\ again.kept = pass[p].kept /\ again.due = pass[p].due
        BY <1>0, <1>9 DEF Plan, Labels, Send
      <4>2. pass' = [pass EXCEPT ![p] = again]  BY <3>3
      <4> HIDE DEF again
      <4> QED  BY <1>2, <4>1, <4>2
    <3> QED  BY <1>9, <3>1, <3>2, <3>3 DEF Send
  <2>3. PICK c \in Comments : pass[p].kept = {c}  BY <1>9 DEF Send, Inv, InHand, Answering
  <2>4. Status(c) = "sending"  BY <1>0, <1>9, <2>3 DEF Fits, Send
  <2>5. Fits(p)'  BY <1>0, <1>5, <1>9, <1>14, <2>1, <2>2 DEF Fits, Send
  <2>6. \A d \in Comments \ {c} : replies'[d] = replies[d]
    BY <1>0, <1>9, <2>3 DEF Send, Subject, Taken, Types
  <2>7. Shown'  BY <1>0, <1>5, <2>1, <2>4, <2>6 DEF Shown
  <2> QED  BY <1>0, <1>5, <2>1, <2>2, <2>5, <2>7, StepOfOne
<1>10. CASE Write(p)
  <2>1. PICK c \in Comments : pass[p].kept = {c}  BY <1>10 DEF Write, Inv, InHand, Answering
  <2>2. Subject(p) = c /\ lock' = lock /\ lock = p /\ UNCHANGED replies
    BY <1>10, <2>1 DEF Subject, Write, Begin, platform
  <2>3. Status(c) = "sending" /\ \A d \in pass[p].due \ {c} : Status(d) = "pending"
    BY <1>0, <1>10, <2>1 DEF Fits, Write
  <2>4. Done(p, c) /\ \E s \in {"replied", "failed"} : Becomes(c, s)  BY <1>10, <2>2 DEF Write
  <2>5. Status(c)' \in {"replied", "failed"} /\ \A d \in Comments \ {c} : Status(d)' = Status(d)
    BY <1>1, <2>4 DEF Statuses
  <2>6. Fits(p)'  BY <1>3, <1>14, <2>3, <2>4, <2>5 DEF Fits
  <2>7. Shown'  BY <1>0, <2>2, <2>5, ShownStays
  <2> QED  BY <1>0, <1>3, <2>2, <2>3, <2>4, <2>5, <2>6, <2>7, StepOfOne DEF Holding
<1>11. CASE ReadLock(p) \/ DeleteLock(p)
  <2>1. PICK label \in {"delete", "idle"} : Goto(p, label)  BY <1>11 DEF ReadLock, DeleteLock
  <2>2. label = "delete" => lock' = lock /\ lock = p
    <3>1. CASE ReadLock(p)  BY <3>1 DEF ReadLock, Begin
    <3>2. CASE DeleteLock(p)
      <4>1. Goto(p, "idle")  BY <3>2 DEF DeleteLock
      <4>2. label = "idle"  BY <1>4, <2>1, <4>1 DEF Labels
      <4> QED  BY <4>2
    <3> QED  BY <1>11, <3>1, <3>2
  <2>3. UNCHANGED <<row, replies>>  BY <1>11 DEF ReadLock, DeleteLock, platform
  <2>4. pass'[p].at = label  BY <1>4, <2>1 DEF Labels
  <2>5. Fits(p)'  BY <2>4, NothingToFit
  <2> QED  BY <1>0, <1>4, <1>5, <1>16, <2>1, <2>2, <2>3, <2>4, <2>5, StepOfOne DEF Labels
<1>12. CASE WriteRefused(p)
  <2> DEFINE r == [Idle EXCEPT !.at = "next"]
  <2>1. r \in Plan /\ r.at = "next" /\ r.due = {}  BY DEF Idle, Plan, Labels, NoTries
  <2>2. pass' = [pass EXCEPT ![p] = r] /\ lock' = lock /\ UNCHANGED <<row, replies>> /\ lock = p
    BY <1>12 DEF WriteRefused, Begin, platform
  <2> HIDE DEF r
  <2>3. Fits(p)'  BY <1>2, <2>1, <2>2 DEF Fits
  <2> QED  BY <1>0, <1>2, <1>5, <1>16, <2>1, <2>2, <2>3, StepOfOne
<1>13. ASSUME NEW c \in Comments, Unsupported(p, c) \/ Decide(p, c) PROVE InOrder'
  <2>1. lock' = lock /\ lock = p /\ UNCHANGED replies  BY <1>13 DEF Unsupported, Decide, Begin, platform
  <2>2. pass[p].at = "next" /\ c \in pass[p].due  BY <1>13 DEF Unsupported, Decide
  <2>3. \A d \in pass[p].due : Status(d) = "pending"  BY <1>0, <2>2 DEF Fits
  <2>4. CASE UNCHANGED row /\ pass' = [pass EXCEPT ![p].at = "claim", ![p].kept = {c}]
    <3> DEFINE r == [pass[p] EXCEPT !.at = "claim", !.kept = {c}]
    <3>1. r \in Plan /\ r.at = "claim" /\ r.kept = {c} /\ r.due = pass[p].due  BY <1>0 DEF Plan, Labels
    <3>2. pass' = [pass EXCEPT ![p] = r]  BY <1>0, <2>4 DEF Types
    <3> HIDE DEF r
    <3>3. Fits(p)'  BY <1>2, <1>5, <1>14, <2>2, <2>3, <2>4, <3>1, <3>2 DEF Fits
    <3> QED  BY <1>0, <1>2, <1>5, <1>16, <2>1, <2>4, <3>1, <3>2, <3>3, StepOfOne
  <2>5. CASE Done(p, c) /\ ( \/ Becomes(c, "skipped")
                             \/ row' = [row EXCEPT ![c].attempts = pass[p].tries[c] + 1, ![c].due = FALSE,
                                          ![c].status = IF pass[p].tries[c] + 1 >= MaxAttempts THEN "failed" ELSE @])
    <3>1. Status(c)' \in {"skipped", "failed", "pending"} /\ \A d \in Comments \ {c} : Status(d)' = Status(d)
      <4>1. CASE Becomes(c, "skipped")  BY <1>1, <4>1 DEF Statuses
      <4>2. CASE row' = [row EXCEPT ![c].attempts = pass[p].tries[c] + 1, ![c].due = FALSE,
                           ![c].status = IF pass[p].tries[c] + 1 >= MaxAttempts THEN "failed" ELSE @]
        BY <1>0, <2>2, <2>3, <4>2 DEF Types, RowPlan, Status
      <4> QED  BY <2>5, <4>1, <4>2
    <3>2. Fits(p)'  BY <1>3, <1>14, <2>3, <2>5, <3>1 DEF Fits
    <3>3. Shown'  BY <1>0, <2>1, <2>2, <2>3, <3>1, ShownStays
    <3> QED  BY <1>0, <1>3, <2>1, <2>2, <2>3, <2>5, <3>1, <3>2, <3>3, StepOfOne DEF Holding
  <2> QED  BY <1>13, <2>4, <2>5 DEF Unsupported, Decide
<1> QED  BY <1>6, <1>7, <1>8, <1>9, <1>10, <1>11, <1>12, <1>13

\* A listing and what it is about to commit concern one publication, and fit.
LEMMA ListFits ==
  ASSUME CommentAssumption, FiniteComments, Inv, InOrder, NEW p \in Passes,
         \A q \in Passes \ {p} : pass[q].at = "idle", lock = p,
         NEW b \in Pubs, List(p, b)
  PROVE  InOrder'
<1>0. Types /\ pass[p] \in Plan /\ WithinCap /\ Shown  BY DEF Inv, Types, InOrder
<1> DEFINE all == {c \in seen : PubOf[c] = b}
           rest == pass[p].todo \ {b}
           read == [pass[p] EXCEPT !.at = "upsert", !.todo = rest, !.list = all,
                                   !.answered = {c \in all : c \in human \/ replies[c] > 0}]
           passed == [pass[p] EXCEPT !.todo = rest]
<1>1. PICK r \in {read, passed} : pass' = [pass EXCEPT ![p] = r]  BY DEF List
<1>2. all \subseteq OfPub(b)  BY <1>0 DEF Types, OfPub
<1>3. read.at = "upsert" /\ read.list = all  BY <1>0 DEF Plan
<1>4. passed.at = "collect"  BY <1>0 DEF Plan, List, At
<1>5. pass'[p] = r /\ \A q \in Passes \ {p} : pass[q].at = "idle" /\ pass'[q] = pass[q]
  BY <1>0, <1>1 DEF Types
<1> HIDE DEF all, rest, read, passed
<1>6. r.at \in {"upsert", "collect"} /\ (r.at = "upsert" => r.list \subseteq OfPub(b))
  BY <1>1, <1>2, <1>3, <1>4
<1>7. Fits(p)'  BY <1>5, <1>6 DEF Fits, OfPub
<1>8. lock' = lock /\ UNCHANGED replies /\ \A d \in Comments : Status(d)' = Status(d)
  BY DEF List, Status, platform
<1>9. Shown'  BY <1>0, <1>8, ShownStays
<1> QED  BY <1>0, <1>5, <1>7, <1>8, <1>9, StepOfOne

LEMMA UpsertFits ==
  ASSUME CommentAssumption, FiniteComments, Inv, InOrder, NEW p \in Passes,
         \A q \in Passes \ {p} : pass[q].at = "idle", lock = p, Upsert(p)
  PROVE  InOrder'
<1>0. Types /\ pass[p] \in Plan /\ WithinCap /\ Shown /\ Fits(p)  BY DEF Inv, Types, InOrder
<1> DEFINE fresh == {c \in pass[p].list : Status(c) = "none"}
           freed == {c \in pass[p].list \cap pass[p].answered : Status(c) = "pending"}
           r(kept) == [pass[p] EXCEPT !.at = "commit", !.list = freed, !.answered = {},
                                      !.kept = kept, !.dropped = fresh \ kept]
<1>1. PICK kept \in SUBSET (fresh \ (Noise \cup pass[p].answered)) :
        /\ \A c \in kept : Used(PubOf[c]) + Cardinality(kept) <= Cap + Cardinality(freed)
        /\ pass' = [pass EXCEPT ![p].at = "commit", ![p].list = freed, ![p].answered = {},
                               ![p].kept = kept, ![p].dropped = fresh \ kept]
  BY Zenon DEF Upsert
<1>2. PICK b \in Pubs : pass[p].list \subseteq OfPub(b)  BY <1>0 DEF Fits, Upsert, At
<1>3. freed \cup kept \subseteq OfPub(b) /\ freed \subseteq Comments /\ kept \subseteq Comments
  BY <1>2 DEF OfPub
<1>4. \A c \in freed : Status(c) = "pending"  OBVIOUS
<1> HIDE DEF fresh, freed
<1>5. pass' = [pass EXCEPT ![p] = r(kept)]  BY <1>0, <1>1 DEF Types
<1>6. r(kept).at = "commit" /\ r(kept).list = freed /\ r(kept).kept = kept  BY <1>0 DEF Plan
<1> HIDE DEF r
<1>7. pass'[p] = r(kept) /\ \A q \in Passes \ {p} : pass[q].at = "idle" /\ pass'[q] = pass[q]
  BY <1>0, <1>5 DEF Types
<1>8. lock' = lock /\ UNCHANGED replies /\ \A d \in Comments : Status(d)' = Status(d)
  BY DEF Upsert, Status, platform
<1>15. Shown'  BY <1>0, <1>8, ShownStays
<1>9. Places(b)' = Places(b)  BY <1>8 DEF Places
<1>10. Used(b) = Cardinality(Places(b))  BY DEF Used, Places, Holding
<1>11. Cardinality(Places(b)) <= Cap  BY <1>0 DEF WithinCap
<1>12. /\ Cardinality(Places(b)) \in Nat /\ Cardinality(kept) \in Nat /\ Cardinality(freed) \in Nat
       /\ Cap \in Nat
  BY <1>3, Counts DEF Places, CommentAssumption
<1>13. Cardinality(Places(b)) + Cardinality(kept) <= Cap + Cardinality(freed)
  <2>1. CASE kept = {}
    <3>1. Cardinality(kept) = 0  BY <2>1, FS_EmptySet
    <3> QED  BY <1>11, <1>12, <3>1
  <2>2. CASE kept # {}
    <3>1. PICK c \in kept : TRUE  BY <2>2
    <3>2. PubOf[c] = b  BY <1>3, <3>1 DEF OfPub
    <3> QED  BY <1>1, <1>10, <3>1, <3>2
  <2> QED  BY <2>1, <2>2
<1>14. Fits(p)'  BY <1>3, <1>4, <1>6, <1>7, <1>8, <1>9, <1>13 DEF Fits, OfPub
<1> QED  BY <1>0, <1>7, <1>8, <1>14, <1>15, StepOfOne

\* The commit takes as many places as it may.
LEMMA CommitFits ==
  ASSUME CommentAssumption, FiniteComments, Inv, InOrder, NEW p \in Passes,
         \A q \in Passes \ {p} : pass[q].at = "idle", lock = p, Commit(p)
  PROVE  InOrder'
<1>0. Types /\ pass[p] \in Plan /\ WithinCap /\ Shown /\ Fits(p) /\ pass[p].at = "commit" /\ UNCHANGED replies
  BY DEF Inv, Types, InOrder, Commit, At, platform
<1> DEFINE new == pass[p].kept \cup pass[p].dropped
           r == [pass[p] EXCEPT !.at = "collect", !.list = {}, !.kept = {}, !.dropped = {}]
<1>1. r.at = "collect"  BY <1>0 DEF Plan
<1>2. pass' = [pass EXCEPT ![p] = r] /\ lock' = lock  BY DEF Commit
<1> HIDE DEF r
<1>3. pass'[p] = r /\ \A q \in Passes \ {p} : pass[q].at = "idle" /\ pass'[q] = pass[q]
  BY <1>0, <1>2 DEF Types
<1>4. Fits(p)'  BY <1>1, <1>3, NothingToFit
<1>5. CASE \E c \in new : Status(c) # "none"
  <2>1. UNCHANGED row  BY <1>5 DEF Commit
  <2>2. \A d \in Comments : Status(d)' = Status(d)  BY <2>1 DEF Status
  <2>3. Shown'  BY <1>0, <2>2, ShownStays
  <2> QED  BY <1>0, <1>2, <1>3, <1>4, <2>2, <2>3, StepOfOne
<1>6. CASE \A c \in new : Status(c) = "none"
  <2>1. ASSUME NEW c \in Comments
        PROVE  row'[c] = CASE c \in pass[p].kept -> Row("pending")
                           [] c \in pass[p].dropped -> Row("skipped")
                           [] c \in pass[p].list -> [row[c] EXCEPT !.status = "skipped", !.due = FALSE]
                           [] OTHER -> row[c]
    BY <1>6 DEF Commit
  <2>2. PICK b \in Pubs :
          /\ pass[p].list \cup pass[p].kept \subseteq OfPub(b)
          /\ \A c \in pass[p].list : Status(c) = "pending"
          /\ Cardinality(Places(b)) + Cardinality(pass[p].kept) <= Cap + Cardinality(pass[p].list)
    BY <1>0 DEF Fits
  <2>3. ASSUME NEW c \in Comments
        PROVE  Status(c)' \in Holding => c \in pass[p].kept \/ (Status(c) \in Holding /\ c \notin pass[p].list)
    <3>1. CASE c \in pass[p].kept  BY <3>1
    <3>2. CASE c \notin pass[p].kept /\ c \in pass[p].dropped
      <4>1. row'[c] = CASE c \in pass[p].kept -> Row("pending")
                         [] c \in pass[p].dropped -> Row("skipped")
                         [] c \in pass[p].list -> [row[c] EXCEPT !.status = "skipped", !.due = FALSE]
                         [] OTHER -> row[c]
        BY <2>1
      <4>2. row'[c].status = "skipped"  BY <1>0, <3>2, <4>1 DEF Row, Types, RowPlan
      <4> QED  BY <4>2 DEF Status, Holding
    <3>3. CASE c \notin new /\ c \in pass[p].list
      <4>1. row'[c] = [row[c] EXCEPT !.status = "skipped", !.due = FALSE]  BY <2>1, <3>3
      <4>2. row[c] \in RowPlan  BY <1>0 DEF Types
      <4>3. row'[c].status = "skipped"  BY <4>1, <4>2 DEF RowPlan
      <4> QED  BY <4>3 DEF Status, Holding
    <3>4. CASE c \notin new /\ c \notin pass[p].list
      <4>1. row'[c] = row[c]  BY <2>1, <3>4
      <4> QED  BY <3>4, <4>1 DEF Status
    <3> QED  BY <3>1, <3>2, <3>3, <3>4
  <2>4. pass[p].kept \subseteq Comments /\ pass[p].list \subseteq Comments  BY <1>0 DEF Plan
  <2>5. WithinCap'
    <3> SUFFICES ASSUME NEW a \in Pubs PROVE Cardinality(Places(a)') <= Cap
      BY DEF WithinCap
    <3>1. Places(a) \subseteq Comments /\ Places(a)' \subseteq Comments  BY DEF Places
    <3>2. /\ Cardinality(Places(a)) \in Nat /\ Cardinality(Places(a)') \in Nat
          /\ IsFiniteSet(Places(a)) /\ Cap \in Nat /\ Cardinality(Places(a)) <= Cap
      BY <1>0, <3>1, Counts DEF WithinCap, CommentAssumption
    <3>3. CASE a # b
      <4>1. Places(a)' \subseteq Places(a)  BY <2>2, <2>3, <3>3 DEF Places, OfPub
      <4> QED  BY <3>1, <3>2, <4>1, Counts
    <3>4. CASE a = b
      <4> DEFINE stay == Places(b) \ pass[p].list
      <4>1. pass[p].list \subseteq Places(b)  BY <2>2, <2>4 DEF Places, OfPub, Holding
      <4>2. Places(b)' \subseteq stay \cup pass[p].kept  BY <2>2, <2>3, <3>4 DEF Places
      <4>3. /\ IsFiniteSet(pass[p].kept) /\ Cardinality(pass[p].kept) \in Nat
            /\ IsFiniteSet(pass[p].list) /\ Cardinality(pass[p].list) \in Nat
        BY <2>4, Counts
      <4>4. IsFiniteSet(stay) /\ Cardinality(stay) = Cardinality(Places(b)) - Cardinality(pass[p].list)
        <5>1. Places(b) \cap pass[p].list = pass[p].list  BY <4>1
        <5>2. IsFiniteSet(Places(b))  BY <3>2, <3>4
        <5>3. /\ IsFiniteSet(Places(b) \ pass[p].list)
              /\ Cardinality(Places(b) \ pass[p].list) = Cardinality(Places(b)) - Cardinality(Places(b) \cap pass[p].list)
          BY <4>3, <5>2, FS_Difference
        <5> QED  BY <5>1, <5>3
      <4>5. /\ IsFiniteSet(stay \cup pass[p].kept)
            /\ Cardinality(stay \cup pass[p].kept) <= Cardinality(stay) + Cardinality(pass[p].kept)
        <5> HIDE DEF stay
        <5>1. IsFiniteSet(stay)  BY <4>4
        <5>2. IsFiniteSet(stay \cap pass[p].kept)  BY <5>1, FS_Subset
        <5>3. /\ Cardinality(stay \cap pass[p].kept) \in Nat
              /\ Cardinality(stay) \in Nat
          BY <5>1, <5>2, FS_CardinalityType
        <5> QED  BY <4>3, <5>1, <5>3, FS_Union
      <4>6. Cardinality(Places(b)') <= Cardinality(stay \cup pass[p].kept)
        BY <4>2, <4>5, FS_Subset
      <4>7. Cardinality(stay \cup pass[p].kept) \in Nat  BY <4>5, FS_CardinalityType
      <4> HIDE DEF stay
      <4> QED  BY <2>2, <3>2, <3>4, <4>3, <4>4, <4>5, <4>6, <4>7
    <3> QED  BY <3>3, <3>4
  <2>6. Alone'  BY <1>2, <1>3 DEF Alone
  <2>7. \A q \in Passes : Fits(q)'  BY <1>3, <1>4 DEF Fits
  <2>8. ASSUME NEW c \in Comments PROVE Status(c) \in {"none", "pending"} \/ Status(c)' = Status(c)
    <3>1. CASE c \in new  BY <1>6, <3>1
    <3>2. CASE c \in pass[p].list  BY <2>2, <3>2
    <3>3. CASE c \notin new /\ c \notin pass[p].list
      <4>1. row'[c] = row[c]  BY <2>1, <3>3
      <4> QED  BY <4>1 DEF Status
    <3> QED  BY <3>1, <3>2, <3>3
  <2>9. Shown'  BY <1>0, <2>8, ShownStays
  <2> QED  BY <2>5, <2>6, <2>7, <2>9 DEF InOrder
<1> QED  BY <1>5, <1>6

LEMMA CapStep ==
  ASSUME CommentAssumption, FiniteComments, Inv, CapInv, [Next]_vars PROVE CapInv'
<1>1. lapsed => lapsed'
  <2>1. ASSUME NEW p \in Passes, Begin(p) \/ Step(p) \/ WriteRefused(p) PROVE UNCHANGED lapsed
    BY <2>1 DEF Step, history, Begin, List, Upsert, Commit, Select, Unsupported, Decide, Claim, Send, Write,
       ReadLock, DeleteLock, WriteRefused
  <2>2. ASSUME NEW c \in Comments, Arrive(c) \/ HumanReply(c) \/ BecomeDue(c) PROVE UNCHANGED lapsed
    BY <2>2 DEF history, Arrive, HumanReply, BecomeDue
  <2>3. CASE Expire \/ Lapse \/ LimitBegins \/ LimitEnds \/ ChangeProvider \/ Crash \/ UNCHANGED vars
    BY <2>3 DEF history, Expire, Lapse, LimitBegins, LimitEnds, ChangeProvider, Crash, vars
  <2> QED  BY <2>1, <2>2, <2>3 DEF Next
<1> SUFFICES ASSUME ~lapsed' PROVE InOrder'  BY DEF CapInv
<1>2. InOrder /\ Types  BY <1>1 DEF CapInv, Inv
<1>3. ASSUME NEW p \in Passes, Begin(p) \/ Step(p) \/ WriteRefused(p) PROVE InOrder'
  <2>1. lock = p \/ Begin(p)
    <3>1. CASE Step(p) \/ WriteRefused(p)
      <4>1. pass[p].at # "idle"
        BY <3>1 DEF Step, At, List, Upsert, Commit, Select, Unsupported, Decide, Claim, Send, Write, ReadLock,
           DeleteLock, WriteRefused
      <4> QED  BY <1>2, <4>1 DEF InOrder, Alone
    <3> QED  BY <1>3, <3>1
  <2>2. \A q \in Passes \ {p} : pass[q].at = "idle"
    <3>1. CASE lock = p  BY <1>2, <3>1 DEF InOrder, Alone
    <3>2. CASE Begin(p)  BY <1>2, <3>2 DEF InOrder, Alone, Begin, CommentAssumption
    <3> QED  BY <2>1, <3>1, <3>2
  <2>3. CASE \/ Begin(p) \/ Select(p) \/ Claim(p) \/ Send(p) \/ Write(p) \/ ReadLock(p) \/ DeleteLock(p) \/ WriteRefused(p)
             \/ \E c \in Comments : Unsupported(p, c) \/ Decide(p, c)
    BY <1>2, <2>1, <2>2, <2>3, RepliesFit
  <2>4. CASE (\E b \in Pubs : List(p, b)) \/ Upsert(p) \/ Commit(p)
    <3>1. lock = p  BY <2>1, <2>4 DEF List, Upsert, Commit, Begin, At
    <3> QED  BY <1>2, <2>2, <2>4, <3>1, ListFits, UpsertFits, CommitFits
  <2> QED  BY <1>3, <2>3, <2>4 DEF Step
<1>4. CASE \/ \E c \in Comments : Arrive(c) \/ HumanReply(c) \/ BecomeDue(c)
           \/ Expire \/ LimitBegins \/ LimitEnds \/ ChangeProvider \/ UNCHANGED vars
  <2>1. UNCHANGED <<pass, replies>>
    BY <1>4 DEF Arrive, HumanReply, BecomeDue, Expire, LimitBegins, LimitEnds, ChangeProvider, vars, platform
  <2>2. \A c \in Comments : Status(c)' = Status(c)
    <3>1. CASE UNCHANGED row  BY <3>1 DEF Status
    <3>2. ASSUME NEW d \in Comments, BecomeDue(d) PROVE \A c \in Comments : Status(c)' = Status(c)
      BY <1>2, <3>2 DEF BecomeDue, Types, RowPlan, Status
    <3> QED  BY <1>4, <3>1, <3>2 DEF Arrive, HumanReply, Expire, LimitBegins, LimitEnds, ChangeProvider, vars
  <2>3. lock' = lock \/ \A q \in Passes : pass[q].at = "idle"
    <3>1. CASE Expire
      <4>1. pass[lock].at = "idle"  BY <3>1 DEF Expire, At
      <4> QED  BY <1>2, <4>1 DEF InOrder, Alone
    <3> QED  BY <1>4, <3>1 DEF Arrive, HumanReply, BecomeDue, LimitBegins, LimitEnds, ChangeProvider, vars
  <2> QED  BY <1>2, <2>1, <2>2, <2>3, StepOfNone
<1>5. CASE Lapse  BY <1>5 DEF Lapse
<1>6. CASE Crash
  <2>1. \A q \in Passes : pass'[q].at = "idle"  BY <1>6 DEF Crash, Idle
  <2>2. UNCHANGED <<row, replies>>  BY <1>6 DEF Crash, platform
  <2>6. Shown'  BY <1>2, <2>2, ShownStays DEF InOrder, Status
  <2>3. WithinCap'  BY <1>2, <2>2 DEF InOrder, WithinCap, Places, Status
  <2>4. Alone'  BY <2>1 DEF Alone
  <2>5. \A q \in Passes : Fits(q)'  BY <2>1, NothingToFit
  <2> QED  BY <2>3, <2>4, <2>5, <2>6 DEF InOrder
<1> QED  BY <1>3, <1>4, <1>5, <1>6 DEF Next

\* While no lock lapses before the end of its pass, the comments of a publication that
\* the platform has an answer for, or will have one for, pass max_replies_per_video by
\* those at most whose answer was taken and its word lost, which the code counts as
\* failed (comment_reply_agent.py, _upsert_comments): the lock keeps passes apart, and
\* a pass plans within what the places it counted leave.
THEOREM CapIsKept == ASSUME CommentAssumption, FiniteComments PROVE Spec => []CapKept
<1>1. Init => CapInv
  <2> SUFFICES ASSUME Init PROVE InOrder  BY DEF CapInv
  <2>1. \A q \in Passes : pass[q].at = "idle"  BY DEF Init, Idle
  <2>2. \A b \in Pubs : Places(b) = {}  BY DEF Init, Places, Status, Row, Holding
  <2>3. WithinCap  BY <2>2, FS_EmptySet DEF WithinCap, CommentAssumption
  <2>4. Alone /\ \A q \in Passes : Fits(q)  BY <2>1 DEF Alone, Fits
  <2>5. Shown  BY DEF Init, Shown
  <2> QED  BY <2>3, <2>4, <2>5 DEF InOrder
<1>2. CapInv => CapKept
  <2> SUFFICES ASSUME InOrder, NEW b \in Pubs PROVE Cardinality(Answers(b) \ WordLost(b)) <= Cap
    BY DEF CapInv, CapKept
  <2>1. Answers(b) \ WordLost(b) \subseteq Places(b) /\ Places(b) \in SUBSET Comments
    BY DEF Answers, WordLost, Places, Holding, InOrder, Shown
  <2>2. /\ Cardinality(Answers(b) \ WordLost(b)) <= Cardinality(Places(b))
        /\ Cardinality(Answers(b) \ WordLost(b)) \in Nat /\ Cardinality(Places(b)) \in Nat
    BY <2>1, Counts
  <2> QED  BY <2>2 DEF InOrder, WithinCap, CommentAssumption
<1>3. Inv /\ CapInv /\ [Next]_vars => CapInv'  BY CapStep
<1>4. Init => Inv  BY InvInit
<1>5. Inv /\ [Next]_vars => Inv'  BY InvStep
<1> QED  BY <1>1, <1>2, <1>3, <1>4, <1>5, PTL DEF Spec

================================================================================
