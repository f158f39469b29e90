---------------------------- MODULE CommentReplies ----------------------------
(***************************************************************************)
(* The agent that answers the comments of the published videos: a pass     *)
(* every two minutes, or at will, under a Redis lock that lasts ten        *)
(* minutes; it collects the new comments, then answers those that are due. *)
(* Each await is a step.  One channel; the delay before an answer is a     *)
(* flag the clock raises.                                                  *)
(***************************************************************************)
EXTENDS Naturals, FiniteSets

CONSTANTS
  Pubs,         \* publications of the last window_hours
  Comments,     \* top-level comments
  PubOf,        \* [Comments -> Pubs]
  Clients,      \* the kinds of client, of ClientKinds
  MaxPosts,     \* tries of Zernio's _request: 1 + len(RETRY_DELAYS_S)
  Noise,        \* comments of the owner, or empty
  Cap,          \* max_replies_per_video
  PerPass,      \* max_replies_per_run
  MaxAttempts,  \* MAX_LLM_ATTEMPTS
  Passes,       \* passes that may be in progress at once
  Cron,         \* the one the scheduler starts
  NoPass,
  MaxEvents     \* bound of the launches by hand, human answers, lapses, crashes and changes

\* YouTube and Instagram send an answer once.  Zernio's _request posts it again, and
\* TikTok may know it by its Idempotency-Key, or not.
ClientKinds == {"once", "again", "keyed"}

CommentAssumption ==
  /\ PubOf \in [Comments -> Pubs] /\ Noise \subseteq Comments
  /\ Clients \subseteq ClientKinds
  /\ {Cap, PerPass, MaxAttempts, MaxPosts, MaxEvents} \subseteq Nat
  /\ MaxAttempts >= 1 /\ PerPass >= 1 /\ MaxPosts >= 1
  /\ Cron \in Passes /\ NoPass \notin Passes

VARIABLES
  seen,      \* comments on the platform
  human,     \* comments the owner answered by hand
  replies,   \* answers of the agent the platform took, per comment
  row,       \* rows of platform_comments: [status, due, attempts]
  lock,      \* holder of cutevideo:comments:lock
  pass,      \* the passes
  limited,   \* the owner's Claude usage limit is on
  capable,   \* the provider of the channel gives access to comments
  client,    \* the client of each publication: that of its platform and provider
  events,    \* launches by hand, lapses, crashes, changes and refused writes so far
  sendings,  \* history: calls of client.reply, per comment
  lapsed     \* history: a lock expired before the end of its pass

vars == <<seen, human, replies, row, lock, pass, limited, capable, client, events, sendings, lapsed>>

platform == <<seen, human, replies, sendings>>
setting == <<limited, capable, client>>
history == <<events, lapsed>>

Statuses == {"none", "pending", "sending", "replied", "skipped", "failed"}

Row(status) == [status |-> status, due |-> FALSE, attempts |-> 0]

NoTries == [c \in Comments |-> 0]

Idle == [at |-> "idle", todo |-> {}, list |-> {}, answered |-> {}, kept |-> {}, dropped |-> {}, due |-> {},
         tries |-> NoTries, posts |-> 0, sent |-> FALSE]

Init ==
  /\ seen = {} /\ human = {} /\ replies = [c \in Comments |-> 0] /\ sendings = [c \in Comments |-> 0]
  /\ row = [c \in Comments |-> Row("none")]
  /\ lock = NoPass /\ pass = [p \in Passes |-> Idle]
  /\ limited = FALSE /\ capable = TRUE /\ client \in [Pubs -> Clients] /\ events = 0 /\ lapsed = FALSE

Labels == {"idle", "collect", "upsert", "commit", "select", "next", "claim", "send", "write", "get", "delete"}

Rows == [status : Statuses, due : BOOLEAN, attempts : 0 .. MaxAttempts]

CommentTypeOK ==
  /\ seen \subseteq Comments /\ human \subseteq Comments
  /\ replies \in [Comments -> Nat] /\ sendings \in [Comments -> Nat]
  /\ row \in [Comments -> Rows]
  /\ lock \in Passes \cup {NoPass}
  /\ pass \in [Passes -> [at : Labels, todo : SUBSET Pubs, list : SUBSET Comments, answered : SUBSET Comments,
                          kept : SUBSET Comments, dropped : SUBSET Comments, due : SUBSET Comments,
                          tries : [Comments -> 0 .. MaxAttempts], posts : 0 .. MaxPosts - 1, sent : BOOLEAN]]
  /\ limited \in BOOLEAN /\ capable \in BOOLEAN /\ client \in [Pubs -> Clients] /\ events \in Nat /\ lapsed \in BOOLEAN

At(p, label) == pass[p].at = label

Event == events < MaxEvents /\ events' = events + 1

Status(c) == row[c].status

\* run_scheduled: a pass that finds the lock taken ends at once.
Begin(p) ==
  /\ At(p, "idle") /\ lock = NoPass
  /\ IF p = Cron THEN UNCHANGED events ELSE Event
  /\ lock' = p
  /\ pass' = [pass EXCEPT ![p] = [Idle EXCEPT !.at = "collect", !.todo = Pubs]]
  /\ UNCHANGED <<platform, row, setting, lapsed>>

------------------------------------------------------------------------------
(* Collection.                                                                 *)

\* The comments of a publication, those the channel answered among them; it may
\* be passed over (read a short while ago, no client, error).
List(p, b) ==
  /\ At(p, "collect") /\ b \in pass[p].todo
  /\ LET all == {c \in seen : PubOf[c] = b}
         rest == pass[p].todo \ {b}
     IN \/ /\ capable
           /\ pass' = [pass EXCEPT ![p].at = "upsert", ![p].todo = rest, ![p].list = all,
                                   ![p].answered = {c \in all : c \in human \/ replies[c] > 0}]
        \/ pass' = [pass EXCEPT ![p].todo = rest]
  /\ UNCHANGED <<platform, row, lock, setting, history>>

\* Mutation of Used: an answer being sent has left its place.
UsedNotSending(b) == Cardinality({c \in Comments : PubOf[c] = b /\ Status(c) \in {"pending", "replied"}})

\* Rows that count against max_replies_per_video.
Used(b) == Cardinality({c \in Comments : PubOf[c] = b /\ Status(c) \in {"pending", "sending", "replied"}})

\* _upsert_comments reads the rows it knows: a comment it does not know is
\* pending while the cap allows, ignored otherwise; the API gives them in the
\* order it wants.  A pending one that a human answered gives its place back.
Upsert(p) ==
  /\ At(p, "upsert")
  /\ LET fresh == {c \in pass[p].list : Status(c) = "none"}
         hopeful == fresh \ (Noise \cup pass[p].answered)
         freed == {c \in pass[p].list \cap pass[p].answered : Status(c) = "pending"}
     IN \E kept \in SUBSET hopeful :
          /\ \A c \in kept : Used(PubOf[c]) + Cardinality(kept) <= Cap + Cardinality(freed)
          /\ \A c \in hopeful \ kept : Used(PubOf[c]) + Cardinality(kept) >= Cap
          /\ pass' = [pass EXCEPT ![p].at = "commit", ![p].list = freed, ![p].answered = {},
                                  ![p].kept = kept, ![p].dropped = fresh \ kept]
  /\ UNCHANGED <<platform, row, lock, setting, history>>

\* The commit; a comment inserted by another pass meanwhile undoes it all.
Commit(p) ==
  /\ At(p, "commit")
  /\ LET new == pass[p].kept \cup pass[p].dropped
     IN IF \E c \in new : Status(c) # "none" THEN UNCHANGED row
        ELSE row' = [c \in Comments |-> CASE c \in pass[p].kept -> Row("pending")
                                          [] c \in pass[p].dropped -> Row("skipped")
                                          [] c \in pass[p].list -> [row[c] EXCEPT !.status = "skipped", !.due = FALSE]
                                          [] OTHER -> row[c]]
  /\ pass' = [pass EXCEPT ![p].at = "collect", ![p].list = {}, ![p].kept = {}, ![p].dropped = {}]
  /\ UNCHANGED <<platform, lock, setting, history>>

------------------------------------------------------------------------------
(* Answers.                                                                    *)

\* _reply_due: the oldest due comments, up to max_replies_per_run, none while
\* the owner is at the usage limit; the rows are read here once for all.
Select(p) ==
  /\ At(p, "collect") /\ pass[p].todo = {}
  /\ LET due == IF limited THEN {} ELSE {c \in Comments : Status(c) = "pending" /\ row[c].due}
     IN \E some \in SUBSET due :
          /\ Cardinality(some) <= PerPass
          /\ some # due => Cardinality(some) = PerPass
          /\ pass' = [pass EXCEPT ![p].at = "next", ![p].due = some,
                                  ![p].tries = [c \in Comments |-> IF c \in some THEN row[c].attempts ELSE 0]]
  /\ UNCHANGED <<platform, row, lock, setting, history>>

Goto(p, label) == pass' = [pass EXCEPT ![p].at = label]

Done(p, c) ==
  pass' = [pass EXCEPT ![p].at = "next", ![p].due = @ \ {c}, ![p].tries[c] = 0, ![p].posts = 0,
                       ![p].sent = FALSE, ![p].kept = {}]

Becomes(c, status) == row' = [row EXCEPT ![c].status = status, ![c].due = FALSE]

\* A comment of a provider without an API is ignored.
Unsupported(p, c) ==
  /\ At(p, "next") /\ c \in pass[p].due /\ ~capable
  /\ Becomes(c, "skipped") /\ Done(p, c)
  /\ UNCHANGED <<platform, lock, setting, history>>

\* Mutation of Decide: a failure of the LLM does not count.
DecideForEver(p, c) ==
  /\ At(p, "next") /\ c \in pass[p].due /\ capable
  /\ \/ pass' = [pass EXCEPT ![p].at = "claim", ![p].kept = {c}] /\ UNCHANGED row
     \/ Becomes(c, "skipped") /\ Done(p, c)
     \/ /\ row' = [row EXCEPT ![c].due = FALSE,
                              ![c].status = IF pass[p].tries[c] + 1 >= MaxAttempts THEN "failed" ELSE @]
        /\ Done(p, c)
  /\ UNCHANGED <<platform, lock, setting, history>>

\* The LLM writes an answer, prefers none, or fails: a failure is tried again
\* later, MAX_LLM_ATTEMPTS times.  The row is the one Select read, its attempts
\* included; the write names the columns it changes.
Decide(p, c) ==
  /\ At(p, "next") /\ c \in pass[p].due /\ capable
  /\ \/ pass' = [pass EXCEPT ![p].at = "claim", ![p].kept = {c}] /\ UNCHANGED row
     \/ Becomes(c, "skipped") /\ Done(p, c)
     \/ /\ row' = [row EXCEPT ![c].attempts = pass[p].tries[c] + 1, ![c].due = FALSE,
                              ![c].status = IF pass[p].tries[c] + 1 >= MaxAttempts THEN "failed" ELSE @]
        /\ Done(p, c)
  /\ UNCHANGED <<platform, lock, setting, history>>

Subject(p) == CHOOSE c \in pass[p].kept : TRUE

\* Mutation of Claim: the row is taken as Select read it.
ClaimStale(p) ==
  /\ At(p, "claim")
  /\ Becomes(Subject(p), "sending") /\ Goto(p, "send")
  /\ UNCHANGED <<platform, lock, setting, history>>

\* The conditional update that takes the comment before the answer is sent.
Claim(p) ==
  /\ At(p, "claim")
  /\ LET c == Subject(p)
     IN IF Status(c) = "pending" THEN Becomes(c, "sending") /\ Goto(p, "send")
        ELSE UNCHANGED row /\ Done(p, c)
  /\ UNCHANGED <<platform, lock, setting, history>>

Client(c) == client[PubOf[c]]

\* The platform takes an answer, unless it knows it by its key.
Taken(c) ==
  replies' = IF Client(c) = "keyed" /\ replies[c] > 0 THEN replies ELSE [replies EXCEPT ![c] = @ + 1]

\* One POST of client.reply: it is taken and its word comes back; or it is lost on
\* its way there or back, or met by a 429 or a 5xx, and Zernio's _request posts
\* again while it has tries left; or it is refused, or its word is not readable.
Send(p) ==
  /\ At(p, "send")
  /\ LET c == Subject(p)
     IN /\ sendings' = IF pass[p].posts = 0 THEN [sendings EXCEPT ![c] = @ + 1] ELSE sendings
        /\ \/ Taken(c) /\ pass' = [pass EXCEPT ![p].at = "write", ![p].sent = TRUE]
           \/ /\ Taken(c) \/ UNCHANGED replies
              /\ \/ Goto(p, "write")
                 \/ /\ Client(c) # "once" /\ pass[p].posts + 1 < MaxPosts
                    /\ pass' = [pass EXCEPT ![p].posts = @ + 1]
  /\ UNCHANGED <<seen, human, row, lock, setting, history>>

\* Mutation of Write: an answer that failed is tried again.
WriteRetries(p) ==
  /\ At(p, "write")
  /\ Becomes(Subject(p), IF pass[p].sent THEN "replied" ELSE "pending")
  /\ Done(p, Subject(p))
  /\ UNCHANGED <<platform, lock, setting, history>>

Write(p) ==
  /\ At(p, "write")
  /\ Becomes(Subject(p), IF pass[p].sent THEN "replied" ELSE "failed")
  /\ Done(p, Subject(p))
  /\ UNCHANGED <<platform, lock, setting, history>>

\* _release_lock reads the lock, then deletes it if it was its own.
ReadLock(p) ==
  /\ At(p, "next") /\ pass[p].due = {}
  /\ Goto(p, IF lock = p THEN "delete" ELSE "idle")
  /\ UNCHANGED <<platform, row, lock, setting, history>>

DeleteLock(p) ==
  /\ At(p, "delete")
  /\ lock' = NoPass /\ Goto(p, "idle")
  /\ UNCHANGED <<platform, row, setting, history>>

------------------------------------------------------------------------------
(* Environment.                                                                *)

Arrive(c) ==
  /\ c \notin seen /\ seen' = seen \cup {c}
  /\ UNCHANGED <<human, replies, sendings, row, lock, pass, setting, history>>

HumanReply(c) ==
  /\ Event /\ c \in seen \ human /\ human' = human \cup {c}
  /\ UNCHANGED <<seen, replies, sendings, row, lock, pass, setting, lapsed>>

\* The clock passes reply_due_at.
BecomeDue(c) ==
  /\ Status(c) = "pending" /\ ~row[c].due
  /\ row' = [row EXCEPT ![c].due = TRUE]
  /\ UNCHANGED <<platform, lock, pass, setting, history>>

\* The lock lasts ten minutes, whatever its pass does.
Expire ==
  /\ lock # NoPass /\ At(lock, "idle")
  /\ lock' = NoPass
  /\ UNCHANGED <<platform, row, pass, setting, history>>

Lapse ==
  /\ Event /\ lock # NoPass /\ ~At(lock, "idle")
  /\ lock' = NoPass /\ lapsed' = TRUE
  /\ UNCHANGED <<platform, row, pass, setting>>

LimitBegins == Event /\ ~limited /\ limited' = TRUE /\ UNCHANGED <<platform, row, lock, pass, capable, client, lapsed>>

LimitEnds == limited /\ limited' = FALSE /\ UNCHANGED <<platform, row, lock, pass, capable, client, history>>

ChangeProvider == Event /\ capable' = ~capable /\ UNCHANGED <<platform, row, lock, pass, limited, client, lapsed>>

\* The process dies; the lock stays until it expires.
Crash == Event /\ pass' = [p \in Passes |-> Idle] /\ UNCHANGED <<platform, row, lock, setting, lapsed>>

\* A write of the outcome is refused: the pass ends and gives the lock back.
WriteRefused(p) ==
  /\ Event /\ At(p, "write")
  /\ pass' = [pass EXCEPT ![p] = [Idle EXCEPT !.at = "next"]]
  /\ UNCHANGED <<platform, row, lock, setting, lapsed>>

------------------------------------------------------------------------------
Step(p) ==
  \/ \E b \in Pubs : List(p, b)
  \/ \E c \in Comments : Unsupported(p, c) \/ Decide(p, c)
  \/ Upsert(p) \/ Commit(p) \/ Select(p) \/ Claim(p) \/ Send(p) \/ Write(p) \/ ReadLock(p) \/ DeleteLock(p)

Next ==
  \/ \E p \in Passes : Begin(p) \/ Step(p) \/ WriteRefused(p)
  \/ \E c \in Comments : Arrive(c) \/ HumanReply(c) \/ BecomeDue(c)
  \/ Expire \/ Lapse \/ LimitBegins \/ LimitEnds \/ ChangeProvider \/ Crash

Spec == Init /\ [][Next]_vars

\* The job comes back, a pass goes on, time passes: due dates, the lock's
\* expiry and the end of a usage limit come.
Fairness ==
  /\ WF_vars(Begin(Cron)) /\ \A p \in Passes : WF_vars(Step(p))
  /\ \A c \in Comments : WF_vars(BecomeDue(c))
  /\ WF_vars(Expire) /\ WF_vars(LimitEnds)

FairSpec == Spec /\ Fairness

------------------------------------------------------------------------------
(* Properties.                                                                 *)

\* How many answers one call of client.reply may leave on the platform.
Most(c) == IF Client(c) = "again" THEN MaxPosts ELSE 1

\* "Jamais de double publication" (comment_reply_agent.py): through passes that
\* overlap when the lock lapses, the non-atomic release, lost answers, crashes and
\* refused writes, a comment has no more answers than one call of client.reply may
\* leave: one, but for Zernio, which posts again an answer whose word was lost, when
\* TikTok does not know it by its Idempotency-Key.
RepliedOnce == \A c \in Comments : replies[c] <= Most(c)

\* The agent's part of the promise, as a refinement: a call of client.reply is an
\* effect of AtMostOnce, a pending comment an open thing.
Promise == INSTANCE AtMostOnce
  WITH Things <- Comments,
       effects <- sendings,
       state <- [c \in Comments |-> CASE Status(c) = "none" -> "unknown"
                                      [] Status(c) = "pending" -> "open"
                                      [] OTHER -> "closed"]

\* client.reply is called once at most for a comment, and only after the comment was
\* taken out of the pending ones, where it never comes back.
RepliesAtMostOnce == Promise!Spec

\* Comments the platform has an answer for, or is about to get one for.
Answers(b) == {c \in Comments : PubOf[c] = b /\ (replies[c] > 0 \/ Status(c) \in {"pending", "sending"})}

\* Those whose answer was taken and its word lost: the row says that it failed, and
\* _upsert_comments does not count it.
WordLost(b) == {c \in Answers(b) : Status(c) = "failed"}

\* While no lock lapses, the comments of a publication that the platform has an answer
\* of the agent for, or will have one for, pass max_replies_per_video by those whose
\* word was lost at most: collection, human answers, crashes and the answers of other
\* passes included.
CapKept == ~lapsed => \A b \in Pubs : Cardinality(Answers(b) \ WordLost(b)) <= Cap

\* A pending comment leaves that state, whatever the LLM, the usage limit, the
\* lock of a dead pass and the size of a pass do to it.
PendingEnds == \A c \in Comments : Status(c) = "pending" ~> Status(c) # "pending"
==============================================================================
