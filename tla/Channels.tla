------------------------------- MODULE Channels -------------------------------
(***************************************************************************)
(* The channels of an owner: creation, guided or direct, the steps of the  *)
(* wizard, the settings page, the connection of a Google and a TikTok      *)
(* account, deletion.  A request reads the row of its channel, may call a  *)
(* provider, then writes the columns it has changed (SQLAlchemy compares   *)
(* them with what it read); the settings of a channel are one JSON column. *)
(***************************************************************************)
EXTENDS Naturals, FiniteSets, Functions

CONSTANTS
  Slugs,     \* slugs the owner may give a channel
  Limit,     \* max_channels of the owner's plan
  Default,   \* publishing.tiktok_provider of agent_config.json
  Requests,  \* requests that may be in progress at once
  MaxOps     \* bound of the number of requests

Platforms == {"youtube", "tiktok", "instagram"}
Providers == {"composio", "postforme", "zernio"}

ChannelsAssumption ==
  /\ IsFiniteSet(Slugs) /\ IsFiniteSet(Requests)
  /\ Limit \in Nat /\ MaxOps \in Nat /\ Default \in Providers

VARIABLES
  chan,      \* rows of `channels`, by slug (a slug is unique for its owner)
  page,      \* settings pages open in the dashboard: the settings as they were loaded
  req,       \* requests in progress, with the row they have read
  flows,     \* OAuth pages open at Google or at a TikTok provider: the state they carry
  granted,   \* TikTok accounts the owner has authorised, at the providers
  profiles,  \* profiles created at Zernio
  ops,       \* requests so far
  wish,      \* history: provider last chosen, accounts connected
  crossed,   \* history: settings were written, or found as wanted, over others than those read
  raced      \* history: two creations were in progress at once

vars == <<chan, page, req, flows, granted, profiles, ops, wish, crossed, raced>>

\* What a provider's entry of config.tiktok.accounts holds: an account or none
\* yet, and the Zernio profile (0: none).
Unlinked == [account |-> {}, profile |-> 0]

\* channels.config as far as it says where to publish; an unset provider is the
\* default one, unset platforms are all of them.
Fresh == [enabled |-> Platforms, provider |-> Default, accounts |-> [p \in Providers |-> Unlinked]]

Account == [by : Providers, slug : Slugs, id : 1 .. MaxOps, profile : 0 .. MaxOps]

Steps == {"brand", "youtube", "tiktok", "instagram", "complete"}

TypeOK ==
  /\ DOMAIN chan \subseteq Slugs /\ DOMAIN wish = DOMAIN chan
  /\ \A s \in DOMAIN chan :
       /\ chan[s].id \in 1 .. MaxOps /\ chan[s].step \in Steps
       /\ {chan[s].active, chan[s].youtube, chan[s].google, chan[s].instagram, chan[s].tiktok,
           chan[s].used} \subseteq BOOLEAN
       /\ Cardinality(chan[s].composio) <= 1 /\ chan[s].composio \subseteq Account
       /\ chan[s].config.enabled \subseteq Platforms /\ chan[s].config.provider \in Providers
       /\ \A p \in Providers : /\ chan[s].config.accounts[p].account \subseteq Account
                               /\ chan[s].config.accounts[p].profile \in 0 .. profiles
  /\ DOMAIN req \subseteq Requests /\ DOMAIN page \subseteq Slugs
  /\ granted \subseteq Account /\ profiles \in 0 .. MaxOps /\ ops \in 0 .. MaxOps
  /\ crossed \in BOOLEAN /\ raced \in BOOLEAN

Empty == [x \in {} |-> x]

\* f with v at x.
With(f, x, v) == [y \in DOMAIN f \cup {x} |-> IF y = x THEN v ELSE f[y]]

ChannelsInit ==
  /\ chan = Empty /\ page = Empty /\ req = Empty /\ wish = Empty
  /\ flows = {} /\ granted = {} /\ profiles = 0 /\ ops = 0
  /\ crossed = FALSE /\ raced = FALSE

------------------------------------------------------------------------------
(* Reading and writing a row.                                                  *)

Op == ops < MaxOps /\ ops' = ops + 1

\* get_user_channel by the id of the row.
Exists(s, id) == s \in DOMAIN chan /\ chan[s].id = id

Start(r, s, kind, arg) ==
  /\ r \notin DOMAIN req
  /\ req' = With(req, r, [kind |-> kind, slug |-> s, row |-> chan[s], arg |-> arg])

End(r) == req' = Restrict(req, DOMAIN req \ {r})

\* Mutation of Columns: the row is written back as a whole.
ColumnsAll(s, old, new) == new

\* The columns that differ from those read; the others stay as they are now.
Columns(s, old, new) == [c \in DOMAIN new |-> IF new[c] = old[c] THEN chan[s][c] ELSE new[c]]

\* The commit of request r with the row it has made; the row may be gone.
Commit(r, new) ==
  LET q == req[r]
  IN  IF Exists(q.slug, q.row.id)
      THEN /\ chan' = [chan EXCEPT ![q.slug] = Columns(q.slug, q.row, new)]
           /\ crossed' = (crossed \/ /\ q.kind \in {"skip", "provider", "connect", "finish"}
                                     /\ chan[q.slug].config # q.row.config)
      ELSE UNCHANGED <<chan, crossed>>

Wishes(r, w) ==
  IF Exists(req[r].slug, req[r].row.id) THEN wish' = [wish EXCEPT ![req[r].slug] = w] ELSE UNCHANGED wish

------------------------------------------------------------------------------
(* Creation and deletion.                                                      *)

\* check_can_create_channel.
CanCreate == Cardinality(DOMAIN chan) < Limit

\* create_onboarding_draft and create_channel: the quota and the slug are
\* looked at, then the row is inserted.
AskCreate(r, s, guided) ==
  /\ Op /\ CanCreate /\ s \notin DOMAIN chan /\ r \notin DOMAIN req
  /\ \E tiktok, youtube \in BOOLEAN :
       LET new == [id |-> ops + 1, step |-> IF guided THEN "brand" ELSE "complete", active |-> ~guided,
                   youtube |-> youtube, google |-> FALSE, instagram |-> FALSE, tiktok |-> tiktok,
                   composio |-> {}, used |-> FALSE, config |-> Fresh]
       IN /\ guided => tiktok /\ ~youtube
          /\ req' = With(req, r, [kind |-> "create", slug |-> s, row |-> new, arg |-> "none"])
  /\ raced' = (raced \/ \E q \in DOMAIN req : req[q].kind = "create")
  /\ UNCHANGED <<chan, page, flows, granted, profiles, wish, crossed>>

\* The unique constraint on (owner, slug) refuses the second of two.
Create(r) ==
  /\ r \in DOMAIN req /\ req[r].kind = "create" /\ End(r)
  /\ IF req[r].slug \in DOMAIN chan THEN UNCHANGED <<chan, wish>>
     ELSE /\ chan' = With(chan, req[r].slug, req[r].row)
          /\ wish' = With(wish, req[r].slug, [provider |-> Default, linked |-> {}, google |-> FALSE])
  /\ UNCHANGED <<page, flows, granted, profiles, ops, crossed, raced>>

\* create_project, on an active channel.
AddProject(s) ==
  /\ Op /\ s \in DOMAIN chan /\ chan[s].active
  /\ chan' = [chan EXCEPT ![s].used = TRUE]
  /\ UNCHANGED <<page, req, flows, granted, profiles, wish, crossed, raced>>

\* delete_channel counts the projects, then deletes; the foreign key of a
\* project created in between refuses it.
AskDelete(r, s) ==
  /\ Op /\ s \in DOMAIN chan /\ ~chan[s].used
  /\ Start(r, s, "delete", "none")
  /\ UNCHANGED <<chan, page, flows, granted, profiles, wish, crossed, raced>>

Delete(r) ==
  /\ r \in DOMAIN req /\ req[r].kind = "delete" /\ End(r)
  /\ LET s == req[r].slug
     IN IF Exists(s, req[r].row.id) /\ ~chan[s].used
        THEN LET rest(f) == Restrict(f, DOMAIN f \ {s})
             IN chan' = rest(chan) /\ wish' = rest(wish) /\ page' = rest(page)
        ELSE UNCHANGED <<chan, wish, page>>
  /\ UNCHANGED <<flows, granted, profiles, ops, crossed, raced>>

------------------------------------------------------------------------------
(* The wizard.                                                                 *)

\* ONBOARDING_SKIP_NEXT, which the "continue" buttons follow as well.
After == [youtube |-> "tiktok", tiktok |-> "instagram", instagram |-> "complete"]

\* Continue with the platform of this step: patch_onboarding_*.
Continued(row, p) ==
  [row EXCEPT !.step = After[p], !.youtube = @ \/ p = "youtube", !.instagram = @ \/ p = "instagram"]

\* _disable_platform_in_config; an empty list is taken for the three platforms.
Skipped(row, p) ==
  [row EXCEPT !.step = After[p], !.tiktok = @ /\ p # "tiktok",
              !.config.enabled = (IF @ = {} THEN Platforms ELSE @) \ {p}]

\* complete_onboarding; the settings it merges into those of the channel are
\* changed in place, which is no change to write.
Completed(row) == [row EXCEPT !.step = "complete", !.active = TRUE]

AskStep(r, s) ==
  /\ Op /\ s \in DOMAIN chan
  /\ \/ \E p \in Platforms : Start(r, s, "continue", p) \/ Start(r, s, "skip", p)
     \/ Start(r, s, "complete", "none")
  /\ UNCHANGED <<chan, page, flows, granted, profiles, wish, crossed, raced>>

DoStep(r) ==
  /\ r \in DOMAIN req /\ End(r)
  /\ LET q == req[r]
     IN \/ q.kind = "continue" /\ Commit(r, Continued(q.row, q.arg))
        \/ q.kind = "skip" /\ Commit(r, Skipped(q.row, q.arg))
        \/ q.kind = "complete" /\ Commit(r, Completed(q.row))
  /\ UNCHANGED <<page, flows, granted, profiles, ops, wish, raced>>

\* patch_onboarding_youtube with a token in its body, which is not the one on file.
DoStepWithToken(r) ==
  /\ r \in DOMAIN req /\ req[r].kind = "continue" /\ req[r].arg = "youtube" /\ End(r)
  /\ LET s == req[r].slug
         old == req[r].row
     IN IF Exists(s, old.id)
        THEN /\ chan' = [chan EXCEPT ![s] = [Columns(s, old, Continued(old, "youtube")) EXCEPT !.google = TRUE]]
             /\ wish' = [wish EXCEPT ![s].google = TRUE]
        ELSE UNCHANGED <<chan, wish>>
  /\ UNCHANGED <<page, flows, granted, profiles, ops, crossed, raced>>

\* youtube_oauth_url: the consent page of Google is opened, with the channel in its state.
AskGoogle(s) ==
  /\ Op /\ s \in DOMAIN chan
  /\ flows' = flows \cup {[by |-> "google", slug |-> s, id |-> chan[s].id, profile |-> 0]}
  /\ UNCHANGED <<chan, page, req, granted, profiles, wish, crossed, raced>>

\* youtube_oauth_callback: one UPDATE, whatever the channel has become.
GoogleReturns(f) ==
  /\ f \in flows /\ f.by = "google" /\ flows' = flows \ {f}
  /\ IF Exists(f.slug, f.id)
     THEN /\ chan' = [chan EXCEPT ![f.slug].google = TRUE, ![f.slug].step = "youtube"]
          /\ wish' = [wish EXCEPT ![f.slug].google = TRUE]
     ELSE UNCHANGED <<chan, wish>>
  /\ UNCHANGED <<page, req, granted, profiles, ops, crossed, raced>>

DisconnectGoogle(s) ==
  /\ Op /\ s \in DOMAIN chan /\ chan[s].google
  /\ chan' = [chan EXCEPT ![s].google = FALSE]
  /\ wish' = [wish EXCEPT ![s].google = FALSE]
  /\ UNCHANGED <<page, req, flows, granted, profiles, crossed, raced>>

------------------------------------------------------------------------------
(* The settings page and its TikTok panel.                                     *)

\* The page loads the channel, and again when its window gets the focus (useSWR);
\* its TikTok panel refreshes nothing but itself.
OpenSettings(s) ==
  /\ s \in DOMAIN chan
  /\ page' = With(page, s, chan[s].config)
  /\ UNCHANGED <<chan, req, flows, granted, profiles, ops, wish, crossed, raced>>

\* buildChannelUpdatePayload: the settings as they were loaded, with the platforms ticked.
Saved(config, on) == [config EXCEPT !.enabled = on]

\* "Save", once something else than the platforms may have been changed; the
\* page then shows what was written.
SaveSettings(s, on) ==
  /\ Op /\ s \in DOMAIN chan \cap DOMAIN page
  /\ LET new == Saved(page[s], on)
     IN /\ chan' = [chan EXCEPT ![s].config = new]
        /\ page' = [page EXCEPT ![s] = new]
        /\ crossed' = (crossed \/ page[s] # chan[s].config)
  /\ UNCHANGED <<req, flows, granted, profiles, wish, raced>>

\* update_channel with a flag only, which no page sends.
Patch(s) ==
  /\ Op /\ s \in DOMAIN chan
  /\ \E b \in BOOLEAN :
       chan' = [chan EXCEPT ![s].tiktok = b] \/ chan' = [chan EXCEPT ![s].active = b]
  /\ UNCHANGED <<page, req, flows, granted, profiles, wish, crossed, raced>>

\* set_tiktok_provider.
AskProvider(r, s, p) ==
  /\ Op /\ s \in DOMAIN chan
  /\ Start(r, s, "provider", p)
  /\ UNCHANGED <<chan, page, flows, granted, profiles, wish, crossed, raced>>

SetProvider(r) ==
  /\ r \in DOMAIN req /\ req[r].kind = "provider" /\ End(r)
  /\ Commit(r, [req[r].row EXCEPT !.config.provider = req[r].arg])
  /\ Wishes(r, [wish[req[r].slug] EXCEPT !.provider = req[r].arg])
  /\ UNCHANGED <<page, flows, granted, profiles, ops, raced>>

\* connect_tiktok: refused when TikTok is off for the channel.
AskConnect(r, s) ==
  /\ Op /\ s \in DOMAIN chan /\ chan[s].tiktok
  /\ Start(r, s, "connect", "none")
  /\ UNCHANGED <<chan, page, flows, granted, profiles, wish, crossed, raced>>

\* start_connect at the provider read, then the state of the OAuth page.  Zernio
\* puts the account in the profile of the channel, which is created once.
Connect(r) ==
  /\ r \in DOMAIN req /\ req[r].kind = "connect" /\ End(r)
  /\ LET q == req[r]
         p == q.row.config.provider
         known == q.row.config.accounts.zernio.profile
         flow(n) == flows \cup {[by |-> p, slug |-> q.slug, id |-> q.row.id, profile |-> n]}
     IN IF p = "zernio"
        THEN LET n == IF known = 0 THEN profiles + 1 ELSE known
             IN /\ profiles' = IF known = 0 THEN n ELSE profiles
                /\ Commit(r, [q.row EXCEPT !.config.accounts.zernio.profile = n])
                /\ flows' = IF Exists(q.slug, q.row.id) \/ n = known THEN flow(n) ELSE flows
        ELSE flows' = flow(0) /\ UNCHANGED <<chan, crossed, profiles>>
  /\ UNCHANGED <<page, granted, ops, wish, raced>>

\* A request ends on an error of the provider.
Fail(r) ==
  /\ r \in DOMAIN req /\ req[r].kind \in {"connect", "finish"} /\ End(r)
  /\ UNCHANGED <<chan, page, flows, granted, profiles, ops, wish, crossed, raced>>

\* The owner comes back from the OAuth page, the account authorised or not; the
\* page that receives him finishes the connection of the channel of the state.
ComeBack(r, f) ==
  /\ f \in flows /\ f.by # "google" /\ flows' = flows \ {f}
  /\ granted' \in {granted, granted \cup {f}}
  /\ IF Exists(f.slug, f.id) THEN Start(r, f.slug, "finish", f) ELSE UNCHANGED req
  /\ UNCHANGED <<chan, page, profiles, ops, wish, crossed, raced>>

\* finish_connect, by provider.  Composio: the account of the connection, or any of
\* the user of that slug.  Post for Me: one authorised for the row.  Zernio: the
\* one of the redirection, or one of the profile, or of any if none is known.
Found(f, profile) ==
  {a \in granted : /\ a.by = f.by
                   /\ CASE f.by = "composio" -> a.slug = f.slug
                        [] f.by = "postforme" -> a.id = f.id
                        [] OTHER -> a = f \/ profile \in {0, a.profile}}

\* finish_tiktok_connect: the provider of the state.
StoredUnder(f, row) == f.by

\* with_provider_account.
WithAccount(config, p, a) == [config EXCEPT !.accounts[p].account = {a}]

\* Composio's account has a column of its own too; its GET callback writes no
\* other, and in one UPDATE.
Finish(r) ==
  /\ r \in DOMAIN req /\ req[r].kind = "finish" /\ End(r)
  /\ LET q == req[r]
         f == q.arg
         p == StoredUnder(f, q.row)
     IN \E a \in Found(f, q.row.config.accounts.zernio.profile) :
          LET linked == [q.row EXCEPT !.composio = IF f.by = "composio" THEN {a} ELSE @,
                                      !.config = WithAccount(@, p, a)]
          IN /\ \/ Commit(r, linked)
                \/ /\ f.by = "composio" /\ UNCHANGED crossed
                   /\ chan' = IF Exists(q.slug, q.row.id) THEN [chan EXCEPT ![q.slug].composio = {a}] ELSE chan
             /\ Wishes(r, [wish[q.slug] EXCEPT !.linked = @ \cup {f.by}])
  /\ UNCHANGED <<page, flows, granted, profiles, ops, raced>>

------------------------------------------------------------------------------
ChannelsNext ==
  \/ \E r \in Requests :
       \/ \E s \in Slugs :
            \/ \E guided \in BOOLEAN : AskCreate(r, s, guided)
            \/ AskDelete(r, s) \/ AskStep(r, s) \/ AskConnect(r, s)
            \/ \E p \in Providers : AskProvider(r, s, p)
       \/ Create(r) \/ Delete(r) \/ DoStep(r) \/ DoStepWithToken(r) \/ SetProvider(r) \/ Connect(r) \/ Fail(r) \/ Finish(r)
       \/ \E f \in flows : ComeBack(r, f)
  \/ \E s \in Slugs :
       \/ AddProject(s) \/ AskGoogle(s) \/ DisconnectGoogle(s) \/ OpenSettings(s) \/ Patch(s)
       \/ \E on \in SUBSET Platforms : SaveSettings(s, on)
  \/ \E f \in flows : GoogleReturns(f)

ChannelsSpec == ChannelsInit /\ [][ChannelsNext]_vars

------------------------------------------------------------------------------
(* Properties.                                                                 *)

\* The account a provider publishes to (Composio has a column of its own).
Linked(row, p) == IF p = "composio" THEN row.composio ELSE row.config.accounts[p].account

\* No request undoes another's, however long it waited for a provider: the provider
\* last chosen is that of the channel ("switching provider loses nothing",
\* tiktok_providers.py:10), Google is connected or not as last asked, and TikTok
\* videos go to the accounts that were connected, each authorised at the provider
\* that sends them for a channel of this slug (unless settings were overwritten).
ConnectionsKept ==
  ~crossed => \A s \in DOMAIN chan :
    /\ chan[s].config.provider = wish[s].provider /\ chan[s].google = wish[s].google
    /\ \A p \in Providers : /\ p \in wish[s].linked => Linked(chan[s], p) # {}
                            /\ \A a \in Linked(chan[s], p) : a.by = p /\ a.slug = s

\* The plan's number of channels is kept (check_can_create_channel), unless two
\* creations are in progress at once.
LimitKept == ~raced => Cardinality(DOMAIN chan) <= Limit
===============================================================================
