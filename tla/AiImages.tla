------------------------------- MODULE AiImages -------------------------------
(***************************************************************************)
(* The AI images of a creation: generate_ai_image, called by several       *)
(* processes of studio.tools at once in one run dir.  What is paid to the  *)
(* provider is counted in a register under a lock, what was generated is   *)
(* kept in a cache that is also read without the lock, and a process may   *)
(* be killed at any step.                                                  *)
(***************************************************************************)
EXTENDS Naturals

CONSTANTS
  Images,     \* cache keys: prompt, model, aspect
  Provider,   \* the family of the model of each of them
  Tools,      \* processes that may be in progress at once
  MaxImages,  \* STUDIO_MAX_AI_IMAGES
  MaxAsks     \* bound of the number of commands

ImagesAssumption ==
  /\ MaxImages \in Nat /\ MaxAsks \in Nat /\ Provider \in [Images -> {"flux", "imagen"}]
  /\ Images # {} /\ "nobody" \notin Tools

VARIABLES
  ask,     \* commands in progress
  lock,    \* holder of the flock
  billed,  \* the register
  file,    \* image files of the cache
  meta,    \* their descriptions, written last and not atomically
  asked,   \* commands so far
  paid,    \* history: generations the provider charged
  unheard  \* history: those among them whose connection broke before the answer

cache == <<file, meta>>
tally == <<paid, unheard>>
imageVars == <<ask, lock, billed, cache, asked, tally>>

Nobody == "nobody"
Rest == [at |-> "idle", image |-> CHOOSE i \in Images : TRUE, seen |-> 0]

ImagesInit ==
  /\ ask = [t \in Tools |-> Rest] /\ lock = Nobody /\ billed = 0
  /\ file = [i \in Images |-> FALSE] /\ meta = [i \in Images |-> "none"]
  /\ asked = 0 /\ paid = 0 /\ unheard = 0

Labels == {"idle", "look", "lock", "relook", "reserve", "call", "refund", "verify", "file", "meta", "written",
           "unlock"}

ImagesTypeOK ==
  /\ ask \in [Tools -> [at : Labels, image : Images, seen : 0 .. MaxImages]]
  /\ lock \in Tools \cup {Nobody}
  /\ billed \in 0 .. MaxImages /\ asked \in 0 .. MaxAsks
  /\ file \in [Images -> BOOLEAN] /\ meta \in [Images -> {"none", "torn", "whole"}]
  /\ paid \in 0 .. MaxAsks /\ unheard \in 0 .. paid

At(t, label) == ask[t].at = label

Goto(t, label) == ask' = [ask EXCEPT ![t].at = label]

Image(t) == ask[t].image

Begin(t, i) ==
  /\ At(t, "idle") /\ asked < MaxAsks /\ asked' = asked + 1
  /\ ask' = [ask EXCEPT ![t] = [at |-> "look", image |-> i, seen |-> 0]]
  /\ UNCHANGED <<lock, billed, cache, tally>>

Cached(i) == file[i] /\ meta[i] = "whole"

\* _cached_ai_image: an entry that cannot be read is erased and taken for a miss.
\* Without an image its description stays to be overwritten.
Look(t) ==
  /\ At(t, "look") \/ At(t, "relook")
  /\ LET i == Image(t)
     IN /\ Goto(t, CASE Cached(i) -> IF At(t, "look") THEN "idle" ELSE "unlock"
                     [] OTHER -> IF At(t, "look") THEN "lock" ELSE "reserve")
        /\ meta' = IF meta[i] = "torn" THEN [meta EXCEPT ![i] = "none"] ELSE meta
  /\ UNCHANGED <<lock, billed, file, asked, tally>>

Lock(t) ==
  /\ At(t, "lock") /\ lock = Nobody
  /\ lock' = t /\ Goto(t, "relook")
  /\ UNCHANGED <<billed, cache, asked, tally>>

\* The generation is counted before it is asked for.
Reserve(t) ==
  /\ At(t, "reserve")
  /\ IF billed >= MaxImages THEN Goto(t, "unlock") /\ UNCHANGED billed
     ELSE /\ ask' = [ask EXCEPT ![t].at = "call", ![t].seen = billed]
          /\ billed' = billed + 1
  /\ UNCHANGED <<lock, cache, asked, tally>>

\* An answer: an image, none, or one that is lost, and what the provider charges.
Answer(is, charged) == [is |-> is, charged |-> charged]

\* post_generation: code 200 is the frontier.  Before it nothing is due; past it, or
\* past the delay, the image is lost if it cannot be had.  A connection that breaks
\* once the request has left is taken for a refusal, charged or not.
PostGeneration ==
  {Answer("data", 1), Answer("none", 0), Answer("none", 1), Answer("lost", 0), Answer("lost", 1)}

\* FluxProvider.generate: an answer still has its image to be fetched.
FluxGenerate ==
  {Answer("image", 1), Answer("lost", 1)} \cup {a \in PostGeneration : a.is # "data"}

\* Imagen3Provider.generate: an answer without prediction was filtered and is free.
ImagenGenerate ==
  {Answer("image", 1), Answer("lost", 1), Answer("none", 0)}
    \cup {a \in PostGeneration : a.is # "data"}

\* generate_with_plan; what a provider could not classify is an error.
GenerateWithPlan(i) ==
  (IF Provider[i] = "flux" THEN FluxGenerate ELSE ImagenGenerate) \cup {Answer("error", 0)}

\* Mutation of After: an image that is charged and lost is taken off the register.
AfterRefundsLost(a) ==
  CASE a.is = "image" -> "verify" [] OTHER -> "refund"

\* _generate_ai_image keeps the count of an image, lost or not.
After(a) ==
  CASE a.is = "image" -> "verify" [] a.is = "lost" -> "unlock" [] OTHER -> "refund"

Call(t) ==
  /\ At(t, "call")
  /\ \E a \in GenerateWithPlan(Image(t)) :
       /\ paid' = paid + a.charged
       /\ unheard' = IF a.is = "none" THEN unheard + a.charged ELSE unheard
       /\ Goto(t, After(a))
  /\ UNCHANGED <<lock, billed, cache, asked>>

\* An image that cannot be read stays out of the cache.
Verify(t) ==
  /\ At(t, "verify")
  /\ Goto(t, "file") \/ Goto(t, "unlock")
  /\ UNCHANGED <<lock, billed, cache, asked, tally>>

Refund(t) ==
  /\ At(t, "refund")
  /\ billed' = ask[t].seen /\ Goto(t, "unlock")
  /\ UNCHANGED <<lock, cache, asked, tally>>

\* _store_ai_image: the image by a rename, its description next; a refused write
\* leaves an image that is paid, valid and out of the cache.
StoreFile(t) ==
  /\ At(t, "file")
  /\ \/ file' = [file EXCEPT ![Image(t)] = TRUE] /\ Goto(t, "meta")
     \/ Goto(t, "unlock") /\ UNCHANGED file
  /\ UNCHANGED <<lock, billed, meta, asked, tally>>

StoreMeta(t) ==
  /\ At(t, "meta")
  /\ meta' = [meta EXCEPT ![Image(t)] = "torn"] /\ Goto(t, "written")
  /\ UNCHANGED <<lock, billed, file, asked, tally>>

\* The rest of the description, unless a reader has removed the file under it.
MetaWritten(t) ==
  /\ At(t, "written")
  /\ meta' = [meta EXCEPT ![Image(t)] = IF @ = "torn" THEN "whole" ELSE @]
  /\ Goto(t, "unlock")
  /\ UNCHANGED <<lock, billed, file, asked, tally>>

Unlock(t) ==
  /\ At(t, "unlock")
  /\ lock' = Nobody /\ ask' = [ask EXCEPT ![t] = Rest]
  /\ UNCHANGED <<billed, cache, asked, tally>>

\* The process is killed, or interrupted by SIGTERM: the kernel drops the lock,
\* a request that has left may be charged, the count stays.
Kill(t) ==
  /\ ~At(t, "idle")
  /\ ask' = [ask EXCEPT ![t] = Rest] /\ lock' = IF lock = t THEN Nobody ELSE lock
  /\ IF At(t, "call") THEN paid' \in {paid, paid + 1} ELSE UNCHANGED paid
  /\ UNCHANGED <<billed, cache, asked, unheard>>

ImagesNext ==
  \E t \in Tools :
    \/ Look(t) \/ Lock(t) \/ Reserve(t) \/ Call(t) \/ Verify(t) \/ Refund(t)
    \/ StoreFile(t) \/ StoreMeta(t) \/ MetaWritten(t) \/ Unlock(t) \/ Kill(t)
    \/ \E i \in Images : Begin(t, i)

ImagesSpec == ImagesInit /\ [][ImagesNext]_imageVars

------------------------------------------------------------------------------
(* Properties.                                                                 *)

\* "A generation is counted in advance and only taken off when nothing was
\* produced" (_generate_ai_image): kills, lost images and calls in parallel
\* leave no charged generation out of the register, but for those whose
\* connection broke before an answer, which post_generation takes for free.
PaidIsCounted == paid <= billed + unheard
==============================================================================
