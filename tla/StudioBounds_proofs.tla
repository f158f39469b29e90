-------------------------- MODULE StudioBounds_proofs --------------------------
(***************************************************************************)
(* The bounds of Claude Studio, for every value of its caps: the session   *)
(* state keeps its types, the resumptions of a creation are bounded, an    *)
(* abandoned creation leaves no step open and a pause is on record; and    *)
(* every part of MCStudio keeps the states, the positions and the counters *)
(* of its code.                                                            *)
(***************************************************************************)
EXTENDS Studio_proofs

------------------------------------------------------------------------------
(* The session and its resumption.                                             *)

(* The strengthening.  What is on record bounds the two histories, and so    *)
(* does what is in memory and about to be put on record.                     *)

\* Resumptions that a session state accounts for: one per worker resumption,
\* one per pause that has been resumed.
Accounted(s) == s.total + s.pauses - (IF s.paused THEN 1 ELSE 0)

\* A runner works only on a running project.
RunnerIsRunning == at # "off" => status = "running"

PausesOnRecord ==
  /\ sess.pauses <= MaxLimitPauses
  /\ at \in SessionLabels \cup {"start", "decide", "limit", "prepare", "clear", "wipe", "save"}
       => plan.pauses <= MaxLimitPauses
  /\ at \in {"pausing", "pauseSave"}
       => plan.paused /\ plan.pauses \in 1 .. MaxLimitPauses

\* The session on record is the one in progress.
SessionOnRecord == at \in SessionLabels => sess = plan /\ plan.id

\* A creation that starts afresh starts from zero.
FreshPlan ==
  /\ at \in {"start", "decide"} => plan = NoState
  /\ at \in {"clear", "wipe", "save"}
       => plan.id /\ plan.resumes = 0 /\ plan.total = 0 /\ plan.progress = 0 /\ ~plan.paused
  /\ at \in {"wipe", "save"} => ok = 0

\* What is on record accounts for the histories.
RecordAccounts ==
  sess.id => /\ launches <= Accounted(sess)
             /\ fruitless <= sess.resumes
             /\ ok > sess.progress => fruitless = 0

\* What is in memory, between the decision and the launch or the pause, accounts
\* for them and for the resumption about to be counted.
PlanAccounts ==
  /\ at \in {"limit", "prepare"} /\ plan.id => launches + 1 <= Accounted(plan)
  /\ at \in {"pausing", "pauseSave"} /\ plan.id => launches <= Accounted(plan)
  /\ at \in {"limit", "prepare", "pausing", "pauseSave"} /\ plan.id =>
       \/ plan.total > sess.total /\ fruitless + 1 <= plan.resumes /\ ok <= plan.progress
       \/ plan.total <= sess.total /\ fruitless <= plan.resumes
          /\ (ok > plan.progress => fruitless = 0)
  /\ at \in {"pausing", "pauseSave"} /\ ~plan.id => plan.total = 0
  /\ at = "prepare" => plan.id

Accounts ==
  /\ RunnerIsRunning /\ PausesOnRecord /\ SessionOnRecord
  /\ FreshPlan /\ RecordAccounts /\ PlanAccounts /\ ResumesAreBounded

IInv == StudioTypeOK /\ Accounts

------------------------------------------------------------------------------
(* The operators of studio_resume.                                             *)

\* A state that decide() resumes stays within the caps.
LEMMA ResumedInCaps ==
  ASSUME NEW s \in States, NEW progress \in Nat, NEW dirOk \in BOOLEAN,
         Decide(s, progress, dirOk) = "resume"
  PROVE  /\ Resumed(s, progress) \in States
         /\ Resumed(s, progress).id /\ s.id
         /\ ~Resumed(s, progress).paused
         /\ Resumed(s, progress).pauses = s.pauses
         /\ Accounted(Resumed(s, progress)) = Accounted(s) + 1
  <1>1. s.id /\ dirOk
    BY DEF Decide
  <1>. DEFINE t == Resumed(s, progress)
  <1>2. CASE s.paused
    <2>1. PICK n \in Nat : t = [s EXCEPT !.paused = FALSE, !.progress = n]
      <3>. DEFINE n == IF progress > s.progress THEN progress ELSE s.progress
      <3>1. n \in Nat
        BY DEF States
      <3>2. t = [s EXCEPT !.paused = FALSE, !.progress = n]
        BY <1>2 DEF Resumed
      <3>. QED
        BY <3>1, <3>2
    <2>2. /\ t \in States
          /\ t.id = s.id /\ t.paused = FALSE /\ t.pauses = s.pauses /\ t.total = s.total
      BY <2>1 DEF States
    <2>3. s.total \in Int /\ s.pauses \in Int
      BY StudioAssumption DEF States
    <2>. HIDE DEF t
    <2>4. Accounted(t) = Accounted(s) + 1
      BY <1>2, <2>2, <2>3 DEF Accounted
    <2>. QED
      BY <1>1, <2>2, <2>4 DEF t
  <1>3. CASE ~s.paused
    <2>1. NextResumes(s, progress) \in 0 .. MaxResumes /\ s.total + 1 \in 0 .. MaxTotalResumes
      BY <1>1, <1>3, StudioAssumption DEF Decide, NextResumes, States
    <2>2. t = [s EXCEPT !.resumes = NextResumes(s, progress),
                        !.total = s.total + 1, !.progress = progress]
      BY <1>3 DEF Resumed
    <2>3. /\ t \in States
          /\ t.id = s.id /\ t.paused = s.paused /\ t.pauses = s.pauses /\ t.total = s.total + 1
      BY <2>1, <2>2 DEF States
    <2>4. s.total \in Int /\ s.pauses \in Int
      BY StudioAssumption DEF States
    <2>. HIDE DEF t
    <2>5. Accounted(t) = Accounted(s) + 1
      BY <1>3, <2>3, <2>4 DEF Accounted
    <2>. QED
      BY <1>1, <1>3, <2>3, <2>5 DEF t
  <1>. QED
    BY <1>2, <1>3 DEF States

\* A worker resumption counts one more than the resumptions on record, or starts
\* again from one after a new successful step; a pause leaves the count.
LEMMA ResumedCounts ==
  ASSUME NEW s \in States, NEW progress \in Nat
  PROVE  \/ /\ s.paused
            /\ Resumed(s, progress).total = s.total
            /\ Resumed(s, progress).resumes = s.resumes
            /\ progress <= Resumed(s, progress).progress
         \/ /\ ~s.paused
            /\ Resumed(s, progress).total = s.total + 1
            /\ Resumed(s, progress).resumes = NextResumes(s, progress)
            /\ Resumed(s, progress).progress = progress
  BY DEF Resumed, States, NextResumes

\* A pause is one more resumption accounted for, once it is over.
LEMMA RecordPauseCounts ==
  ASSUME NEW s \in States, s.pauses <= MaxLimitPauses
  PROVE  /\ RecordPause(s) \in States
         /\ RecordPause(s).paused
         /\ RecordPause(s).pauses = s.pauses + 1
         /\ RecordPause(s).id = s.id /\ RecordPause(s).total = s.total
         /\ RecordPause(s).resumes = s.resumes /\ RecordPause(s).progress = s.progress
         /\ Accounted(s) <= Accounted(RecordPause(s))
  <1>. DEFINE t == RecordPause(s)
  <1>1. s.pauses \in Int /\ s.total \in Int /\ s.pauses + 1 \in 0 .. MaxLimitPauses + 1
    BY StudioAssumption DEF States
  <1>2. /\ t \in States
        /\ t.paused = TRUE /\ t.pauses = s.pauses + 1 /\ t.id = s.id /\ t.total = s.total
        /\ t.resumes = s.resumes /\ t.progress = s.progress
    BY <1>1 DEF RecordPause, States
  <1>. HIDE DEF t
  <1>3. Accounted(s) <= Accounted(t)
    BY <1>1, <1>2 DEF Accounted
  <1>. QED
    BY <1>2, <1>3 DEF t

\* What a state accounts for is capped.
LEMMA AccountedBound ==
  ASSUME NEW s \in States, s.pauses <= MaxLimitPauses
  PROVE  Accounted(s) \in Int /\ Accounted(s) <= MaxTotalResumes + MaxLimitPauses
  BY StudioAssumption DEF States, Accounted

\* No state recorded: zero everywhere.
LEMMA NoStateInCaps == NoState \in States /\ ~NoState.id /\ NoState.pauses = 0 /\ NoState.total = 0
  BY StudioAssumption DEF NoState, States

\* The states of a creation that starts afresh, and of a pause before any session.
LEMMA FreshInCaps ==
  ASSUME NEW n \in Nat, n <= MaxLimitPauses
  PROVE  /\ [NoState EXCEPT !.id = TRUE, !.pauses = n] \in States
         /\ [NoState EXCEPT !.pauses = n] \in States
         /\ [NoState EXCEPT !.pauses = n].pauses = n
  <1>1. n \in 0 .. MaxLimitPauses + 1
    BY StudioAssumption
  <1>2. /\ 0 \in 0 .. MaxResumes /\ 0 \in 0 .. MaxTotalResumes
    BY StudioAssumption
  <1>. QED
    BY <1>1, <1>2 DEF NoState, States

\* The fields of a state, as the provers need them.
LEMMA FieldTypes ==
  ASSUME NEW s \in States
  PROVE  /\ s.pauses \in Nat /\ s.resumes \in Nat /\ s.total \in Nat /\ s.progress \in Nat
         /\ s.resumes <= MaxResumes /\ s.total <= MaxTotalResumes
         /\ Accounted(s) \in Int
  BY StudioAssumption DEF States, Accounted

------------------------------------------------------------------------------
(* Types.                                                                      *)

\* Every step keeps the types.
LEMMA TypeStep ==
  StudioTypeOK /\ PausesOnRecord /\ Next => StudioTypeOK'
  <1>. SUFFICES ASSUME StudioTypeOK, PausesOnRecord, Next PROVE StudioTypeOK'
    OBVIOUS
  <1>. USE DEF StudioTypeOK
  <1>1. CASE RunAgain
    BY <1>1 DEF RunAgain, StudioStatuses, disk, rows
  <1>2. CASE Requeue
    BY <1>2 DEF Requeue, StudioStatuses, disk, history
  <1>3. CASE Claim
    BY <1>3, NoStateInCaps DEF Claim, StudioLabels, StudioStatuses, disk, rows
  <1>4. CASE PurgeSelect
    BY <1>4 DEF PurgeSelect, rows, history
  <1>5. CASE PurgeRemove
    BY <1>5, ZenonT(20) DEF PurgeRemove, rows, history
  <1>6. CASE NoKeys
    BY <1>6 DEF NoKeys, StudioLabels, StudioStatuses, disk, rows, history
  <1>7. CASE Start
    BY <1>7 DEF Start, StudioLabels, disk, rows, history
  <1>8. CASE MakeDecision
    <2>1. at' \in StudioLabels
      BY <1>8 DEF MakeDecision, StudioLabels
    <2>2. plan' \in States
      <3>1. ok \in Nat
        BY StudioAssumption
      <3>2. CASE Decide(sess, ok, runDir) = "resume"
        BY <1>8, <3>1, <3>2, ResumedInCaps DEF MakeDecision
      <3>3. CASE Decide(sess, ok, runDir) # "resume"
        BY <1>8, <3>3 DEF MakeDecision
      <3>. QED
        BY <3>2, <3>3
    <2>. QED
      BY <1>8, <2>1, <2>2, ZenonT(20) DEF MakeDecision, disk, rows, history
  <1>9. CASE GiveUp
    BY <1>9 DEF GiveUp, StudioLabels, StudioStatuses, disk
  <1>10. CASE KnownLimit
    <2>. DEFINE s == IF plan.id THEN plan ELSE [NoState EXCEPT !.pauses = sess.pauses]
    <2>1. s \in States /\ s.pauses <= MaxLimitPauses
      BY <1>10, FieldTypes, FreshInCaps DEF KnownLimit, PausesOnRecord
    <2>2. plan' \in States
      <3>. HIDE DEF s
      <3>1. RecordPause(s) \in States
        BY <2>1, RecordPauseCounts
      <3>. QED
        BY <1>10, <3>1 DEF KnownLimit, BeginPause, s
    <2>3. at' \in StudioLabels
      BY <1>10 DEF KnownLimit, BeginPause, StudioLabels
    <2>. QED
      BY <1>10, <2>2, <2>3, ZenonT(20) DEF KnownLimit, disk, rows, history
  <1>11. CASE NoLimit
    <2>1. plan' \in States
      <3>1. CASE plan.id
        BY <1>11, <3>1 DEF NoLimit
      <3>2. CASE ~plan.id
        <4>. DEFINE n == IF resume THEN sess.pauses ELSE 0
        <4>1. n \in Nat /\ n <= MaxLimitPauses
          BY FieldTypes, StudioAssumption DEF PausesOnRecord
        <4>2. plan' = [NoState EXCEPT !.id = TRUE, !.pauses = n]
          BY <1>11, <3>2 DEF NoLimit
        <4>. QED
          BY <4>1, <4>2, FreshInCaps
      <3>. QED
        BY <3>1, <3>2
    <2>2. at' \in StudioLabels
      BY <1>11 DEF NoLimit, StudioLabels
    <2>. QED
      BY <1>11, <2>1, <2>2, ZenonT(20) DEF NoLimit, disk, rows, history
  <1>12. CASE LaunchResumed
    <2>1. launches' \in Nat /\ fruitless' \in Nat /\ at' \in StudioLabels
      BY <1>12 DEF LaunchResumed, CountResumption, StudioLabels, SessionLabels
    <2>. QED
      BY <1>12, <2>1, ZenonT(20) DEF LaunchResumed, disk, rows
  <1>13. CASE Clear
    <2>1. /\ ok' \in 0 .. MaxSteps /\ left' \subseteq {"running", "interrupted"}
          /\ at' \in StudioLabels
      BY <1>13, StudioAssumption DEF Clear, StudioLabels
    <2>. QED
      BY <1>13, <2>1, ZenonT(20) DEF Clear, disk
  <1>14. CASE Wipe
    BY <1>14 DEF Wipe, StudioLabels, rows, history
  <1>15. CASE LaunchFresh
    BY <1>15, StudioAssumption DEF LaunchFresh, StudioLabels, SessionLabels, disk, rows
  <1>16. CASE StepStarts
    BY <1>16 DEF StepStarts, disk, history
  <1>17. CASE StepSucceeds
    <2>1. ok' \in 0 .. MaxSteps /\ fruitless' \in Nat
      BY <1>17, StudioAssumption DEF StepSucceeds
    <2>. QED
      BY <1>17, <2>1, ZenonT(20) DEF StepSucceeds, disk
  <1>18. CASE StepFails
    <2>1. limited' \in BOOLEAN
      BY <1>18, Zenon DEF StepFails
    <2>. QED
      BY <1>18, <2>1, ZenonT(20) DEF StepFails, disk, history
  <1>19. CASE NoTurnPlayed
    BY <1>19 DEF NoTurnPlayed, StudioLabels, SessionLabels, disk, rows, history
  <1>20. CASE Interrupted
    BY <1>20 DEF Interrupted, CloseDangling, StudioLabels, StudioStatuses, disk, history
  <1>21. CASE UsageLimit
    <2>1. plan' \in States
      BY <1>21, RecordPauseCounts DEF UsageLimit, BeginPause, PausesOnRecord
    <2>2. at' \in StudioLabels
      BY <1>21 DEF UsageLimit, BeginPause, StudioLabels
    <2>. QED
      BY <1>21, <2>1, <2>2, ZenonT(20) DEF UsageLimit, disk, rows, history
  <1>22. CASE Fails
    BY <1>22 DEF Fails, CloseDangling, StudioLabels, StudioStatuses, disk, history
  <1>23. CASE Ends
    BY <1>23 DEF Ends, CloseDangling, StudioLabels, StudioStatuses
  <1>24. CASE PauseMarks
    BY <1>24 DEF PauseMarks, StudioLabels, disk, history
  <1>25. CASE PauseSave
    <2>1. fruitless' \in Nat /\ at' \in StudioLabels /\ outcome' \in StudioStatuses
      BY <1>25 DEF PauseSave, CountResumption, StudioLabels, StudioStatuses
    <2>. QED
      BY <1>25, <2>1, ZenonT(20) DEF PauseSave, disk, rows
  <1>26. CASE CapClose
    BY <1>26 DEF CapClose, CloseDangling, StudioLabels, disk, history
  <1>27. CASE CapFail
    BY <1>27 DEF CapFail, StudioLabels, StudioStatuses, disk
  <1>28. CASE Discard
    BY <1>28, NoStateInCaps DEF Discard, StudioLabels, disk, rows, history
  <1>29. CASE Persist
    BY <1>29 DEF Persist, StudioLabels, StudioStatuses, disk, rows, history
  <1>30. CASE Settle
    BY <1>30, NoStateInCaps DEF Settle, StudioLabels, StudioStatuses, disk, history
  <1>31. CASE Crash
    BY <1>31, NoStateInCaps DEF Crash, StudioLabels, disk, history
  <1>32. CASE Cancelled
    BY <1>32 DEF Cancelled, StudioLabels, StudioStatuses, disk, history
  <1>. QED
    BY <1>1, <1>2, <1>3, <1>4, <1>5, <1>6, <1>7, <1>8, <1>9, <1>10, <1>11, <1>12, <1>13, <1>14, <1>15, <1>16,
       <1>17, <1>18, <1>19, <1>20, <1>21, <1>22, <1>23, <1>24, <1>25, <1>26, <1>27, <1>28, <1>29, <1>30, <1>31, <1>32
    DEF Next, Prepare, Session, Finish

------------------------------------------------------------------------------
(* The accounts.                                                               *)

\* Every step keeps the accounts.
LEMMA AccountsStep ==
  ASSUME StudioTypeOK, Accounts, Next
  PROVE  Accounts'
  <1>1. /\ sess.pauses \in Nat /\ sess.resumes \in Nat /\ sess.total \in Nat
        /\ sess.progress \in Nat /\ sess.resumes <= MaxResumes
        /\ sess.total <= MaxTotalResumes /\ Accounted(sess) \in Int
    BY FieldTypes DEF StudioTypeOK
  <1>2. /\ plan.pauses \in Nat /\ plan.resumes \in Nat /\ plan.total \in Nat
        /\ plan.progress \in Nat /\ plan.resumes <= MaxResumes
        /\ plan.total <= MaxTotalResumes /\ Accounted(plan) \in Int
    BY FieldTypes DEF StudioTypeOK
  <1>3. ok \in Nat /\ launches \in Nat /\ fruitless \in Nat
    BY StudioAssumption DEF StudioTypeOK
  <1>. USE <1>1, <1>2, <1>3, StudioAssumption
       DEF Accounts, RunnerIsRunning, PausesOnRecord, SessionOnRecord, FreshPlan,
           RecordAccounts, PlanAccounts, ResumesAreBounded
  <1>11. CASE RunAgain
    BY <1>11 DEF RunAgain, SessionLabels, disk, rows
  <1>12. CASE Requeue
    BY <1>12 DEF Requeue, SessionLabels, disk, history
  <1>13. CASE Claim
    BY <1>13, NoStateInCaps DEF Claim, SessionLabels, disk, rows
  <1>14. CASE PurgeSelect
    BY <1>14 DEF PurgeSelect, SessionLabels, rows, history
  <1>15. CASE PurgeRemove
    BY <1>15 DEF PurgeRemove, SessionLabels, rows, history
  <1>16. CASE NoKeys
    BY <1>16 DEF NoKeys, SessionLabels, disk, rows, history
  <1>17. CASE Start
    BY <1>17, NoStateInCaps DEF Start, SessionLabels, disk, rows, history
  <1>18. CASE MakeDecision
    <2>1. CASE Decide(sess, ok, runDir) = "resume"
      <3>. DEFINE t == Resumed(sess, ok)
      <3>1. /\ t \in States /\ t.id /\ sess.id /\ ~t.paused /\ t.pauses = sess.pauses
            /\ Accounted(t) = Accounted(sess) + 1
        BY <2>1, ResumedInCaps DEF StudioTypeOK
      <3>2. \/ t.total = sess.total /\ t.resumes = sess.resumes /\ ok <= t.progress
            \/ /\ t.total = sess.total + 1 /\ t.progress = ok
               /\ t.resumes = (IF ok > sess.progress THEN 0 ELSE sess.resumes) + 1
        BY ResumedCounts DEF StudioTypeOK, NextResumes
      <3>3. plan' = t /\ at' = "limit"
        BY <1>18, <2>1 DEF MakeDecision
      <3>. HIDE DEF t
      <3>4. /\ at = "decide" /\ plan' = t /\ at' = "limit"
            /\ UNCHANGED <<status, sess, ok, launches, fruitless>>
        BY <1>18, <3>3 DEF MakeDecision, rows, history
      <3>5. launches + 1 <= Accounted(t) /\ t.pauses <= MaxLimitPauses
        BY <3>1
      <3>6. \/ t.total > sess.total /\ fruitless + 1 <= t.resumes /\ ok <= t.progress
            \/ t.total <= sess.total /\ fruitless <= t.resumes /\ ok <= t.progress
        BY <3>1, <3>2
      <3>7. t.total \in Nat /\ t.resumes \in Nat /\ t.progress \in Nat
        BY <3>1, FieldTypes
      <3>. QED
        BY <3>1, <3>4, <3>5, <3>6, <3>7 DEF SessionLabels
    <2>2. CASE Decide(sess, ok, runDir) # "resume"
      BY <1>18, <2>2, NoStateInCaps DEF MakeDecision, SessionLabels, disk, rows, history
    <2>. QED
      BY <2>1, <2>2
  <1>19. CASE GiveUp
    BY <1>19 DEF GiveUp, SessionLabels, disk
  <1>20. CASE KnownLimit
    <2>1. CASE plan.id
      <3>1. /\ plan'.paused /\ plan'.pauses = plan.pauses + 1 /\ plan'.id
            /\ plan'.total = plan.total /\ plan'.resumes = plan.resumes
            /\ plan'.progress = plan.progress /\ Accounted(plan) <= Accounted(plan')
            /\ Accounted(plan') \in Int
        BY <1>20, <2>1, RecordPauseCounts, FieldTypes DEF KnownLimit, BeginPause, StudioTypeOK
      <3>. QED
        BY <1>20, <2>1, <3>1
        DEF KnownLimit, BeginPause, PauseAllowed, SessionLabels, disk, rows, history
    <2>2. CASE ~plan.id
      <3>. DEFINE s == [NoState EXCEPT !.pauses = sess.pauses]
      <3>1. s \in States /\ s.pauses = sess.pauses /\ s.id = FALSE /\ s.total = 0
        BY FreshInCaps DEF NoState
      <3>2. plan' = RecordPause(s)
        BY <1>20, <2>2 DEF KnownLimit, BeginPause
      <3>. HIDE DEF s
      <3>3. plan'.paused /\ plan'.pauses = sess.pauses + 1 /\ plan'.id = FALSE /\ plan'.total = 0
        BY <3>1, <3>2, RecordPauseCounts
      <3>. QED
        BY <1>20, <2>2, <3>3
        DEF KnownLimit, BeginPause, PauseAllowed, SessionLabels, disk, rows, history
    <2>. QED
      BY <2>1, <2>2
  <1>21. CASE NoLimit
    <2>1. CASE plan.id
      BY <1>21, <2>1 DEF NoLimit, SessionLabels, disk, rows, history
    <2>2. CASE ~plan.id
      <3>. DEFINE n == IF resume THEN sess.pauses ELSE 0
      <3>1. plan' = [NoState EXCEPT !.id = TRUE, !.pauses = n]
        BY <1>21, <2>2 DEF NoLimit
      <3>2. /\ plan'.id /\ plan'.resumes = 0 /\ plan'.total = 0 /\ plan'.progress = 0
            /\ ~plan'.paused /\ plan'.pauses = n
        BY <3>1 DEF NoState
      <3>3. n <= MaxLimitPauses
        BY <1>21 DEF NoLimit
      <3>. QED
        BY <1>21, <2>2, <3>2, <3>3 DEF NoLimit, SessionLabels, disk, rows, history
    <2>. QED
      BY <2>1, <2>2
  <1>22. CASE LaunchResumed
    <2>1. Accounted(plan) <= MaxTotalResumes + MaxLimitPauses
      BY <1>22, AccountedBound DEF LaunchResumed, StudioTypeOK
    <2>. QED
      BY <1>22, <2>1 DEF LaunchResumed, CountResumption, SessionLabels, disk, rows
  <1>23. CASE Clear
    BY <1>23 DEF Clear, SessionLabels, disk
  <1>24. CASE Wipe
    BY <1>24 DEF Wipe, SessionLabels, rows, history
  <1>25. CASE LaunchFresh
    <2>1. 0 <= Accounted(plan)
      BY <1>25 DEF LaunchFresh, Accounted
    <2>. QED
      BY <1>25, <2>1 DEF LaunchFresh, SessionLabels, disk, rows
  <1>26. CASE StepStarts
    BY <1>26 DEF StepStarts, SessionLabels, disk, history
  <1>27. CASE StepSucceeds
    BY <1>27 DEF StepSucceeds, SessionLabels, disk
  <1>28. CASE StepFails
    BY <1>28 DEF StepFails, SessionLabels, disk, history
  <1>29. CASE NoTurnPlayed
    BY <1>29 DEF NoTurnPlayed, SessionLabels, disk, rows, history
  <1>30. CASE Interrupted
    BY <1>30 DEF Interrupted, SessionLabels, disk, history, CloseDangling
  <1>31. CASE UsageLimit
    <2>1. /\ plan'.paused /\ plan'.pauses = plan.pauses + 1 /\ plan'.id = plan.id
          /\ plan'.total = plan.total /\ plan'.resumes = plan.resumes
          /\ plan'.progress = plan.progress /\ Accounted(plan) <= Accounted(plan')
          /\ Accounted(plan') \in Int
      BY <1>31, RecordPauseCounts, FieldTypes DEF UsageLimit, BeginPause, StudioTypeOK
    <2>. QED
      BY <1>31, <2>1
      DEF UsageLimit, BeginPause, PauseAllowed, SessionLabels, disk, rows, history
  <1>32. CASE Fails
    BY <1>32 DEF Fails, SessionLabels, disk, history, CloseDangling
  <1>33. CASE Ends
    BY <1>33 DEF Ends, SessionLabels, CloseDangling
  <1>34. CASE PauseMarks
    BY <1>34 DEF PauseMarks, SessionLabels, disk, history
  <1>35. CASE PauseSave
    BY <1>35 DEF PauseSave, SessionLabels, disk, rows, CountResumption
  <1>36. CASE CapClose
    BY <1>36 DEF CapClose, SessionLabels, disk, history, CloseDangling
  <1>37. CASE CapFail
    BY <1>37 DEF CapFail, SessionLabels, disk
  <1>38. CASE Discard
    BY <1>38, NoStateInCaps DEF Discard, SessionLabels, disk, rows, history
  <1>39. CASE Persist
    BY <1>39 DEF Persist, SessionLabels, disk, rows, history
  <1>40. CASE Settle
    BY <1>40, NoStateInCaps DEF Settle, SessionLabels, disk, history
  <1>41. CASE Crash
    BY <1>41, NoStateInCaps DEF Crash, SessionLabels, disk, history
  <1>42. CASE Cancelled
    BY <1>42 DEF Cancelled, SessionLabels, disk, history
  <1>. QED
    BY <1>11, <1>12, <1>13, <1>14, <1>15, <1>16, <1>17, <1>18, <1>19, <1>20, <1>21, <1>22, <1>23, <1>24, <1>25, <1>26,
       <1>27, <1>28, <1>29, <1>30, <1>31, <1>32, <1>33, <1>34, <1>35, <1>36, <1>37, <1>38, <1>39, <1>40, <1>41, <1>42
    DEF Next, Prepare, Session, Finish

------------------------------------------------------------------------------
\* The session state and the histories, as they start and as they go on.
LEMMA SessionStart == Init => IInv
  <1>. SUFFICES ASSUME Init PROVE IInv
    OBVIOUS
  <1>1. StudioTypeOK
    <2>1. ok \in 0 .. MaxSteps /\ launches \in Nat /\ fruitless \in Nat
      BY StudioAssumption DEF Init
    <2>2. status \in StudioStatuses /\ outcome \in StudioStatuses /\ at \in StudioLabels
      BY DEF Init, StudioStatuses, StudioLabels
    <2>. QED
      BY <2>1, <2>2, NoStateInCaps, ZenonT(20) DEF Init, StudioTypeOK
  <1>2. Accounts
    BY StudioAssumption, NoStateInCaps
    DEF Init, Accounts, SessionLabels, RunnerIsRunning, PausesOnRecord, SessionOnRecord,
        FreshPlan, RecordAccounts, PlanAccounts, ResumesAreBounded
  <1>. QED
    BY <1>1, <1>2 DEF IInv

LEMMA SessionStep == IInv /\ [Next]_vars => IInv'
  <1>. SUFFICES ASSUME IInv, [Next]_vars PROVE IInv'
    OBVIOUS
  <1>1. CASE Next
    <2>1. StudioTypeOK'
      BY <1>1, TypeStep DEF IInv, Accounts
    <2>2. Accounts'
      BY <1>1, AccountsStep DEF IInv
    <2>. QED
      BY <2>1, <2>2 DEF IInv
  <1>2. CASE UNCHANGED vars
    BY <1>2 DEF vars, disk, rows, history, IInv, Accounts, StudioTypeOK, RunnerIsRunning,
       PausesOnRecord, SessionOnRecord, FreshPlan, RecordAccounts, PlanAccounts,
       ResumesAreBounded
  <1>. QED
    BY <1>1, <1>2

\* What every execution keeps true of the session state and of the histories.
THEOREM SessionInvariant == Spec => []IInv
  BY SessionStart, SessionStep, PTL DEF Spec

\* Type correctness: in particular, no number recorded in the session state ever
\* goes beyond its cap (decide(), record_pause()).
THEOREM StudioTypeCorrect == Spec => []StudioTypeOK
  <1>1. IInv => StudioTypeOK
    BY DEF IInv
  <1>. QED
    BY <1>1, SessionInvariant, PTL

\* A worker that restarts over and over launches the same creation a bounded
\* number of times, whatever the order of interruptions, crashes and pauses.
THEOREM ResumptionsAreBounded == Spec => []ResumesAreBounded
  <1>1. IInv => ResumesAreBounded
    BY DEF IInv, Accounts
  <1>. QED
    BY <1>1, SessionInvariant, PTL

------------------------------------------------------------------------------
(* The ends of an execution.                                                   *)

\* Rows are opened by a session, and closed before anything else is done.
RowsAreOpenInSession == mine => at \in SessionLabels \cup {"pausing", "capped"}

\* Once the creation is given up nothing opens a row again.
AbandonIsFinal ==
  abandoned => left = {} /\ ~mine /\ at \in {"off", "discard", "persist", "settle"}

\* The pause is on record before its status is written, and until the project
\* leaves it: what erases the record never leads to "paused".
PauseOnRecord ==
  /\ status = "paused" \/ (at = "settle" /\ outcome = "paused")
       => sess.paused /\ sess.pauses \in 1 .. MaxLimitPauses
  /\ at = "discard" => outcome # "paused"

Endings == RowsAreOpenInSession /\ AbandonIsFinal /\ PauseOnRecord

\* Every step keeps the three facts above.
LEMMA EndingsStep ==
  ASSUME IInv, Endings, Next
  PROVE  Endings'
  <1>. USE DEF IInv, Accounts, RunnerIsRunning, PausesOnRecord, Endings,
           RowsAreOpenInSession, AbandonIsFinal, PauseOnRecord
  <1>1. CASE RunAgain
    BY <1>1 DEF RunAgain, SessionLabels, disk, rows
  <1>2. CASE Requeue
    BY <1>2 DEF Requeue, SessionLabels, disk, history
  <1>3. CASE Claim
    BY <1>3 DEF Claim, SessionLabels, disk, rows
  <1>4. CASE PurgeSelect
    BY <1>4 DEF PurgeSelect, SessionLabels, rows, history
  <1>5. CASE PurgeRemove
    BY <1>5 DEF PurgeRemove, SessionLabels, rows, history
  <1>6. CASE NoKeys
    BY <1>6 DEF NoKeys, SessionLabels, disk, rows, history
  <1>7. CASE Start
    BY <1>7 DEF Start, SessionLabels, disk, rows, history
  <1>8. CASE MakeDecision
    BY <1>8 DEF MakeDecision, SessionLabels, disk, rows, history
  <1>9. CASE GiveUp
    BY <1>9 DEF GiveUp, SessionLabels, disk
  <1>10. CASE KnownLimit
    BY <1>10 DEF KnownLimit, SessionLabels, disk, rows, history, BeginPause
  <1>11. CASE NoLimit
    BY <1>11 DEF NoLimit, SessionLabels, disk, rows, history
  <1>12. CASE LaunchResumed
    BY <1>12 DEF LaunchResumed, SessionLabels, disk, rows
  <1>13. CASE Clear
    BY <1>13 DEF Clear, SessionLabels, disk
  <1>14. CASE Wipe
    BY <1>14 DEF Wipe, SessionLabels, rows, history
  <1>15. CASE LaunchFresh
    BY <1>15 DEF LaunchFresh, SessionLabels, disk, rows
  <1>16. CASE StepStarts
    BY <1>16 DEF StepStarts, SessionLabels, disk, history
  <1>17. CASE StepSucceeds
    BY <1>17 DEF StepSucceeds, SessionLabels, disk
  <1>18. CASE StepFails
    BY <1>18 DEF StepFails, SessionLabels, disk, history
  <1>19. CASE NoTurnPlayed
    BY <1>19 DEF NoTurnPlayed, SessionLabels, disk, rows, history
  <1>20. CASE Interrupted
    BY <1>20 DEF Interrupted, SessionLabels, disk, history, CloseDangling
  <1>21. CASE UsageLimit
    BY <1>21 DEF UsageLimit, SessionLabels, disk, rows, history, BeginPause
  <1>22. CASE Fails
    BY <1>22 DEF Fails, SessionLabels, disk, history, CloseDangling
  <1>23. CASE Ends
    BY <1>23 DEF Ends, SessionLabels, CloseDangling
  <1>24. CASE PauseMarks
    BY <1>24 DEF PauseMarks, SessionLabels, disk, history
  <1>25. CASE PauseSave
    BY <1>25 DEF PauseSave, SessionLabels, disk, rows
  <1>26. CASE CapClose
    BY <1>26 DEF CapClose, SessionLabels, disk, history, CloseDangling
  <1>27. CASE CapFail
    BY <1>27 DEF CapFail, SessionLabels, disk
  <1>28. CASE Discard
    BY <1>28 DEF Discard, SessionLabels, disk, rows, history
  <1>29. CASE Persist
    BY <1>29 DEF Persist, SessionLabels, disk, rows, history
  <1>30. CASE Settle
    BY <1>30 DEF Settle, SessionLabels, disk, history
  <1>31. CASE Crash
    BY <1>31 DEF Crash, SessionLabels, disk, history
  <1>32. CASE Cancelled
    BY <1>32 DEF Cancelled, SessionLabels, disk, history
  <1>. QED
    BY <1>1, <1>2, <1>3, <1>4, <1>5, <1>6, <1>7, <1>8, <1>9, <1>10, <1>11, <1>12, <1>13, <1>14, <1>15, <1>16,
       <1>17, <1>18, <1>19, <1>20, <1>21, <1>22, <1>23, <1>24, <1>25, <1>26, <1>27, <1>28, <1>29, <1>30, <1>31, <1>32
    DEF Next, Prepare, Session, Finish

\* How an execution may end, in every execution.
THEOREM EndingsInvariant == Spec => []Endings
  <1>1. Init => Endings
    BY DEF Init, Endings, RowsAreOpenInSession, AbandonIsFinal, PauseOnRecord
  <1>2. IInv /\ Endings /\ [Next]_vars => Endings'
    <2>. SUFFICES ASSUME IInv, Endings, [Next]_vars PROVE Endings'
      OBVIOUS
    <2>1. CASE Next
      BY <2>1, EndingsStep
    <2>2. CASE UNCHANGED vars
      BY <2>2 DEF vars, rows, history, Endings, RowsAreOpenInSession, AbandonIsFinal,
         PauseOnRecord
    <2>. QED
      BY <2>1, <2>2
  <1>. QED
    BY <1>1, <1>2, SessionInvariant, PTL DEF Spec

\* No step of an abandoned creation stays "running" or "interrupted".
THEOREM AbandonmentIsClean == Spec => []AbandonLeavesNothingOpen
  <1>1. Endings => AbandonLeavesNothingOpen
    BY DEF Endings, AbandonIsFinal, AbandonLeavesNothingOpen
  <1>. QED
    BY <1>1, EndingsInvariant, PTL

\* A paused project always has its reset time on record, within the cap.
THEOREM PausesAreRecorded == Spec => []PauseIsRecorded
  <1>1. Endings => PauseIsRecorded
    BY DEF Endings, PauseOnRecord, PauseIsRecorded
  <1>. QED
    BY <1>1, EndingsInvariant, PTL

------------------------------------------------------------------------------
(* The AI images: what is paid is one of the commands that were asked for.     *)

\* A command that may still be charged.
Unpaid(t) == ask[t].at \in {"look", "lock", "relook", "reserve", "call"}

UnpaidTools == {t \in Tools : Unpaid(t)}

\* A command is charged once at most: those that were, and those that may be, were asked.
AsksCoverPaid ==
  /\ IsFiniteSet(UnpaidTools) /\ paid + Cardinality(UnpaidTools) <= asked

ImagesBounds == ImagesTypeOK /\ AsksCoverPaid

\* What is charged makes its command one that is paid.
LEMMA CommandIsPaid ==
  ASSUME AsksCoverPaid, NEW t \in Tools, Unpaid(t), UNCHANGED asked, ~Unpaid(t)',
         \A u \in Tools \ {t} : ask'[u] = ask[u],
         paid \in Nat, asked \in Nat, paid' \in {paid, paid + 1}
  PROVE  AsksCoverPaid'
<1>1. UnpaidTools' = UnpaidTools \ {t}  BY DEF UnpaidTools, Unpaid
<1>2. t \in UnpaidTools  BY DEF UnpaidTools
<1>3. /\ IsFiniteSet(UnpaidTools') /\ Cardinality(UnpaidTools') = Cardinality(UnpaidTools) - 1
      /\ Cardinality(UnpaidTools) \in Nat
  BY <1>1, <1>2, FS_RemoveElement, FS_CardinalityType DEF AsksCoverPaid
<1> QED  BY <1>3 DEF AsksCoverPaid

\* A step that charges nothing and asks for nothing leaves no more commands to pay.
LEMMA NothingIsPaid ==
  ASSUME AsksCoverPaid, NEW t \in Tools, UNCHANGED <<asked, paid>>, Unpaid(t)' => Unpaid(t),
         \A u \in Tools \ {t} : ask'[u] = ask[u], paid \in Nat, asked \in Nat
  PROVE  AsksCoverPaid'
<1>1. UnpaidTools' \subseteq UnpaidTools  BY DEF UnpaidTools, Unpaid
<1>2. /\ IsFiniteSet(UnpaidTools') /\ Cardinality(UnpaidTools') <= Cardinality(UnpaidTools)
  BY <1>1, FS_Subset DEF AsksCoverPaid
<1>3. Cardinality(UnpaidTools) \in Nat /\ Cardinality(UnpaidTools') \in Nat
  BY <1>2, FS_CardinalityType DEF AsksCoverPaid
<1> QED  BY <1>2, <1>3 DEF AsksCoverPaid

LEMMA ImagesStart == ASSUME ImagesAssumption, ImagesInit PROVE ImagesBounds
<1>1. (CHOOSE i \in Images : TRUE) \in Images  BY DEF ImagesAssumption
<1>2. ask \in [Tools -> [at : Labels, image : Images, seen : 0 .. MaxImages]]
  BY <1>1 DEF ImagesInit, Rest, Labels, ImagesAssumption
<1>3. ImagesTypeOK  BY <1>2 DEF ImagesInit, ImagesTypeOK, ImagesAssumption
<1>4. UnpaidTools = {}  BY DEF UnpaidTools, Unpaid, ImagesInit, Rest
<1>5. AsksCoverPaid  BY <1>4, FS_EmptySet DEF AsksCoverPaid, ImagesInit
<1> QED  BY <1>3, <1>5 DEF ImagesBounds

LEMMA ImagesTypesStep ==
  ASSUME ImagesAssumption, ImagesBounds, ImagesNext PROVE ImagesBounds'
<1> USE DEF At, Goto, Image, tally, cache, Labels
<1>0. /\ MaxImages \in Nat /\ MaxAsks \in Nat /\ (CHOOSE i \in Images : TRUE) \in Images
      /\ billed \in 0 .. MaxImages /\ asked \in 0 .. MaxAsks /\ paid \in 0 .. MaxAsks /\ unheard \in 0 .. paid
      /\ paid \in Nat /\ asked \in Nat
  BY DEF ImagesAssumption, ImagesBounds, ImagesTypeOK
<1> DEFINE Moves(t) == \A u \in Tools \ {t} : ask'[u] = ask[u]
<1>1. ASSUME NEW t \in Tools, NEW i \in Images, Begin(t, i) PROVE ImagesBounds'
  <2>1. ImagesTypeOK'  BY <1>0, <1>1 DEF Begin, ImagesBounds, ImagesTypeOK
  <2>2. UnpaidTools' = UnpaidTools \cup {t} /\ t \notin UnpaidTools
    BY <1>1 DEF Begin, UnpaidTools, Unpaid, ImagesBounds, ImagesTypeOK
  <2>3. IsFiniteSet(UnpaidTools) /\ Cardinality(UnpaidTools) \in Nat
    BY FS_CardinalityType DEF ImagesBounds, AsksCoverPaid
  <2>4. IsFiniteSet(UnpaidTools') /\ Cardinality(UnpaidTools') = Cardinality(UnpaidTools) + 1
    BY <2>2, <2>3, FS_AddElement
  <2>5. AsksCoverPaid'  BY <1>0, <1>1, <2>3, <2>4 DEF Begin, ImagesBounds, AsksCoverPaid
  <2> QED  BY <2>1, <2>5 DEF ImagesBounds
<1>2. ASSUME NEW t \in Tools, \/ Look(t) \/ Lock(t) \/ Reserve(t) \/ Verify(t) \/ Refund(t)
                              \/ StoreFile(t) \/ StoreMeta(t) \/ MetaWritten(t) \/ Unlock(t)
      PROVE ImagesBounds'
  <2>1. CASE Look(t)
    <3>1. ImagesTypeOK'  BY <1>0, <2>1 DEF Look, ImagesBounds, ImagesTypeOK
    <3>2. Moves(t) /\ (Unpaid(t)' => Unpaid(t)) /\ UNCHANGED <<asked, paid>>
      BY <2>1 DEF Look, Unpaid, ImagesBounds, ImagesTypeOK
    <3> QED  BY <1>0, <3>1, <3>2, NothingIsPaid DEF ImagesBounds
  <2>2. CASE Lock(t)
    <3>1. ImagesTypeOK'  BY <1>0, <2>2 DEF Lock, ImagesBounds, ImagesTypeOK
    <3>2. Moves(t) /\ (Unpaid(t)' => Unpaid(t)) /\ UNCHANGED <<asked, paid>>
      BY <2>2 DEF Lock, Unpaid, ImagesBounds, ImagesTypeOK
    <3> QED  BY <1>0, <3>1, <3>2, NothingIsPaid DEF ImagesBounds
  <2>3. CASE Reserve(t)
    <3>1. ImagesTypeOK'  BY <1>0, <2>3 DEF Reserve, ImagesBounds, ImagesTypeOK
    <3>2. Moves(t) /\ (Unpaid(t)' => Unpaid(t)) /\ UNCHANGED <<asked, paid>>
      BY <2>3 DEF Reserve, Unpaid, ImagesBounds, ImagesTypeOK
    <3> QED  BY <1>0, <3>1, <3>2, NothingIsPaid DEF ImagesBounds
  <2>4. CASE Refund(t) \/ Verify(t)
    <3>1. ImagesTypeOK'  BY <1>0, <2>4 DEF Refund, Verify, ImagesBounds, ImagesTypeOK
    <3>2. Moves(t) /\ (Unpaid(t)' => Unpaid(t)) /\ UNCHANGED <<asked, paid>>
      BY <2>4 DEF Refund, Verify, Unpaid, ImagesBounds, ImagesTypeOK
    <3> QED  BY <1>0, <3>1, <3>2, NothingIsPaid DEF ImagesBounds
  <2>5. CASE StoreFile(t) \/ StoreMeta(t) \/ MetaWritten(t)
    <3>1. ImagesTypeOK'
      <4>1. CASE StoreFile(t)
        <5>1. file' \in [Images -> BOOLEAN]  BY <4>1 DEF StoreFile, ImagesBounds, ImagesTypeOK
        <5>2. ask' \in [Tools -> [at : Labels, image : Images, seen : 0 .. MaxImages]]
          BY <4>1 DEF StoreFile, ImagesBounds, ImagesTypeOK
        <5>3. UNCHANGED <<lock, billed, meta, asked, tally>>  BY <4>1 DEF StoreFile
        <5> QED  BY <5>1, <5>2, <5>3 DEF ImagesBounds, ImagesTypeOK
      <4>2. CASE StoreMeta(t)  BY <1>0, <4>2 DEF StoreMeta, ImagesBounds, ImagesTypeOK
      <4>3. CASE MetaWritten(t)  BY <1>0, <4>3 DEF MetaWritten, ImagesBounds, ImagesTypeOK
      <4> QED  BY <2>5, <4>1, <4>2, <4>3
    <3>2. Moves(t) /\ (Unpaid(t)' => Unpaid(t)) /\ UNCHANGED <<asked, paid>>
      BY <2>5 DEF StoreFile, StoreMeta, MetaWritten, Unpaid, ImagesBounds, ImagesTypeOK
    <3> QED  BY <1>0, <3>1, <3>2, NothingIsPaid DEF ImagesBounds
  <2>6. CASE Unlock(t)
    <3>1. ImagesTypeOK'  BY <1>0, <2>6 DEF Unlock, Rest, ImagesBounds, ImagesTypeOK
    <3>2. Moves(t) /\ (Unpaid(t)' => Unpaid(t)) /\ UNCHANGED <<asked, paid>>
      BY <2>6 DEF Unlock, Rest, Unpaid, ImagesBounds, ImagesTypeOK
    <3> QED  BY <1>0, <3>1, <3>2, NothingIsPaid DEF ImagesBounds
  <2> QED  BY <1>2, <2>1, <2>2, <2>3, <2>4, <2>5, <2>6
<1>3. ASSUME NEW t \in Tools, Call(t) \/ Kill(t) PROVE ImagesBounds'
  <2>1. PICK l \in {"idle", "refund", "verify", "unlock"} :
          /\ ask' = [ask EXCEPT ![t] = IF l = "idle" THEN Rest ELSE [@ EXCEPT !.at = l]]
          /\ paid' \in {paid, paid + 1} /\ unheard' \in unheard .. (unheard + paid' - paid)
          /\ paid' = paid + 1 => Unpaid(t)
          /\ lock' \in {lock, Nobody} /\ UNCHANGED <<billed, cache, asked>>
    <3>1. CASE Kill(t)  BY <1>0, <3>1 DEF Kill, Unpaid
    <3>2. CASE Call(t)
      <4>1. PICK a \in GenerateWithPlan(Image(t)) :
              /\ paid' = paid + a.charged
              /\ unheard' = IF a.is = "none" THEN unheard + a.charged ELSE unheard
              /\ Goto(t, After(a))
        BY <3>2 DEF Call
      <4>0. Image(t) \in Images  BY DEF ImagesBounds, ImagesTypeOK
      <4>2. a.charged \in {0, 1}  BY <4>0, <4>1, AnswersAreCounted
      <4>3. After(a) \in {"refund", "verify", "unlock"}  BY DEF After
      <4>4. UNCHANGED <<lock, billed, cache, asked>> /\ Unpaid(t)  BY <3>2 DEF Call, Unpaid
      <4> HIDE DEF After
      <4>5. /\ paid' \in {paid, paid + 1} /\ unheard' \in unheard .. (unheard + paid' - paid)
        BY <1>0, <4>1, <4>2
      <4> QED  BY <4>1, <4>3, <4>4, <4>5
    <3> QED  BY <1>3, <3>1, <3>2
  <2>2. Moves(t) /\ ~Unpaid(t)' /\ asked' = asked
    BY <2>1 DEF Rest, Unpaid, ImagesBounds, ImagesTypeOK
  <2>3. AsksCoverPaid'
    <3>1. CASE Unpaid(t)  BY <1>0, <2>1, <2>2, <3>1, CommandIsPaid DEF ImagesBounds
    <3>2. CASE ~Unpaid(t)  BY <1>0, <2>1, <2>2, <3>2, NothingIsPaid DEF ImagesBounds
    <3> QED  BY <3>1, <3>2
  <2>4. paid' \in 0 .. MaxAsks /\ unheard' \in 0 .. paid'
    <3>1. IsFiniteSet(UnpaidTools')  BY <2>3 DEF AsksCoverPaid
    <3>2. Cardinality(UnpaidTools') \in Nat  BY <3>1, FS_CardinalityType
    <3>3. paid' + Cardinality(UnpaidTools') <= asked  BY <2>2, <2>3 DEF AsksCoverPaid
    <3> QED  BY <1>0, <2>1, <3>2, <3>3
  <2>5. ask' \in [Tools -> [at : Labels, image : Images, seen : 0 .. MaxImages]]
    BY <1>0, <2>1 DEF Rest, ImagesBounds, ImagesTypeOK
  <2>6. ImagesTypeOK'  BY <2>1, <2>2, <2>4, <2>5 DEF ImagesBounds, ImagesTypeOK
  <2> QED  BY <2>3, <2>6 DEF ImagesBounds
<1> QED  BY <1>1, <1>2, <1>3 DEF ImagesNext

------------------------------------------------------------------------------
(* The renders.                                                                *)

RenderBounds ==
  /\ \A r \in Renders :
       /\ {"out", "begun"} \subseteq DOMAIN render[r]
       /\ render[r].at \in Re!Labels /\ render[r].out \in Outputs /\ render[r].begun \in BOOLEAN
  /\ newer \in [Re!Shown -> SUBSET Renders]
  /\ renders \in 0 .. MaxRenders /\ changes \in 0 .. MaxChanges

\* A command at a label, with an output.
RenderAt(c) ==
  /\ {"out", "begun"} \subseteq DOMAIN c
  /\ c.at \in Re!Labels /\ c.out \in Outputs /\ c.begun \in BOOLEAN

LEMMA RestIsTyped == ASSUME Re!RenderAssumption PROVE RenderAt(Re!Rest)
<1>1. (CHOOSE o \in Outputs : TRUE) \in Outputs  BY DEF Re!RenderAssumption
<1> QED  BY <1>1 DEF Re!Rest, RenderAt, Re!Labels, Re!NoTimeline

\* One command moves, and the counters stay below their bounds.
LEMMA RenderMoves ==
  ASSUME RenderInv, RenderBounds, NEW r \in Renders, NEW c, RenderAt(c), render' = [render EXCEPT ![r] = c],
         newer' \in [Re!Shown -> SUBSET Renders], renders' \in 0 .. MaxRenders, changes' = changes
  PROVE  RenderBounds'
<1>1. \A s \in Renders : render'[s] = IF s = r THEN c ELSE render[s]  BY DEF RenderInv, RenderTypes
<1> QED  BY <1>1 DEF RenderBounds, RenderAt

LEMMA QuitIsTyped ==
  ASSUME Re!RenderAssumption, RenderInv, RenderBounds, NEW r \in Renders, Re!Quit(r),
         UNCHANGED <<renders, changes>>
  PROVE  RenderBounds'
<1>1. newer' \in [Re!Shown -> SUBSET Renders]  BY DEF Re!Quit, RenderBounds
<1>2. render' = [render EXCEPT ![r] = Re!Rest]  BY DEF Re!Quit
<1>3. renders' \in 0 .. MaxRenders /\ changes' = changes  BY DEF RenderBounds
<1> QED  BY <1>1, <1>2, <1>3, RestIsTyped, RenderMoves

\* A command that goes on keeps its output.
LEMMA RenderGoes ==
  ASSUME RenderInv, RenderBounds, NEW r \in Renders, NEW c, c.at \in Re!Labels,
         {"out", "begun"} \subseteq DOMAIN c, c.out = render[r].out, c.begun = render[r].begun,
         render' = [render EXCEPT ![r] = c],
         newer' \in [Re!Shown -> SUBSET Renders], UNCHANGED <<renders, changes>>
  PROVE  RenderBounds'
<1>1. RenderAt(c) /\ renders' \in 0 .. MaxRenders /\ changes' = changes  BY DEF RenderAt, RenderBounds
<1> QED  BY <1>1, RenderMoves

LEMMA RenderBoundsStep ==
  ASSUME Re!RenderAssumption, RenderInv, RenderBounds, Re!Next PROVE RenderBounds'
<1> USE DEF Re!At
<1>0. /\ MaxRenders \in Nat /\ MaxChanges \in Nat /\ renders \in 0 .. MaxRenders /\ changes \in 0 .. MaxChanges
      /\ newer \in [Re!Shown -> SUBSET Renders]
  BY DEF Re!RenderAssumption, RenderBounds
<1>00. ASSUME NEW r \in Renders
       PROVE  Fields \subseteq DOMAIN render[r] /\ {"out", "begun"} \subseteq DOMAIN render[r]
  BY DEF RenderInv, RenderTypes, RenderBounds
<1>1. ASSUME NEW r \in Renders, NEW out \in Outputs, NEW t \in Timelines, Re!Begin(r, out, t) PROVE RenderBounds'
  <2>1. newer' \in [Re!Shown -> SUBSET Renders] /\ renders' \in 0 .. MaxRenders /\ changes' = changes
    BY <1>0, <1>1 DEF Re!Begin, Re!cache
  <2>2. CASE Re!Valid(t)
    <3> DEFINE new == [Re!Rest EXCEPT !.at = "clip", !.out = out, !.timeline = t, !.begun = TRUE]
    <3>1. RenderAt(new)  BY DEF RenderAt, Re!Rest, Re!Labels
    <3>2. render' = [render EXCEPT ![r] = new]  BY <1>1, <2>2 DEF Re!Begin
    <3> HIDE DEF new
    <3> QED  BY <2>1, <3>1, <3>2, RenderMoves
  <2>3. CASE ~Re!Valid(t)  BY <1>1, <2>1, <2>3 DEF Re!Begin, RenderBounds
  <2> QED  BY <2>2, <2>3
<1>2. ASSUME NEW r \in Renders, Re!NextClip(r) PROVE RenderBounds'
  <2>0. UNCHANGED <<renders, changes>>  BY <1>2 DEF Re!NextClip
  <2>1. CASE Re!Quit(r)  BY <2>0, <2>1, QuitIsTyped
  <2>2. CASE ~Re!Quit(r)
    <3>1. PICK c : /\ render' = [render EXCEPT ![r] = c] /\ c.at \in Re!Labels
                   /\ DOMAIN c = DOMAIN render[r] /\ c.out = render[r].out /\ c.begun = render[r].begun
      <4>1. CASE render' = [render EXCEPT ![r].at = "prune"]
        <5> DEFINE c == [render[r] EXCEPT !.at = "prune"]
        <5>1. /\ render' = [render EXCEPT ![r] = c] /\ c.at \in Re!Labels
              /\ DOMAIN c = DOMAIN render[r] /\ c.out = render[r].out /\ c.begun = render[r].begun
          BY <1>00, <4>1 DEF Re!Labels, Fields
        <5> HIDE DEF c
        <5> QED  BY <5>1
      <4>2. CASE render' # [render EXCEPT ![r].at = "prune"]
        <5> DEFINE key == Re!SegmentKey(Re!Clip(r))
        <5>1. PICK l \in {"clip", "encode"} : render' = [render EXCEPT ![r].keys = Append(@, key), ![r].at = l]
          BY <1>2, <2>2, <4>2 DEF Re!NextClip, Re!Remember
        <5> HIDE DEF key
        <5> DEFINE c == [render[r] EXCEPT !.keys = Append(@, key), !.at = l]
        <5>2. /\ render' = [render EXCEPT ![r] = c] /\ c.at \in Re!Labels
              /\ DOMAIN c = DOMAIN render[r] /\ c.out = render[r].out /\ c.begun = render[r].begun
          BY <1>00, <5>1 DEF Re!Labels, Fields
        <5> HIDE DEF c
        <5> QED  BY <5>2
      <4> QED  BY <4>1, <4>2
    <3>2. newer' = newer  BY <1>2, <2>2 DEF Re!NextClip
    <3> QED  BY <1>0, <1>00, <2>0, <3>1, <3>2, RenderGoes
  <2> QED  BY <2>1, <2>2
<1>3. ASSUME NEW r \in Renders, Re!Encode(r) PROVE RenderBounds'
  <2>0. UNCHANGED <<renders, changes>>  BY <1>3 DEF Re!Encode
  <2>1. CASE Re!Quit(r)  BY <2>0, <2>1, QuitIsTyped
  <2>2. CASE ~Re!Quit(r)
    <3> DEFINE c == [render[r] EXCEPT !.at = "clip"]
    <3>1. /\ render' = [render EXCEPT ![r] = c] /\ c.at \in Re!Labels
          /\ DOMAIN c = DOMAIN render[r] /\ c.out = render[r].out /\ c.begun = render[r].begun
      BY <1>00, <1>3, <2>2 DEF Re!Encode, Re!Labels, Fields
    <3>2. newer' \in [Re!Shown -> SUBSET Renders]  BY <1>0, <1>3, <2>2 DEF Re!Encode
    <3> HIDE DEF c
    <3> QED  BY <1>00, <2>0, <3>1, <3>2, RenderGoes
  <2> QED  BY <2>1, <2>2
<1>4. ASSUME NEW r \in Renders, Re!Prune(r) PROVE RenderBounds'
  <2> DEFINE c == [render[r] EXCEPT !.at = "concat"]
  <2>1. /\ render' = [render EXCEPT ![r] = c] /\ c.at \in Re!Labels
        /\ DOMAIN c = DOMAIN render[r] /\ c.out = render[r].out /\ c.begun = render[r].begun
    BY <1>00, <1>4 DEF Re!Prune, Re!Labels, Fields
  <2>2. newer' \in [Re!Shown -> SUBSET Renders]  BY <1>0, <1>4 DEF Re!Prune
  <2>3. UNCHANGED <<renders, changes>>  BY <1>4 DEF Re!Prune
  <2> HIDE DEF c
  <2> QED  BY <1>00, <2>1, <2>2, <2>3, RenderGoes
<1>5. ASSUME NEW r \in Renders, Re!Concat(r) PROVE RenderBounds'
  <2>0. UNCHANGED <<renders, changes>>  BY <1>5 DEF Re!Concat
  <2>1. CASE Re!Quit(r)  BY <2>0, <2>1, QuitIsTyped
  <2>2. CASE ~Re!Quit(r)
    <3>1. PICK s : render' = [render EXCEPT ![r].at = "mux", ![r].seen = s]
      BY <1>5, <2>2 DEF Re!Concat
    <3> DEFINE c == [render[r] EXCEPT !.at = "mux", !.seen = s]
    <3>2. /\ render' = [render EXCEPT ![r] = c] /\ c.at \in Re!Labels
          /\ DOMAIN c = DOMAIN render[r] /\ c.out = render[r].out /\ c.begun = render[r].begun
      BY <1>00, <3>1 DEF Re!Labels, Fields
    <3>3. newer' = newer  BY <1>5, <2>2 DEF Re!Concat
    <3> HIDE DEF c
    <3> QED  BY <1>0, <1>00, <2>0, <3>2, <3>3, RenderGoes
  <2> QED  BY <2>1, <2>2
<1>6. ASSUME NEW r \in Renders, Re!Mux(r) \/ Re!Kill(r) PROVE RenderBounds'
  <2>1. Re!Quit(r) /\ UNCHANGED <<renders, changes>>  BY <1>6 DEF Re!Mux, Re!Kill
  <2> QED  BY <2>1, QuitIsTyped
<1>7. ASSUME NEW m \in Media, NEW v \in Versions \cup {Re!Absent}, Re!Replace(m, v) PROVE RenderBounds'
  <2>1. UNCHANGED <<render, newer, renders>> /\ changes' \in 0 .. MaxChanges
    BY <1>0, <1>7 DEF Re!Replace, Re!cache
  <2> QED  BY <2>1 DEF RenderBounds
<1> QED  BY <1>1, <1>2, <1>3, <1>4, <1>5, <1>6, <1>7 DEF Re!Next

LEMMA RenderIsTyped == ASSUME RenderInv, RenderBounds PROVE Re!RenderTypeOK
<1>1. ASSUME NEW k \in Re!Shown PROVE segments[k] \in {{}} \cup {{s} : s \in Re!Shown}
  <2>1. PICK s \in Re!Shown : segments[k] \subseteq {s}  BY DEF RenderInv, SegmentsAreTrue
  <2>2. segments[k] = {} \/ segments[k] = {s}  BY <2>1
  <2> QED  BY <2>2
<1> QED
  BY <1>1 DEF RenderInv, RenderTypes, RenderBounds, Re!RenderTypeOK, Re!NoTimeline

------------------------------------------------------------------------------
(* The speech commands.                                                        *)

\* A command at a label, with its tries and the engine that spoke last.
SpeechAt(c) ==
  /\ c.at \in Sp!Labels /\ c.trial \in BOOLEAN /\ c.vertex \in BOOLEAN
  /\ c.tries \in 0 .. MaxTries - 1 /\ c.used \in Sp!Speakers \cup {Sp!None}

SpeechBounds ==
  /\ SpeechAt(tts)
  /\ voice \in Seq(Sp!Speakers \cup {Sp!Torn}) /\ reported \in Sp!Speakers \cup {Sp!None}
  /\ narrations \in 0 .. MaxNarrations /\ late \in BOOLEAN

LEMMA SeqIsWider == ASSUME NEW S, NEW T, S \subseteq T, NEW s \in Seq(S) PROVE s \in Seq(T)
OBVIOUS

LEMMA RestOfSpeech == ASSUME Sp!SpeechAssumption PROVE SpeechAt(Sp!Rest)
<1>1. /\ Sp!Rest.at = "idle" /\ Sp!Rest.tries = 0 /\ Sp!Rest.used = Sp!None
      /\ Sp!Rest.trial = FALSE /\ Sp!Rest.vertex = FALSE
  BY DEF Sp!Rest
<1>2. 0 \in 0 .. MaxTries - 1
  <2>1. MaxTries \in Nat \ {0}  BY DEF Sp!SpeechAssumption
  <2> QED  BY <2>1
<1> QED  BY <1>1, <1>2 DEF SpeechAt, Sp!Labels

\* The next engine.
LEMMA FailsIsTyped == ASSUME SpeechInv, SpeechBounds, Sp!Fails PROVE SpeechAt(tts')
BY DEF SpeechInv, SpeechTypes, SpeechBounds, SpeechAt, Sp!Fails, Sp!Labels

\* Only the command moves.
LEMMA OnlyCommand ==
  ASSUME SpeechBounds, SpeechAt(tts'), UNCHANGED <<voice, reported, narrations, late>> PROVE SpeechBounds'
BY DEF SpeechBounds, SpeechAt

LEMMA AskIsTyped ==
  ASSUME Sp!SpeechAssumption, SpeechInv, SpeechBounds, Sp!AskEngine PROVE SpeechBounds'
<1> USE DEF Sp!Labels
<1>1. /\ {"at", "script", "trial", "chain", "made", "used", "tries", "vertex"} \subseteq DOMAIN tts
      /\ MaxTries \in Nat \ {0} /\ tts.tries \in 0 .. MaxTries - 1 /\ tts.at = "ask"
      /\ SpeechAt(tts)
  BY DEF SpeechInv, SpeechTypes, SpeechBounds, SpeechAt, Sp!SpeechAssumption, Sp!AskEngine
<1>2. Sp!Engine \in Sp!Engines
  BY <1>1 DEF SpeechInv, SpeechTypes, InScript, InLine, Sp!Engine
<1>3. Sp!Speaker \in Sp!Speakers
  BY <1>2, EngineSpeaks DEF Sp!Speaker, Sp!Speakers, Sp!Engines
<1>4. SpeechAt(tts')
  <2>1. CASE Sp!Answered  BY <1>1, <1>3, <2>1 DEF Sp!Answered, SpeechAt
  <2>2. CASE Sp!TryAgain(1) \/ Sp!TryAgain(MaxTries)  BY <1>1, <2>2 DEF Sp!TryAgain, SpeechAt
  <2>3. CASE tts' = [tts EXCEPT !.vertex = TRUE, !.tries = 0]  BY <1>1, <2>3 DEF SpeechAt
  <2>4. CASE Sp!Fails  BY <2>4, FailsIsTyped
  <2> QED
    BY <2>1, <2>2, <2>3, <2>4
    DEF Sp!AskEngine, Sp!AskGemini, Sp!AskVertex, Sp!AskElevenLabs, Sp!AskAzure, Sp!AskEdge
<1>5. UNCHANGED <<voice, reported, narrations, late>>  BY DEF Sp!AskEngine, Sp!files
<1> QED  BY <1>4, <1>5, OnlyCommand

LEMMA SpeechBoundsStep ==
  ASSUME Sp!SpeechAssumption, SpeechInv, SpeechBounds, Sp!Next PROVE SpeechBounds'
<1>0. /\ {"at", "script", "trial", "chain", "made", "used", "tries", "vertex"} \subseteq DOMAIN tts
      /\ SpeechAt(tts)
      /\ voice \in Seq(Sp!Speakers \cup {Sp!Torn}) /\ reported \in Sp!Speakers \cup {Sp!None}
      /\ narrations \in 0 .. MaxNarrations /\ late \in BOOLEAN /\ MaxNarrations \in Nat /\ MaxTries \in Nat \ {0}
  BY DEF SpeechInv, SpeechTypes, SpeechBounds, Sp!SpeechAssumption
<1>00. SpeechAt(Sp!Rest)  BY RestOfSpeech
<1>1. ASSUME NEW script \in Scripts, NEW trial \in BOOLEAN, NEW asks \in Requests,
             Sp!Begin(script, trial, asks)
      PROVE  SpeechBounds'
  <2> DEFINE chain == Sp!Chain(asks)
  <2>1. /\ tts' = [Sp!Rest EXCEPT !.at = "engine", !.script = script, !.trial = trial, !.chain = chain]
        /\ UNCHANGED <<voice, reported, late>> /\ narrations' \in 0 .. MaxNarrations
    BY <1>0, <1>1 DEF Sp!Begin, Sp!files
  <2> HIDE DEF chain
  <2>2. SpeechAt(tts')  BY <1>00, <2>1 DEF SpeechAt, Sp!Rest, Sp!Labels
  <2> QED  BY <1>0, <2>1, <2>2 DEF SpeechBounds, SpeechAt
<1>2. CASE Sp!TryEngine
  <2>0. UNCHANGED <<voice, reported, narrations, late>>  BY <1>2 DEF Sp!TryEngine, Sp!files
  <2>1. CASE tts' = Sp!Rest \/ Sp!Fails
    <3>1. SpeechAt(tts')  BY <1>00, <2>1, FailsIsTyped DEF SpeechAt
    <3> QED  BY <2>0, <3>1, OnlyCommand
  <2>2. CASE ~(tts' = Sp!Rest \/ Sp!Fails)
    <3>1. tts.chain # <<>> /\ tts' = [tts EXCEPT !.at = "line", !.made = <<>>, !.used = Sp!Engine]
      BY <1>2, <2>2 DEF Sp!TryEngine
    <3>2. Sp!Engine \in Sp!Engines  BY <3>1 DEF SpeechInv, SpeechTypes, Sp!Engine
    <3>3. Sp!Engine \in Sp!Speakers \cup {Sp!None}  BY <3>2 DEF Sp!Speakers
    <3> DEFINE engine == Sp!Engine
    <3>4. tts' = [tts EXCEPT !.at = "line", !.made = <<>>, !.used = engine]  BY <3>1
    <3>5. engine \in Sp!Speakers \cup {Sp!None}  BY <3>3
    <3> HIDE DEF engine
    <3>6. SpeechAt(tts')  BY <1>0, <3>4, <3>5 DEF SpeechAt, Sp!Labels
    <3> QED  BY <2>0, <3>6, OnlyCommand
  <2> QED  BY <2>1, <2>2
<1>3. CASE Sp!TakeLine
  <2>0. UNCHANGED <<voice, reported, narrations, late>>  BY <1>3 DEF Sp!TakeLine, Sp!files
  <2> DEFINE found == wav[Sp!Key]
             named == described[Sp!Key]
  <2>1. CASE found # Sp!None /\ named \notin {Sp!None, Sp!Torn}
    <3>1. tts' = [tts EXCEPT !.made = Append(@, found), !.used = named]  BY <1>3, <2>1 DEF Sp!TakeLine
    <3>2. Sp!Key \in Sp!Keys
      BY <1>3, KeyIsInCache DEF Sp!TakeLine, SpeechInv, InScript, InLine
    <3>3. named \in Sp!Speakers  BY <2>1, <3>2 DEF SpeechInv, SpeechTypes
    <3> HIDE DEF found, named
    <3>4. SpeechAt(tts')  BY <1>0, <3>1, <3>3 DEF SpeechAt
    <3> QED  BY <2>0, <3>4, OnlyCommand
  <2>2. CASE ~(found # Sp!None /\ named \notin {Sp!None, Sp!Torn})
    <3>1. tts' = [tts EXCEPT !.at = "ask", !.tries = 0, !.vertex = "gemini" \notin keys]
      BY <1>3, <2>2 DEF Sp!TakeLine
    <3>2. ("gemini" \notin keys) \in BOOLEAN  OBVIOUS
    <3>3. SpeechAt(tts')  BY <1>0, <3>1, <3>2 DEF SpeechAt, Sp!Labels
    <3> QED  BY <2>0, <3>3, OnlyCommand
  <2> QED  BY <2>1, <2>2
<1>4. CASE Sp!StoreLine
  <2>1. SpeechAt(tts')  BY <1>0, <1>4 DEF Sp!StoreLine, SpeechAt, Sp!Labels
  <2>2. UNCHANGED <<voice, reported, narrations, late>>  BY <1>4 DEF Sp!StoreLine
  <2> QED  BY <2>1, <2>2, OnlyCommand
<1>5. CASE Sp!DescribeLine
  <2> DEFINE found == wav[Sp!Key]
  <2>1. tts' = [tts EXCEPT !.at = "line", !.made = Append(@, found)]  BY <1>5 DEF Sp!DescribeLine
  <2> HIDE DEF found
  <2>2. SpeechAt(tts')  BY <1>0, <2>1 DEF SpeechAt, Sp!Labels
  <2>3. UNCHANGED <<voice, reported, narrations, late>>  BY <1>5 DEF Sp!DescribeLine
  <2> QED  BY <2>2, <2>3, OnlyCommand
<1>6. CASE Sp!JoinLines
  <2>1. SpeechAt(tts')
    <3>1. CASE Sp!Fails  BY <3>1, FailsIsTyped
    <3>2. CASE tts' = Sp!Rest  BY <1>00, <3>2 DEF SpeechAt
    <3>3. CASE tts' = [tts EXCEPT !.at = "tighten"]  BY <1>0, <3>3 DEF SpeechAt, Sp!Labels
    <3> QED  BY <1>6, <3>1, <3>2, <3>3 DEF Sp!JoinLines
  <2>2. voice' \in {voice, tts.made} /\ late' \in {late, TRUE} /\ UNCHANGED <<reported, narrations>>
    BY <1>6 DEF Sp!JoinLines
  <2>3. tts.made \in Seq(Sp!Speakers \cup {Sp!Torn})
    BY <1>0, SeqIsWider DEF SpeechInv, SpeechTypes
  <2> QED  BY <1>0, <2>1, <2>2, <2>3 DEF SpeechBounds, SpeechAt
<1>7. CASE Sp!TightenPauses
  <2>1. CASE tts' = Sp!Rest
    <3>1. SpeechAt(tts')  BY <1>00, <2>1 DEF SpeechAt
    <3> QED  BY <1>7, <3>1, OnlyCommand DEF Sp!TightenPauses, Sp!files
  <2>2. CASE tts' = [tts EXCEPT !.at = "status"]
    <3>1. SpeechAt(tts')  BY <1>0, <2>2 DEF SpeechAt, Sp!Labels
    <3> QED  BY <1>7, <3>1, OnlyCommand DEF Sp!TightenPauses, Sp!files
  <2> QED  BY <1>7, <2>1, <2>2 DEF Sp!TightenPauses
<1>8. CASE Sp!WriteStatus
  <2>1. tts' = Sp!Rest /\ reported' = tts.used /\ late' = FALSE /\ UNCHANGED <<voice, narrations>>
    BY <1>8 DEF Sp!WriteStatus
  <2>2. SpeechAt(tts')  BY <1>00, <2>1 DEF SpeechAt
  <2> QED  BY <1>0, <2>1, <2>2 DEF SpeechBounds, SpeechAt
<1>9. CASE Sp!Kill
  <2>1. /\ tts' = Sp!Rest /\ reported' \in {reported, Sp!None} /\ voice' \in {voice, <<Sp!Torn>>}
        /\ late' \in {late, TRUE, FALSE} /\ UNCHANGED narrations
    BY <1>0, <1>9 DEF Sp!Kill
  <2>2. SpeechAt(tts')  BY <1>00, <2>1 DEF SpeechAt
  <2>3. <<Sp!Torn>> \in Seq(Sp!Speakers \cup {Sp!Torn})  OBVIOUS
  <2> QED  BY <1>0, <2>1, <2>2, <2>3 DEF SpeechBounds, SpeechAt
<1>10. CASE Sp!Relaunch
  <2>1. UNCHANGED <<tts, voice, reported, narrations, late>>  BY <1>10 DEF Sp!Relaunch, Sp!files
  <2> QED  BY <1>0, <2>1 DEF SpeechBounds, SpeechAt
<1> QED
  BY <1>1, <1>2, <1>3, <1>4, <1>5, <1>6, <1>7, <1>8, <1>9, <1>10, AskIsTyped DEF Sp!Next

LEMMA SpeechIsTyped == ASSUME SpeechInv, SpeechBounds PROVE Sp!SpeechTypeOK
BY DEF SpeechInv, SpeechTypes, SpeechBounds, SpeechAt, Sp!SpeechTypeOK

------------------------------------------------------------------------------
(* The sandbox.                                                                *)

CallStates == [at : Sb!CallLabels, left : Nat, got : Calls \cup {Sb!NoJob}]

WorkerStates == [at : Sb!WorkerLabels, job : Calls \cup {Sb!NoJob}, left : 0 .. Timeout + KillMargin, alive : BOOLEAN]

JobStates == {"none", ".json", ".running"}

LEMMA SandboxNumbers ==
  ASSUME Sb!SandboxAssumption
  PROVE  /\ QueueWait \in Nat /\ Timeout \in Nat /\ ResultMargin \in Nat /\ KillMargin \in Nat /\ MaxKills \in Nat
BY DEF Sb!SandboxAssumption

\* A call goes to a label, whatever its delay.
LEMMA CallIsTyped ==
  ASSUME Sb!SandboxTypeOK, NEW c \in Calls, NEW label \in Sb!CallLabels,
         Sb!Goto(c, label) \/ \E n \in Nat : call' = [call EXCEPT ![c].at = label, ![c].left = n]
  PROVE  call' \in [Calls -> CallStates]
<1>1. call \in [Calls -> CallStates]  BY DEF Sb!SandboxTypeOK, CallStates
<1> HIDE DEF Sb!CallLabels
<1> QED  BY <1>1 DEF CallStates, Sb!Goto

LEMMA ResultIsTyped ==
  ASSUME Sb!SandboxTypeOK, NEW d \in Sb!Dirs, NEW r \in [of : Calls \cup {Sb!NoJob}, ok : BOOLEAN],
         output' \in {output, [output EXCEPT ![d] = r]}
  PROVE  output' \in [Sb!Dirs -> [of : Calls \cup {Sb!NoJob}, ok : BOOLEAN]]
BY DEF Sb!SandboxTypeOK, Sb!Dirs

\* A worker goes to a label.
LEMMA WorkerIsTyped ==
  ASSUME Sb!SandboxTypeOK, NEW w \in Workers, NEW x \in WorkerStates, worker' = [worker EXCEPT ![w] = x]
  PROVE  worker' \in [Workers -> WorkerStates]
BY DEF Sb!SandboxTypeOK, WorkerStates

LEMMA WorkerTurns ==
  ASSUME Sb!SandboxTypeOK, NEW w \in Workers, NEW label \in Sb!WorkerLabels, Sb!Turns(w, label)
  PROVE  worker' \in [Workers -> WorkerStates]
<1>1. worker \in [Workers -> WorkerStates]  BY DEF Sb!SandboxTypeOK, WorkerStates
<1> HIDE DEF Sb!WorkerLabels
<1> QED  BY <1>1 DEF WorkerStates, Sb!Turns

\* A worker that starts or stops a process keeps its job.
LEMMA ProcessIsTyped ==
  ASSUME NEW x \in WorkerStates, NEW label \in Sb!WorkerLabels, NEW n \in 0 .. Timeout + KillMargin, NEW alive \in BOOLEAN
  PROVE  [x EXCEPT !.at = label, !.left = n, !.alive = alive] \in WorkerStates
<1> HIDE DEF Sb!WorkerLabels
<1> QED  BY DEF WorkerStates

LEMMA WorkerRests == ASSUME Sb!SandboxAssumption PROVE Sb!Rest \in WorkerStates
<1>1. Timeout \in Nat /\ KillMargin \in Nat  BY SandboxNumbers
<1> QED  BY <1>1 DEF Sb!Rest, WorkerStates, Sb!WorkerLabels

\* The calls.
LEMMA CallTypes ==
  ASSUME Sb!SandboxAssumption, Sb!SandboxTypeOK, NEW c \in Calls,
         Sb!Begin(c) \/ Sb!CallStep(c) \/ Sb!Interrupt(c) \/ Sb!KillTool(c)
  PROVE  /\ call' \in [Calls -> CallStates]
         /\ output' \in [Sb!Dirs -> [of : Calls \cup {Sb!NoJob}, ok : BOOLEAN]]
         /\ job' \in [Calls -> JobStates] /\ done' \subseteq Calls /\ cancel' \subseteq Calls
         /\ kills' \in 0 .. MaxKills /\ crossed' \subseteq Calls
         /\ UNCHANGED <<mode, worker>>
<1>0. /\ QueueWait \in Nat /\ Timeout + ResultMargin \in Nat /\ MaxKills \in Nat /\ OutDir[c] \in Sb!Dirs
      /\ kills \in 0 .. MaxKills
  BY SandboxNumbers DEF Sb!Dirs, Sb!SandboxTypeOK
<1>1. call' \in [Calls -> CallStates]
  <2>1. CASE \E label \in Sb!CallLabels : Sb!Goto(c, label)  BY <2>1, CallIsTyped
  <2>2. CASE \E label \in Sb!CallLabels, n \in Nat : call' = [call EXCEPT ![c].at = label, ![c].left = n]
    BY <2>2, CallIsTyped
  <2>3. CASE Sb!ReadResult(c)
    <3>1. PICK l \in {"ok", "failed"} : call' = [call EXCEPT ![c].at = l, ![c].got = output[OutDir[c]].of]
      BY <2>3 DEF Sb!ReadResult
    <3>2. output[OutDir[c]].of \in Calls \cup {Sb!NoJob}  BY <1>0 DEF Sb!SandboxTypeOK
    <3>3. call \in [Calls -> CallStates]  BY DEF Sb!SandboxTypeOK, CallStates
    <3>4. l \in Sb!CallLabels  BY DEF Sb!CallLabels, Sb!Ended
    <3> HIDE DEF Sb!CallLabels
    <3> QED  BY <3>1, <3>2, <3>3, <3>4 DEF CallStates
  <2>4. CASE Sb!GivesUp(c)
    <3>1. call' = [call EXCEPT ![c].at = "leave"] /\ "leave" \in Sb!CallLabels
      BY <2>4 DEF Sb!GivesUp, Sb!CallLabels
    <3>2. Sb!Goto(c, "leave")  BY <3>1 DEF Sb!Goto
    <3> QED  BY <3>1, <3>2, CallIsTyped
  <2>5. CASE Sb!Post(c)
    <3>1. call' = [call EXCEPT ![c].at = "wait", ![c].left = QueueWait] /\ "wait" \in Sb!CallLabels
      BY <2>5 DEF Sb!Post, Sb!CallLabels
    <3> QED  BY <1>0, <2>2, <3>1
  <2>6. CASE Sb!Picked(c)
    <3>1. call' = [call EXCEPT ![c].at = "picked", ![c].left = Timeout + ResultMargin] /\ "picked" \in Sb!CallLabels
      BY <2>6 DEF Sb!Picked, Sb!CallLabels
    <3> QED  BY <1>0, <2>2, <3>1
  <2>7. CASE \/ Sb!Begin(c) \/ Sb!NoMemory(c) \/ Sb!Recreate(c) \/ Sb!Answered(c) \/ Sb!Leave(c) \/ Sb!Withdraw(c)
             \/ Sb!AskCancel(c) \/ Sb!ClearDone(c) \/ Sb!RunsItself(c) \/ Sb!Interrupt(c) \/ Sb!KillTool(c)
    <3>1. PICK l \in {"memory", "failed", "post", "render", "clear", "withdraw", "giveUp", "read", "leave", "killed"} :
            Sb!Goto(c, l)
      BY <2>7 DEF Sb!Begin, Sb!NoMemory, Sb!Recreate, Sb!Answered, Sb!Leave, Sb!Withdraw, Sb!AskCancel, Sb!ClearDone,
                  Sb!RunsItself, Sb!Interrupt, Sb!KillTool
    <3>2. l \in Sb!CallLabels  BY DEF Sb!CallLabels, Sb!Ended
    <3> QED  BY <3>1, <3>2, CallIsTyped
  <2> QED  BY <2>3, <2>4, <2>5, <2>6, <2>7 DEF Sb!CallStep
<1>2. output' \in [Sb!Dirs -> [of : Calls \cup {Sb!NoJob}, ok : BOOLEAN]]
  <2>1. CASE Sb!RunsItself(c)
    <3>1. PICK good \in BOOLEAN : output' \in {output, [output EXCEPT ![OutDir[c]] = [of |-> c, ok |-> good]]}
      BY <2>1 DEF Sb!RunsItself, Sb!Writes
    <3>2. [of |-> c, ok |-> good] \in [of : Calls \cup {Sb!NoJob}, ok : BOOLEAN]  OBVIOUS
    <3> QED  BY <1>0, <3>1, <3>2, ResultIsTyped
  <2>2. CASE Sb!Recreate(c)
    <3>1. Sb!Nothing \in [of : Calls \cup {Sb!NoJob}, ok : BOOLEAN]  BY DEF Sb!Nothing
    <3>2. output' = [output EXCEPT ![OutDir[c]] = Sb!Nothing]  BY <2>2 DEF Sb!Recreate
    <3> QED  BY <1>0, <3>1, <3>2, ResultIsTyped
  <2>3. CASE ~(Sb!RunsItself(c) \/ Sb!Recreate(c))
    <3>1. UNCHANGED output
      BY <2>3 DEF Sb!Begin, Sb!CallStep, Sb!Interrupt, Sb!KillTool, Sb!NoMemory, Sb!Post, Sb!Picked, Sb!Answered,
                  Sb!GivesUp, Sb!Leave, Sb!Withdraw, Sb!AskCancel, Sb!ClearDone, Sb!ReadResult, Sb!files
    <3> QED  BY <3>1 DEF Sb!SandboxTypeOK, Sb!Dirs
  <2> QED  BY <2>1, <2>2, <2>3
<1>3. /\ job' \in {job, [job EXCEPT ![c] = ".json"], [job EXCEPT ![c] = "none"]}
      /\ done' \subseteq done /\ cancel' \subseteq cancel \cup {c}
  BY DEF Sb!Begin, Sb!CallStep, Sb!Interrupt, Sb!KillTool, Sb!NoMemory, Sb!Post, Sb!Picked, Sb!Answered, Sb!GivesUp,
         Sb!Leave, Sb!Withdraw, Sb!AskCancel, Sb!ClearDone, Sb!ReadResult, Sb!Recreate, Sb!RunsItself, Sb!files
<1>4. kills' \in {kills, kills + 1} /\ (kills' = kills + 1 => kills < MaxKills \/ kills' = kills)
  BY DEF Sb!Begin, Sb!CallStep, Sb!Interrupt, Sb!KillTool, Sb!NoMemory, Sb!Post, Sb!Picked, Sb!Answered, Sb!GivesUp,
         Sb!Leave, Sb!Withdraw, Sb!AskCancel, Sb!ClearDone, Sb!ReadResult, Sb!Recreate, Sb!RunsItself, Sb!Killing
<1>5. crossed' \subseteq crossed \cup Calls
  BY DEF Sb!Begin, Sb!CallStep, Sb!Interrupt, Sb!KillTool, Sb!NoMemory, Sb!Post, Sb!Picked, Sb!Answered, Sb!GivesUp,
         Sb!Leave, Sb!Withdraw, Sb!AskCancel, Sb!ClearDone, Sb!ReadResult, Sb!Recreate, Sb!RunsItself
<1>6. UNCHANGED <<mode, worker>>
  BY DEF Sb!Begin, Sb!CallStep, Sb!Interrupt, Sb!KillTool, Sb!NoMemory, Sb!Post, Sb!Picked, Sb!Answered, Sb!GivesUp,
         Sb!Leave, Sb!Withdraw, Sb!AskCancel, Sb!ClearDone, Sb!ReadResult, Sb!Recreate, Sb!RunsItself
<1>7. job' \in [Calls -> JobStates]  BY <1>3 DEF Sb!SandboxTypeOK, JobStates
<1>8. kills' \in 0 .. MaxKills  BY <1>0, <1>4
<1> QED  BY <1>1, <1>2, <1>3, <1>5, <1>6, <1>7, <1>8 DEF Sb!SandboxTypeOK

\* The workers.
LEMMA WorkerTypes ==
  ASSUME Sb!SandboxAssumption, Sb!SandboxTypeOK, SandboxTypes, NEW w \in Workers,
         Sb!WorkerStep(w) \/ Sb!ExecEnds(w) \/ Sb!CrashWorker(w)
  PROVE  /\ worker' \in [Workers -> WorkerStates]
         /\ output' \in [Sb!Dirs -> [of : Calls \cup {Sb!NoJob}, ok : BOOLEAN]]
         /\ job' \in [Calls -> JobStates] /\ done' \subseteq Calls /\ cancel' \subseteq Calls
         /\ kills' \in 0 .. MaxKills
         /\ UNCHANGED <<mode, call, crossed>>
<1> DEFINE Results == [of : Calls \cup {Sb!NoJob}, ok : BOOLEAN]
           own == worker[w].job
<1>0. /\ Timeout \in Nat /\ KillMargin \in Nat /\ MaxKills \in Nat /\ kills \in 0 .. MaxKills
      /\ worker \in [Workers -> WorkerStates] /\ worker[w] \in WorkerStates
      /\ output \in [Sb!Dirs -> Results] /\ job \in [Calls -> JobStates]
      /\ done \subseteq Calls /\ cancel \subseteq Calls
  BY SandboxNumbers DEF Sb!SandboxTypeOK, WorkerStates, JobStates
<1>00. ASSUME worker[w].at # "free" PROVE own \in Calls /\ OutDir[own] \in Sb!Dirs
  BY <1>00 DEF SandboxTypes, Sb!Dirs
<1>r. Sb!Rest \in WorkerStates  BY WorkerRests
<1>f. ASSUME worker[w].at # "free", Sb!Failure(w) PROVE output' \in [Sb!Dirs -> Results]
  <2>1. [of |-> own, ok |-> FALSE] \in Results  BY <1>00, <1>f
  <2>2. output' = [output EXCEPT ![OutDir[own]] = [of |-> own, ok |-> FALSE]]  BY <1>f DEF Sb!Failure
  <2> QED  BY <1>00, <1>f, <2>1, <2>2, ResultIsTyped
<1>1. ASSUME NEW c \in Calls, Sb!Claim(w, c)
      PROVE  /\ worker' \in [Workers -> WorkerStates] /\ output' \in [Sb!Dirs -> Results]
             /\ job' \in [Calls -> JobStates] /\ done' \subseteq Calls /\ cancel' \subseteq Calls
             /\ kills' \in 0 .. MaxKills /\ UNCHANGED <<mode, call, crossed>>
  <2> DEFINE x == [Sb!Rest EXCEPT !.at = "check", !.job = c]
  <2>1. x \in WorkerStates  BY <1>r DEF WorkerStates, Sb!WorkerLabels
  <2>2. worker' = [worker EXCEPT ![w] = x]  BY <1>1 DEF Sb!Claim
  <2> HIDE DEF x
  <2>3. worker' \in [Workers -> WorkerStates]  BY <2>1, <2>2, WorkerIsTyped
  <2>4. /\ job' = [job EXCEPT ![c] = ".running"]
        /\ UNCHANGED <<mode, call, done, cancel, output, kills, crossed>>
    BY <1>1 DEF Sb!Claim
  <2>5. job' \in [Calls -> JobStates]  BY <1>0, <2>4 DEF JobStates
  <2> QED  BY <1>0, <2>3, <2>4, <2>5 DEF Sb!Dirs
<1>2. ASSUME Sb!CheckCancel(w) \/ Sb!Answer(w)
      PROVE  /\ worker' \in [Workers -> WorkerStates] /\ UNCHANGED <<mode, call, crossed, output, job, done, cancel, kills>>
  <2>1. PICK l \in {"unlink", "start", "drop", "touch"} : Sb!Turns(w, l)  BY <1>2 DEF Sb!CheckCancel, Sb!Answer
  <2>2. l \in Sb!WorkerLabels  BY DEF Sb!WorkerLabels
  <2> QED  BY <1>2, <2>1, <2>2, WorkerTurns DEF Sb!CheckCancel, Sb!Answer, Sb!files
<1>3. ASSUME Sb!Start(w)
      PROVE  /\ worker' \in [Workers -> WorkerStates] /\ output' \in [Sb!Dirs -> Results]
             /\ UNCHANGED <<mode, call, crossed, job, done, cancel, kills>>
  <2>1. UNCHANGED <<mode, call, crossed, job, done, cancel, kills>> /\ worker[w].at # "free"
    BY <1>3 DEF Sb!Start, Sb!Does
  <2>2. CASE Sb!Turns(w, "unlink") /\ Sb!Failure(w)
    <3>1. "unlink" \in Sb!WorkerLabels  BY DEF Sb!WorkerLabels
    <3> QED  BY <1>f, <2>1, <2>2, <3>1, WorkerTurns
  <2>3. CASE ~(Sb!Turns(w, "unlink") /\ Sb!Failure(w))
    <3> DEFINE x == [worker[w] EXCEPT !.at = "render", !.left = Timeout + KillMargin, !.alive = TRUE]
    <3>1. worker' = [worker EXCEPT ![w] = x] /\ output' = output  BY <1>0, <1>3, <2>3 DEF Sb!Start
    <3>2. "render" \in Sb!WorkerLabels /\ Timeout + KillMargin \in 0 .. Timeout + KillMargin
      BY <1>0 DEF Sb!WorkerLabels
    <3>3. x \in WorkerStates  BY <1>0, <3>2, ProcessIsTyped
    <3> HIDE DEF x
    <3> QED  BY <1>0, <2>1, <3>1, <3>3, WorkerIsTyped DEF Sb!Dirs
  <2> QED  BY <2>2, <2>3
<1>4. ASSUME Sb!ExecEnds(w)
      PROVE  /\ worker' \in [Workers -> WorkerStates] /\ output' \in [Sb!Dirs -> Results]
             /\ UNCHANGED <<mode, call, crossed, job, done, cancel, kills>>
  <2>1. UNCHANGED <<mode, call, crossed, job, done, cancel, kills>> /\ worker[w].at # "free"
    BY <1>4 DEF Sb!ExecEnds, Sb!Does
  <2>2. PICK good \in BOOLEAN : output' \in {output, [output EXCEPT ![OutDir[own]] = [of |-> own, ok |-> good]]}
    BY <1>4 DEF Sb!ExecEnds, Sb!Writes
  <2>3. [of |-> own, ok |-> good] \in Results  BY <1>00, <2>1
  <2>4. output' \in [Sb!Dirs -> Results]  BY <1>00, <2>1, <2>2, <2>3, ResultIsTyped
  <2> DEFINE x == [worker[w] EXCEPT !.alive = FALSE]
  <2>5. worker' = [worker EXCEPT ![w] = x]  BY <1>0, <1>4 DEF Sb!ExecEnds
  <2>6. x \in WorkerStates  BY <1>0 DEF WorkerStates
  <2> HIDE DEF x, Results
  <2> QED  BY <2>1, <2>4, <2>5, <2>6, WorkerIsTyped
<1>5. ASSUME Sb!Poll(w)
      PROVE  /\ worker' \in [Workers -> WorkerStates] /\ output' \in [Sb!Dirs -> Results]
             /\ UNCHANGED <<mode, call, crossed, job, done, cancel, kills>>
  <2>1. /\ UNCHANGED <<mode, call, crossed, job, done, cancel, kills>> /\ worker[w].at # "free"
        /\ output' = output \/ Sb!Failure(w)
    BY <1>5 DEF Sb!Poll, Sb!SeesEnd, Sb!Stops, Sb!Does
  <2>2. output' \in [Sb!Dirs -> Results]  BY <1>0, <1>f, <2>1 DEF Sb!Dirs
  <2> DEFINE x == [worker[w] EXCEPT !.at = "unlink", !.left = 0, !.alive = FALSE]
  <2>3. worker' = [worker EXCEPT ![w] = x]  BY <1>0, <1>5 DEF Sb!Poll
  <2>4. x \in WorkerStates
    <3>1. "unlink" \in Sb!WorkerLabels /\ 0 \in 0 .. Timeout + KillMargin  BY <1>0 DEF Sb!WorkerLabels
    <3> QED  BY <1>0, <3>1, ProcessIsTyped
  <2> HIDE DEF x, Results
  <2> QED  BY <2>1, <2>2, <2>3, <2>4, WorkerIsTyped
<1>6. ASSUME Sb!Unlink(w)
      PROVE  /\ worker' \in [Workers -> WorkerStates] /\ job' \in [Calls -> JobStates]
             /\ UNCHANGED <<mode, call, crossed, output, done, cancel, kills>>
  <2>1. job' = [job EXCEPT ![own] = "none"] /\ Sb!Turns(w, "answer") /\ "answer" \in Sb!WorkerLabels
    BY <1>6 DEF Sb!Unlink, Sb!WorkerLabels
  <2>2. job' \in [Calls -> JobStates]  BY <1>0, <2>1 DEF JobStates
  <2> QED  BY <1>6, <2>1, <2>2, WorkerTurns DEF Sb!Unlink
<1>7. ASSUME Sb!Mark(w)
      PROVE  /\ worker' \in [Workers -> WorkerStates] /\ done' \subseteq Calls /\ cancel' \subseteq Calls
             /\ UNCHANGED <<mode, call, crossed, output, job, kills>>
  <2>1. worker' = [worker EXCEPT ![w] = Sb!Rest]  BY <1>7 DEF Sb!Mark
  <2>2. done' \subseteq Calls /\ cancel' \subseteq Calls
    <3>1. worker[w].at # "free"  BY <1>7 DEF Sb!Mark, Sb!Does
    <3> QED  BY <1>0, <1>00, <1>7, <3>1 DEF Sb!Mark
  <2> QED  BY <1>7, <1>r, <2>1, <2>2, WorkerIsTyped DEF Sb!Mark
<1>8. ASSUME Sb!CrashWorker(w)
      PROVE  /\ worker' \in [Workers -> WorkerStates] /\ kills' \in 0 .. MaxKills
             /\ UNCHANGED <<mode, call, crossed, output, job, done, cancel>>
  <2>1. worker' = [worker EXCEPT ![w] = Sb!Rest]  BY <1>8 DEF Sb!CrashWorker
  <2>2. kills' \in 0 .. MaxKills  BY <1>0, <1>8 DEF Sb!CrashWorker, Sb!Killing
  <2> QED  BY <1>8, <1>r, <2>1, <2>2, WorkerIsTyped DEF Sb!CrashWorker, Sb!files
<1>9. Sb!Dirs' = Sb!Dirs  BY DEF Sb!Dirs
<1> HIDE DEF Results
<1>10. CASE \E c \in Calls : Sb!Claim(w, c)  BY <1>1, <1>10 DEF Results
<1>11. CASE Sb!CheckCancel(w) \/ Sb!Answer(w)  BY <1>0, <1>2, <1>11 DEF Results
<1>12. CASE Sb!Start(w) \/ Sb!ExecEnds(w) \/ Sb!Poll(w)  BY <1>0, <1>3, <1>4, <1>5, <1>12 DEF Results
<1>13. CASE Sb!Unlink(w) \/ Sb!Mark(w)  BY <1>0, <1>6, <1>7, <1>13 DEF Results
<1>14. CASE Sb!CrashWorker(w)  BY <1>0, <1>8, <1>14 DEF Results
<1> QED  BY <1>10, <1>11, <1>12, <1>13, <1>14 DEF Sb!WorkerStep

LEMMA SandboxTypesStep ==
  ASSUME Sb!SandboxAssumption, Sb!SandboxTypeOK, SandboxInv, Sb!Next PROVE Sb!SandboxTypeOK'
<1>1. ASSUME NEW c \in Calls, Sb!Begin(c) \/ Sb!CallStep(c) \/ Sb!Interrupt(c) \/ Sb!KillTool(c)
      PROVE  Sb!SandboxTypeOK'
  BY <1>1, CallTypes DEF Sb!SandboxTypeOK, CallStates, JobStates, Sb!Dirs
<1>2. ASSUME NEW w \in Workers, Sb!WorkerStep(w) \/ Sb!ExecEnds(w) \/ Sb!CrashWorker(w)
      PROVE  Sb!SandboxTypeOK'
  <2>1. /\ worker' \in [Workers -> WorkerStates]
        /\ output' \in [Sb!Dirs -> [of : Calls \cup {Sb!NoJob}, ok : BOOLEAN]]
        /\ job' \in [Calls -> JobStates] /\ done' \subseteq Calls /\ cancel' \subseteq Calls
        /\ kills' \in 0 .. MaxKills
        /\ UNCHANGED <<mode, call, crossed>>
    BY <1>2, WorkerTypes DEF SandboxInv
  <2> QED  BY <2>1 DEF Sb!SandboxTypeOK, WorkerStates, JobStates, Sb!Dirs
<1>3. ASSUME NEW c \in Calls, Sb!Sweep(c) PROVE Sb!SandboxTypeOK'
  BY <1>3 DEF Sb!Sweep, Sb!SandboxTypeOK, Sb!Dirs
<1>4. CASE Sb!Tick
  <2>1. UNCHANGED <<mode, job, done, cancel, output, kills, crossed>>  BY <1>4 DEF Sb!Tick, Sb!files
  <2>2. call' \in [Calls -> CallStates]
    <3>1. ASSUME NEW c \in Calls PROVE call'[c] \in CallStates
      <4>1. call[c] \in CallStates  BY DEF Sb!SandboxTypeOK, CallStates
      <4>2. PICK n \in Nat : call'[c] = [call[c] EXCEPT !.left = n]
        <5>1. call[c].left \in Nat  BY <4>1 DEF CallStates
        <5>2. Sb!Less(call[c].left) \in Nat  BY <5>1 DEF Sb!Less
        <5> QED  BY <1>4, <5>2 DEF Sb!Tick
      <4> QED  BY <4>1, <4>2 DEF CallStates
    <3> QED  BY <1>4, <3>1 DEF Sb!Tick
  <2>3. worker' \in [Workers -> WorkerStates]
    <3>1. ASSUME NEW w \in Workers PROVE worker'[w] \in WorkerStates
      <4>1. worker[w] \in WorkerStates  BY DEF Sb!SandboxTypeOK, WorkerStates
      <4>2. PICK n \in 0 .. Timeout + KillMargin : worker'[w] = [worker[w] EXCEPT !.left = n]
        <5>1. worker[w].left \in 0 .. Timeout + KillMargin /\ Timeout \in Nat /\ KillMargin \in Nat
          BY <4>1, SandboxNumbers DEF WorkerStates
        <5>2. Sb!Less(worker[w].left) \in 0 .. Timeout + KillMargin  BY <5>1 DEF Sb!Less
        <5> QED  BY <1>4, <5>2 DEF Sb!Tick
      <4> QED  BY <4>1, <4>2 DEF WorkerStates
    <3> QED  BY <1>4, <3>1 DEF Sb!Tick
  <2> QED  BY <2>1, <2>2, <2>3 DEF Sb!SandboxTypeOK, CallStates, WorkerStates, Sb!Dirs
<1> QED  BY <1>1, <1>2, <1>3, <1>4 DEF Sb!Next

------------------------------------------------------------------------------
(* The media library: the register holds what the searches may have found.     *)

FoundItems == Items \ Refused

\* A command at a label, with what it knows.
CommandAt(x) ==
  /\ x.at \in Li!Labels /\ x.item \in Items \cup {Li!Absent}
  /\ x.number \in {0} \cup Li!Numbers /\ x.name \in Names \cup {Li!Absent}
  /\ x.at = "list" => x.seen \in Seq(FoundItems) /\ x.found \in Seq(FoundItems) /\ Len(x.found) <= MaxFound
  /\ x.at = "credit" => x.held \in [Li!Places -> Items \cup {Li!Absent}]

FilesAreTyped ==
  /\ cached \in [Li!Numbers \X Li!Kinds -> Items \cup {Li!Absent, Li!Torn}]
  /\ stored \in [Li!Places -> Items \cup {Li!Absent, Li!Torn}]
  /\ credits \in [Li!Places -> Items \cup {Li!Absent}]
  /\ doubt \subseteq Li!Places

\* The searches that have not written yet, and the number of those that have or never will.
Pending == {c \in Commands : cmd[c].at \in {"ask", "list"}}

Written == searches - Cardinality(Pending)

\* A search adds its candidates to a register that the searches before it have filled.
RegisterFits ==
  /\ IsFiniteSet(Pending) /\ Written \in Nat
  /\ Len(registry) <= MaxFound * Written
  /\ \A c \in Commands : cmd[c].at = "list" => Len(cmd[c].seen) <= MaxFound * Written

LibraryBounds ==
  /\ registry \in Seq(FoundItems) /\ shifted \subseteq Li!Numbers
  /\ FilesAreTyped /\ (\A c \in Commands : CommandAt(cmd[c]))
  /\ searches \in 0 .. MaxSearches /\ uses \in 0 .. MaxUses
  /\ RegisterFits

LEMMA MoreFits == ASSUME NEW m \in Nat, NEW a \in Nat, NEW b \in Nat, a <= b PROVE m * a <= m * b
<1>1. PICK k \in Nat : b = a + k
  <2>1. b - a \in Nat /\ b = a + (b - a)  OBVIOUS
  <2> QED  BY <2>1
<1>2. m * b = m * a + m * k  BY <1>1
<1>3. m * k \in Nat /\ m * a \in Nat  OBVIOUS
<1> QED  BY <1>2, <1>3

LEMMA ProductIsNat == ASSUME NEW m \in Nat, NEW a \in Nat PROVE m * a \in Nat
OBVIOUS

LEMMA OneMoreFits == ASSUME NEW m \in Nat, NEW a \in Nat, NEW b \in Nat, a + 1 <= b PROVE m * a + m <= m * b
<1>1. m * (a + 1) <= m * b  BY MoreFits
<1>2. m * (a + 1) = m * a + m  OBVIOUS
<1> QED  BY <1>1, <1>2

\* The numbers of the register.
LEMMA RegisterIsNumbered ==
  ASSUME Li!MediaAssumption, LibraryBounds
  PROVE  DOMAIN registry \subseteq Li!Numbers /\ Len(registry) \in {0} \cup Li!Numbers
<1>1. MaxFound \in Nat /\ MaxSearches \in Nat /\ Written \in Nat /\ searches \in 0 .. MaxSearches
      /\ IsFiniteSet(Pending)
  BY DEF Li!MediaAssumption, LibraryBounds, RegisterFits
<1>2. Written <= MaxSearches
  <2>1. Cardinality(Pending) \in Nat  BY <1>1, FS_CardinalityType
  <2> QED  BY <1>1, <2>1 DEF Written
<1>3. MaxFound * Written <= MaxFound * MaxSearches  BY <1>1, <1>2, MoreFits
<1>4. MaxFound * Written \in Nat /\ MaxFound * MaxSearches \in Nat  BY <1>1
<1>5. Len(registry) \in Nat /\ DOMAIN registry = 1 .. Len(registry) /\ Len(registry) <= MaxFound * Written
  BY DEF LibraryBounds, RegisterFits
<1> DEFINE most == MaxFound * MaxSearches
           now == MaxFound * Written
<1>6. most \in Nat /\ now \in Nat /\ now <= most /\ Len(registry) <= now  BY <1>3, <1>4, <1>5
<1>7. Li!Numbers = 1 .. most  BY DEF Li!Numbers
<1> HIDE DEF most, now
<1> QED  BY <1>5, <1>6, <1>7

\* A step that begins no search and does not touch the register.
LEMMA RegisterStays ==
  ASSUME Li!MediaAssumption, LibraryBounds, NEW c \in Commands, \A d \in Commands \ {c} : cmd'[d] = cmd[d],
         UNCHANGED <<registry, searches>>, cmd'[c].at \in {"ask", "list"} => c \in Pending,
         cmd'[c].at = "list" => cmd'[c].seen \in Seq(FoundItems) /\ Len(cmd'[c].seen) <= Len(registry)
  PROVE  RegisterFits'
<1>1. /\ IsFiniteSet(Pending) /\ Written \in Nat /\ MaxFound \in Nat /\ searches \in Nat
      /\ registry \in Seq(FoundItems)
  BY DEF LibraryBounds, RegisterFits, Li!MediaAssumption
<1>2. Pending' \subseteq Pending  BY DEF Pending
<1>3. /\ IsFiniteSet(Pending') /\ Cardinality(Pending') <= Cardinality(Pending)
      /\ Cardinality(Pending) \in Nat /\ Cardinality(Pending') \in Nat
  <2>1. IsFiniteSet(Pending') /\ Cardinality(Pending') <= Cardinality(Pending)  BY <1>1, <1>2, FS_Subset
  <2> QED  BY <1>1, <2>1, FS_CardinalityType
<1>4. Written' \in Nat /\ Written <= Written'  BY <1>1, <1>3 DEF Written
<1>5. MaxFound * Written <= MaxFound * Written'  BY <1>1, <1>4, MoreFits
<1>6. MaxFound * Written \in Nat /\ MaxFound * Written' \in Nat  BY <1>1, <1>4, ProductIsNat
<1>7. Len(registry) <= MaxFound * Written /\ Len(registry) \in Nat  BY <1>1 DEF LibraryBounds, RegisterFits
<1> DEFINE now == MaxFound * Written
           next == MaxFound * Written'
<1>8. /\ now \in Nat /\ next \in Nat /\ now <= next /\ Len(registry) <= now
      /\ \A d \in Commands : cmd[d].at = "list" => Len(cmd[d].seen) <= now
  BY <1>5, <1>6, <1>7 DEF LibraryBounds, RegisterFits
<1>9. ASSUME NEW d \in Commands, cmd'[d].at = "list" PROVE Len(cmd'[d].seen) <= next
  <2>1. CASE d = c
    <3>1. Len(cmd'[c].seen) <= Len(registry) /\ Len(cmd'[c].seen) \in Nat  BY <1>9, <2>1
    <3> HIDE DEF next, now
    <3> QED  BY <1>7, <1>8, <2>1, <3>1
  <2>2. CASE d # c
    <3>1. cmd[d].at = "list" /\ cmd'[d] = cmd[d]  BY <1>9, <2>2
    <3>2. Len(cmd[d].seen) <= now /\ Len(cmd[d].seen) \in Nat
      BY <1>8, <3>1 DEF LibraryBounds, CommandAt
    <3> HIDE DEF next, now
    <3> QED  BY <1>8, <3>1, <3>2
  <2> QED  BY <2>1, <2>2
<1>10. Len(registry') <= next
  <2> HIDE DEF next, now
  <2> QED  BY <1>7, <1>8
<1> QED  BY <1>3, <1>4, <1>9, <1>10 DEF RegisterFits

\* A command that moves on and leaves the register as it is.
LEMMA LibraryMoves ==
  ASSUME Li!MediaAssumption, LibraryBounds, NEW c \in Commands, \A d \in Commands \ {c} : cmd'[d] = cmd[d],
         UNCHANGED <<registry, searches, shifted>>, cmd'[c].at \in {"ask", "list"} => c \in Pending,
         cmd'[c].at = "list" => Len(cmd'[c].seen) <= Len(registry),
         CommandAt(cmd'[c]), FilesAreTyped', uses' \in 0 .. MaxUses
  PROVE  LibraryBounds'
<1>1. cmd'[c].at = "list" => cmd'[c].seen \in Seq(FoundItems)  BY DEF CommandAt
<1>2. RegisterFits'  BY <1>1, RegisterStays
<1>3. \A d \in Commands : CommandAt(cmd'[d])  BY DEF LibraryBounds
<1>4. FoundItems' = FoundItems /\ Li!Numbers' = Li!Numbers  BY DEF FoundItems, Li!Numbers
<1>5. \A d \in Commands : CommandAt(cmd[d])'
  BY <1>3 DEF CommandAt, FoundItems, Li!Numbers, Li!Places, Li!Kinds
<1> QED  BY <1>2, <1>4, <1>5 DEF LibraryBounds

LEMMA RestIsAt == CommandAt(Li!Rest)
BY DEF CommandAt, Li!Rest, Li!Labels

\* A command that ends.
LEMMA LibraryEnds ==
  ASSUME Li!MediaAssumption, LibraryInv, LibraryBounds, NEW c \in Commands, Li!Ends(c),
         UNCHANGED <<registry, searches, shifted, uses>>, FilesAreTyped'
  PROVE  LibraryBounds'
<1>1. cmd' = [cmd EXCEPT ![c] = Li!Rest] /\ DOMAIN cmd = Commands  BY DEF Li!Ends, LibraryInv, LibraryTypes
<1>2. cmd'[c] = Li!Rest /\ \A d \in Commands \ {c} : cmd'[d] = cmd[d]  BY <1>1
<1>3. cmd'[c].at = "idle" /\ CommandAt(cmd'[c])  BY <1>2, RestIsAt DEF Li!Rest
<1>4. uses' \in 0 .. MaxUses  BY DEF LibraryBounds
<1> QED  BY <1>2, <1>3, <1>4, LibraryMoves

\* A command that goes to a label where it knows as much as before.
LEMMA LibraryGoes ==
  ASSUME Li!MediaAssumption, LibraryInv, LibraryBounds, NEW c \in Commands,
         NEW label \in {"verify", "copy", "probe"}, Li!Goto(c, label),
         UNCHANGED <<registry, searches, shifted, uses>>, FilesAreTyped'
  PROVE  LibraryBounds'
<1>1. /\ cmd'[c].at = label /\ \A d \in Commands \ {c} : cmd'[d] = cmd[d]
      /\ cmd'[c].number = cmd[c].number /\ cmd'[c].item = cmd[c].item /\ cmd'[c].name = cmd[c].name
  BY CommandGoes
<1>2. CommandAt(cmd[c])  BY DEF LibraryBounds
<1>3. CommandAt(cmd'[c])  BY <1>1, <1>2 DEF CommandAt, Li!Labels
<1>4. uses' \in 0 .. MaxUses  BY DEF LibraryBounds
<1> QED  BY <1>1, <1>3, <1>4, LibraryMoves

LEMMA SearchIsTyped ==
  ASSUME Li!MediaAssumption, LibraryInv, LibraryBounds, NEW c \in Commands, Li!Search(c) PROVE LibraryBounds'
<1>1. /\ Li!Goto(c, "ask") /\ cmd[c].at = "idle" /\ searches < MaxSearches /\ searches' = searches + 1
      /\ UNCHANGED <<registry, cached, stored, credits, uses, shifted, doubt>>
  BY DEF Li!Search, Li!library, Li!At
<1>2. /\ cmd'[c].at = "ask" /\ \A d \in Commands \ {c} : cmd'[d] = cmd[d]
      /\ cmd'[c].number = cmd[c].number /\ cmd'[c].item = cmd[c].item /\ cmd'[c].name = cmd[c].name
  BY <1>1, CommandGoes
<1>3. Pending' = Pending \cup {c} /\ c \notin Pending  BY <1>1, <1>2 DEF Pending
<1>4. IsFiniteSet(Pending) /\ Cardinality(Pending) \in Nat
  BY FS_CardinalityType DEF LibraryBounds, RegisterFits
<1>5. IsFiniteSet(Pending') /\ Cardinality(Pending') = Cardinality(Pending) + 1  BY <1>3, <1>4, FS_AddElement
<1>6. searches \in 0 .. MaxSearches /\ MaxSearches \in Nat  BY DEF LibraryBounds, Li!MediaAssumption
<1>7. Written' = Written  BY <1>1, <1>4, <1>5, <1>6 DEF Written
<1>8. \A d \in Commands : cmd'[d].at = "list" => cmd[d].at = "list" /\ cmd'[d].seen = cmd[d].seen
  BY <1>2
<1>9. RegisterFits'  BY <1>1, <1>5, <1>7, <1>8 DEF LibraryBounds, RegisterFits
<1>10. \A d \in Commands : CommandAt(cmd'[d])
  <2>1. CommandAt(cmd[c])  BY DEF LibraryBounds
  <2>2. CommandAt(cmd'[c])  BY <1>2, <2>1 DEF CommandAt, Li!Labels
  <2> QED  BY <1>2, <2>2 DEF LibraryBounds
<1>11. FoundItems' = FoundItems /\ Li!Numbers' = Li!Numbers /\ FilesAreTyped'
  BY <1>1 DEF FoundItems, Li!Numbers, FilesAreTyped, LibraryBounds, Li!Places, Li!Kinds
<1>12. \A d \in Commands : CommandAt(cmd[d])'
  BY <1>10 DEF CommandAt, FoundItems, Li!Numbers, Li!Places, Li!Kinds
<1>13. searches' \in 0 .. MaxSearches  BY <1>1, <1>6
<1> QED  BY <1>1, <1>9, <1>11, <1>12, <1>13 DEF LibraryBounds

LEMMA ReadRegistryIsTyped ==
  ASSUME Li!MediaAssumption, LibraryInv, LibraryBounds, NEW c \in Commands, NEW found \in Li!Accepted,
         Li!ReadRegistry(c, found)
  PROVE  LibraryBounds'
<1>1. /\ cmd' = [cmd EXCEPT ![c].at = "list", ![c].seen = registry, ![c].found = found] /\ cmd[c].at = "ask"
      /\ UNCHANGED <<registry, cached, stored, credits, searches, uses, shifted, doubt>>
  BY DEF Li!ReadRegistry, Li!library, Li!At
<1>2. /\ cmd'[c].at = "list" /\ cmd'[c].seen = registry /\ cmd'[c].found = found
      /\ \A d \in Commands \ {c} : cmd'[d] = cmd[d]
      /\ cmd'[c].number = cmd[c].number /\ cmd'[c].item = cmd[c].item /\ cmd'[c].name = cmd[c].name
  BY <1>1 DEF LibraryInv, LibraryTypes, CommandFields
<1>3. found \in Seq(FoundItems) /\ Len(found) <= MaxFound
  <2>1. PICK n \in 0 .. MaxFound : found \in [1 .. n -> FoundItems]  BY DEF Li!Accepted, FoundItems
  <2>2. n \in Nat /\ n <= MaxFound  BY DEF Li!MediaAssumption
  <2>3. found \in Seq(FoundItems) /\ Len(found) = n  BY <2>1, <2>2
  <2> QED  BY <2>2, <2>3
<1>4. registry \in Seq(FoundItems) /\ CommandAt(cmd[c]) /\ c \in Pending /\ uses' \in 0 .. MaxUses
  BY <1>1 DEF LibraryBounds, Pending
<1>5. CommandAt(cmd'[c])  BY <1>2, <1>3, <1>4 DEF CommandAt, Li!Labels
<1>6. FilesAreTyped'  BY <1>1 DEF FilesAreTyped, LibraryBounds, Li!Numbers, Li!Places, Li!Kinds
<1>7. Len(cmd'[c].seen) <= Len(registry)  BY <1>2, <1>4
<1> QED  BY <1>1, <1>2, <1>4, <1>5, <1>6, <1>7, LibraryMoves

\* The candidates of a search are added.
LEMMA WriteRegistryIsTyped ==
  ASSUME Li!MediaAssumption, LibraryInv, LibraryBounds, NEW c \in Commands, Li!WriteRegistry(c)
  PROVE  LibraryBounds'
<1> DEFINE seen == cmd[c].seen
           found == cmd[c].found
<1>1. /\ cmd[c].at = "list" /\ Li!Ends(c) /\ registry' = seen \o found
      /\ UNCHANGED <<cached, stored, credits, searches, uses, doubt>>
      /\ shifted' \subseteq shifted \cup DOMAIN registry
  BY DEF Li!WriteRegistry, Li!Numbered, Li!library, Li!At
<1>2. /\ seen \in Seq(FoundItems) /\ found \in Seq(FoundItems) /\ Len(found) <= MaxFound
      /\ Len(seen) <= MaxFound * Written
  BY <1>1 DEF LibraryBounds, CommandAt, RegisterFits
<1> HIDE DEF seen, found
<1>3. cmd' = [cmd EXCEPT ![c] = Li!Rest] /\ DOMAIN cmd = Commands
  BY <1>1 DEF Li!Ends, LibraryInv, LibraryTypes
<1>4. cmd'[c] = Li!Rest /\ \A d \in Commands \ {c} : cmd'[d] = cmd[d]  BY <1>3
<1>5. cmd'[c].at = "idle" /\ CommandAt(cmd'[c])  BY <1>4, RestIsAt DEF Li!Rest
<1>6. Pending' = Pending \ {c} /\ c \in Pending  BY <1>1, <1>4, <1>5 DEF Pending
<1>7. IsFiniteSet(Pending) /\ Written \in Nat /\ MaxFound \in Nat /\ searches \in Nat
  BY DEF LibraryBounds, RegisterFits, Li!MediaAssumption
<1>8. /\ IsFiniteSet(Pending') /\ Cardinality(Pending') = Cardinality(Pending) - 1
      /\ Cardinality(Pending) \in Nat
  BY <1>6, <1>7, FS_RemoveElement, FS_CardinalityType
<1>9. Written' = Written + 1 /\ Written' \in Nat  BY <1>1, <1>7, <1>8 DEF Written
<1> DEFINE now == MaxFound * Written
           next == MaxFound * Written'
<1>10. now + MaxFound <= next  BY <1>7, <1>9, OneMoreFits
<1>11. now \in Nat /\ next \in Nat  BY <1>7, <1>9, ProductIsNat
<1>12. /\ Len(seen) <= now
       /\ \A d \in Commands : cmd[d].at = "list" => Len(cmd[d].seen) <= now /\ Len(cmd[d].seen) \in Nat
  BY <1>2 DEF LibraryBounds, RegisterFits, CommandAt
<1> HIDE DEF now, next
<1>13. registry' \in Seq(FoundItems) /\ Len(registry') <= next
  <2>1. seen \o found \in Seq(FoundItems) /\ Len(seen \o found) = Len(seen) + Len(found)
        /\ Len(seen) \in Nat /\ Len(found) \in Nat
    BY <1>2
  <2> QED  BY <1>1, <1>2, <1>7, <1>10, <1>11, <1>12, <2>1
<1>14. \A d \in Commands : cmd'[d].at = "list" => Len(cmd'[d].seen) <= next
  <2>1. ASSUME NEW d \in Commands, cmd'[d].at = "list" PROVE Len(cmd'[d].seen) <= next
    <3>1. cmd[d].at = "list" /\ cmd'[d] = cmd[d]  BY <1>4, <1>5, <2>1
    <3> QED  BY <1>7, <1>10, <1>11, <1>12, <3>1
  <2> QED  BY <2>1
<1>15. RegisterFits'  BY <1>8, <1>9, <1>13, <1>14 DEF RegisterFits, next
<1>16. \A d \in Commands : CommandAt(cmd'[d])  BY <1>4, <1>5 DEF LibraryBounds
<1>17. \A d \in Commands : CommandAt(cmd[d])'
  BY <1>16 DEF CommandAt, FoundItems, Li!Numbers, Li!Places, Li!Kinds
<1>18. FoundItems' = FoundItems /\ Li!Numbers' = Li!Numbers /\ FilesAreTyped'
  BY <1>1 DEF FoundItems, Li!Numbers, FilesAreTyped, LibraryBounds, Li!Places, Li!Kinds
<1>19. shifted' \subseteq Li!Numbers  BY <1>1, RegisterIsNumbered DEF LibraryBounds
<1> QED  BY <1>1, <1>13, <1>15, <1>17, <1>18, <1>19 DEF LibraryBounds

LEMMA UseIsTyped ==
  ASSUME Li!MediaAssumption, LibraryInv, LibraryBounds, NEW c \in Commands, NEW number \in Li!Numbers,
         NEW name \in Names \cup {Li!Absent}, Li!Use(c, number, name)
  PROVE  LibraryBounds'
<1> DEFINE used == [Li!Rest EXCEPT !.at = "fetch", !.number = number, !.item = registry[number], !.name = name]
<1>1. /\ UNCHANGED <<registry, cached, stored, credits, searches, shifted, doubt>>
      /\ number \in DOMAIN registry /\ cmd' = [cmd EXCEPT ![c] = used]
      /\ uses < MaxUses /\ uses' = uses + 1
  BY DEF Li!Use, Li!library
<1>2. /\ used.at = "fetch" /\ used.number = number /\ used.item = registry[number] /\ used.name = name
  BY DEF Li!Rest
<1> HIDE DEF used
<1>3. cmd'[c] = used /\ \A d \in Commands \ {c} : cmd'[d] = cmd[d]
  BY <1>1 DEF LibraryInv, LibraryTypes
<1>4. registry[number] \in Items
  <2>1. registry \in Seq(Items)  BY DEF LibraryInv, LibraryTypes
  <2> QED  BY <1>1, <2>1
<1>5. CommandAt(cmd'[c])  BY <1>2, <1>3, <1>4 DEF CommandAt, Li!Labels
<1>6. FilesAreTyped'  BY <1>1 DEF FilesAreTyped, LibraryBounds, Li!Numbers, Li!Places, Li!Kinds
<1>7. uses' \in 0 .. MaxUses
  <2>1. uses \in 0 .. MaxUses /\ MaxUses \in Nat  BY DEF LibraryBounds, Li!MediaAssumption
  <2> QED  BY <1>1, <2>1
<1>8. cmd'[c].at = "fetch"  BY <1>2, <1>3
<1> QED  BY <1>1, <1>3, <1>5, <1>6, <1>7, <1>8, LibraryMoves

\* The files after a step, when the constants are what they were.
LEMMA FilesStayTyped ==
  ASSUME cached' \in [Li!Numbers \X Li!Kinds -> Items \cup {Li!Absent, Li!Torn}],
         stored' \in [Li!Places -> Items \cup {Li!Absent, Li!Torn}],
         credits' \in [Li!Places -> Items \cup {Li!Absent}], doubt' \subseteq Li!Places
  PROVE  FilesAreTyped'
BY DEF FilesAreTyped, Li!Numbers, Li!Places, Li!Kinds

LEMMA CacheIsTyped ==
  ASSUME Li!MediaAssumption, LibraryInv, LibraryBounds, NEW c \in Commands, Li!Fetch(c) \/ Li!Verify(c)
  PROVE  LibraryBounds'
<1>1. /\ UNCHANGED <<registry, stored, credits, searches, uses, shifted, doubt>> /\ Using(c)
      /\ Li!Ends(c) \/ \E label \in {"verify", "copy"} : Li!Goto(c, label)
      /\ \E content \in {cmd[c].item, Li!Torn, Li!Absent} : cached' \in {cached, [cached EXCEPT ![Li!Cache(c)] = content]}
  <2>1. CASE Li!Fetch(c)
    <3>1. UNCHANGED <<registry, stored, credits, searches, uses, shifted, doubt>> /\ Using(c)
      BY <2>1 DEF Li!Fetch, Li!At, Using
    <3>2. Li!Ends(c) \/ Li!Goto(c, "verify")  BY <2>1 DEF Li!Fetch
    <3>3. cached' = cached \/ \E content \in {cmd[c].item, Li!Torn} : cached' = [cached EXCEPT ![Li!Cache(c)] = content]
      BY <2>1 DEF Li!Fetch
    <3> QED  BY <3>1, <3>2, <3>3
  <2>2. CASE Li!Verify(c)
    <3>1. UNCHANGED <<registry, stored, credits, searches, uses, shifted, doubt>> /\ Using(c)
      BY <2>2 DEF Li!Verify, Li!At, Using
    <3>2. Li!Ends(c) \/ Li!Goto(c, "copy")  BY <2>2 DEF Li!Verify
    <3>3. cached' \in {cached, [cached EXCEPT ![Li!Cache(c)] = Li!Absent]}  BY <2>2 DEF Li!Verify
    <3> QED  BY <3>1, <3>2, <3>3
  <2> QED  BY <2>1, <2>2
<1>2. Li!Cache(c) \in Li!Numbers \X Li!Kinds /\ cmd[c].item \in Items
  BY <1>1, PlacesOfCommand DEF LibraryInv, CommandsAgree, Agrees
<1>3. cached' \in [Li!Numbers \X Li!Kinds -> Items \cup {Li!Absent, Li!Torn}]
  BY <1>1, <1>2 DEF LibraryBounds, FilesAreTyped
<1>4. FilesAreTyped'  BY <1>1, <1>3, FilesStayTyped DEF LibraryBounds, FilesAreTyped
<1>5. CASE Li!Ends(c)  BY <1>1, <1>4, <1>5, LibraryEnds
<1>6. CASE \E label \in {"verify", "copy"} : Li!Goto(c, label)
  <2>1. PICK label \in {"verify", "copy", "probe"} : Li!Goto(c, label)  BY <1>6
  <2> QED  BY <1>1, <1>4, <2>1, LibraryGoes
<1> QED  BY <1>1, <1>5, <1>6

LEMMA CopyIsTyped ==
  ASSUME Li!MediaAssumption, LibraryInv, LibraryBounds, NEW c \in Commands, Li!Copy(c) PROVE LibraryBounds'
<1>1. /\ UNCHANGED <<registry, cached, credits, searches, uses, shifted>> /\ Using(c) /\ Naming(c)
      /\ Li!Ends(c) \/ Li!Goto(c, "probe")
      /\ stored' \in {stored, [stored EXCEPT ![Li!Place(c)] = cached[Li!Cache(c)]]}
      /\ doubt' \subseteq doubt \cup {Li!Place(c)}
  BY DEF Li!Copy, Li!At, Using, Naming
<1>2. Li!Cache(c) \in Li!Numbers \X Li!Kinds /\ Li!Place(c) \in Li!Places  BY <1>1, PlacesOfCommand
<1>3. cached[Li!Cache(c)] \in Items \cup {Li!Absent, Li!Torn}  BY <1>2 DEF LibraryBounds, FilesAreTyped
<1>4. stored' \in [Li!Places -> Items \cup {Li!Absent, Li!Torn}]
  BY <1>1, <1>2, <1>3 DEF LibraryBounds, FilesAreTyped
<1>5. FilesAreTyped'  BY <1>1, <1>2, <1>4, FilesStayTyped DEF LibraryBounds, FilesAreTyped
<1>6. CASE Li!Ends(c)  BY <1>1, <1>5, <1>6, LibraryEnds
<1>7. CASE Li!Goto(c, "probe")
  <2>1. PICK label \in {"verify", "copy", "probe"} : Li!Goto(c, label)  BY <1>7
  <2> QED  BY <1>1, <1>5, <2>1, LibraryGoes
<1> QED  BY <1>1, <1>6, <1>7

LEMMA ReadCreditsIsTyped ==
  ASSUME Li!MediaAssumption, LibraryInv, LibraryBounds, NEW c \in Commands, Li!ReadCredits(c) PROVE LibraryBounds'
<1>1. /\ UNCHANGED <<registry, cached, stored, credits, searches, uses, shifted, doubt>>
      /\ cmd' = [cmd EXCEPT ![c].at = "credit", ![c].held = credits]
  BY DEF Li!ReadCredits, Li!library
<1>2. /\ cmd'[c].at = "credit" /\ cmd'[c].held = credits /\ \A d \in Commands \ {c} : cmd'[d] = cmd[d]
      /\ cmd'[c].number = cmd[c].number /\ cmd'[c].item = cmd[c].item /\ cmd'[c].name = cmd[c].name
  BY <1>1 DEF LibraryInv, LibraryTypes, CommandFields
<1>3. CommandAt(cmd[c]) /\ FilesAreTyped /\ uses' \in 0 .. MaxUses  BY <1>1 DEF LibraryBounds
<1>4. CommandAt(cmd'[c])  BY <1>2, <1>3 DEF CommandAt, Li!Labels, FilesAreTyped
<1>5. FilesAreTyped'  BY <1>1, <1>3 DEF FilesAreTyped, Li!Numbers, Li!Places, Li!Kinds
<1> QED  BY <1>1, <1>2, <1>3, <1>4, <1>5, LibraryMoves

LEMMA WriteCreditsIsTyped ==
  ASSUME Li!MediaAssumption, LibraryInv, LibraryBounds, NEW c \in Commands, Li!WriteCredits(c) PROVE LibraryBounds'
<1>1. /\ UNCHANGED <<registry, cached, stored, searches, uses, shifted>> /\ Li!Ends(c)
      /\ credits' = [cmd[c].held EXCEPT ![Li!Place(c)] = cmd[c].item] /\ cmd[c].at = "credit"
      /\ doubt' \subseteq doubt \cup Li!Places
  BY DEF Li!WriteCredits, Li!At
<1>2. cmd[c].item \in Items /\ cmd[c].held \in [Li!Places -> Items \cup {Li!Absent}]
  BY <1>1 DEF LibraryInv, CommandsAgree, Agrees, Using, LibraryBounds, CommandAt
<1>3. credits' \in [Li!Places -> Items \cup {Li!Absent}]  BY <1>1, <1>2
<1>4. FilesAreTyped'  BY <1>1, <1>3, FilesStayTyped DEF LibraryBounds, FilesAreTyped
<1> QED  BY <1>1, <1>4, LibraryEnds

LEMMA KillIsTyped ==
  ASSUME Li!MediaAssumption, LibraryInv, LibraryBounds, NEW c \in Commands, Li!Kill(c) PROVE LibraryBounds'
<1>1. UNCHANGED <<registry, cached, credits, searches, uses, shifted>> /\ Li!Ends(c)
  BY DEF Li!Kill
<1>2. CASE Naming(c)
  <2>1. Li!Place(c) \in Li!Places  BY <1>2, PlacesOfCommand
  <2>2. stored' \in {stored, [stored EXCEPT ![Li!Place(c)] = Li!Torn]} /\ doubt' \subseteq doubt \cup {Li!Place(c)}
    BY DEF Li!Kill
  <2>3. stored' \in [Li!Places -> Items \cup {Li!Absent, Li!Torn}]  BY <2>1, <2>2 DEF LibraryBounds, FilesAreTyped
  <2>4. FilesAreTyped'  BY <1>1, <2>1, <2>2, <2>3, FilesStayTyped DEF LibraryBounds, FilesAreTyped
  <2> QED  BY <1>1, <2>4, LibraryEnds
<1>3. CASE ~Naming(c)
  <2>1. UNCHANGED <<stored, doubt>>  BY <1>3 DEF Li!Kill, Naming, Li!At
  <2>2. FilesAreTyped'  BY <1>1, <2>1, FilesStayTyped DEF LibraryBounds, FilesAreTyped
  <2> QED  BY <1>1, <2>2, LibraryEnds
<1> QED  BY <1>2, <1>3

LEMMA LibraryBoundsStep ==
  ASSUME Li!MediaAssumption, LibraryInv, LibraryBounds, Li!Next PROVE LibraryBounds'
BY SearchIsTyped, ReadRegistryIsTyped, WriteRegistryIsTyped, UseIsTyped, CacheIsTyped, CopyIsTyped, ReadCreditsIsTyped,
   WriteCreditsIsTyped, KillIsTyped DEF Li!Next

LEMMA LibraryStart == ASSUME Li!MediaAssumption, Li!Init PROVE LibraryBounds
<1>1. /\ registry = <<>> /\ searches = 0 /\ uses = 0 /\ shifted = {} /\ doubt = {}
      /\ cmd = [c \in Commands |-> Li!Rest]
      /\ cached = [k \in Li!Numbers \X Li!Kinds |-> Li!Absent]
      /\ stored = [p \in Li!Places |-> Li!Absent] /\ credits = [p \in Li!Places |-> Li!Absent]
  BY DEF Li!Init
<1>2. MaxFound \in Nat /\ MaxSearches \in Nat /\ MaxUses \in Nat  BY DEF Li!MediaAssumption
<1>3. FilesAreTyped  BY <1>1 DEF FilesAreTyped
<1>4. \A c \in Commands : cmd[c] = Li!Rest /\ cmd[c].at = "idle"  BY <1>1 DEF Li!Rest
<1>5. \A c \in Commands : CommandAt(cmd[c])  BY <1>4, RestIsAt
<1>6. Pending = {}  BY <1>4 DEF Pending
<1>7. IsFiniteSet(Pending) /\ Written = 0  BY <1>1, <1>6, FS_EmptySet DEF Written
<1>8. Len(registry) = 0 /\ registry \in Seq(FoundItems) /\ MaxFound * 0 = 0  BY <1>1, <1>2
<1>9. RegisterFits  BY <1>4, <1>7, <1>8 DEF RegisterFits
<1> QED  BY <1>1, <1>2, <1>3, <1>5, <1>8, <1>9 DEF LibraryBounds

LEMMA LibraryIsTyped == ASSUME Li!MediaAssumption, LibraryBounds PROVE Li!MediaTypeOK
<1>1. Len(registry) \in {0} \cup Li!Numbers  BY RegisterIsNumbered
<1> QED  BY <1>1 DEF LibraryBounds, FilesAreTyped, FoundItems, CommandAt, Li!MediaTypeOK

------------------------------------------------------------------------------
(* The stream of a session: a log has no more lines than were written.         *)

\* Where the process and the pump stand, and what the parser has acknowledged.
LabelsAreTyped ==
  /\ notifies \in BOOLEAN /\ cut \in BOOLEAN /\ leader \in {"alive", "closed", "exited"}
  /\ pump.at \in St!PumpLabels /\ parser.acks \subseteq parser.background

\* The rows of the steps, and the deferred writes of their logs.
FlushStates == {"none", "waiting", "writing"}

StepIsTyped(a) ==
  /\ steps[a].status \in St!StepStatuses
  /\ recorder.copy[a] <= MaxLines /\ steps[a].log.lines <= MaxLines

StepsAreTyped == recorder.flush \in [Agents -> FlushStates] /\ \A a \in Agents : StepIsTyped(a)

\* The trace messages of a sub-agent that are in the pipe.
Traces(a) == {k \in DOMAIN pipe : Is(k, "trace", a)}

\* What is in the log of a sub-agent or in the pipe was written.
LineFits(a) ==
  /\ recorder.lines[a] \in Nat /\ IsFiniteSet(Traces(a))
  /\ recorder.lines[a] + Cardinality(Traces(a)) <= written[a]

LinesFit ==
  /\ Len(pipe) <= MaxPipe /\ written \in [Agents -> 0 .. MaxLines]
  /\ \A a \in Agents : LineFits(a)

StreamBounds == LabelsAreTyped /\ StepsAreTyped /\ LinesFit

\* A message more in the pipe.
LEMMA TraceIsAdded ==
  ASSUME StreamInv, NEW m \in Messages, pipe' = Append(pipe, m), NEW a \in Agents, IsFiniteSet(Traces(a))
  PROVE  /\ IsFiniteSet(Traces(a)') /\ Cardinality(Traces(a)) \in Nat
         /\ Cardinality(Traces(a)') = Cardinality(Traces(a)) + IF m.kind = "trace" /\ m.id = a THEN 1 ELSE 0
<1>1. /\ Len(pipe) \in Nat /\ DOMAIN pipe = 1 .. Len(pipe) /\ DOMAIN pipe' = 1 .. Len(pipe) + 1
      /\ \A k \in DOMAIN pipe : pipe'[k] = pipe[k]
      /\ pipe'[Len(pipe) + 1] = m
  BY AppendIs DEF StreamInv, StreamTypes
<1>2. Cardinality(Traces(a)) \in Nat  BY FS_CardinalityType
<1>3. CASE m.kind = "trace" /\ m.id = a
  <2>1. Traces(a)' = Traces(a) \cup {Len(pipe) + 1} /\ Len(pipe) + 1 \notin Traces(a)
    BY <1>1, <1>3 DEF Traces, Is
  <2> QED  BY <1>2, <1>3, <2>1, FS_AddElement
<1>4. CASE ~(m.kind = "trace" /\ m.id = a)
  <2>1. Traces(a)' = Traces(a)  BY <1>1, <1>4 DEF Traces, Is
  <2> QED  BY <1>2, <1>4, <2>1
<1> QED  BY <1>3, <1>4

\* A message less.
LEMMA TraceIsRead ==
  ASSUME StreamInv, pipe # <<>>, pipe' = Tail(pipe), NEW a \in Agents, IsFiniteSet(Traces(a))
  PROVE  /\ IsFiniteSet(Traces(a)') /\ Cardinality(Traces(a)') \in Nat /\ Cardinality(Traces(a)) \in Nat
         /\ Cardinality(Traces(a)') <= Cardinality(Traces(a))
         /\ Head(pipe).kind = "trace" /\ Head(pipe).id = a => Cardinality(Traces(a)') + 1 <= Cardinality(Traces(a))
<1>1. /\ Len(pipe) \in Nat \ {0} /\ DOMAIN pipe = 1 .. Len(pipe) /\ DOMAIN pipe' = 1 .. Len(pipe) - 1
      /\ \A k \in 1 .. Len(pipe) - 1 : pipe'[k] = pipe[k + 1]
      /\ Head(pipe) = pipe[1] /\ 1 \in DOMAIN pipe
  BY TailIs DEF StreamInv, StreamTypes
<1> DEFINE rest == Traces(a) \ {1}
           f == [k \in rest |-> k - 1]
<1>2. \A k \in rest : k - 1 \in Traces(a)'
  <2>1. ASSUME NEW k \in rest PROVE k - 1 \in 1 .. Len(pipe) - 1 /\ k - 1 + 1 = k
    BY <1>1 DEF Traces
  <2> QED  BY <1>1, <2>1 DEF Traces, Is
<1>3. \A j \in Traces(a)' : j + 1 \in rest /\ j + 1 - 1 = j
  BY <1>1 DEF Traces, Is
<1>4. f \in Surjection(rest, Traces(a)')
  <2> DEFINE T == Traces(a)'
  <2>1. f \in [rest -> T]  BY <1>2
  <2>2. ASSUME NEW j \in T PROVE \E k \in rest : f[k] = j
    <3>1. j \in Int /\ j + 1 \in rest  BY <1>1, <1>3 DEF Traces
    <3>2. j + 1 \in Int /\ j + 1 - 1 = j  BY <3>1
    <3>3. PICK k \in Int : k = j + 1  BY <3>2
    <3>4. k \in rest /\ k - 1 = j  BY <3>1, <3>2, <3>3
    <3> HIDE DEF rest
    <3>5. f[k] = k - 1  BY <3>4
    <3> QED  BY <3>4, <3>5
  <2> HIDE DEF T, f, rest
  <2> QED  BY <2>1, <2>2 DEF Surjection, T
<1>5. IsFiniteSet(rest) /\ rest \subseteq Traces(a)  BY FS_Subset
<1>6. IsFiniteSet(Traces(a)') /\ Cardinality(Traces(a)') <= Cardinality(rest)
  <2> HIDE DEF f, rest
  <2> QED  BY <1>4, <1>5, FS_Surjection
<1>7. /\ Cardinality(Traces(a)') \in Nat /\ Cardinality(Traces(a)) \in Nat /\ Cardinality(rest) \in Nat
  BY <1>5, <1>6, FS_CardinalityType
<1>8. Cardinality(rest) <= Cardinality(Traces(a))  BY <1>5, FS_Subset
<1>9. ASSUME Head(pipe).kind = "trace", Head(pipe).id = a
      PROVE Cardinality(rest) = Cardinality(Traces(a)) - 1
  <2>1. 1 \in Traces(a)  BY <1>1, <1>9 DEF Traces, Is
  <2> QED  BY <2>1, FS_RemoveElement
<1> HIDE DEF rest, f
<1> QED  BY <1>6, <1>7, <1>8, <1>9

\* A log holds no more than its sub-agent may write.
LEMMA LogsAreBounded ==
  ASSUME St!StreamAssumption, LinesFit, NEW a \in Agents
  PROVE  recorder.lines[a] \in Nat /\ recorder.lines[a] <= MaxLines
<1>1. LineFits(a) /\ written[a] \in 0 .. MaxLines /\ MaxLines \in Nat  BY DEF LinesFit, St!StreamAssumption
<1>2. Cardinality(Traces(a)) \in Nat  BY <1>1, FS_CardinalityType DEF LineFits
<1> QED  BY <1>1, <1>2 DEF LineFits

\* Nothing is written or read.
LEMMA LinesStay ==
  ASSUME LinesFit, UNCHANGED <<pipe, written>>, recorder'.lines = recorder.lines PROVE LinesFit'
BY DEF LinesFit, LineFits, Traces, Is

\* A message is written, that of a trace counted with it.
LEMMA LinesOfEmit ==
  ASSUME St!StreamAssumption, StreamInv, LinesFit, UNCHANGED recorder,
         NEW m \in Messages, pipe' = Append(pipe, m), Len(pipe) < MaxPipe,
         \/ m.kind # "trace" /\ UNCHANGED written
         \/ m.id \in Agents /\ written[m.id] < MaxLines /\ written' = [written EXCEPT ![m.id] = @ + 1]
  PROVE  LinesFit'
<1>1. /\ Len(pipe) \in Nat /\ Len(pipe') = Len(pipe) + 1 /\ MaxPipe \in Nat /\ MaxLines \in Nat
      /\ written \in [Agents -> 0 .. MaxLines]
  BY AppendIs DEF StreamInv, StreamTypes, LinesFit, St!StreamAssumption
<1>2. written' \in [Agents -> 0 .. MaxLines]  BY <1>1
<1>3. ASSUME NEW a \in Agents PROVE LineFits(a)'
  <2>1. LineFits(a) /\ written[a] \in Nat  BY <1>1 DEF LinesFit
  <2>2. /\ IsFiniteSet(Traces(a)') /\ Cardinality(Traces(a)) \in Nat
        /\ Cardinality(Traces(a)') = Cardinality(Traces(a)) + IF m.kind = "trace" /\ m.id = a THEN 1 ELSE 0
    BY <2>1, TraceIsAdded DEF LineFits
  <2>3. written'[a] \in {written[a], written[a] + 1}
        /\ (m.kind = "trace" /\ m.id = a => written'[a] = written[a] + 1)
    BY <1>1
  <2> QED  BY <2>1, <2>2, <2>3 DEF LineFits
<1> QED  BY <1>1, <1>2, <1>3 DEF LinesFit

\* A message is read, that of a trace added to the log or lost.
LEMMA LinesOfRead ==
  ASSUME StreamInv, LinesFit, pipe # <<>>, pipe' = Tail(pipe), UNCHANGED written,
         DOMAIN recorder'.lines = Agents,
         \A a \in Agents : recorder'.lines[a] \in
           {recorder.lines[a]} \cup (IF Head(pipe).kind = "trace" /\ Head(pipe).id = a THEN {recorder.lines[a] + 1} ELSE {}),
         St!StreamAssumption
  PROVE  LinesFit'
<1>1. Len(pipe') = Len(pipe) - 1 /\ Len(pipe) \in Nat /\ MaxPipe \in Nat
  BY TailIs DEF StreamInv, StreamTypes, St!StreamAssumption
<1>2. Len(pipe') <= MaxPipe /\ written' \in [Agents -> 0 .. MaxLines]  BY <1>1 DEF LinesFit
<1>3. ASSUME NEW a \in Agents PROVE LineFits(a)'
  <2>1. LineFits(a) /\ written[a] \in Nat  BY DEF LinesFit, St!StreamAssumption
  <2>2. /\ IsFiniteSet(Traces(a)') /\ Cardinality(Traces(a)') \in Nat /\ Cardinality(Traces(a)) \in Nat
        /\ Cardinality(Traces(a)') <= Cardinality(Traces(a))
        /\ Head(pipe).kind = "trace" /\ Head(pipe).id = a => Cardinality(Traces(a)') + 1 <= Cardinality(Traces(a))
    BY <2>1, TraceIsRead DEF LineFits
  <2>3. \/ recorder'.lines[a] = recorder.lines[a]
        \/ recorder'.lines[a] = recorder.lines[a] + 1 /\ Head(pipe).kind = "trace" /\ Head(pipe).id = a
    OBVIOUS
  <2> QED  BY <2>1, <2>2, <2>3 DEF LineFits
<1> QED  BY <1>2, <1>3 DEF LinesFit

\* The rows and the deferred writes stay.
LEMMA StepsStay ==
  ASSUME StepsAreTyped, UNCHANGED steps, recorder'.flush = recorder.flush, recorder'.copy = recorder.copy
  PROVE  StepsAreTyped'
BY DEF StepsAreTyped, StepIsTyped

\* A message of Claude Code.
LEMMA EmitIsTyped ==
  ASSUME St!StreamAssumption, StreamInv, StreamBounds, UNCHANGED leader, St!Unseen,
         NEW kind \in St!Kinds, NEW a \in Agents \cup {CHOOSE x \in Agents : TRUE},
         NEW how \in {"ok", "error", "limit", "completed", "stopped"}, St!Emit(kind, a, how),
         \/ kind # "trace" /\ UNCHANGED written
         \/ a \in Agents /\ written[a] < MaxLines /\ written' = [written EXCEPT ![a] = @ + 1]
  PROVE  StreamBounds'
<1> DEFINE m == St!Message(kind, a, how)
<1>1. m \in Messages /\ m.kind = kind /\ m.id = a  BY DEF Messages, St!Message
<1>2. pipe' = Append(pipe, m) /\ Len(pipe) < MaxPipe  BY DEF St!Emit
<1>3. UNCHANGED <<notifies, parser, recorder, steps, pump, cut>>  BY DEF St!Unseen
<1> HIDE DEF m
<1>4. LinesFit'  BY <1>1, <1>2, <1>3, LinesOfEmit DEF StreamBounds
<1>5. StepsAreTyped'  BY <1>3, StepsStay DEF StreamBounds
<1>6. LabelsAreTyped'  BY <1>3 DEF StreamBounds, LabelsAreTyped
<1> QED  BY <1>4, <1>5, <1>6 DEF StreamBounds

\* Claude Code moves and says nothing, or exits.
LEMMA SilenceIsTyped ==
  ASSUME StreamBounds, St!Unseen, UNCHANGED <<pipe, written>>, leader' \in {leader, "closed", "exited"} PROVE StreamBounds'
<1>1. UNCHANGED <<notifies, parser, recorder, steps, pump, cut>>  BY DEF St!Unseen
<1>2. LinesFit' /\ StepsAreTyped'  BY <1>1, LinesStay, StepsStay DEF StreamBounds
<1>3. LabelsAreTyped'  BY <1>1 DEF StreamBounds, LabelsAreTyped
<1> QED  BY <1>2, <1>3 DEF StreamBounds

LEMMA ClaudeIsTyped ==
  ASSUME St!StreamAssumption, StreamInv, StreamBounds,
         \/ \E a \in Agents : \/ St!LaunchAgent(a) \/ St!StartTask(a) \/ St!Acknowledge(a) \/ St!BeginWork(a)
                              \/ St!Trace(a) \/ St!Finish(a) \/ St!Fail(a) \/ St!Kill(a)
         \/ St!WriteResult \/ St!CloseOutput \/ St!Exit
  PROVE  StreamBounds'
<1> USE DEF St!Kinds
<1>1. ASSUME NEW a \in Agents,
             St!LaunchAgent(a) \/ St!StartTask(a) \/ St!Acknowledge(a) \/ St!Fail(a) \/ St!Finish(a) \/ St!Kill(a)
      PROVE  StreamBounds'
  <2>1. UNCHANGED <<leader, written>> /\ St!Unseen
    BY <1>1 DEF St!LaunchAgent, St!StartTask, St!Acknowledge, St!Fail, St!Finish, St!Kill
  <2>2. \/ UNCHANGED pipe
        \/ \E kind \in St!Kinds \ {"trace"}, how \in {"ok", "error", "limit", "completed", "stopped"} : St!Emit(kind, a, how)
    BY <1>1 DEF St!LaunchAgent, St!StartTask, St!Acknowledge, St!Fail, St!Finish, St!Kill
  <2> QED  BY <2>1, <2>2, EmitIsTyped, SilenceIsTyped
<1>2. ASSUME NEW a \in Agents, St!Trace(a) PROVE StreamBounds'
  BY <1>2, EmitIsTyped DEF St!Trace
<1>3. ASSUME NEW a \in Agents, St!BeginWork(a) PROVE StreamBounds'
  BY <1>3, SilenceIsTyped DEF St!BeginWork
<1>4. CASE St!WriteResult
  <2> DEFINE a == CHOOSE x \in Agents : TRUE
  <2>1. PICK s \in {"ok", "error"} : St!Emit("result", a, s)  BY <1>4 DEF St!WriteResult
  <2>2. a \in Agents \cup {CHOOSE x \in Agents : TRUE}  OBVIOUS
  <2>3. UNCHANGED <<leader, written>> /\ St!Unseen  BY <1>4 DEF St!WriteResult
  <2> HIDE DEF a
  <2> QED  BY <2>1, <2>2, <2>3, EmitIsTyped
<1>5. CASE St!CloseOutput \/ St!Exit  BY <1>5, SilenceIsTyped DEF St!CloseOutput, St!Exit
<1> QED  BY <1>1, <1>2, <1>3, <1>4, <1>5

\* The pump turns to steps to close, or to the next message.
LEMMA CloseIsTyped ==
  ASSUME StreamInv, NEW ends, St!Close(ends) PROVE pump'.at \in St!PumpLabels /\ pump'.ends = ends
BY DEF St!Close, St!PumpLabels, StreamInv, StreamTypes

\* A message of which only the parser knows.
LEMMA ParserReads ==
  ASSUME St!StreamAssumption, StreamInv, StreamBounds, UNCHANGED <<recorder, steps>>,
         NEW kind, St!Read(kind), St!Outside, pump'.at \in St!PumpLabels, parser'.acks \subseteq parser'.background
  PROVE  StreamBounds'
<1>1. /\ pipe # <<>> /\ pipe' = Tail(pipe) /\ UNCHANGED <<notifies, leader, written, cut>>
      /\ DOMAIN recorder.lines = Agents
  BY DEF St!Read, St!Outside, StreamInv, StreamTypes
<1>2. LinesFit'  BY <1>1, LinesOfRead DEF StreamBounds
<1>3. StepsAreTyped'  BY StepsStay DEF StreamBounds
<1>4. LabelsAreTyped'  BY <1>1 DEF StreamBounds, LabelsAreTyped
<1> QED  BY <1>2, <1>3, <1>4 DEF StreamBounds

\* A message is read.
LEMMA ReadIsTyped ==
  ASSUME St!StreamAssumption, StreamInv, StreamBounds,
         \/ St!OnToolUse \/ St!OnTaskStarted \/ St!OnToolResult \/ St!OnTrace \/ St!OnTaskNotification \/ St!OnResult
  PROVE  StreamBounds'
<1>0. /\ {"agents", "background", "acks", "notified", "result"} \subseteq DOMAIN parser
      /\ parser.acks \subseteq parser.background /\ pump.at \in St!PumpLabels
      /\ {"open", "lines", "limit", "flush", "copy"} \subseteq DOMAIN recorder
      /\ DOMAIN recorder.lines = Agents /\ recorder.flush \in [Agents -> FlushStates]
  BY DEF StreamInv, StreamTypes, StreamBounds, LabelsAreTyped, StepsAreTyped
<1>1. CASE St!OnToolUse
  <2>1. St!Read("tool_use") /\ St!Outside /\ UNCHANGED pump  BY <1>1 DEF St!OnToolUse
  <2>2. PICK a \in Agents : a = St!Subject  BY <2>1, HeadIsTold
  <2>3. /\ pipe # <<>> /\ pipe' = Tail(pipe) /\ UNCHANGED <<notifies, leader, written, cut>>
    BY <2>1 DEF St!Read, St!Outside
  <2>4. /\ recorder' = [recorder EXCEPT !.open = @ \cup {a}]
        /\ parser' = [parser EXCEPT !.agents = @ \cup {a}]
        /\ steps' = [steps EXCEPT ![a].status = "running"]
    BY <1>1, <2>2 DEF St!OnToolUse
  <2>5. /\ recorder'.lines = recorder.lines /\ recorder'.flush = recorder.flush /\ recorder'.copy = recorder.copy
        /\ parser'.acks = parser.acks /\ parser'.background = parser.background
    BY <1>0, <2>4
  <2>6. LinesFit'  BY <1>0, <2>3, <2>5, LinesOfRead DEF StreamBounds
  <2>7. ASSUME NEW b \in Agents PROVE steps'[b].status \in St!StepStatuses /\ steps'[b].log = steps[b].log
    <3>1. {"status", "log", "closed"} \subseteq DOMAIN steps[b] /\ b \in DOMAIN steps /\ steps[b].status \in St!StepStatuses
      BY DEF StreamInv, StreamTypes, StreamBounds, StepsAreTyped, StepIsTyped
    <3> QED  BY <2>4, <3>1 DEF St!StepStatuses
  <2>8. StepsAreTyped'  BY <2>5, <2>7 DEF StreamBounds, StepsAreTyped, StepIsTyped
  <2>9. LabelsAreTyped'  BY <2>1, <2>3, <2>5 DEF StreamBounds, LabelsAreTyped
  <2> QED  BY <2>6, <2>8, <2>9 DEF StreamBounds
<1>2. CASE St!OnTaskStarted
  <2>1. /\ St!Read("task_started") /\ St!Outside /\ UNCHANGED <<recorder, steps, pump>>
        /\ parser'.acks = parser.acks /\ parser.background \subseteq parser'.background
    BY <1>0, <1>2 DEF St!OnTaskStarted
  <2> QED  BY <1>0, <2>1, ParserReads
<1>3. CASE St!OnToolResult
  <2>1. St!Read("tool_result") /\ St!Outside /\ UNCHANGED <<recorder, steps>>  BY <1>3 DEF St!OnToolResult
  <2>2. pump'.at \in St!PumpLabels  BY <1>3, CloseIsTyped DEF St!OnToolResult
  <2>3. parser'.acks \subseteq parser'.background  BY <1>0, <1>3 DEF St!OnToolResult
  <2> QED  BY <2>1, <2>2, <2>3, ParserReads
<1>4. CASE St!OnTrace
  <2>1. St!Read("trace") /\ St!Outside /\ UNCHANGED <<parser, steps, pump>>  BY <1>4 DEF St!OnTrace
  <2>2. PICK a \in Agents : a = St!Subject  BY <2>1, HeadIsTold
  <2>3. /\ pipe # <<>> /\ pipe' = Tail(pipe) /\ UNCHANGED <<notifies, leader, written, cut>>
        /\ Head(pipe).kind = "trace" /\ Head(pipe).id = a
    BY <2>1, <2>2 DEF St!Read, St!Outside, St!Subject
  <2>4. /\ DOMAIN recorder'.lines = Agents /\ recorder'.copy = recorder.copy
        /\ recorder'.flush \in [Agents -> FlushStates]
        /\ \A b \in Agents :
             recorder'.lines[b] \in {recorder.lines[b]} \cup (IF b = a THEN {recorder.lines[b] + 1} ELSE {})
    <3>1. CASE a \notin recorder.open
      <4>1. recorder' = recorder  BY <1>4, <2>2, <3>1 DEF St!OnTrace
      <4> QED  BY <1>0, <4>1
    <3>2. CASE a \in recorder.open
      <4>1. recorder' = [recorder EXCEPT !.lines[a] = @ + 1, !.flush[a] = IF @ = "none" THEN "waiting" ELSE @]
        BY <1>4, <2>2, <3>2 DEF St!OnTrace
      <4> QED  BY <1>0, <4>1 DEF FlushStates
    <3> QED  BY <3>1, <3>2
  <2>5. \A b \in Agents : recorder'.lines[b] \in
          {recorder.lines[b]} \cup (IF Head(pipe).kind = "trace" /\ Head(pipe).id = b THEN {recorder.lines[b] + 1} ELSE {})
    BY <2>3, <2>4
  <2>6. LinesFit'  BY <2>3, <2>4, <2>5, LinesOfRead DEF StreamBounds
  <2>7. StepsAreTyped'  BY <2>1, <2>4 DEF StreamBounds, StepsAreTyped, StepIsTyped
  <2>8. LabelsAreTyped'  BY <2>1, <2>3 DEF StreamBounds, LabelsAreTyped
  <2> QED  BY <2>6, <2>7, <2>8 DEF StreamBounds
<1>5. CASE St!OnTaskNotification
  <2>1. St!Read("task_notification") /\ St!Outside /\ UNCHANGED <<recorder, steps>>  BY <1>5 DEF St!OnTaskNotification
  <2>2. pump'.at \in St!PumpLabels  BY <1>5, CloseIsTyped DEF St!OnTaskNotification
  <2>3. parser'.acks \subseteq parser'.background  BY <1>0, <1>5 DEF St!OnTaskNotification
  <2> QED  BY <2>1, <2>2, <2>3, ParserReads
<1>6. CASE St!OnResult
  <2>1. St!Read("result") /\ St!Outside /\ UNCHANGED <<recorder, steps>>  BY <1>6 DEF St!OnResult
  <2>2. pump'.at \in St!PumpLabels  BY <1>6, CloseIsTyped DEF St!OnResult
  <2>3. parser'.acks \subseteq parser'.background  BY <1>0, <1>6 DEF St!OnResult
  <2> QED  BY <2>1, <2>2, <2>3, ParserReads
<1> QED  BY <1>1, <1>2, <1>3, <1>4, <1>5, <1>6

\* A step that leaves the pipe and the log lines.
LEMMA OffPipe ==
  ASSUME StreamBounds, UNCHANGED <<notifies, parser, pipe, written>>, leader' \in {leader, "exited"},
         cut' \in BOOLEAN, pump'.at \in St!PumpLabels, recorder'.lines = recorder.lines, StepsAreTyped'
  PROVE  StreamBounds'
<1>1. LinesFit'  BY LinesStay DEF StreamBounds
<1>2. LabelsAreTyped'  BY DEF StreamBounds, LabelsAreTyped
<1> QED  BY <1>1, <1>2 DEF StreamBounds

\* The step that is closed is a row of its own.
LEMMA RowIsTyped ==
  ASSUME St!StreamAssumption, StreamInv, StreamBounds, NEW a \in Agents, NEW s \in St!StepStatuses,
         steps' = [steps EXCEPT ![a] = St!Closed(a, s)], recorder' = [recorder EXCEPT !.flush[a] = "none"]
  PROVE  StepsAreTyped' /\ recorder'.lines = recorder.lines
<1>1. /\ {"lines", "flush", "copy"} \subseteq DOMAIN recorder /\ DOMAIN steps = Agents
      /\ recorder.lines[a] <= MaxLines /\ recorder.flush \in [Agents -> FlushStates]
  BY LogsAreBounded DEF StreamInv, StreamTypes, StreamBounds, StepsAreTyped
<1>2. /\ recorder'.lines = recorder.lines /\ recorder'.copy = recorder.copy
      /\ recorder'.flush \in [Agents -> FlushStates]
  BY <1>1 DEF FlushStates
<1>3. ASSUME NEW b \in Agents PROVE StepIsTyped(b)'
  <2>1. StepIsTyped(b)  BY DEF StreamBounds, StepsAreTyped
  <2>2. CASE b = a
    <3>1. steps'[b] = St!Closed(a, s)  BY <1>1, <2>2
    <3>2. steps'[b].status = s /\ steps'[b].log.lines = recorder.lines[a]  BY <3>1 DEF St!Closed
    <3> QED  BY <1>1, <1>2, <2>1, <2>2, <3>2 DEF StepIsTyped
  <2>3. CASE b # a
    <3>1. steps'[b] = steps[b]  BY <1>1, <2>3
    <3> QED  BY <1>2, <2>1, <3>1 DEF StepIsTyped
  <2> QED  BY <2>2, <2>3
<1> QED  BY <1>2, <1>3 DEF StepsAreTyped

\* The recorder.
LEMMA RecorderIsTyped ==
  ASSUME St!StreamAssumption, StreamInv, StreamBounds,
         St!EndStep \/ St!WriteEnd \/ St!WriteRefused \/ \E a \in Agents : St!FlushBegins(a) \/ St!FlushEnds(a)
  PROVE  StreamBounds'
<1>0. /\ {"open", "lines", "limit", "flush", "copy"} \subseteq DOMAIN recorder /\ DOMAIN recorder.lines = Agents
      /\ recorder.flush \in [Agents -> FlushStates] /\ DOMAIN recorder.copy = Agents /\ DOMAIN steps = Agents
      /\ {"at", "ends", "outcome"} \subseteq DOMAIN pump /\ pump.at \in St!PumpLabels /\ cut \in BOOLEAN
      /\ StepsAreTyped /\ \A a \in Agents : recorder.lines[a] <= MaxLines /\ MaxLines \in Nat
  BY LogsAreBounded DEF StreamInv, StreamTypes, StreamBounds, LabelsAreTyped, StepsAreTyped, St!StreamAssumption
<1>1. CASE St!EndStep
  <2>1. UNCHANGED <<notifies, parser, pipe, written, leader, cut, steps>>  BY <1>1 DEF St!EndStep, St!Outside
  <2>2. /\ recorder'.lines = recorder.lines /\ recorder'.flush = recorder.flush /\ recorder'.copy = recorder.copy
    BY <1>0, <1>1 DEF St!EndStep
  <2>3. pump'.at \in St!PumpLabels
    <3>1. St!Close(Tail(pump.ends)) \/ pump' = [pump EXCEPT !.at = "write"]  BY <1>1 DEF St!EndStep
    <3> QED  BY <1>0, <3>1, CloseIsTyped DEF St!PumpLabels
  <2>4. StepsAreTyped'  BY <1>0, <2>1, <2>2, StepsStay
  <2> QED  BY <1>0, <2>1, <2>2, <2>3, <2>4, OffPipe
<1>2. CASE St!WriteEnd
  <2>1. PICK e \in EndsOfSteps : e = Head(pump.ends) /\ e.id \in Agents  BY <1>2, FirstEnd DEF St!WriteEnd
  <2>2. PICK s \in {"success", "failed"} : steps' = [steps EXCEPT ![e.id] = St!Closed(e.id, s)]
    BY <1>2, <2>1 DEF St!WriteEnd
  <2>3. recorder' = [recorder EXCEPT !.flush[e.id] = "none"]  BY <1>2, <2>1 DEF St!WriteEnd
  <2>4. s \in St!StepStatuses  BY DEF St!StepStatuses
  <2>5. StepsAreTyped' /\ recorder'.lines = recorder.lines  BY <2>1, <2>2, <2>3, <2>4, RowIsTyped
  <2>6. UNCHANGED <<notifies, parser, pipe, written, leader, cut>> /\ pump'.at \in St!PumpLabels
    BY <1>2, CloseIsTyped DEF St!WriteEnd, St!Outside
  <2> QED  BY <1>0, <2>5, <2>6, OffPipe
<1>3. CASE St!WriteRefused
  <2>1. PICK e \in EndsOfSteps : e = Head(pump.ends) /\ e.id \in Agents  BY <1>3, FirstEnd DEF St!WriteRefused
  <2>2. recorder' = [recorder EXCEPT !.flush[e.id] = "none"]  BY <1>3, <2>1 DEF St!WriteRefused
  <2>3. /\ UNCHANGED <<notifies, parser, pipe, written, leader, steps>> /\ cut' = TRUE /\ pump'.at \in St!PumpLabels
    BY <1>3, CloseIsTyped DEF St!WriteRefused, St!claude
  <2>4. /\ recorder'.lines = recorder.lines /\ recorder'.copy = recorder.copy
        /\ recorder'.flush \in [Agents -> FlushStates]
    BY <1>0, <2>2 DEF FlushStates
  <2>5. StepsAreTyped'  BY <1>0, <2>3, <2>4 DEF StepsAreTyped, StepIsTyped
  <2> QED  BY <2>3, <2>4, <2>5, OffPipe
<1>4. ASSUME NEW a \in Agents, St!FlushBegins(a) PROVE StreamBounds'
  <2>1. UNCHANGED <<notifies, parser, pipe, written, leader, cut, steps, pump>>  BY <1>4 DEF St!FlushBegins, St!Outside
  <2>2. /\ recorder'.lines = recorder.lines
        /\ recorder'.flush \in [Agents -> FlushStates]
        /\ \A b \in Agents : recorder'.copy[b] \in {recorder.copy[b], recorder.lines[b]}
    <3>1. CASE a \in recorder.open
      <4>1. recorder' = [recorder EXCEPT !.flush[a] = "writing", !.copy[a] = recorder.lines[a]]
        BY <1>4, <3>1 DEF St!FlushBegins
      <4> QED  BY <1>0, <4>1 DEF FlushStates
    <3>2. CASE a \notin recorder.open
      <4>1. recorder' = [recorder EXCEPT !.flush[a] = "none"]  BY <1>4, <3>2 DEF St!FlushBegins
      <4> QED  BY <1>0, <4>1 DEF FlushStates
    <3> QED  BY <3>1, <3>2
  <2>3. StepsAreTyped'  BY <1>0, <2>1, <2>2 DEF StepsAreTyped, StepIsTyped
  <2> QED  BY <1>0, <2>1, <2>2, <2>3, OffPipe
<1>5. ASSUME NEW a \in Agents, St!FlushEnds(a) PROVE StreamBounds'
  <2>1. UNCHANGED <<notifies, parser, pipe, written, leader, cut, pump>>  BY <1>5 DEF St!FlushEnds, St!Outside
  <2>2. /\ recorder' = [recorder EXCEPT !.flush[a] = "none", !.copy[a] = 0]
        /\ steps' = [steps EXCEPT ![a].log = [lines |-> recorder.copy[a], ended |-> FALSE]]
    BY <1>5 DEF St!FlushEnds
  <2>3. /\ recorder'.lines = recorder.lines
        /\ recorder'.flush \in [Agents -> FlushStates]
        /\ \A b \in Agents : recorder'.copy[b] \in {0, recorder.copy[b]}
    BY <1>0, <2>2 DEF FlushStates
  <2>4. ASSUME NEW b \in Agents PROVE StepIsTyped(b)'
    <3>1. StepIsTyped(b) /\ {"status", "log", "closed"} \subseteq DOMAIN steps[b]
      BY <1>0 DEF StepsAreTyped, StreamInv, StreamTypes
    <3>2. /\ steps'[b].status = steps[b].status
          /\ steps'[b].log = IF b = a THEN [lines |-> recorder.copy[a], ended |-> FALSE] ELSE steps[b].log
      BY <1>0, <2>2, <3>1
    <3>3. steps'[b].log.lines \in {steps[b].log.lines, recorder.copy[b]}  BY <3>2
    <3> QED  BY <1>0, <2>3, <3>1, <3>2, <3>3 DEF StepIsTyped
  <2>5. StepsAreTyped'  BY <2>3, <2>4 DEF StepsAreTyped
  <2> QED  BY <1>0, <2>1, <2>3, <2>5, OffPipe
<1> QED  BY <1>1, <1>2, <1>3, <1>4, <1>5

\* The end of run_claude.
LEMMA EndingIsTyped ==
  ASSUME St!StreamAssumption, StreamInv, StreamBounds,
         \/ St!EndOfOutput \/ St!Waited \/ St!Stall \/ St!Cancel \/ St!Terminate \/ St!KillGroup \/ St!CloseDangling
  PROVE  StreamBounds'
<1>0. /\ {"open", "lines", "limit", "flush", "copy"} \subseteq DOMAIN recorder
      /\ recorder.flush \in [Agents -> FlushStates] /\ DOMAIN steps = Agents
      /\ {"at", "ends", "outcome"} \subseteq DOMAIN pump /\ cut \in BOOLEAN /\ StepsAreTyped
      /\ \A a \in Agents : recorder.lines[a] <= MaxLines
  BY LogsAreBounded DEF StreamInv, StreamTypes, StreamBounds, LabelsAreTyped, StepsAreTyped
<1>1. ASSUME NEW place \in {"close", "sigterm"}, NEW ending, St!Leave(place, ending)
      PROVE  pump'.at \in St!PumpLabels /\ cut' \in BOOLEAN
  BY <1>1 DEF St!Leave, St!PumpLabels
<1>2. CASE St!EndOfOutput \/ St!Waited \/ St!Stall
  <2>1. UNCHANGED <<notifies, parser, pipe, written, leader, recorder, steps>>
    BY <1>2 DEF St!EndOfOutput, St!Waited, St!Stall, St!claude
  <2>2. pump'.at \in St!PumpLabels /\ cut' \in BOOLEAN
    <3>1. CASE St!EndOfOutput  BY <1>0, <3>1 DEF St!EndOfOutput, St!PumpLabels
    <3>2. CASE St!Waited \/ St!Stall  BY <1>1, <3>2 DEF St!Waited, St!Stall
    <3> QED  BY <1>2, <3>1, <3>2
  <2> QED  BY <1>0, <2>1, <2>2, StepsStay, OffPipe
<1>3. CASE St!Cancel
  <2>1. UNCHANGED <<notifies, parser, pipe, written, leader, steps>>  BY <1>3 DEF St!Cancel, St!claude
  <2>2. pump'.at \in St!PumpLabels /\ cut' \in BOOLEAN  BY <1>1, <1>3 DEF St!Cancel
  <2>3. /\ recorder'.lines = recorder.lines /\ recorder'.copy = recorder.copy
        /\ recorder'.flush \in [Agents -> FlushStates]
    <3>1. PICK first : first = Head(pump.ends).id  OBVIOUS
    <3>2. recorder' \in {recorder, [recorder EXCEPT !.flush[first] = "none"]}  BY <1>3, <3>1 DEF St!Cancel
    <3> QED  BY <1>0, <3>2 DEF FlushStates
  <2>4. StepsAreTyped'  BY <1>0, <2>1, <2>3 DEF StepsAreTyped, StepIsTyped
  <2> QED  BY <2>1, <2>2, <2>3, <2>4, OffPipe
<1>4. CASE St!Terminate \/ St!KillGroup
  <2>1. UNCHANGED <<notifies, parser, pipe, written, recorder, steps, cut>> /\ leader' \in {leader, "exited"}
    BY <1>4 DEF St!Terminate, St!KillGroup
  <2>2. \E place \in {"close", "sigkill"} : pump' = [pump EXCEPT !.at = place]
    BY <1>4 DEF St!Terminate, St!KillGroup
  <2>3. pump'.at \in St!PumpLabels  BY <1>0, <2>2 DEF St!PumpLabels
  <2> QED  BY <1>0, <2>1, <2>3, StepsStay, OffPipe
<1>5. CASE St!CloseDangling
  <2>1. UNCHANGED <<notifies, parser, pipe, written, leader, cut>>  BY <1>5 DEF St!CloseDangling, St!claude
  <2>2. pump'.at \in St!PumpLabels  BY <1>0, <1>5 DEF St!CloseDangling, St!PumpLabels
  <2>3. /\ recorder'.lines = recorder.lines /\ recorder'.copy = recorder.copy
        /\ recorder'.flush \in [Agents -> FlushStates]
    BY <1>0, <1>5 DEF St!CloseDangling, FlushStates
  <2>4. St!Endings \subseteq {"failed", "interrupted", "stopped"}
    <3>1. pump.outcome \in {"over", "stalled", "cancelled"}  BY <1>5 DEF St!CloseDangling, StreamInv, StepsClose
    <3> QED  BY <3>1 DEF St!Endings
  <2>5. PICK s \in St!Endings, pause \in BOOLEAN :
          steps' = [a \in Agents |->
                      IF a \in recorder.open THEN St!Closed(a, s)
                      ELSE IF pause /\ a \in recorder.limit THEN [steps[a] EXCEPT !.status = "interrupted"] ELSE steps[a]]
    BY <1>5 DEF St!CloseDangling
  <2>6. ASSUME NEW b \in Agents PROVE StepIsTyped(b)'
    <3>1. /\ StepIsTyped(b) /\ {"status", "log", "closed"} \subseteq DOMAIN steps[b]
          /\ s \in St!StepStatuses /\ "interrupted" \in St!StepStatuses
      BY <1>0, <2>4 DEF StepsAreTyped, StreamInv, StreamTypes, St!StepStatuses
    <3>2. CASE b \in recorder.open
      <4>1. steps'[b] = St!Closed(b, s)  BY <2>5, <3>2
      <4>2. steps'[b].status = s /\ steps'[b].log.lines = recorder.lines[b]  BY <4>1 DEF St!Closed
      <4> QED  BY <1>0, <2>3, <3>1, <4>2 DEF StepIsTyped
    <3>3. CASE b \notin recorder.open
      <4>1. steps'[b] \in {steps[b], [steps[b] EXCEPT !.status = "interrupted"]}  BY <2>5, <3>3
      <4>2. steps'[b].status \in {steps[b].status, "interrupted"} /\ steps'[b].log = steps[b].log  BY <3>1, <4>1
      <4> QED  BY <2>3, <3>1, <4>2 DEF StepIsTyped
    <3> QED  BY <3>2, <3>3
  <2>7. StepsAreTyped'  BY <2>3, <2>6 DEF StepsAreTyped
  <2> QED  BY <1>0, <2>1, <2>2, <2>3, <2>7, OffPipe
<1> QED  BY <1>2, <1>3, <1>4, <1>5

LEMMA StreamBoundsStep ==
  ASSUME St!StreamAssumption, StreamInv, StreamBounds, St!Next PROVE StreamBounds'
BY ClaudeIsTyped, ReadIsTyped, RecorderIsTyped, EndingIsTyped DEF St!Next, St!PumpStep

LEMMA StreamStart == ASSUME St!StreamAssumption, St!Init PROVE StreamBounds
<1> DEFINE log == St!Log
<1>1. /\ notifies \in BOOLEAN /\ cut = FALSE /\ leader = "alive" /\ pipe = <<>> /\ written = [a \in Agents |-> 0]
      /\ parser = [agents |-> {}, background |-> {}, acks |-> {}, notified |-> FALSE, result |-> "none"]
      /\ recorder = [open |-> {}, lines |-> [a \in Agents |-> 0], limit |-> {},
                     flush |-> [a \in Agents |-> "none"], copy |-> [a \in Agents |-> 0]]
      /\ steps = [a \in Agents |-> [status |-> "none", log |-> log, closed |-> 0]]
      /\ pump = [at |-> "read", ends |-> <<>>, outcome |-> "none"]
  BY DEF St!Init
<1>2. log.lines = 0  BY DEF St!Log
<1>3. MaxPipe \in Nat /\ MaxLines \in Nat  BY DEF St!StreamAssumption
<1> HIDE DEF log
<1>4. LabelsAreTyped  BY <1>1 DEF LabelsAreTyped, St!PumpLabels
<1>5. StepsAreTyped  BY <1>1, <1>2, <1>3 DEF StepsAreTyped, StepIsTyped, FlushStates, St!StepStatuses
<1>6. \A a \in Agents : Traces(a) = {}  BY <1>1 DEF Traces
<1>7. ASSUME NEW a \in Agents PROVE LineFits(a)
  <2>1. recorder.lines[a] = 0 /\ written[a] = 0  BY <1>1
  <2>2. Traces(a) = {}  BY <1>6
  <2> QED  BY <2>1, <2>2, FS_EmptySet DEF LineFits
<1>8. Len(pipe) <= MaxPipe /\ written \in [Agents -> 0 .. MaxLines]  BY <1>1, <1>3
<1> QED  BY <1>4, <1>5, <1>7, <1>8 DEF LinesFit, StreamBounds

LEMMA StreamIsTyped == ASSUME StreamInv, StreamBounds PROVE St!StreamTypeOK
<1>1. \A k \in DOMAIN pipe : pipe[k].kind \in St!Kinds
  <2>1. pipe \in Seq(Messages)  BY DEF StreamInv, StreamTypes
  <2>2. \A k \in DOMAIN pipe : pipe[k] \in Messages  BY <2>1
  <2> QED  BY <2>2 DEF Messages
<1> QED
  BY <1>1
  DEF StreamInv, StreamTypes, StreamBounds, LabelsAreTyped, StepsAreTyped, StepIsTyped, FlushStates, LinesFit, ParserKnows, StepsClose,
      St!StreamTypeOK

------------------------------------------------------------------------------
(* Every part, in the behaviours where it is looked at.                        *)

LEMMA RenderStart == ASSUME Re!RenderAssumption, Re!Init PROVE RenderBounds
<1> DEFINE rest == Re!Rest
<1>1. /\ render = [r \in Renders |-> rest] /\ newer = [k \in Re!Shown |-> {}] /\ renders = 0 /\ changes = 0
  BY DEF Re!Init
<1>2. RenderAt(rest) /\ MaxRenders \in Nat /\ MaxChanges \in Nat  BY RestIsTyped DEF Re!RenderAssumption
<1> HIDE DEF rest
<1> QED  BY <1>1, <1>2 DEF RenderBounds, RenderAt

LEMMA SpeechStart == ASSUME Sp!SpeechAssumption, Sp!Init PROVE SpeechBounds
<1> DEFINE rest == Sp!Rest
<1>1. tts = rest /\ voice = <<>> /\ reported = Sp!None /\ narrations = 0 /\ late = FALSE  BY DEF Sp!Init
<1>2. SpeechAt(rest) /\ MaxNarrations \in Nat  BY RestOfSpeech DEF Sp!SpeechAssumption
<1>3. <<>> \in Seq(Sp!Speakers \cup {Sp!Torn})  OBVIOUS
<1> HIDE DEF rest
<1>4. SpeechAt(tts)  BY <1>1, <1>2
<1>5. voice \in Seq(Sp!Speakers \cup {Sp!Torn}) /\ reported \in Sp!Speakers \cup {Sp!None}  BY <1>1, <1>3
<1>6. narrations \in 0 .. MaxNarrations  BY <1>1, <1>2
<1>7. late \in BOOLEAN  BY <1>1
<1> QED  BY <1>4, <1>5, <1>6, <1>7 DEF SpeechBounds

LEMMA SandboxStart == ASSUME Sb!SandboxAssumption, Sb!Init PROVE Sb!SandboxTypeOK
<1> DEFINE rest == Sb!Rest
           nothing == Sb!Nothing
<1>1. /\ mode \in Modes /\ call = [c \in Calls |-> [at |-> "idle", left |-> 0, got |-> Sb!NoJob]]
      /\ job = [c \in Calls |-> "none"] /\ done = {} /\ cancel = {} /\ output = [d \in Sb!Dirs |-> nothing]
      /\ worker = [w \in Workers |-> rest] /\ kills = 0 /\ crossed = {}
  BY DEF Sb!Init
<1>2. rest \in WorkerStates  BY WorkerRests
<1>3. nothing \in [of : Calls \cup {Sb!NoJob}, ok : BOOLEAN]  BY DEF Sb!Nothing
<1>4. [at |-> "idle", left |-> 0, got |-> Sb!NoJob] \in CallStates  BY DEF CallStates, Sb!CallLabels
<1>5. MaxKills \in Nat  BY SandboxNumbers
<1> HIDE DEF rest, nothing
<1>6. call \in [Calls -> CallStates] /\ worker \in [Workers -> WorkerStates]  BY <1>1, <1>2, <1>4
<1>7. output \in [Sb!Dirs -> [of : Calls \cup {Sb!NoJob}, ok : BOOLEAN]]  BY <1>1, <1>3
<1> QED  BY <1>1, <1>5, <1>6, <1>7 DEF Sb!SandboxTypeOK, CallStates, WorkerStates

\* What the theorems on the parts keep of each.
PartsKeep ==
  /\ focus = "stream" => StreamInv
  /\ focus = "sandbox" => SandboxInv
  /\ focus = "motion" => MotionInv
  /\ focus = "speech" => SpeechInv
  /\ focus = "render" => RenderInv
  /\ focus = "library" => LibraryInv

\* And what bounds them.
PartsBounds ==
  /\ focus = "session" => IInv
  /\ focus = "stream" => StreamBounds
  /\ focus = "sandbox" => Sb!SandboxTypeOK
  /\ focus = "images" => ImagesBounds
  /\ focus = "speech" => SpeechBounds
  /\ focus = "render" => RenderBounds
  /\ focus = "library" => LibraryBounds

Parts == {"session", "stream", "sandbox", "images", "motion", "speech", "render", "library"}

LEMMA PartsAreAssumed ==
  /\ St!StreamAssumption /\ Sb!SandboxAssumption /\ ImagesAssumption /\ Mo!MotionAssumption
  /\ Sp!SpeechAssumption /\ Re!RenderAssumption /\ Li!MediaAssumption
BY PartsAssumption

LEMMA PartsAreKept == StudioSpec => []PartsKeep
<1> DEFINE InStream == focus = "stream" => StreamInv
           InSandbox == focus = "sandbox" => SandboxInv
           InMotion == focus = "motion" => MotionInv
           InSpeech == focus = "speech" => SpeechInv
           InRender == focus = "render" => RenderInv
           InLibrary == focus = "library" => LibraryInv
<1>1. StudioSpec => []InStream  BY StreamIsKept
<1>2. StudioSpec => []InSandbox  BY SandboxIsKept, PartsAreAssumed
<1>3. StudioSpec => []InMotion  BY MotionIsKept, PartsAreAssumed
<1>4. StudioSpec => []InSpeech  BY SpeechIsKept, PartsAreAssumed
<1>5. StudioSpec => []InRender  BY RenderIsKept, PartsAreAssumed
<1>6. StudioSpec => []InLibrary  BY LibraryIsKept, PartsAreAssumed
<1>7. InStream /\ InSandbox /\ InMotion /\ InSpeech /\ InRender /\ InLibrary => PartsKeep  BY DEF PartsKeep
<1> HIDE DEF InStream, InSandbox, InMotion, InSpeech, InRender, InLibrary
<1> QED  BY <1>1, <1>2, <1>3, <1>4, <1>5, <1>6, <1>7, PTL

LEMMA BoundsStart == StudioInit => PartsBounds
<1> SUFFICES ASSUME StudioInit PROVE PartsBounds  OBVIOUS
<1>1. Init /\ St!Init /\ Sb!Init /\ ImagesInit /\ Sp!Init /\ Re!Init /\ Li!Init  BY DEF StudioInit
<1> QED
  BY <1>1, PartsAreAssumed, SessionStart, StreamStart, SandboxStart, ImagesStart, SpeechStart, RenderStart, LibraryStart
  DEF PartsBounds

\* A part that stays, or that is not looked at, keeps its bounds.
LEMMA BoundsStay == ASSUME PartsBounds, UNCHANGED all PROVE PartsBounds'
<1> USE DEF all, tools, PartsBounds
<1>1. CASE focus = "session"
  <2>1. UNCHANGED vars  OBVIOUS
  <2> QED  BY <1>1, <2>1, SessionStep
<1>2. CASE focus = "stream"
  <2>1. UNCHANGED <<notifies, work, leader, pipe, written, parser, recorder, steps, pump, cut>>  BY DEF stream
  <2> QED
    BY <1>2, <2>1 DEF StreamBounds, LabelsAreTyped, StepsAreTyped, StepIsTyped, LinesFit, LineFits, Traces, Is
<1>3. CASE focus = "sandbox"
  <2>1. UNCHANGED <<mode, call, job, done, cancel, output, worker, kills, crossed>>  BY DEF sandbox
  <2> QED  BY <1>3, <2>1 DEF Sb!SandboxTypeOK, Sb!Dirs
<1>4. CASE focus = "images"
  <2>1. UNCHANGED imageVars  OBVIOUS
  <2> QED
    BY <1>4, <2>1 DEF imageVars, tally, cache, ImagesBounds, ImagesTypeOK, AsksCoverPaid, UnpaidTools, Unpaid
<1>5. CASE focus = "speech"
  <2>1. UNCHANGED <<brief, keys, tts, wav, described, voice, reported, narrations, late>>  BY DEF speech
  <2> QED  BY <1>5, <2>1 DEF SpeechBounds, SpeechAt
<1>6. CASE focus = "render"
  <2>1. UNCHANGED <<render, source, segments, newer, film, wanted, renders, changes, swapped>>  BY DEF montage
  <2> QED  BY <1>6, <2>1 DEF RenderBounds
<1>7. CASE focus = "library"
  <2>1. UNCHANGED <<registry, cached, stored, credits, cmd, searches, uses, shifted, doubt>>  BY DEF library
  <2> QED
    BY <1>7, <2>1 DEF LibraryBounds, FilesAreTyped, FoundItems, CommandAt, RegisterFits, Pending, Written
<1>8. CASE focus \notin {"session", "stream", "sandbox", "images", "speech", "render", "library"}
  BY <1>8
<1> QED  BY <1>1, <1>2, <1>3, <1>4, <1>5, <1>6, <1>7, <1>8

LEMMA BoundsStep == ASSUME PartsKeep, PartsBounds, StudioNext PROVE PartsBounds'
<1> USE DEF PartsKeep, PartsBounds
<1>0. focus' = focus  BY DEF StudioNext
<1>1. CASE focus = "session" /\ Next  BY <1>0, <1>1, SessionStep
<1>2. CASE focus = "stream" /\ St!Next  BY <1>0, <1>2, PartsAreAssumed, StreamBoundsStep
<1>3. CASE focus = "sandbox" /\ Sb!Next  BY <1>0, <1>3, PartsAreAssumed, SandboxTypesStep
<1>4. CASE focus = "images" /\ ImagesNext  BY <1>0, <1>4, PartsAreAssumed, ImagesTypesStep
<1>5. CASE focus = "motion" /\ Mo!Next  BY <1>0, <1>5
<1>6. CASE focus = "speech" /\ Sp!Next  BY <1>0, <1>6, PartsAreAssumed, SpeechBoundsStep
<1>7. CASE focus = "render" /\ Re!Next  BY <1>0, <1>7, PartsAreAssumed, RenderBoundsStep
<1>8. CASE focus = "library" /\ Li!Next  BY <1>0, <1>8, PartsAreAssumed, LibraryBoundsStep
<1> QED  BY <1>1, <1>2, <1>3, <1>4, <1>5, <1>6, <1>7, <1>8 DEF StudioNext

\* Every part of Claude Studio keeps the states, the positions and the counters of its
\* code, for every value of the constants: no numbers go beyond their caps, a log has
\* no more lines than were written, no more images are charged than were asked for, the
\* register has no more items than the searches found, a message is in its protocol
\* (studio_resume.py, claude_studio.py, sandbox.py, tools.py, media.py, render.py).
THEOREM StudioKeepsTypes == StudioSpec => []TypeOK
<1>1. StudioInit => PartsBounds /\ focus \in Parts  BY BoundsStart DEF StudioInit, Parts
<1>2. PartsKeep /\ PartsBounds /\ focus \in Parts /\ [StudioNext]_all => PartsBounds' /\ (focus \in Parts)'
  <2> SUFFICES ASSUME PartsKeep, PartsBounds, focus \in Parts, [StudioNext]_all PROVE PartsBounds' /\ focus' \in Parts
    BY DEF Parts
  <2>1. focus' = focus  BY DEF StudioNext, all
  <2> QED  BY <2>1, BoundsStep, BoundsStay
<1>3. PartsKeep /\ PartsBounds /\ focus \in Parts => TypeOK
  <2> SUFFICES ASSUME PartsKeep, PartsBounds, focus \in Parts PROVE TypeOK  OBVIOUS
  <2>1. CASE focus = "session"  BY <2>1 DEF TypeOK, PartsBounds, IInv
  <2>2. CASE focus = "stream"  BY <2>2, StreamIsTyped DEF TypeOK, PartsKeep, PartsBounds
  <2>3. CASE focus = "sandbox"  BY <2>3 DEF TypeOK, PartsBounds
  <2>4. CASE focus = "images"  BY <2>4 DEF TypeOK, PartsBounds, ImagesBounds
  <2>5. CASE focus = "motion"  BY <2>5 DEF TypeOK, PartsKeep, MotionInv
  <2>6. CASE focus = "speech"  BY <2>6, SpeechIsTyped DEF TypeOK, PartsKeep, PartsBounds
  <2>7. CASE focus = "render"  BY <2>7, RenderIsTyped DEF TypeOK, PartsKeep, PartsBounds
  <2>8. CASE focus = "library"  BY <2>8, PartsAreAssumed, LibraryIsTyped DEF TypeOK, PartsBounds
  <2> QED  BY <2>1, <2>2, <2>3, <2>4, <2>5, <2>6, <2>7, <2>8 DEF Parts
<1> QED  BY <1>1, <1>2, <1>3, PartsAreKept, PTL DEF StudioSpec
================================================================================
