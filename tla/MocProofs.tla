------------------------------ MODULE MocProofs ------------------------------
(***************************************************************************)
(* The managed MOC pipeline keeps accepted events, records the ownership   *)
(* of what it commits and replaces nobody else's text, for any vault,      *)
(* targets, options and numbers of disturbances; and while it serves, no   *)
(* target is silently behind its notes.                                    *)
(***************************************************************************)
EXTENDS MocProperties, SequenceTheorems, TLAPS

EffectPlans == {p \in [target : Mocs, prior : AllContents, proposed : AllContents] :
                   {p.prior, p.proposed} \subseteq ContentsOf(p.target)}

\* What a tick asks of the promise queue.
PassTasks == {"take", "finish"}

\* The notes, the targets and the effects have their types.
ContentTypes ==
    /\ src \in [Notes -> {0, 1}]
    /\ vault \in [Mocs -> AllContents] /\ ownership \in [Mocs -> AllContents \cup {Unbound}]
    /\ \A d \in Mocs : vault[d] \in ContentsOf(d) /\ ownership[d] \in ContentsOf(d) \cup {Unbound}
    /\ plan \in [{Slot} -> EffectPlans] /\ plans \subseteq EffectPlans
    /\ phase \in [{Slot} -> Atomic!Phases] /\ landed \in SUBSET {Slot}
    /\ claim \in {Slot, NoEffect} /\ pending \in BOOLEAN /\ raced \in BOOLEAN
    /\ {edits, failures} \subseteq Nat

\* So do the intent and what becomes of it.
IntentTypes ==
    /\ intent \in Intents \cup {NoIntent} /\ work \in Intents
    /\ writing \in Intents \cup {NoIntent, NoWrite}
    /\ batch \in Batches \cup {NoBatch} /\ detached \in Batches \cup {NoBatch}
    /\ idle \in 0 .. Debounce /\ age \in 0 .. MaxDelay /\ since \in 0 .. Periodic

\* And the stages of the process, of the tick and of its callers.
StageTypes ==
    /\ up \in {"down", "load", "recover", "adopt", "first", "open", "running", "closing",
               "stopping", "failed"}
    /\ pass \in {"none", "take", "owner", "plan", "effects", "execute", "after", "finish"}
    /\ signals \subseteq Files \cup {"full"} /\ handler \in Files \cup {"full", NoSignal}
    /\ explicit \in {"none", "saving", "tick", "joined", "check", "rejoined"}
    /\ error \in {"none", "RECONCILIATION_FAILED", "EVENT_PERSIST_FAILED", "WATCHER_FAILED",
                  "WATCHER_UNAVAILABLE"}

TypeInv == ContentTypes /\ IntentTypes /\ StageTypes

\* The promise queue holds the batch that is saved, the batch that is open and
\* the step of the tick that waits for the queue, each at most once.
QueueHolds ==
    \/ /\ pass \notin PassTasks
       /\ \/ batch = NoBatch /\ detached = NoBatch /\ tasks = <<>>
          \/ batch = NoBatch /\ detached # NoBatch /\ tasks = <<"admit">>
          \/ batch # NoBatch /\ detached = NoBatch /\ tasks = <<"admit">>
          \/ batch # NoBatch /\ detached # NoBatch /\ tasks = <<"admit", "admit">>
    \/ /\ pass \in PassTasks
       /\ \/ batch = NoBatch /\ detached = NoBatch /\ tasks = <<pass>>
          \/ batch = NoBatch /\ detached # NoBatch /\ tasks = <<"admit", pass>>
          \/ batch # NoBatch /\ detached = NoBatch /\ tasks \in {<<"admit", pass>>, <<pass, "admit">>}
          \/ /\ batch # NoBatch /\ detached # NoBatch
             /\ tasks \in {<<"admit", "admit", pass>>, <<"admit", pass, "admit">>}

\* What the task that runs is saving.
WritingHolds ==
    /\ detached # NoBatch =>
           /\ writing \in Intents
           /\ \A f \in owed \cup detached.asked : Covers(writing, f)
    /\ detached = NoBatch /\ writing # NoWrite =>
           \/ Task("take") /\ writing = FullIntent
           \/ Task("finish") /\ writing = NoIntent /\ current

\* Every accepted event is in the intent, and as long as no other was accepted
\* since, in the work of the pass or in the snapshot it took.
AcceptedHolds ==
    /\ AcceptedEventsDurable
    /\ \A b \in {batch, detached} : b # NoBatch => \A f \in b.asked : b.full \/ f \in b.files
    /\ current =>
           /\ pass \notin {"none", "take"}
           /\ pass \in {"owner", "plan"} => \A f \in owed : Covers(work, f)
           /\ pass \notin {"owner", "plan"} => owed \subseteq seen

\* A plan names bytes the planner may replace, under the bindings of now.
Justified(p) ==
    LET d == p.target
    IN  /\ p.prior = Absent \/ Binding(d) # Absent
        /\ Kind[d] = "fully-managed" => p.prior \in {Absent, Binding(d)}
        /\ Kind[d] = "region-managed" =>
               p.proposed.outer = p.prior.outer /\ p.prior.body = Binding(d).body

\* The effect in progress, its record and the plans that follow it.
EffectHolds ==
    /\ up \in {"down", "load", "recover", "adopt"} => pass = "none"
    /\ pass \notin {"effects", "execute", "after"} => plans = {}
    /\ \A p \in plans : Justified(p)
    /\ \A p, q \in plans : p.target = q.target => p = q
    /\ pass \in {"execute", "after"} => pending /\ Effect \in plans
    /\ phase[Slot] \in Atomic!Undecided => pending
    /\ pending => Justified(Effect)
    /\ OwnershipFollowsCommit

\* Between the comparison and the rename the target holds the compared bytes,
\* unless somebody edits it.
ClaimHolds ==
    /\ prepared => Slot \notin landed
    /\ claim = Slot => pass = "execute" /\ prepared
    /\ claim = Slot /\ ~raced => vault[Effect.target] = Effect.prior

\* The inductive invariant.
MocInv == TypeInv /\ QueueHolds /\ WritingHolds /\ AcceptedHolds /\ EffectHolds /\ ClaimHolds

-----------------------------------------------------------------------------
(***************************************************************************)
(* Sentinels and the promise queue.                                        *)
(***************************************************************************)

LEMMA ShortAppends ==
    ASSUME NEW S, NEW a \in S, NEW b \in S, NEW c \in S
    PROVE  /\ Append(<<>>, a) = <<a>>
           /\ Append(<<a>>, b) = <<a, b>>
           /\ Append(<<a, b>>, c) = <<a, b, c>>
  <1>1. Append(<<>>, a) = <<a>>
    OBVIOUS
  <1>2. Append(<<a>>, b) = <<a, b>>
    <2>1. <<a>> \in Seq(S) /\ <<a, b>> \in Seq(S)
      OBVIOUS
    <2>2. Append(<<a>>, b) \in Seq(S) /\ Len(Append(<<a>>, b)) = 2
      BY <2>1
    <2>3. \A i \in 1 .. 2 : Append(<<a>>, b)[i] = <<a, b>>[i]
      BY <2>1
    <2>. QED  BY <2>1, <2>2, <2>3, SeqEqual
  <1>3. Append(<<a, b>>, c) = <<a, b, c>>
    <2>1. <<a, b>> \in Seq(S) /\ <<a, b, c>> \in Seq(S)
      OBVIOUS
    <2>2. Append(<<a, b>>, c) \in Seq(S) /\ Len(Append(<<a, b>>, c)) = 3
      BY <2>1
    <2>3. \A i \in 1 .. 3 : Append(<<a, b>>, c)[i] = <<a, b, c>>[i]
      BY <2>1
    <2>. QED  BY <2>1, <2>2, <2>3, SeqEqual
  <1>. QED  BY <1>1, <1>2, <1>3

\* What waits in the queue for the tasks that run is at most two tasks.
LEMMA QueueTails ==
    ASSUME NEW p
    PROVE  /\ Tail(<<"admit">>) = <<>> /\ Tail(<<p>>) = <<>>
           /\ Tail(<<"admit", "admit">>) = <<"admit">>
           /\ Tail(<<"admit", p>>) = <<p>> /\ Tail(<<p, "admit">>) = <<"admit">>
           /\ Tail(<<"admit", "admit", p>>) = <<"admit", p>>
           /\ Tail(<<"admit", p, "admit">>) = <<p, "admit">>
  OBVIOUS

LEMMA QueueAppends ==
    ASSUME NEW p \in {"admit", "take", "finish"}
    PROVE  /\ Append(<<>>, p) = <<p>>
           /\ Append(<<"admit">>, p) = <<"admit", p>>
           /\ Append(<<p>>, "admit") = <<p, "admit">>
           /\ Append(<<"admit", "admit">>, p) = <<"admit", "admit", p>>
           /\ Append(<<"admit", p>>, "admit") = <<"admit", p, "admit">>
  <1>. DEFINE S == {"admit", "take", "finish"}
  <1>1. Append(<<>>, p) = <<p>> /\ Append(<<"admit">>, p) = <<"admit", p>>
    BY ShortAppends
  <1>2. Append(<<p>>, "admit") = <<p, "admit">>
    BY ShortAppends
  <1>3. Append(<<"admit", "admit">>, p) = <<"admit", "admit", p>>
    <2>1. "admit" \in S /\ p \in S
      OBVIOUS
    <2>. HIDE DEF S
    <2>. QED  BY <2>1, ShortAppends, Zenon
  <1>4. Append(<<"admit", p>>, "admit") = <<"admit", p, "admit">>
    <2>1. "admit" \in S /\ p \in S
      OBVIOUS
    <2>. HIDE DEF S
    <2>. QED  BY <2>1, ShortAppends, Zenon
  <1>. QED  BY <1>1, <1>2, <1>3, <1>4

\* The task at the head of the queue, and what waits behind it.
LEMMA QueueHead ==
    ASSUME QueueHolds
    PROVE  /\ Task("take") => pass = "take" /\ detached = NoBatch
           /\ Task("finish") => pass = "finish" /\ detached = NoBatch
           /\ Task("admit") /\ detached = NoBatch => batch # NoBatch
           /\ detached # NoBatch => Task("admit")
  BY DEF QueueHolds, Task, PassTasks

LEMMA QueueKept ==
    ASSUME QueueHolds, UNCHANGED <<tasks, batch, detached>>,
           pass' = pass \/ (pass \notin PassTasks /\ pass' \notin PassTasks)
    PROVE  QueueHolds'
  BY DEF QueueHolds, PassTasks

\* A batch somebody joined is a batch.
LEMMA JoinTyped ==
    ASSUME batch \in Batches \cup {NoBatch}, NEW f \in Files \cup {"full"},
           NEW w \in {"handler", "storm", "explicit", "start", "shutdown"}, Enqueue(f, w)
    PROVE  batch' \in Batches /\ batch' # NoBatch
  <1>1. EmptyBatch \in Batches
    BY DEF EmptyBatch, Batches
  <1>2. PICK b \in Batches : batch' = Join(b, f, w)
    BY <1>1 DEF Enqueue
  <1>3. b.files \subseteq Files /\ b.asked \subseteq Files
    BY DEF Batches
  <1>4. Join(b, f, w) \in Batches
    BY <1>3, SentinelAssumption DEF Join, Batches
  <1>. QED  BY <1>2, <1>4, SentinelAssumption

LEMMA QueueJoined ==
    ASSUME QueueHolds, NEW f, NEW w, Enqueue(f, w), pass' = pass, batch' # NoBatch
    PROVE  QueueHolds'
  <1>1. CASE batch = NoBatch
    <2>1. CASE pass \in PassTasks
      BY <1>1, <2>1, QueueAppends DEF QueueHolds, PassTasks, Enqueue
    <2>2. CASE pass \notin PassTasks
      BY <1>1, <2>2, QueueAppends DEF QueueHolds, Enqueue
    <2>. QED  BY <2>1, <2>2
  <1>2. CASE batch # NoBatch
    BY <1>2 DEF QueueHolds, PassTasks, Enqueue
  <1>. QED  BY <1>1, <1>2

LEMMA QueueSaved ==
    ASSUME QueueHolds, detached # NoBatch, detached' = NoBatch, tasks' = Tail(tasks),
           UNCHANGED <<batch, pass>>
    PROVE  QueueHolds'
  BY QueueTails DEF QueueHolds, PassTasks

LEMMA QueuePassed ==
    ASSUME QueueHolds, Task("take") \/ Task("finish"), tasks' = Tail(tasks),
           pass' \notin PassTasks, UNCHANGED <<batch, detached>>
    PROVE  QueueHolds'
  <1>1. pass \in PassTasks /\ detached = NoBatch
    BY QueueHead DEF PassTasks
  <1>2. \/ batch = NoBatch /\ tasks = <<pass>>
        \/ batch # NoBatch /\ tasks = <<pass, "admit">>
    BY <1>1 DEF QueueHolds, PassTasks, Task
  <1>3. Tail(<<pass>>) = <<>> /\ Tail(<<pass, "admit">>) = <<"admit">>
    BY QueueTails
  <1>4. /\ batch = NoBatch => tasks' = <<>>
        /\ batch # NoBatch => tasks' = <<"admit">>
    BY <1>2, <1>3
  <1>. QED  BY <1>1, <1>4 DEF QueueHolds

LEMMA QueueAppended ==
    ASSUME QueueHolds, pass \notin PassTasks, pass' \in PassTasks, tasks' = Append(tasks, pass'),
           UNCHANGED <<batch, detached>>
    PROVE  QueueHolds'
  <1>. DEFINE p == pass'
  <1>1. /\ p \in {"admit", "take", "finish"} /\ p \in PassTasks
        /\ tasks' = Append(tasks, p) /\ batch' = batch /\ detached' = detached
    BY DEF PassTasks
  <1>3. /\ Append(<<>>, p) = <<p>> /\ Append(<<"admit">>, p) = <<"admit", p>>
        /\ Append(<<"admit", "admit">>, p) = <<"admit", "admit", p>>
    BY <1>1, QueueAppends
  <1>. HIDE DEF p
  <1>4. CASE batch = NoBatch /\ detached = NoBatch
    <2>1. tasks' = <<p>>
      BY <1>1, <1>3, <1>4 DEF QueueHolds
    <2>. QED  BY <1>1, <1>4, <2>1 DEF QueueHolds, p
  <1>5. CASE batch = NoBatch /\ detached # NoBatch
    <2>1. tasks' = <<"admit", p>>
      BY <1>1, <1>3, <1>5 DEF QueueHolds
    <2>. QED  BY <1>1, <1>5, <2>1 DEF QueueHolds, p
  <1>6. CASE batch # NoBatch /\ detached = NoBatch
    <2>1. tasks' = <<"admit", p>>
      BY <1>1, <1>3, <1>6 DEF QueueHolds
    <2>. QED  BY <1>1, <1>6, <2>1 DEF QueueHolds, p
  <1>7. CASE batch # NoBatch /\ detached # NoBatch
    <2>1. tasks' = <<"admit", "admit", p>>
      BY <1>1, <1>3, <1>7 DEF QueueHolds
    <2>. QED  BY <1>1, <1>7, <2>1 DEF QueueHolds, p
  <1>. QED  BY <1>4, <1>5, <1>6, <1>7

\* Which task a saving belongs to.
LEMMA Saving ==
    ASSUME MocInv
    PROVE  /\ Task("admit") /\ writing = NoWrite => detached = NoBatch /\ batch # NoBatch
           /\ Task("admit") /\ writing # NoWrite => detached # NoBatch
  BY QueueHead, SentinelAssumption DEF MocInv, WritingHolds, Task

LEMMA QueueStep ==
    ASSUME MocInv, Next
    PROVE  QueueHolds'
  <1>. USE QueueHead, QueueKept DEF MocInv
  <1>1. CASE \/ Boot \/ SaveStartIntent \/ RecoverEffects \/ Advance \/ BeginEffect
             \/ PrepareEffect \/ CompareEffect \/ LandEffect \/ FailStart
             \/ (\E n \in Notes : ChangeNote(n)) \/ (\E d \in Mocs : EditMoc(d))
    BY <1>1 DEF Boot, SaveStartIntent, RecoverEffects, Advance, BeginEffect, PrepareEffect,
                CompareEffect, LandEffect, FailStart, ChangeNote, EditMoc, hostRest, taskVars,
                passVars
  <1>2. CASE StartAdmission
    <2>1. detached = NoBatch /\ batch # NoBatch /\ UNCHANGED <<tasks, pass>>
      BY <1>2, Saving DEF StartAdmission, passVars
    <2>2. detached' = batch /\ batch' = NoBatch /\ Task("admit")
      BY <1>2 DEF StartAdmission
    <2>. QED  BY <2>1, <2>2 DEF QueueHolds, PassTasks, Task
  <1>3. CASE FinishAdmission \/ FailAdmission
    BY <1>3, Saving, QueueSaved DEF FinishAdmission, FailAdmission, passVars
  <1>4. CASE TakeWork
    BY <1>4, QueuePassed DEF TakeWork, Decide, Settle, passVars, PassTasks
  <1>5. CASE SavePeriodicIntent
    BY <1>5, QueuePassed DEF SavePeriodicIntent, Decide, Settle, PassTasks
  <1>6. CASE FinishPass
    BY <1>6, QueuePassed DEF FinishPass, Settle, passVars, PassTasks
  <1>7. CASE FailPass
    BY <1>7, QueuePassed DEF FailPass, Settle, taskVars, PassTasks
  <1>8. CASE \/ AdoptBeforePass \/ PlanBatch \/ RecordPending \/ RefuseEffect \/ CommitUnchanged
             \/ CommitEffect \/ FailEffect \/ AdoptAfterEffect
    BY <1>8 DEF AdoptBeforePass, PlanBatch, RecordPending, RefuseEffect, CommitUnchanged,
                CommitEffect, FailEffect, AdoptAfterEffect, Executing, Unprepared, Settle,
                hostRest, taskVars, PassTasks
  <1>9. CASE PassDone
    BY <1>9, QueueAppended DEF PassDone, PassTasks
  <1>10. CASE AdoptAtStart
    BY <1>10, QueueAppended DEF AdoptAtStart, StartPass, taskVars, passVars, PassTasks
  <1>11. CASE TimerTick
    BY <1>11, QueueAppended DEF TimerTick, StartPass, PassTasks
  <1>12. CASE TickNow
    BY <1>12, QueueAppended DEF TickNow, StartPass, taskVars, passVars, PassTasks
  <1>13. CASE OpenWatcher
    BY <1>13, JoinTyped, QueueJoined DEF OpenWatcher, taskVars, passVars, TypeInv, IntentTypes, StageTypes
  <1>14. CASE \E s \in signals : Deliver(s)
    BY <1>14, JoinTyped, QueueJoined DEF Deliver, taskVars, passVars, TypeInv, IntentTypes, StageTypes
  <1>15. CASE HandleEvent
    BY <1>15, JoinTyped, QueueJoined DEF HandleEvent, taskVars, passVars, TypeInv, IntentTypes, StageTypes
  <1>16. CASE WatcherFails \/ RequestNow
    BY <1>16, JoinTyped, QueueJoined DEF WatcherFails, RequestNow, passVars, TypeInv, IntentTypes, StageTypes
  <1>16b. CASE FailRead
    BY <1>16b DEF FailRead, taskVars, passVars
  <1>17. CASE Shutdown
    BY <1>17, JoinTyped, QueueJoined DEF Shutdown, taskVars, passVars, TypeInv, IntentTypes, StageTypes
  <1>18. CASE Leave \/ Crash
    BY <1>18 DEF Leave, Crash, Gone, QueueHolds, PassTasks
  <1>. QED
    BY <1>1, <1>2, <1>3, <1>4, <1>5, <1>6, <1>7, <1>8, <1>9, <1>10, <1>11, <1>12, <1>13, <1>14,
       <1>15, <1>16, <1>16b, <1>17, <1>18
       DEF Next, Coordinate, Reconcile, StartUp, Receive, Environment

-----------------------------------------------------------------------------
(***************************************************************************)
(* Types.                                                                  *)
(***************************************************************************)
LEMMA ContentsIncluded ==
    ASSUME NEW d \in Mocs
    PROVE  ContentsOf(d) \subseteq AllContents
  BY DEF AllContents

\* What a plan proposes is content of its target.
LEMMA PlanTyped ==
    ASSUME ContentTypes, NEW d \in Mocs, Plannable(d)
    PROVE  PlanFor(d) \in EffectPlans
  <1>1. vault[d] \in ContentsOf(d)
    BY DEF ContentTypes
  <1>2. Body(d, src) \in [NotesIn(d) -> {0, 1}]
    BY DEF ContentTypes, Body, NotesIn
  <1>3. Kind[d] # "fully-managed" => vault[d].outer \in {"generated", "human"}
    BY <1>1 DEF Plannable, ContentsOf
  <1>4. ProposedFor(d) \in ContentsOf(d)
    BY <1>2, <1>3 DEF ProposedFor, Text, ContentsOf
  <1>. QED  BY <1>1, <1>4, ContentsIncluded DEF PlanFor, EffectPlans

LEMMA EditTyped ==
    ASSUME NEW d \in Mocs, vault[d] \in ContentsOf(d), vault[d] # Absent,
           NEW bytes \in {Absent, [vault[d] EXCEPT !.outer = "human"]}
    PROVE  bytes \in ContentsOf(d)
  BY DEF ContentsOf

\* Ownership is recorded of what the journal committed.
LEMMA OwnershipTyped ==
    ASSUME ContentTypes, RecoverOwnership
    PROVE  /\ ownership' \in [Mocs -> AllContents \cup {Unbound}]
           /\ \A d \in Mocs : ownership'[d] \in ContentsOf(d) \cup {Unbound}
           /\ pending' \in BOOLEAN
  BY ContentsIncluded DEF ContentTypes, RecoverOwnership, EffectPlans, Effect, Slot

LEMMA SettleTyped ==
    ASSUME TypeInv, NEW ok \in BOOLEAN, NEW left, Settle(ok, left)
    PROVE  /\ work' \in Intents /\ plans' = {} /\ pass' = "none"
           /\ up' \in {"down", "load", "recover", "adopt", "first", "open", "running", "closing",
                       "stopping", "failed"}
           /\ explicit' \in {"none", "saving", "tick", "joined", "check", "rejoined"}
           /\ error' \in {"none", "RECONCILIATION_FAILED", "EVENT_PERSIST_FAILED",
                          "WATCHER_FAILED", "WATCHER_UNAVAILABLE"}
  BY DEF TypeInv, StageTypes, Settle, FullIntent, Intents

LEMMA DecideTyped ==
    ASSUME TypeInv, NEW i \in Intents \cup {NoIntent}, NEW m, NEW n, Decide(i, m, n)
    PROVE  /\ work' \in Intents /\ plans' \subseteq EffectPlans /\ pass' \in {"none", "owner"}
           /\ up' \in {"down", "load", "recover", "adopt", "first", "open", "running", "closing",
                       "stopping", "failed"}
           /\ explicit' \in {"none", "saving", "tick", "joined", "check", "rejoined"}
           /\ error' \in {"none", "RECONCILIATION_FAILED", "EVENT_PERSIST_FAILED",
                          "WATCHER_FAILED", "WATCHER_UNAVAILABLE"}
  BY SettleTyped DEF TypeInv, IntentTypes, StageTypes, ContentTypes, Decide, statusVars

LEMMA MergedTyped ==
    ASSUME intent \in Intents \cup {NoIntent}, NEW b \in Batches
    PROVE  Merged(b) \in Intents
  BY DEF Merged, Intents, Batches

LEMMA ContentKept ==
    ASSUME ContentTypes, UNCHANGED <<src, vault, ownership, plan, landed, edits>>,
           phase' \in [{Slot} -> Atomic!Phases], claim' \in {Slot, NoEffect},
           plans' \subseteq EffectPlans, pending' \in BOOLEAN, raced' \in BOOLEAN,
           failures' = failures \/ failures' = failures + 1
    PROVE  ContentTypes'
  BY DEF ContentTypes

LEMMA ContentStep ==
    ASSUME TypeInv, Next
    PROVE  ContentTypes'
  <1>. USE DEF TypeInv, Slot
  <1>1. CASE \/ Boot \/ SaveStartIntent \/ Advance \/ StartAdmission \/ FinishAdmission
             \/ FailAdmission \/ FailStart \/ PassDone \/ TimerTick \/ TickNow \/ Shutdown
             \/ HandleEvent \/ RequestNow \/ WatcherFails \/ FailRead \/ OpenWatcher
             \/ (\E s \in signals : Deliver(s))
    <2>1. /\ UNCHANGED <<src, vault, ownership, pending, plan, phase, landed, claim, plans,
                         raced, edits>>
          /\ failures' = failures \/ failures' = failures + 1
      BY <1>1 DEF Boot, SaveStartIntent, Advance, StartAdmission, FinishAdmission, FailAdmission,
                  FailStart, PassDone, TimerTick, TickNow, Shutdown, HandleEvent, RequestNow,
                  WatcherFails, FailRead, OpenWatcher, Deliver, StartPass, Spend, hostVars,
                  effectVars,
                  passVars, historyVars, boundVars
    <2>. QED  BY <2>1, ContentKept DEF ContentTypes
  <1>2. CASE TakeWork \/ SavePeriodicIntent \/ FinishPass \/ FailPass
    <2>1. plans' \subseteq EffectPlans
      BY <1>2, SettleTyped, DecideTyped
         DEF TakeWork, SavePeriodicIntent, FinishPass, FailPass, IntentTypes, ContentTypes,
             passVars, FullIntent, Intents
    <2>2. /\ UNCHANGED <<src, vault, ownership, pending, plan, phase, landed, claim, raced,
                         edits>>
          /\ failures' = failures \/ failures' = failures + 1
      BY <1>2 DEF TakeWork, SavePeriodicIntent, FinishPass, FailPass, Spend, hostVars,
                  effectVars, historyVars, boundVars
    <2>. QED  BY <2>1, <2>2, ContentKept DEF ContentTypes
  <1>3. CASE RecoverEffects
    BY <1>3 DEF RecoverEffects, ContentTypes, EffectPlans, Effect, Atomic!Phases,
                Atomic!Undecided, hostVars, passVars, historyVars, boundVars
  <1>4. CASE AdoptAtStart \/ AdoptBeforePass \/ AdoptAfterEffect
    <2>1. plans' \subseteq EffectPlans
      BY <1>4, SettleTyped DEF AdoptAtStart, AdoptBeforePass, AdoptAfterEffect, StartPass,
                               ContentTypes, passVars
    <2>. QED  BY <1>4, <2>1, OwnershipTyped
         DEF AdoptAtStart, AdoptBeforePass, AdoptAfterEffect, ContentTypes, hostVars, effectVars,
             historyVars, boundVars
  <1>5. CASE PlanBatch
    <2>1. plans' \subseteq EffectPlans
      BY <1>5, SettleTyped, PlanTyped DEF PlanBatch
    <2>. QED  BY <1>5, <2>1 DEF PlanBatch, ContentTypes, hostVars, effectVars, boundVars
  <1>6. CASE RecordPending
    BY <1>6 DEF RecordPending, IsNext, ContentTypes, Atomic!Phases, clockVars, historyVars,
                boundVars
  <1>7. CASE \/ BeginEffect \/ CommitUnchanged \/ PrepareEffect \/ CompareEffect \/ CommitEffect
    BY <1>7 DEF BeginEffect, CommitUnchanged, PrepareEffect, CompareEffect, CommitEffect,
                Executing, Unprepared, Atomic!Begin, Atomic!Commit, Atomic!Compare,
                Atomic!SetPhase, Atomic!Phases, ContentTypes, hostRest, hostVars, passVars
  <1>8. CASE LandEffect
    BY <1>8 DEF LandEffect, Atomic!Land, Effect, EffectPlans, ContentTypes, hostRest, hostVars,
                passVars, Executing
  <1>9. CASE RefuseEffect
    BY <1>9, SettleTyped DEF RefuseEffect, Atomic!Refuse, Atomic!SetPhase, Atomic!Phases,
                             ContentTypes, hostRest, hostVars
  <1>10. CASE FailEffect
    <2>1. /\ UNCHANGED <<src, vault, ownership, pending, plan, landed, raced, edits>>
          /\ claim' = NoEffect /\ plans' = {}
          /\ failures' = failures \/ failures' = failures + 1
      BY <1>10, SettleTyped DEF FailEffect, hostRest, hostVars, Spend
    <2>2. phase' \in [{Slot} -> Atomic!Phases]
      BY <1>10 DEF FailEffect, ContentTypes, Atomic!Phases
    <2>. QED  BY <2>1, <2>2, ContentKept DEF ContentTypes
  <1>11. CASE Leave \/ Crash
    <2>1. /\ UNCHANGED <<src, vault, ownership, pending, plan, phase, landed, edits, failures>>
          /\ claim' = NoEffect /\ plans' = {} /\ raced' = FALSE
      BY <1>11 DEF Leave, Crash, Gone, hostVars
    <2>. QED  BY <2>1, ContentKept DEF ContentTypes
  <1>12. CASE \E n \in Notes : ChangeNote(n)
    BY <1>12 DEF ChangeNote, ContentTypes, hostVars, effectVars, passVars
  <1>13. CASE \E d \in Mocs : EditMoc(d)
    <2>1. PICK d \in Mocs : EditMoc(d)
      BY <1>13
    <2>2. PICK bytes \in ContentsOf(d) : Atomic!Edit(d, bytes)
      BY <2>1, EditTyped DEF EditMoc, ContentTypes
    <2>3. /\ vault' \in [Mocs -> AllContents]
          /\ \A c \in Mocs : vault'[c] \in ContentsOf(c)
      BY <2>2, ContentsIncluded DEF Atomic!Edit, ContentTypes
    <2>4. /\ UNCHANGED <<src, ownership, pending, plan, phase, landed, claim, plans, failures>>
          /\ edits' \in Nat /\ raced' \in BOOLEAN
      BY <2>1, <2>2 DEF EditMoc, Atomic!Edit, ContentTypes, hostVars, passVars
    <2>. QED  BY <2>3, <2>4 DEF ContentTypes
  <1>. QED
    BY <1>1, <1>2, <1>3, <1>4, <1>5, <1>6, <1>7, <1>8, <1>9, <1>10, <1>11, <1>12, <1>13
       DEF Next, Coordinate, Reconcile, StartUp, Receive, Environment

LEMMA OptionsTyped == Debounce \in Nat /\ MaxDelay \in Nat /\ Periodic \in Nat
  BY MocBoundAssumption

LEMMA IntentTyped == FullIntent \in Intents
  BY DEF FullIntent, Intents

\* The clocks stop at the options they are compared with.
LEMMA LeastTyped ==
    ASSUME NEW n \in Nat, NEW m \in 0 .. n
    PROVE  Least(m + 1, n) \in 0 .. n
  BY DEF Least

LEMMA IntentKept ==
    ASSUME IntentTypes, UNCHANGED <<intent, writing, detached, clockVars>>,
           batch' \in Batches \cup {NoBatch}, work' \in Intents
    PROVE  IntentTypes'
  BY DEF IntentTypes, clockVars

LEMMA IntentStep ==
    ASSUME MocInv, Next
    PROVE  IntentTypes'
  <1>. USE DEF MocInv, TypeInv
  <1>1. CASE \/ Boot \/ RecoverEffects \/ PassDone \/ TimerTick \/ TickNow \/ FailStart
             \/ AdoptAtStart \/ RecordPending \/ BeginEffect \/ CommitUnchanged \/ PrepareEffect
             \/ CompareEffect \/ LandEffect \/ CommitEffect
             \/ (\E n \in Notes : ChangeNote(n)) \/ (\E d \in Mocs : EditMoc(d))
    <2>1. UNCHANGED <<intent, writing, batch, detached, clockVars, work>>
      BY <1>1 DEF Boot, RecoverEffects, PassDone, TimerTick, TickNow, FailStart, AdoptAtStart,
                  RecordPending, BeginEffect, CommitUnchanged, PrepareEffect, CompareEffect,
                  LandEffect, CommitEffect, ChangeNote, EditMoc, StartPass, hostRest, taskVars,
                  passVars
    <2>. QED  BY <2>1, IntentKept DEF IntentTypes
  <1>2. CASE \/ OpenWatcher \/ HandleEvent \/ WatcherFails \/ FailRead \/ RequestNow \/ Shutdown
             \/ (\E s \in signals : Deliver(s))
    <2>1. UNCHANGED <<intent, writing, detached, clockVars, work>>
      BY <1>2 DEF OpenWatcher, HandleEvent, WatcherFails, FailRead, RequestNow, Shutdown, Deliver,
                  Enqueue,
                  taskVars, passVars
    <2>2. \/ batch' = batch
          \/ \E f \in Files \cup {"full"}, w \in {"handler", "storm", "explicit", "start", "shutdown"} :
                 Enqueue(f, w)
      BY <1>2 DEF OpenWatcher, HandleEvent, WatcherFails, FailRead, RequestNow, Shutdown, Deliver,
                  taskVars
    <2>3. batch' \in Batches \cup {NoBatch}
      BY <2>2, JoinTyped DEF IntentTypes
    <2>. QED  BY <2>1, <2>3, IntentKept DEF IntentTypes
  <1>3. CASE AdoptBeforePass \/ PlanBatch \/ RefuseEffect \/ FailEffect \/ AdoptAfterEffect
    <2>1. UNCHANGED <<intent, writing, batch, detached, clockVars>>
      BY <1>3 DEF AdoptBeforePass, PlanBatch, RefuseEffect, FailEffect, AdoptAfterEffect, hostRest,
                  taskVars
    <2>2. work' \in Intents
      BY <1>3, SettleTyped DEF AdoptBeforePass, PlanBatch, RefuseEffect, FailEffect,
                               AdoptAfterEffect, IntentTypes
    <2>. QED  BY <2>1, <2>2, IntentKept DEF IntentTypes
  <1>4. CASE SaveStartIntent
    BY <1>4, IntentTyped DEF SaveStartIntent, IntentTypes, taskVars, passVars, clockVars
  <1>5. CASE StartAdmission
    <2>1. batch \in Batches
      BY <1>5, Saving DEF StartAdmission, IntentTypes
    <2>. QED  BY <1>5, <2>1, MergedTyped DEF StartAdmission, IntentTypes, passVars, clockVars
  <1>6. CASE FinishAdmission
    <2>1. writing \in Intents
      BY <1>6, Saving DEF FinishAdmission, WritingHolds
    <2>. QED  BY <1>6, <2>1, OptionsTyped DEF FinishAdmission, IntentTypes
  <1>7. CASE FailAdmission
    BY <1>7 DEF FailAdmission, IntentTypes, passVars, clockVars
  <1>8. CASE TakeWork
    <2>1. work' \in Intents
      BY <1>8, SettleTyped, DecideTyped DEF TakeWork, IntentTypes, passVars
    <2>. QED  BY <1>8, <2>1, IntentTyped DEF TakeWork, IntentTypes, clockVars
  <1>9. CASE SavePeriodicIntent
    <2>1. writing \in Intents
      BY <1>9, QueueHead, IntentTyped DEF SavePeriodicIntent, WritingHolds, Task
    <2>2. work' \in Intents
      BY <1>9, <2>1, DecideTyped DEF SavePeriodicIntent
    <2>. QED  BY <1>9, <2>1, <2>2, OptionsTyped DEF SavePeriodicIntent, IntentTypes
  <1>10. CASE FinishPass
    <2>1. work' \in Intents
      BY <1>10, SettleTyped DEF FinishPass, IntentTypes, passVars
    <2>2. since' \in 0 .. Periodic
      <3>1. since' = since \/ since' = 0
        BY <1>10 DEF FinishPass
      <3>2. since \in 0 .. Periodic /\ 0 \in 0 .. Periodic
        BY OptionsTyped DEF IntentTypes
      <3>. QED  BY <3>1, <3>2
    <2>3. intent' \in Intents \cup {NoIntent} /\ writing' \in Intents \cup {NoIntent, NoWrite}
      BY <1>10 DEF FinishPass, IntentTypes
    <2>4. UNCHANGED <<batch, detached, idle, age>>
      BY <1>10 DEF FinishPass
    <2>. QED  BY <2>1, <2>2, <2>3, <2>4 DEF IntentTypes
  <1>11. CASE FailPass
    <2>1. work' \in Intents
      BY <1>11, SettleTyped DEF FailPass
    <2>. QED  BY <1>11, <2>1 DEF FailPass, IntentTypes, taskVars, clockVars
  <1>12. CASE Leave \/ Crash
    BY <1>12, OptionsTyped, IntentTyped DEF Leave, Crash, Gone, IntentTypes
  <1>13. CASE Advance
    BY <1>13, LeastTyped, OptionsTyped DEF Advance, IntentTypes, taskVars, passVars
  <1>. QED
    BY <1>1, <1>2, <1>3, <1>4, <1>5, <1>6, <1>7, <1>8, <1>9, <1>10, <1>11, <1>12, <1>13
       DEF Next, Coordinate, Reconcile, StartUp, Receive, Environment

LEMMA StageStep ==
    ASSUME MocInv, Next
    PROVE  StageTypes'
  <1>. USE DEF MocInv, TypeInv
  <1>1. CASE \/ PlanBatch \/ RefuseEffect \/ FailEffect \/ AdoptBeforePass \/ AdoptAfterEffect
             \/ FinishPass \/ FailPass
    <2>1. UNCHANGED <<signals, handler>>
      BY <1>1 DEF PlanBatch, RefuseEffect, FailEffect, AdoptBeforePass, AdoptAfterEffect,
                  FinishPass, FailPass, eventVars, hostRest
    <2>2. \/ \E ok \in BOOLEAN, left \in {intent, intent'} : Settle(ok, left)
          \/ /\ pass' \in {pass, "plan", "effects"}
             /\ UNCHANGED <<up, explicit, error>>
      BY <1>1 DEF PlanBatch, RefuseEffect, FailEffect, AdoptBeforePass, AdoptAfterEffect,
                  FinishPass, FailPass, passVars, statusVars
    <2>. QED  BY <2>1, <2>2, SettleTyped DEF StageTypes
  <1>2. CASE TakeWork \/ SavePeriodicIntent
    <2>1. UNCHANGED <<signals, handler>>
      BY <1>2 DEF TakeWork, SavePeriodicIntent, eventVars
    <2>2. Task("take") /\ writing # NoWrite => writing \in Intents
      BY QueueHead, IntentTyped DEF WritingHolds, Task
    <2>3. \/ Settle(TRUE, intent)
          \/ UNCHANGED <<pass, up, explicit, error>>
          \/ \E i \in Intents \cup {NoIntent}, m, n \in Nat : Decide(i, m, n)
      <3>1. CASE TakeWork
        <4>1. idle \in Nat /\ age \in Nat /\ intent \in Intents \cup {NoIntent}
          BY OptionsTyped DEF IntentTypes
        <4>2. \/ Settle(TRUE, intent) \/ Decide(intent, idle, age)
              \/ UNCHANGED <<pass, up, explicit, error>>
          BY <3>1 DEF TakeWork, passVars, statusVars
        <4>. QED  BY <4>1, <4>2
      <3>2. CASE SavePeriodicIntent
        BY <3>2, <2>2 DEF SavePeriodicIntent
      <3>. QED  BY <1>2, <3>1, <3>2
    <2>4. CASE Settle(TRUE, intent)
      BY <2>1, <2>4, SettleTyped DEF StageTypes
    <2>5. CASE UNCHANGED <<pass, up, explicit, error>>
      BY <2>1, <2>5 DEF StageTypes
    <2>6. CASE \E i \in Intents \cup {NoIntent}, m, n \in Nat : Decide(i, m, n)
      BY <2>1, <2>6, DecideTyped DEF StageTypes
    <2>. QED  BY <2>3, <2>4, <2>5, <2>6
  <1>3. CASE FinishAdmission
    BY <1>3 DEF FinishAdmission, StageTypes
  <1>4. CASE FailAdmission
    BY <1>4 DEF FailAdmission, StageTypes, passVars
  <1>5. CASE OpenWatcher \/ AdoptAtStart \/ TimerTick \/ TickNow
    BY <1>5 DEF OpenWatcher, AdoptAtStart, TimerTick, TickNow, StartPass, StageTypes, passVars,
                eventVars, statusVars
  <1>6. CASE \/ Boot \/ SaveStartIntent \/ RecoverEffects \/ FailStart \/ PassDone \/ Advance
             \/ StartAdmission
    BY <1>6 DEF Boot, SaveStartIntent, RecoverEffects, FailStart, PassDone, Advance,
                StartAdmission, StageTypes, passVars, eventVars, statusVars
  <1>7. CASE \/ RecordPending \/ BeginEffect \/ CommitUnchanged \/ PrepareEffect
             \/ CompareEffect \/ CommitEffect
    BY <1>7 DEF RecordPending, BeginEffect, CommitUnchanged, PrepareEffect, CompareEffect,
                CommitEffect, StageTypes, passVars, eventVars, statusVars, hostRest
  <1>8. CASE LandEffect
    <2>1. Effect.target \in Mocs
      BY DEF ContentTypes, EffectPlans, Effect, Slot
    <2>. QED  BY <1>8, <2>1 DEF LandEffect, StageTypes, passVars, statusVars, hostRest, Files
  <1>9. CASE HandleEvent \/ WatcherFails \/ FailRead \/ RequestNow \/ Shutdown
    BY <1>9 DEF HandleEvent, WatcherFails, FailRead, RequestNow, Shutdown, StageTypes, passVars,
                eventVars,
                statusVars
  <1>10. CASE \E s \in signals : Deliver(s)
    BY <1>10 DEF Deliver, StageTypes, passVars, statusVars
  <1>11. CASE Leave \/ Crash
    BY <1>11 DEF Leave, Crash, Gone, StageTypes
  <1>12. CASE (\E n \in Notes : ChangeNote(n)) \/ (\E d \in Mocs : EditMoc(d))
    <2>1. UNCHANGED <<up, pass, handler, explicit, error>>
      BY <1>12 DEF ChangeNote, EditMoc, passVars, statusVars
    <2>2. \E f \in Files : signals' \in {signals, signals \cup {f}}
      BY <1>12 DEF ChangeNote, EditMoc, Files
    <2>. QED  BY <2>1, <2>2 DEF StageTypes
  <1>. QED
    BY <1>1, <1>2, <1>3, <1>4, <1>5, <1>6, <1>7, <1>8, <1>9, <1>10, <1>11, <1>12
       DEF Next, Coordinate, Reconcile, StartUp, Receive, Environment

\* What the model checker calls the types is part of the inductive invariant.
LEMMA QueueTyped ==
    ASSUME QueueHolds
    PROVE  tasks \in BoundedSeq(TaskNames, 3)
  <1>1. CASE pass \in PassTasks
    <2>1. pass \in TaskNames /\ "admit" \in TaskNames
      BY <1>1 DEF PassTasks, TaskNames
    <2>2. /\ <<pass>> \in [1 .. 1 -> TaskNames]
          /\ {<<"admit", pass>>, <<pass, "admit">>} \subseteq [1 .. 2 -> TaskNames]
          /\ {<<"admit", "admit", pass>>, <<"admit", pass, "admit">>}
                 \subseteq [1 .. 3 -> TaskNames]
      BY <2>1
    <2>3. \E n \in 1 .. 3 : tasks \in [1 .. n -> TaskNames]
      BY <1>1, <2>2 DEF QueueHolds
    <2>. QED  BY <2>3 DEF BoundedSeq, SeqOf
  <1>2. CASE pass \notin PassTasks
    <2>1. /\ <<>> \in [1 .. 0 -> TaskNames] /\ <<"admit">> \in [1 .. 1 -> TaskNames]
          /\ <<"admit", "admit">> \in [1 .. 2 -> TaskNames]
      BY DEF TaskNames
    <2>2. tasks \in {<<>>, <<"admit">>, <<"admit", "admit">>}
      BY <1>2 DEF QueueHolds
    <2>3. \E n \in 0 .. 3 : tasks \in [1 .. n -> TaskNames]
      <3>1. CASE tasks = <<>>
        BY <2>1, <3>1, 0 \in 0 .. 3
      <3>2. CASE tasks = <<"admit">>
        BY <2>1, <3>2, 1 \in 0 .. 3
      <3>3. CASE tasks = <<"admit", "admit">>
        BY <2>1, <3>3, 2 \in 0 .. 3
      <3>. QED  BY <2>2, <3>1, <3>2, <3>3
    <2>. QED  BY <2>3 DEF BoundedSeq, SeqOf
  <1>. QED  BY <1>1, <1>2

LEMMA TypesImplied ==
    ASSUME MocInv
    PROVE  MocTypeOK
  BY QueueTyped DEF MocInv, TypeInv, ContentTypes, IntentTypes, StageTypes, EffectPlans, MocTypeOK,
                    Slot

LEMMA TypeStep ==
    ASSUME MocInv, Next
    PROVE  TypeInv'
  BY ContentStep, IntentStep, StageStep DEF MocInv, TypeInv

-----------------------------------------------------------------------------
(***************************************************************************)
(* Accepted events.                                                        *)
(***************************************************************************)

LEMMA FullCovers ==
    ASSUME NEW f
    PROVE  FullIntent # NoIntent /\ Covers(FullIntent, f)
  BY IntentTyped, SentinelAssumption DEF Covers, FullIntent

\* A request that names a file concerns the directory of that file.
LEMMA CoveredInScope ==
    ASSUME NEW i \in Intents, NEW f, Covers(i, f)
    PROVE  InScope(f, i)
  <1>1. CASE i.full
    BY <1>1 DEF InScope
  <1>2. CASE f \in i.files
    <2>1. DirOf[f] \in Seq(STRING)
      BY <1>2, MocAssumption DEF Intents
    <2>2. SubSeq(DirOf[f], 1, Len(DirOf[f])) = DirOf[f] /\ Len(DirOf[f]) \in 0 .. Len(DirOf[f])
      BY <2>1
    <2>. QED  BY <1>2, <2>2 DEF InScope, Scopes, Prefixes
  <1>. QED  BY <1>1, <1>2 DEF Covers

\* A batch covers what it answers for, also after it overflowed.
Answers(b) == \A f \in b.asked : b.full \/ f \in b.files

LEMMA JoinAnswers ==
    ASSUME batch = NoBatch \/ (batch \in Batches /\ Answers(batch)), NEW f, NEW w, Enqueue(f, w)
    PROVE  Answers(batch')
  <1>1. Answers(EmptyBatch)
    BY DEF Answers, EmptyBatch
  <1>2. PICK b : Answers(b) /\ batch' = Join(b, f, w)
    BY <1>1 DEF Enqueue
  <1>. QED  BY <1>2 DEF Answers, Join

\* The merged intent covers what was saved and what the batch answers for.
LEMMA MergedCovers ==
    ASSUME intent \in Intents \cup {NoIntent}, NEW b \in Batches, Answers(b), NEW f,
           Covers(intent, f) \/ f \in b.asked
    PROVE  Covers(Merged(b), f)
  <1>1. Merged(b) # NoIntent
    BY MergedTyped, SentinelAssumption
  <1>2. Merged(b).full \/ f \in Merged(b).files
    BY DEF Covers, Answers, Merged
  <1>. QED  BY <1>1, <1>2 DEF Covers

\* While no tick waits for the queue, only a batch is saved.
LEMMA WritingIdle ==
    ASSUME MocInv, pass \notin PassTasks, UNCHANGED <<writing, detached, owed>>
    PROVE  WritingHolds'
  <1>1. detached = NoBatch => writing = NoWrite
    BY QueueHead DEF MocInv, WritingHolds, PassTasks
  <1>. QED  BY <1>1 DEF MocInv, WritingHolds

LEMMA WritingKept ==
    ASSUME MocInv, UNCHANGED <<writing, detached, owed, current>>,
           tasks' = tasks \/ (tasks # <<>> => tasks' # <<>> /\ Head(tasks') = Head(tasks))
    PROVE  WritingHolds'
  BY DEF MocInv, WritingHolds, Task

\* The head of the queue is not changed by what joins it.
LEMMA HeadKept ==
    ASSUME MocInv, NEW p \in TaskNames, tasks' = Append(tasks, p), tasks # <<>>
    PROVE  tasks' # <<>> /\ Head(tasks') = Head(tasks)
  <1>1. tasks \in Seq(TaskNames)
    <2>1. CASE pass \in PassTasks
      <3>1. pass \in TaskNames /\ "admit" \in TaskNames
        BY <2>1 DEF PassTasks, TaskNames
      <3>. QED  BY <2>1, <3>1 DEF MocInv, QueueHolds
    <2>2. CASE pass \notin PassTasks
      BY <2>2 DEF MocInv, QueueHolds, TaskNames
    <2>. QED  BY <2>1, <2>2
  <1>. QED  BY <1>1

LEMMA WritingJoined ==
    ASSUME MocInv, NEW f, NEW w, Enqueue(f, w), UNCHANGED <<owed, current>>
    PROVE  WritingHolds'
  <1>1. tasks' = tasks \/ tasks' = Append(tasks, "admit")
    BY DEF Enqueue
  <1>2. tasks # <<>> => tasks' # <<>> /\ Head(tasks') = Head(tasks)
    BY <1>1, HeadKept DEF TaskNames
  <1>. QED  BY <1>2, WritingKept DEF Enqueue

LEMMA WritingStep ==
    ASSUME MocInv, Next
    PROVE  WritingHolds'
  <1>1. CASE \/ Boot \/ SaveStartIntent \/ RecoverEffects \/ FailStart \/ Advance
             \/ (\E n \in Notes : ChangeNote(n)) \/ (\E d \in Mocs : EditMoc(d))
    <2>1. UNCHANGED <<writing, detached, owed, current, tasks>>
      BY <1>1 DEF Boot, SaveStartIntent, RecoverEffects, FailStart, Advance, ChangeNote, EditMoc,
                  taskVars, passVars, historyVars
    <2>. QED  BY <2>1, WritingKept
  <1>2. CASE \/ BeginEffect \/ RefuseEffect \/ CommitUnchanged \/ PrepareEffect \/ CompareEffect
             \/ LandEffect \/ CommitEffect \/ FailEffect \/ AdoptBeforePass \/ PlanBatch
             \/ RecordPending \/ AdoptAfterEffect \/ PassDone \/ TimerTick \/ AdoptAtStart
    <2>1. pass \notin PassTasks
      BY <1>2 DEF BeginEffect, RefuseEffect, CommitUnchanged, PrepareEffect, CompareEffect,
                  LandEffect, CommitEffect, FailEffect, AdoptBeforePass, PlanBatch,
                  RecordPending, AdoptAfterEffect, PassDone, TimerTick, AdoptAtStart, StartPass,
                  Executing, Unprepared, PassTasks, MocInv, EffectHolds
    <2>2. UNCHANGED <<writing, detached, owed>>
      BY <1>2 DEF BeginEffect, RefuseEffect, CommitUnchanged, PrepareEffect, CompareEffect,
                  LandEffect, CommitEffect, FailEffect, AdoptBeforePass, PlanBatch,
                  RecordPending, AdoptAfterEffect, PassDone, TimerTick, AdoptAtStart, StartPass,
                  hostRest, taskVars, historyVars
    <2>. QED  BY <2>1, <2>2, WritingIdle
  <1>3. CASE HandleEvent \/ (\E s \in signals : Deliver(s)) \/ Shutdown \/ OpenWatcher
             \/ WatcherFails \/ FailRead \/ RequestNow
    <2>1. UNCHANGED <<owed, current>>
      BY <1>3 DEF HandleEvent, Deliver, Shutdown, OpenWatcher, WatcherFails, FailRead, RequestNow,
                  passVars, historyVars
    <2>2. UNCHANGED taskVars \/ \E f, w : Enqueue(f, w)
      BY <1>3 DEF HandleEvent, Deliver, Shutdown, OpenWatcher, WatcherFails, FailRead, RequestNow,
                  taskVars
    <2>. QED  BY <2>1, <2>2, WritingKept, WritingJoined DEF taskVars
  <1>4. CASE TickNow
    <2>1. UNCHANGED <<owed, current, writing, detached>>
      BY <1>4 DEF TickNow, StartPass, passVars, historyVars, taskVars
    <2>2. tasks' = tasks \/ pass \notin PassTasks
      BY <1>4 DEF TickNow, StartPass, taskVars, PassTasks
    <2>. QED  BY <2>1, <2>2, WritingKept, WritingIdle
  <1>5. CASE StartAdmission
    <2>1. /\ detached = NoBatch /\ batch \in Batches /\ detached' = batch /\ owed' = owed
          /\ writing' = Merged(batch)
      BY <1>5, Saving DEF StartAdmission, MocInv, TypeInv, IntentTypes, historyVars
    <2>2. Answers(batch) /\ \A f \in owed : Covers(intent, f)
      BY <2>1, SentinelAssumption DEF MocInv, AcceptedHolds, AcceptedEventsDurable, Answers
    <2>3. writing' \in Intents /\ \A f \in owed \cup batch.asked : Covers(writing', f)
      BY <2>1, <2>2, MergedCovers, MergedTyped DEF MocInv, TypeInv, IntentTypes
    <2>. QED  BY <2>1, <2>3, SentinelAssumption DEF WritingHolds
  <1>6. CASE FinishAdmission \/ FailAdmission \/ Leave \/ Crash
    BY <1>6 DEF FinishAdmission, FailAdmission, Leave, Crash, Gone, WritingHolds
  <1>7. CASE TakeWork
    <2>1. pass = "take" /\ detached = NoBatch /\ UNCHANGED <<detached, owed>>
      BY <1>7, QueueHead DEF TakeWork, MocInv, historyVars
    <2>2. \/ writing' = NoWrite
          \/ writing' = FullIntent /\ Task("take")'
      BY <1>7 DEF TakeWork, Task
    <2>. QED  BY <2>1, <2>2 DEF WritingHolds
  <1>8. CASE SavePeriodicIntent
    <2>1. detached' = NoBatch /\ writing' = NoWrite
      BY <1>8, QueueHead DEF SavePeriodicIntent, MocInv
    <2>. QED  BY <2>1 DEF WritingHolds
  <1>9. CASE FinishPass
    <2>1. detached' = NoBatch
      BY <1>9, QueueHead DEF FinishPass, MocInv
    <2>2. CASE ~(writing = NoWrite /\ ~Obsolete)
      <3>1. writing' = NoWrite
        BY <1>9, <2>2 DEF FinishPass
      <3>. QED  BY <2>1, <3>1 DEF WritingHolds
    <2>3. CASE writing = NoWrite /\ ~Obsolete /\ writing' # NoWrite
      <3>1. writing' = NoIntent /\ tasks' = tasks /\ current' = current /\ Task("finish")
        BY <1>9, <2>3 DEF FinishPass, passVars
      <3>2. current /\ Task("finish")'
        BY <2>3, <3>1 DEF Obsolete, Task
      <3>. QED  BY <2>1, <3>1, <3>2 DEF WritingHolds
    <2>4. CASE writing' = NoWrite
      BY <2>1, <2>4 DEF WritingHolds
    <2>. QED  BY <2>2, <2>3, <2>4
  <1>10. CASE FailPass
    <2>1. CASE pass \in {"owner", "plan", "effects", "after"}
      <3>1. pass \notin PassTasks
        BY <2>1 DEF PassTasks
      <3>2. UNCHANGED <<detached, owed>>
        BY <1>10 DEF FailPass, taskVars, historyVars
      <3>3. writing' = writing
        BY <1>10, <3>1, QueueHead DEF FailPass, taskVars, PassTasks, MocInv
      <3>. QED  BY <3>1, <3>2, <3>3, WritingIdle
    <2>2. CASE ~(pass \in {"owner", "plan", "effects", "after"})
      <3>1. detached' = NoBatch /\ writing' = NoWrite
        BY <1>10, <2>2, QueueHead DEF FailPass, MocInv
      <3>. QED  BY <3>1 DEF WritingHolds
    <2>. QED  BY <2>1, <2>2
  <1>. QED
    BY <1>1, <1>2, <1>3, <1>4, <1>5, <1>6, <1>7, <1>8, <1>9, <1>10
       DEF Next, Coordinate, Reconcile, StartUp, Receive, Environment

\* Nothing is accepted and the work of the tick is the same.
LEMMA AcceptedKept ==
    ASSUME MocInv, UNCHANGED <<intent, batch, owed, seen>>, detached' \in {detached, NoBatch},
           \/ current' = FALSE
           \/ UNCHANGED <<current, pass, work>>
           \/ /\ UNCHANGED <<current, work>>
              /\ \/ pass = "owner" /\ pass' = "plan"
                 \/ /\ pass \notin {"none", "take", "owner", "plan"}
                    /\ pass' \notin {"none", "take", "owner", "plan"}
    PROVE  AcceptedHolds'
  BY DEF MocInv, AcceptedHolds, AcceptedEventsDurable, Covers

LEMMA AcceptedJoined ==
    ASSUME MocInv, NEW f \in Files \cup {"full"},
           NEW w \in {"handler", "storm", "explicit", "start", "shutdown"}, Enqueue(f, w),
           UNCHANGED <<intent, owed, seen, current, pass, work>>
    PROVE  AcceptedHolds'
  <1>1. batch = NoBatch \/ (batch \in Batches /\ Answers(batch))
    BY DEF MocInv, TypeInv, IntentTypes, AcceptedHolds, Answers
  <1>2. Answers(batch') /\ detached' = detached
    BY <1>1, JoinAnswers DEF Enqueue
  <1>. QED  BY <1>2 DEF MocInv, AcceptedHolds, AcceptedEventsDurable, Covers, Answers

LEMMA AcceptedStep ==
    ASSUME MocInv, Next
    PROVE  AcceptedHolds'
  <1>1. CASE \/ Boot \/ RecoverEffects \/ FailStart \/ Advance \/ BeginEffect \/ PrepareEffect
             \/ CompareEffect \/ LandEffect \/ TimerTick \/ TickNow \/ AdoptAtStart
             \/ (\E n \in Notes : ChangeNote(n)) \/ (\E d \in Mocs : EditMoc(d))
    <2>1. UNCHANGED <<intent, batch, owed, seen, detached>>
      BY <1>1 DEF Boot, RecoverEffects, FailStart, Advance, BeginEffect, PrepareEffect,
                  CompareEffect, LandEffect, TimerTick, TickNow, AdoptAtStart, ChangeNote,
                  EditMoc, StartPass, hostRest, taskVars, historyVars
    <2>2. \/ UNCHANGED <<current, pass, work>>
          \/ pass = "none" /\ UNCHANGED current
      BY <1>1 DEF Boot, RecoverEffects, FailStart, Advance, BeginEffect, PrepareEffect,
                  CompareEffect, LandEffect, TimerTick, TickNow, AdoptAtStart, ChangeNote,
                  EditMoc, StartPass, passVars
    <2>3. CASE UNCHANGED <<current, pass, work>>
      BY <2>1, <2>3, AcceptedKept
    <2>4. CASE pass = "none" /\ UNCHANGED current
      BY <2>1, <2>4, Zenon DEF MocInv, AcceptedHolds, AcceptedEventsDurable, Covers
    <2>. QED  BY <2>2, <2>3, <2>4
  <1>2. CASE \/ RecordPending \/ CommitUnchanged \/ CommitEffect \/ PassDone
    <2>1. UNCHANGED <<intent, batch, owed, seen, detached, current, work>>
      BY <1>2 DEF RecordPending, CommitUnchanged, CommitEffect, PassDone, hostRest, taskVars,
                  historyVars
    <2>2. /\ pass \notin {"none", "take", "owner", "plan"}
          /\ pass' \notin {"none", "take", "owner", "plan"}
      BY <1>2 DEF RecordPending, CommitUnchanged, CommitEffect, PassDone, Executing, Unprepared
    <2>. QED  BY <2>1, <2>2, AcceptedKept
  <1>3. CASE RefuseEffect \/ FailEffect
    <2>1. UNCHANGED <<intent, batch, owed, seen, detached>> /\ current' = FALSE
      BY <1>3 DEF RefuseEffect, FailEffect, Settle, hostRest, taskVars
    <2>. QED  BY <2>1, AcceptedKept
  <1>4. CASE AdoptBeforePass \/ AdoptAfterEffect
    <2>1. UNCHANGED <<intent, batch, owed, seen, detached>>
      BY <1>4 DEF AdoptBeforePass, AdoptAfterEffect, taskVars, historyVars
    <2>2. \/ current' = FALSE
          \/ UNCHANGED <<current, work>> /\ pass = "owner" /\ pass' = "plan"
          \/ UNCHANGED <<current, work>> /\ pass = "after" /\ pass' = "effects"
      BY <1>4 DEF AdoptBeforePass, AdoptAfterEffect, Settle
    <2>3. CASE UNCHANGED <<current, work>> /\ pass = "after" /\ pass' = "effects"
      <3>1. /\ pass \notin {"none", "take", "owner", "plan"}
            /\ pass' \notin {"none", "take", "owner", "plan"}
        BY <2>3
      <3>. QED  BY <2>1, <2>3, <3>1, AcceptedKept
    <2>. QED  BY <2>1, <2>2, <2>3, AcceptedKept
  <1>5. CASE PlanBatch
    <2>1. UNCHANGED <<intent, batch, owed, detached>> /\ seen' = {f \in owed : InScope(f, work)}
      BY <1>5 DEF PlanBatch, taskVars
    <2>2. \/ current' = FALSE
          \/ UNCHANGED current /\ pass = "plan" /\ pass' = "effects"
      BY <1>5 DEF PlanBatch, Settle
    <2>3. CASE current' = FALSE
      BY <2>1, <2>3 DEF MocInv, AcceptedHolds, AcceptedEventsDurable, Covers
    <2>4. CASE UNCHANGED current /\ pass = "plan" /\ pass' = "effects"
      <3>1. current => owed \subseteq seen'
        BY <2>1, <2>4, CoveredInScope
           DEF MocInv, AcceptedHolds, TypeInv, IntentTypes
      <3>2. owed' = owed /\ (current' => owed' \subseteq seen')
        BY <2>1, <2>4, <3>1
      <3>. QED  BY <2>1, <2>4, <3>2 DEF MocInv, AcceptedHolds, AcceptedEventsDurable, Covers
    <2>. QED  BY <2>2, <2>3, <2>4
  <1>6. CASE \/ HandleEvent \/ (\E s \in signals : Deliver(s)) \/ Shutdown \/ OpenWatcher
             \/ WatcherFails \/ FailRead \/ RequestNow
    <2>1. UNCHANGED <<intent, owed, seen, current, pass, work>>
      BY <1>6 DEF HandleEvent, Deliver, Shutdown, OpenWatcher, WatcherFails, FailRead, RequestNow,
                  passVars, historyVars
    <2>2. \/ UNCHANGED <<batch, detached>>
          \/ \E f \in Files \cup {"full"}, w \in {"handler", "storm", "explicit", "start", "shutdown"} :
                 Enqueue(f, w)
      BY <1>6 DEF HandleEvent, Deliver, Shutdown, OpenWatcher, WatcherFails, FailRead, RequestNow,
                  taskVars
    <2>3. CASE UNCHANGED <<batch, detached>>
      BY <2>1, <2>3, AcceptedKept
    <2>. QED  BY <2>1, <2>2, <2>3, AcceptedJoined
  <1>7. CASE StartAdmission
    <2>1. /\ UNCHANGED <<intent, owed, seen, current, pass, work>>
          /\ detached' = batch /\ batch' = NoBatch
      BY <1>7 DEF StartAdmission, passVars, historyVars
    <2>. QED  BY <2>1 DEF MocInv, AcceptedHolds, AcceptedEventsDurable, Covers
  <1>8. CASE FinishAdmission
    <2>1. /\ intent' = writing /\ owed' = owed \cup detached.asked /\ current' = FALSE
          /\ batch' = batch /\ detached' = NoBatch
      BY <1>8 DEF FinishAdmission
    <2>2. \A f \in owed \cup detached.asked : Covers(writing, f)
      BY <1>8, Saving DEF FinishAdmission, MocInv, WritingHolds
    <2>. QED  BY <2>1, <2>2 DEF MocInv, AcceptedHolds, AcceptedEventsDurable, Covers
  <1>9. CASE FailAdmission
    <2>1. /\ UNCHANGED <<intent, owed, seen, current, pass, work, batch>>
          /\ detached' = NoBatch
      BY <1>9 DEF FailAdmission, passVars
    <2>. QED  BY <2>1, AcceptedKept
  <1>10. CASE SaveStartIntent
    <2>1. intent' = FullIntent /\ UNCHANGED <<owed, seen, current, pass, work, batch, detached>>
      BY <1>10 DEF SaveStartIntent, taskVars, passVars, historyVars
    <2>2. \A f \in owed' : Covers(intent', f)
      BY <2>1, FullCovers
    <2>. QED  BY <2>1, <2>2 DEF MocInv, AcceptedHolds, AcceptedEventsDurable, Covers
  <1>11. CASE Leave \/ Crash
    <2>1. UNCHANGED <<intent, owed>> /\ current' = FALSE /\ batch' = NoBatch /\ detached' = NoBatch
      BY <1>11 DEF Leave, Crash, Gone
    <2>. QED  BY <2>1 DEF MocInv, AcceptedHolds, AcceptedEventsDurable, Covers
  <1>12. CASE TakeWork
    <2>1. UNCHANGED <<intent, owed, seen, batch, detached>>
      BY <1>12 DEF TakeWork, historyVars
    <2>2. \/ current' = FALSE
          \/ UNCHANGED <<current, pass, work>>
          \/ pass' = "owner" /\ work' = intent
      BY <1>12 DEF TakeWork, Decide, Settle, passVars
    <2>3. CASE pass' = "owner" /\ work' = intent
      BY <2>1, <2>3 DEF MocInv, AcceptedHolds, AcceptedEventsDurable, Covers
    <2>. QED  BY <2>1, <2>2, <2>3, AcceptedKept
  <1>13. CASE SavePeriodicIntent
    <2>1. UNCHANGED <<owed, seen, batch, detached>> /\ intent' = writing
      BY <1>13 DEF SavePeriodicIntent, historyVars
    <2>2. writing = FullIntent
      BY <1>13, QueueHead DEF SavePeriodicIntent, MocInv, WritingHolds, Task
    <2>3. \A f \in owed' : Covers(intent', f)
      BY <2>1, <2>2, FullCovers
    <2>4. \/ current' = FALSE
          \/ pass' = "owner" /\ work' = intent'
      BY <1>13, <2>1 DEF SavePeriodicIntent, Decide, Settle
    <2>. QED  BY <2>1, <2>3, <2>4 DEF MocInv, AcceptedHolds, AcceptedEventsDurable, Covers
  <1>14. CASE FinishPass
    <2>1. UNCHANGED <<batch, detached>> /\ pass = "finish" /\ detached = NoBatch
      BY <1>14, QueueHead DEF FinishPass, MocInv
    <2>2. CASE UNCHANGED <<intent, passVars, owed, seen>>
      BY <2>1, <2>2, AcceptedKept DEF passVars
    <2>3. CASE ~UNCHANGED <<intent, passVars, owed, seen>>
      <3>1. /\ intent' = IF writing = NoIntent THEN NoIntent ELSE intent
            /\ owed' = owed \ seen /\ current' = FALSE
        BY <1>14, <2>3 DEF FinishPass, Settle
      <3>2. CASE writing = NoIntent
        <4>1. writing # NoWrite
          BY <3>2, SentinelAssumption
        <4>2. current
          BY <2>1, <3>2, <4>1, IntentTyped, SentinelAssumption DEF MocInv, WritingHolds, Task
        <4>3. owed' = {}
          BY <2>1, <3>1, <4>2 DEF MocInv, AcceptedHolds
        <4>. QED  BY <2>1, <3>1, <4>3 DEF MocInv, AcceptedHolds, AcceptedEventsDurable
      <3>3. CASE writing # NoIntent
        BY <2>1, <3>1, <3>3 DEF MocInv, AcceptedHolds, AcceptedEventsDurable, Covers
      <3>. QED  BY <3>2, <3>3
    <2>. QED  BY <2>2, <2>3
  <1>15. CASE FailPass
    <2>1. UNCHANGED <<intent, batch, detached, owed, seen>> /\ current' = FALSE
      BY <1>15 DEF FailPass, Settle, taskVars, historyVars
    <2>. QED  BY <2>1, AcceptedKept
  <1>. QED
    BY <1>1, <1>2, <1>3, <1>4, <1>5, <1>6, <1>7, <1>8, <1>9, <1>10, <1>11, <1>12, <1>13, <1>14,
       <1>15
       DEF Next, Coordinate, Reconcile, StartUp, Receive, Environment

-----------------------------------------------------------------------------
(***************************************************************************)
(* Effects.                                                                *)
(***************************************************************************)

\* The pending effect is settled; the bindings of other targets stay.
LEMMA OwnershipSettled ==
    ASSUME MocInv, RecoverOwnership, UNCHANGED <<plan, phase>>
    PROVE  /\ pending' = FALSE
           /\ phase'[Slot] \notin Atomic!Undecided
           /\ OwnershipFollowsCommit'
           /\ \A p \in EffectPlans : p.target # Effect.target /\ Justified(p) => Justified(p)'
  <1>1. pending' = FALSE
    BY DEF RecoverOwnership
  <1>2. phase'[Slot] \notin Atomic!Undecided
    BY DEF RecoverOwnership, OwnershipKnown, Atomic!Undecided, MocInv, EffectHolds
  <1>3. OwnershipFollowsCommit'
    <2>1. Effect.target \in Mocs
      BY DEF MocInv, TypeInv, ContentTypes, EffectPlans, Effect, Slot
    <2>. QED
      BY <2>1 DEF RecoverOwnership, OwnershipFollowsCommit, Effect, MocInv, EffectHolds, TypeInv,
                  ContentTypes
  <1>4. ASSUME NEW p \in EffectPlans, p.target # Effect.target, Justified(p)
        PROVE  Justified(p)'
    <2>1. ownership'[p.target] = ownership[p.target]
      BY <1>4 DEF RecoverOwnership, MocInv, TypeInv, ContentTypes, EffectPlans
    <2>. QED  BY <1>4, <2>1 DEF Justified, Binding
  <1>. QED  BY <1>1, <1>2, <1>3, <1>4

\* The planner proposes only what the binding justifies.
LEMMA PlanJustified ==
    ASSUME ContentTypes, NEW d \in Mocs, Plannable(d)
    PROVE  Justified(PlanFor(d))
  <1>1. CASE Kind[d] = "fully-managed"
    BY <1>1 DEF Plannable, PlanFor, ProposedFor, Text, Justified
  <1>2. CASE Kind[d] # "fully-managed"
    BY <1>2, MocAssumption DEF Plannable, PlanFor, ProposedFor, Text, Justified
  <1>. QED  BY <1>1, <1>2

\* A pass that settles leaves no plans; the record of the effect stays.
LEMMA EffectSettled ==
    ASSUME MocInv, NEW ok, NEW left, Settle(ok, left), UNCHANGED <<ownership, pending, plan>>,
           phase'[Slot] \in Atomic!Undecided => pending,
           phase'[Slot] = "COMMITTED" => phase[Slot] = "COMMITTED"
    PROVE  EffectHolds'
  <1>1. /\ pass' = "none" /\ plans' = {}
        /\ OwnershipFollowsCommit'
        /\ Effect' = Effect
    BY DEF Settle, OwnershipFollowsCommit, Effect, MocInv, EffectHolds
  <1>2. Justified(Effect) => Justified(Effect)'
    BY <1>1 DEF Justified, Binding
  <1>3. pending' => Justified(Effect)'
    BY <1>2 DEF MocInv, EffectHolds
  <1>. QED  BY <1>1, <1>3 DEF EffectHolds

LEMMA EffectKept ==
    ASSUME MocInv, UNCHANGED <<ownership, pending, plan, plans>>,
           phase'[Slot] \in Atomic!Undecided => pending,
           phase'[Slot] = "COMMITTED" => phase[Slot] = "COMMITTED" \/ pending,
           up' \in {"down", "load", "recover", "adopt"} => pass' = "none",
           \/ pass' = pass
           \/ plans = {} /\ pass' \notin {"execute", "after"}
           \/ pass = "execute" /\ pass' = "after"
    PROVE  EffectHolds'
  <1>1. Effect' = Effect /\ OwnershipFollowsCommit'
    BY DEF OwnershipFollowsCommit, Effect, MocInv, EffectHolds
  <1>2. \A p : Justified(p) => Justified(p)'
    BY DEF Justified, Binding
  <1>3. pending' => Justified(Effect)'
    <2>1. Justified(Effect) => Justified(Effect)'
      BY <1>1 DEF Justified, Binding
    <2>. QED  BY <2>1 DEF MocInv, EffectHolds
  <1>. QED  BY <1>1, <1>2, <1>3 DEF MocInv, EffectHolds

LEMMA EffectStep ==
    ASSUME MocInv, Next
    PROVE  EffectHolds'
  <1>. USE DEF Atomic!Undecided
  <1>1. CASE \/ Boot \/ SaveStartIntent \/ FailStart \/ Advance \/ PrepareEffect \/ CompareEffect
             \/ LandEffect \/ StartAdmission \/ FinishAdmission \/ FailAdmission
             \/ (\E n \in Notes : ChangeNote(n)) \/ (\E d \in Mocs : EditMoc(d))
             \/ HandleEvent \/ (\E s \in signals : Deliver(s)) \/ Shutdown \/ OpenWatcher
             \/ WatcherFails \/ FailRead \/ RequestNow
    <2>1. UNCHANGED <<ownership, pending, plan, plans, phase, pass>>
      BY <1>1 DEF Boot, SaveStartIntent, FailStart, Advance, PrepareEffect, CompareEffect,
                  LandEffect, StartAdmission, FinishAdmission, FailAdmission, ChangeNote, EditMoc,
                  HandleEvent, Deliver, Shutdown, OpenWatcher, WatcherFails, FailRead, RequestNow,
                  Atomic!Compare, Atomic!Land, Atomic!Edit, hostRest, hostVars, effectVars,
                  passVars
    <2>2. up' \in {"down", "load", "recover", "adopt"} => up \in {"down", "load", "recover", "adopt"}
      BY <1>1 DEF Boot, SaveStartIntent, FailStart, Advance, PrepareEffect, CompareEffect,
                  LandEffect, StartAdmission, FinishAdmission, FailAdmission, ChangeNote, EditMoc,
                  HandleEvent, Deliver, Shutdown, OpenWatcher, WatcherFails, FailRead, RequestNow,
                  hostRest
    <2>. QED  BY <2>1, <2>2, EffectKept DEF MocInv, EffectHolds
  <1>2. CASE RecoverEffects
    <2>1. UNCHANGED <<ownership, pending, plan, plans, pass>> /\ pass = "none"
      BY <1>2 DEF RecoverEffects, hostVars, passVars, MocInv, EffectHolds
    <2>2. /\ phase' = phase
          \/ phase[Slot] \in Atomic!Undecided
      BY <1>2 DEF RecoverEffects
    <2>. QED  BY <2>1, <2>2, EffectKept DEF MocInv, EffectHolds
  <1>3. CASE AdoptAtStart
    <2>1. CASE RecoverOwnership /\ up' = "first" /\ StartPass(TRUE)
      <3>1. UNCHANGED <<plan, phase>> /\ plans = {} /\ plans' = {} /\ pass' = "take"
        BY <1>3, <2>1 DEF AdoptAtStart, StartPass, effectVars, MocInv, EffectHolds
      <3>. QED  BY <2>1, <3>1, OwnershipSettled DEF EffectHolds
    <2>2. CASE UNCHANGED <<hostVars, own, taskVars, passVars>>
      BY <1>3, <2>2, EffectKept DEF AdoptAtStart, hostVars, passVars, effectVars, MocInv, EffectHolds
    <2>. QED  BY <1>3, <2>1, <2>2 DEF AdoptAtStart
  <1>4. CASE AdoptBeforePass \/ AdoptAfterEffect
    <2>1. UNCHANGED <<plan, phase>>
      BY <1>4 DEF AdoptBeforePass, AdoptAfterEffect, effectVars
    <2>2. CASE RecoverOwnership
      <3>1. /\ plans' \subseteq plans
            /\ \A p \in plans' : p.target # Effect.target
            /\ pass' \in {"plan", "effects"} /\ up' = up
            /\ pass' = "plan" => plans' = {}
        <4>1. OwnershipKnown
          BY <2>2 DEF RecoverOwnership
        <4>2. CASE AdoptBeforePass
          BY <4>1, <4>2 DEF AdoptBeforePass, MocInv, EffectHolds
        <4>3. CASE AdoptAfterEffect
          <5>1. /\ pass = "after" /\ pass' = "effects" /\ up' = up
                /\ plans' = plans \ {Effect}
            BY <4>1, <4>3 DEF AdoptAfterEffect
          <5>2. Effect \in plans
            BY <5>1 DEF MocInv, EffectHolds
          <5>. QED  BY <5>1, <5>2 DEF MocInv, EffectHolds
        <4>. QED  BY <1>4, <4>2, <4>3
      <3>3. \A p \in plans' : Justified(p)'
        BY <2>1, <2>2, <3>1, OwnershipSettled
           DEF MocInv, EffectHolds, TypeInv, ContentTypes
      <3>4. up' \notin {"down", "load", "recover", "adopt"}
        BY <1>4, <3>1 DEF AdoptBeforePass, AdoptAfterEffect, MocInv, EffectHolds
      <3>5. \A p, q \in plans' : p.target = q.target => p = q
        BY <3>1 DEF MocInv, EffectHolds
      <3>. QED  BY <2>1, <2>2, <3>1, <3>3, <3>4, <3>5, OwnershipSettled DEF EffectHolds
    <2>3. CASE ~OwnershipKnown
      <3>1. Settle(FALSE, intent) /\ UNCHANGED <<ownership, pending>>
        BY <1>4, <2>3 DEF AdoptBeforePass, AdoptAfterEffect, RecoverOwnership, hostVars
      <3>. QED  BY <2>1, <3>1, EffectSettled DEF MocInv, EffectHolds
    <2>. QED  BY <1>4, <2>2, <2>3 DEF AdoptBeforePass, AdoptAfterEffect
  <1>5. CASE PlanBatch
    <2>1. UNCHANGED <<ownership, pending, plan, phase>>
      BY <1>5 DEF PlanBatch, hostVars, effectVars
    <2>2. CASE Settle(FALSE, intent)
      BY <2>1, <2>2, EffectSettled DEF MocInv, EffectHolds
    <2>3. CASE ~Settle(FALSE, intent)
      <3>. DEFINE scope == {d \in Mocs : InScope(d, work)}
      <3>1. /\ \A d \in scope : Plannable(d)
            /\ plans' = {PlanFor(d) : d \in scope} /\ pass' = "effects" /\ up' = up
        BY <1>5, <2>3 DEF PlanBatch
      <3>2. \A p \in plans' : Justified(p)
        BY <3>1, PlanJustified DEF MocInv, TypeInv
      <3>3. \A p \in plans' : Justified(p)'
        BY <2>1, <3>2 DEF Justified, Binding
      <3>4. \A p, q \in plans' : p.target = q.target => p = q
        BY <3>1 DEF PlanFor
      <3>5. pending' => Justified(Effect)'
        BY <2>1 DEF MocInv, EffectHolds, Justified, Binding, Effect
      <3>6. up' \notin {"down", "load", "recover", "adopt"}
        BY <1>5, <3>1 DEF PlanBatch, MocInv, EffectHolds
      <3>. QED
        BY <2>1, <3>1, <3>3, <3>4, <3>5, <3>6
           DEF EffectHolds, MocInv, OwnershipFollowsCommit, Effect
    <2>. QED  BY <2>2, <2>3
  <1>6. CASE RecordPending
    <2>1. PICK p \in plans : plan' = [plan EXCEPT ![Slot] = p]
      BY <1>6 DEF RecordPending, IsNext
    <2>2. Effect' = p /\ phase'[Slot] = "none"
      BY <1>6, <2>1 DEF RecordPending, Effect, MocInv, TypeInv, ContentTypes, Slot
    <2>3. UNCHANGED <<ownership, plans, up>> /\ pass = "effects" /\ pass' = "execute" /\ pending'
      BY <1>6 DEF RecordPending
    <2>4. \A q \in plans' : Justified(q)'
      BY <2>3 DEF Justified, Binding, MocInv, EffectHolds
    <2>5. Justified(Effect)'
      BY <2>1, <2>2, <2>3, <2>4 DEF Justified, Binding
    <2>. QED  BY <2>1, <2>2, <2>3, <2>4, <2>5 DEF EffectHolds, MocInv, OwnershipFollowsCommit
  <1>7. CASE BeginEffect \/ CommitUnchanged \/ CommitEffect
    <2>1. UNCHANGED <<ownership, pending, plan, plans, up>> /\ pass = "execute"
      BY <1>7 DEF BeginEffect, CommitUnchanged, CommitEffect, Atomic!Begin, Atomic!Commit,
                  Executing, Unprepared, hostRest, hostVars, passVars
    <2>2. pass' \in {"execute", "after"}
      BY <1>7, <2>1 DEF BeginEffect, CommitUnchanged, CommitEffect, passVars
    <2>3. pending /\ up' \notin {"down", "load", "recover", "adopt"}
      BY <2>1 DEF MocInv, EffectHolds
    <2>. QED  BY <2>1, <2>2, <2>3, EffectKept
  <1>8. CASE RefuseEffect
    <2>1. UNCHANGED <<ownership, pending, plan>> /\ Settle(FALSE, intent)
      BY <1>8 DEF RefuseEffect, Atomic!Refuse, hostRest, hostVars
    <2>2. phase'[Slot] = "STALE"
      BY <1>8 DEF RefuseEffect, Atomic!Refuse, Atomic!SetPhase, MocInv, TypeInv, ContentTypes, Slot
    <2>. QED  BY <2>1, <2>2, EffectSettled
  <1>9. CASE FailEffect
    <2>1. /\ UNCHANGED <<ownership, pending, plan>> /\ Settle(FALSE, intent)
          /\ pass = "execute" /\ phase[Slot] = "open"
      BY <1>9 DEF FailEffect, hostRest, hostVars, Executing
    <2>2. phase'[Slot] # "COMMITTED"
      BY <1>9, <2>1 DEF FailEffect, MocInv, TypeInv, ContentTypes, Slot
    <2>. QED  BY <2>1, <2>2, EffectSettled DEF MocInv, EffectHolds
  <1>10. CASE PassDone \/ TimerTick \/ TickNow
    <2>1. UNCHANGED <<ownership, pending, plan, plans, phase, up>>
      BY <1>10 DEF PassDone, TimerTick, TickNow, StartPass, hostVars, effectVars, passVars
    <2>2. \/ pass' = pass
          \/ plans = {} /\ pass' \notin {"execute", "after"}
      BY <1>10 DEF PassDone, TimerTick, TickNow, StartPass, passVars, MocInv, EffectHolds
    <2>3. pass' # pass => up' \notin {"down", "load", "recover", "adopt"}
      BY <1>10, <2>1 DEF PassDone, TimerTick, TickNow, passVars, MocInv, EffectHolds
    <2>. QED  BY <2>1, <2>2, <2>3, EffectKept DEF MocInv, EffectHolds
  <1>11. CASE TakeWork \/ SavePeriodicIntent
    <2>1. UNCHANGED <<ownership, pending, plan, phase>> /\ pass = "take"
      BY <1>11, QueueHead DEF TakeWork, SavePeriodicIntent, hostVars, effectVars, MocInv
    <2>2. \/ \E i : Settle(TRUE, i)
          \/ UNCHANGED <<passVars, up>>
          \/ pass' = "owner" /\ UNCHANGED <<plans, up>>
      BY <1>11 DEF TakeWork, SavePeriodicIntent, Decide, statusVars
    <2>3. plans = {} /\ up \notin {"down", "load", "recover", "adopt"}
      BY <2>1 DEF MocInv, EffectHolds
    <2>. QED  BY <2>1, <2>2, <2>3, EffectKept, EffectSettled DEF passVars, MocInv, EffectHolds
  <1>12. CASE FinishPass \/ FailPass
    <2>1. UNCHANGED <<ownership, pending, plan, phase>>
      BY <1>12 DEF FinishPass, FailPass, hostVars, effectVars
    <2>2. \/ \E ok, left : Settle(ok, left)
          \/ UNCHANGED <<passVars, up>>
      BY <1>12 DEF FinishPass, FailPass
    <2>. QED  BY <2>1, <2>2, EffectKept, EffectSettled DEF passVars, MocInv, EffectHolds
  <1>13. CASE Leave \/ Crash
    <2>1. UNCHANGED <<ownership, pending, plan, phase>> /\ plans' = {} /\ pass' = "none"
      BY <1>13 DEF Leave, Crash, Gone, hostVars
    <2>2. pending' => Justified(Effect)'
      BY <2>1 DEF MocInv, EffectHolds, Justified, Binding, Effect
    <2>. QED  BY <2>1, <2>2 DEF EffectHolds, MocInv, OwnershipFollowsCommit, Effect
  <1>. QED
    BY <1>1, <1>2, <1>3, <1>4, <1>5, <1>6, <1>7, <1>8, <1>9, <1>10, <1>11, <1>12, <1>13
       DEF Next, Coordinate, Reconcile, StartUp, Receive, Environment

\* Only the effect in progress holds the claim, and nobody else writes the
\* target it compared.
LEMMA ClaimGone ==
    ASSUME claim' # Slot, prepared' => Slot \notin landed'
    PROVE  ClaimHolds'
  BY DEF ClaimHolds

LEMMA ClaimKept ==
    ASSUME MocInv, UNCHANGED <<claim, prepared, landed, vault, plan, raced>>,
           pass' = pass \/ pass # "execute"
    PROVE  ClaimHolds'
  BY DEF ClaimHolds, MocInv, Effect

LEMMA ClaimStep ==
    ASSUME MocInv, Next
    PROVE  ClaimHolds'
  <1>1. CASE \/ Boot \/ SaveStartIntent \/ FailStart \/ Advance \/ StartAdmission
             \/ FinishAdmission \/ FailAdmission \/ (\E n \in Notes : ChangeNote(n))
             \/ HandleEvent \/ (\E s \in signals : Deliver(s)) \/ Shutdown \/ OpenWatcher
             \/ WatcherFails \/ FailRead \/ RequestNow
    <2>1. UNCHANGED <<claim, prepared, landed, vault, plan, raced, pass>>
      BY <1>1 DEF Boot, SaveStartIntent, FailStart, Advance, StartAdmission, FinishAdmission,
                  FailAdmission, ChangeNote, HandleEvent, Deliver, Shutdown, OpenWatcher,
                  WatcherFails, FailRead, RequestNow, effectVars, passVars, historyVars
    <2>. QED  BY <2>1, ClaimKept
  <1>2. CASE \/ AdoptAtStart \/ AdoptBeforePass \/ AdoptAfterEffect \/ PlanBatch \/ PassDone
             \/ TimerTick \/ TickNow
    <2>1. UNCHANGED <<claim, prepared, landed, vault, plan, raced>>
      BY <1>2 DEF AdoptAtStart, AdoptBeforePass, AdoptAfterEffect, PlanBatch, PassDone,
                  TimerTick, TickNow, effectVars, historyVars
    <2>2. pass # "execute" \/ pass' = pass
      BY <1>2 DEF AdoptAtStart, AdoptBeforePass, AdoptAfterEffect, PlanBatch, PassDone,
                  TimerTick, TickNow, StartPass, passVars, MocInv, EffectHolds
    <2>. QED  BY <2>1, <2>2, ClaimKept
  <1>3. CASE TakeWork \/ SavePeriodicIntent \/ FinishPass \/ FailPass
    <2>1. UNCHANGED <<claim, prepared, landed, vault, plan, raced>>
      BY <1>3 DEF TakeWork, SavePeriodicIntent, FinishPass, FailPass, effectVars, historyVars
    <2>2. pass # "execute"
      BY <1>3, QueueHead DEF TakeWork, SavePeriodicIntent, FinishPass, FailPass, MocInv
    <2>. QED  BY <2>1, <2>2, ClaimKept
  <1>4. CASE RecoverEffects
    <2>1. claim' = claim /\ claim # Slot
      BY <1>4 DEF RecoverEffects, MocInv, EffectHolds, ClaimHolds
    <2>2. prepared' => Slot \notin landed'
      BY <1>4 DEF RecoverEffects, MocInv, ClaimHolds
    <2>. QED  BY <2>1, <2>2, ClaimGone
  <1>5. CASE RecordPending
    BY <1>5, ClaimGone DEF RecordPending, MocInv, ClaimHolds
  <1>6. CASE BeginEffect
    BY <1>6, ClaimKept DEF BeginEffect, Atomic!Begin, passVars
  <1>7. CASE CommitUnchanged \/ CommitEffect
    <2>1. claim # Slot /\ UNCHANGED <<claim, prepared, landed>>
      BY <1>7 DEF CommitUnchanged, CommitEffect, Unprepared, Atomic!Commit, MocInv, ClaimHolds
    <2>. QED  BY <2>1, ClaimGone DEF MocInv, ClaimHolds
  <1>8. CASE PrepareEffect
    <2>1. claim' = claim /\ claim # Slot /\ Slot \notin landed'
      BY <1>8 DEF PrepareEffect, Unprepared, MocInv, ClaimHolds
    <2>. QED  BY <2>1, ClaimGone
  <1>9. CASE CompareEffect
    BY <1>9 DEF CompareEffect, Atomic!Compare, Atomic!Holds, Effect, Executing, passVars,
                MocInv, ClaimHolds
  <1>10. CASE LandEffect
    BY <1>10, ClaimGone DEF LandEffect, Atomic!Land, Slot, NoEffect
  <1>11. CASE RefuseEffect
    BY <1>11, ClaimGone DEF RefuseEffect, Atomic!Refuse, Slot, NoEffect
  <1>12. CASE FailEffect
    <2>1. claim' # Slot /\ UNCHANGED <<prepared, landed>>
      BY <1>12 DEF FailEffect, Slot, NoEffect
    <2>. QED  BY <2>1, ClaimGone DEF MocInv, ClaimHolds
  <1>13. CASE Leave \/ Crash
    <2>1. claim' # Slot /\ UNCHANGED <<prepared, landed>>
      BY <1>13 DEF Leave, Crash, Gone, Slot, NoEffect
    <2>. QED  BY <2>1, ClaimGone DEF MocInv, ClaimHolds
  <1>14. CASE \E d \in Mocs : EditMoc(d)
    <2>1. PICK d \in Mocs : EditMoc(d)
      BY <1>14
    <2>2. /\ UNCHANGED <<claim, prepared, landed, plan, pass>>
          /\ \E bytes : vault' = [vault EXCEPT ![d] = bytes]
          /\ raced' = (raced \/ (claim = Slot /\ Effect.target = d))
      BY <2>1 DEF EditMoc, Atomic!Edit, passVars
    <2>3. claim = Slot /\ ~raced' => ~raced /\ vault'[Effect.target] = vault[Effect.target]
      <3>1. claim = Slot /\ ~raced' => ~raced /\ Effect.target # d
        BY <2>2, Zenon
      <3>2. Effect.target # d => vault'[Effect.target] = vault[Effect.target]
        BY <2>2 DEF MocInv, TypeInv, ContentTypes, EffectPlans, Effect, Slot
      <3>. QED  BY <3>1, <3>2
    <2>. QED  BY <2>2, <2>3 DEF MocInv, ClaimHolds, Effect
  <1>. QED
    BY <1>1, <1>2, <1>3, <1>4, <1>5, <1>6, <1>7, <1>8, <1>9, <1>10, <1>11, <1>12, <1>13, <1>14
       DEF Next, Coordinate, Reconcile, StartUp, Receive, Environment

-----------------------------------------------------------------------------
(***************************************************************************)
(* The invariant, and what follows from it.                                *)
(***************************************************************************)

LEMMA ContentInit ==
    ASSUME src = [n \in Notes |-> 0], vault = InitialVault, ownership = [d \in Mocs |-> Unbound],
           pending = FALSE, raced = FALSE, plans = {}, Atomic!Init,
           plan = [e \in {Slot} |-> [target |-> CHOOSE d \in Mocs : TRUE, prior |-> Absent,
                                     proposed |-> Absent]]
    PROVE  ContentTypes
  <1>1. PICK d \in Mocs : plan = [e \in {Slot} |-> [target |-> d, prior |-> Absent,
                                                    proposed |-> Absent]]
    BY MocAssumption
  <1>2. Absent \in ContentsOf(d) /\ Absent \in AllContents
    <2>1. Absent \in ContentsOf(d)
      BY DEF ContentsOf
    <2>. QED  BY <1>1, <2>1, ContentsIncluded
  <1>3. plan \in [{Slot} -> EffectPlans]
    <2>. DEFINE p == [target |-> d, prior |-> Absent, proposed |-> Absent]
    <2>1. p \in EffectPlans
      BY <1>2 DEF EffectPlans
    <2>. HIDE DEF p
    <2>2. [e \in {Slot} |-> p] \in [{Slot} -> EffectPlans]
      BY <2>1
    <2>. QED  BY <1>1, <2>2 DEF p
  <1>4. /\ vault \in [Mocs -> AllContents]
        /\ \A c \in Mocs : vault[c] \in ContentsOf(c)
    <2>1. /\ InitialVault \in [Mocs -> AllContents]
          /\ \A c \in Mocs : {InitialVault[c], Supplied[c]} \subseteq ContentsOf(c)
      BY MocAssumption
    <2>2. \A c \in Mocs : InitialVault[c] \in ContentsOf(c)
      BY <2>1
    <2>3. vault = InitialVault
      OBVIOUS
    <2>. QED  BY <2>1, <2>2, <2>3, Zenon
  <1>5. /\ src \in [Notes -> {0, 1}] /\ ownership \in [Mocs -> AllContents \cup {Unbound}]
        /\ \A c \in Mocs : ownership[c] \in ContentsOf(c) \cup {Unbound}
    OBVIOUS
  <1>6. /\ phase \in [{Slot} -> Atomic!Phases] /\ landed \in SUBSET {Slot}
        /\ claim \in {Slot, NoEffect} /\ {edits, failures} \subseteq Nat
    BY DEF Atomic!Init, Atomic!Phases
  <1>. QED  BY <1>3, <1>4, <1>5, <1>6 DEF ContentTypes

LEMMA MocInit ==
    ASSUME Init
    PROVE  MocInv
  <1>. USE DEF Init
  <1>1. ContentTypes
    BY ContentInit
  <1>2. IntentTypes
    BY IntentTyped, OptionsTyped DEF IntentTypes
  <1>3. StageTypes
    BY DEF StageTypes
  <1>4. QueueHolds /\ WritingHolds /\ AcceptedHolds
    BY DEF QueueHolds, PassTasks, WritingHolds, AcceptedHolds, AcceptedEventsDurable
  <1>5. EffectHolds /\ ClaimHolds
    <2>1. phase[Slot] = "none" /\ claim = NoEffect
      BY DEF Atomic!Init
    <2>. QED
      BY <2>1 DEF EffectHolds, ClaimHolds, OwnershipFollowsCommit, Atomic!Undecided, Slot, NoEffect
  <1>. QED  BY <1>1, <1>2, <1>3, <1>4, <1>5 DEF MocInv, TypeInv

LEMMA MocStep ==
    ASSUME MocInv, [Next]_vars
    PROVE  MocInv'
  <1>1. CASE Next
    BY <1>1, TypeStep, QueueStep, WritingStep, AcceptedStep, EffectStep, ClaimStep DEF MocInv
  <1>2. CASE UNCHANGED vars
    <2>1. TypeInv'
      BY <1>2 DEF vars, hostVars, effectVars, taskVars, passVars, clockVars, eventVars, statusVars,
                  historyVars, boundVars, MocInv, TypeInv, ContentTypes, IntentTypes, StageTypes
    <2>2. QueueHolds' /\ WritingHolds' /\ AcceptedHolds'
      BY <1>2, QueueKept, WritingKept, AcceptedKept
         DEF vars, taskVars, passVars, historyVars, MocInv
    <2>3. EffectHolds' /\ ClaimHolds'
      BY <1>2, EffectKept, ClaimKept
         DEF vars, hostVars, effectVars, passVars, historyVars, MocInv, EffectHolds
    <2>. QED  BY <2>1, <2>2, <2>3 DEF MocInv
  <1>. QED  BY <1>1, <1>2

\* In every run of the pipeline, whatever the vault, the targets, the options
\* and the numbers of disturbances, the invariant holds.
THEOREM MocInvariant == Spec => []MocInv
  <1>1. Init => MocInv
    BY MocInit
  <1>2. MocInv /\ [Next]_vars => MocInv'
    BY MocStep
  <1>. QED  BY <1>1, <1>2, PTL DEF Spec

\* The state has its types, and the promise queue never holds more than the
\* batch that is saved, the open batch and one step of the tick.
THEOREM MocTypeCorrect == Spec => []MocTypeOK
  <1>1. MocInv => MocTypeOK
    BY TypesImplied
  <1>. QED  BY <1>1, MocInvariant, PTL

\* An event whose notify or requestReconciliation resolved stays covered by the
\* durable intent until a pass that took its snapshot later has finished.
THEOREM AcceptedAlwaysDurable == Spec => []AcceptedEventsDurable
  <1>1. MocInv => AcceptedEventsDurable
    BY DEF MocInv, AcceptedHolds
  <1>. QED  BY <1>1, MocInvariant, PTL

\* Once no effect is pending, the recorded ownership of its target is what it
\* committed, also after a crash between the commit and the record.
THEOREM OwnershipAlwaysFollows == Spec => []OwnershipFollowsCommit
  <1>1. MocInv => OwnershipFollowsCommit
    BY DEF MocInv, EffectHolds
  <1>. QED  BY <1>1, MocInvariant, PTL

\* Only the recovery at startup, the rename of an effect and people change the
\* bytes of a target.
LEMMA VaultKept ==
    ASSUME Next, ~RecoverEffects, ~LandEffect, ~(\E d \in Mocs : EditMoc(d))
    PROVE  vault' = vault
  <1>1. CASE Coordinate
    BY <1>1 DEF Coordinate, StartAdmission, FinishAdmission, TakeWork, SavePeriodicIntent,
                FinishPass
  <1>2. CASE Reconcile
    BY <1>2 DEF Reconcile, AdoptBeforePass, PlanBatch, RecordPending, BeginEffect, RefuseEffect,
                CommitUnchanged, PrepareEffect, CompareEffect, CommitEffect, AdoptAfterEffect,
                PassDone, Atomic!Begin, Atomic!Refuse, Atomic!Commit, Atomic!Compare
  <1>3. CASE StartUp
    BY <1>3 DEF StartUp, Boot, SaveStartIntent, AdoptAtStart, OpenWatcher, Leave, Gone
  <1>4. CASE Receive \/ TimerTick \/ TickNow \/ Advance
    BY <1>4 DEF Receive, HandleEvent, Deliver, TimerTick, TickNow, Advance
  <1>5. CASE Environment
    BY <1>5 DEF Environment, FailAdmission, FailEffect, FailPass, FailStart, WatcherFails, FailRead,
                RequestNow, Shutdown, Crash, Gone, ChangeNote
  <1>. QED  BY <1>1, <1>2, <1>3, <1>4, <1>5 DEF Next

\* An effect that replaces the prior bytes of its plan is justified by the
\* binding of the moment.
LEMMA ReplacementJustified ==
    ASSUME MocInv, pending, vault[Effect.target] = Effect.prior,
           vault' = [vault EXCEPT ![Effect.target] = Effect.proposed],
           NEW d \in Mocs, vault'[d] # vault[d]
    PROVE  /\ vault[d] = Absent \/ Binding(d) # Absent
           /\ Kind[d] = "fully-managed" => vault[d] \in {Absent, Binding(d)}
           /\ Kind[d] = "region-managed" =>
                  vault'[d].outer = vault[d].outer /\ vault[d].body = Binding(d).body
  <1>1. d = Effect.target /\ vault'[d] = Effect.proposed
    BY DEF MocInv, TypeInv, ContentTypes
  <1>2. Justified(Effect)
    BY DEF MocInv, EffectHolds
  <1>. QED  BY <1>1, <1>2 DEF Justified

\* The host replaces a target only while it holds the bytes ownership was
\* recorded for, or is missing, and never the text around a managed region,
\* except for an edit between the last comparison and the rename.
THEOREM OnlyManagedTextIsReplaced == Spec => OnlyManagedTextReplaced
  <1>. DEFINE Kept(d) ==
           vault'[d] # vault[d] /\ edits' = edits /\ ~raced =>
               /\ vault[d] = Absent \/ Binding(d) # Absent
               /\ Kind[d] = "fully-managed" => vault[d] \in {Absent, Binding(d)}
               /\ Kind[d] = "region-managed" =>
                      vault'[d].outer = vault[d].outer /\ vault[d].body = Binding(d).body
  <1>1. ASSUME MocInv, Next, NEW d \in Mocs
        PROVE  Kept(d)
    <2>. SUFFICES ASSUME vault'[d] # vault[d], edits' = edits, ~raced
                  PROVE  Kept(d)
      OBVIOUS
    <2>1. CASE RecoverEffects
      <3>1. /\ vault[Effect.target] = Effect.prior /\ phase[Slot] \in Atomic!Undecided
            /\ vault' = [vault EXCEPT ![Effect.target] = Effect.proposed]
        BY <2>1 DEF RecoverEffects
      <3>2. pending
        BY <1>1, <3>1 DEF MocInv, EffectHolds
      <3>. QED  BY <1>1, <3>1, <3>2, ReplacementJustified
    <2>2. CASE LandEffect
      <3>1. /\ claim = Slot /\ pass = "execute"
            /\ vault' = [vault EXCEPT ![Effect.target] = Effect.proposed]
        BY <2>2 DEF LandEffect, Executing, Atomic!Land, Effect
      <3>2. pending /\ vault[Effect.target] = Effect.prior
        BY <1>1, <3>1 DEF MocInv, EffectHolds, ClaimHolds
      <3>. QED  BY <1>1, <3>1, <3>2, ReplacementJustified
    <2>3. CASE \E c \in Mocs : EditMoc(c)
      <3>1. edits' = edits + 1 /\ edits \in Nat
        BY <1>1, <2>3 DEF EditMoc, Atomic!Edit, MocInv, TypeInv, ContentTypes
      <3>. QED  BY <3>1
    <2>4. CASE ~RecoverEffects /\ ~LandEffect /\ ~(\E c \in Mocs : EditMoc(c))
      BY <1>1, <2>4, VaultKept
    <2>. QED  BY <2>1, <2>2, <2>3, <2>4
  <1>2. MocInv /\ [Next]_vars => [\A d \in Mocs : Kept(d)]_vars
    BY <1>1
  <1>. QED  BY <1>2, MocInvariant, PTL DEF Spec, OnlyManagedTextReplaced

-----------------------------------------------------------------------------
(***************************************************************************)
(* Staleness.  The intent alone does not say which notes the targets are   *)
(* behind of, since a pass clears it at its end: what follows a note is    *)
(* its event, then the batch, then the intent, then the plan of the pass,  *)
(* and a change after the plan was made has its own event.                 *)
(***************************************************************************)

\* The stages of the start, before anything is admitted.
Early == {"down", "load", "recover", "adopt", "first", "open"}

\* The runtime starts or serves, and no event was refused during a reconcileNow.
Serving == up \in {"recover", "adopt", "first", "open", "running"} /\ ~overlooked

\* Nothing is admitted before the runtime serves.  A batch that the handler
\* waits for answers for its event, and reconcileNow asks for everything.
BatchHolds ==
    /\ up \in Early => batch = NoBatch /\ detached = NoBatch
    /\ \A b \in {batch, detached} : b # NoBatch =>
           /\ "handler" \in b.waiters => handler # NoSignal /\ handler \in b.asked \cup {"full"}
           /\ "explicit" \in b.waiters => b.full
    /\ batch # NoBatch /\ detached # NoBatch =>
           "handler" \notin batch.waiters \cap detached.waiters

\* One intent asks for everything the other does.
Widens(i, j) == j # NoIntent => i.full \/ (~j.full /\ j.files \subseteq i.files)

\* An intent is only widened until a pass has covered it.
WorkHolds ==
    /\ up \in {"recover", "adopt"} => intent = FullIntent
    /\ detached # NoBatch => Widens(writing, intent) /\ (detached.full => writing.full)
    /\ pass \notin {"none", "take"} => intent # NoIntent /\ Widens(intent, work)
    /\ current => intent = work

\* The stages of a reconcileNow whose request was saved.
Asking == {"tick", "joined", "check", "rejoined"}

\* What was refused before a reconcileNow is part of what it asked for.
RefusedHolds ==
    Serving /\ explicit \in Asking /\ refused # {} =>
        intent # NoIntent /\ intent.full /\ (current => pass \in {"owner", "plan"})

\* A pass goes on only after a committed effect.
AfterHolds == pass = "after" => phase[Slot] = "COMMITTED"

StaleSupport == BatchHolds /\ WorkHolds /\ RefusedHolds /\ AfterHolds

-----------------------------------------------------------------------------
(***************************************************************************)
(* Batches, the intent and the work of the pass.                           *)
(***************************************************************************)

\* What a request adds to the open batch.
LEMMA EnqueueJoins ==
    ASSUME NEW f, NEW w, Enqueue(f, w)
    PROVE  LET b == IF batch = NoBatch THEN EmptyBatch ELSE batch
           IN  /\ batch'.waiters = b.waiters \cup {w}
               /\ b.asked \subseteq batch'.asked
               /\ b.full \/ f = "full" => batch'.full
               /\ f = "full" => Files \subseteq batch'.asked
               /\ f # "full" => f \in batch'.asked
               /\ detached' = detached /\ writing' = writing
  BY DEF Enqueue, Join

LEMMA BatchJoined ==
    ASSUME MocInv, BatchHolds, NEW f \in Files \cup {"full"},
           NEW w \in {"handler", "storm", "explicit", "start", "shutdown"}, Enqueue(f, w),
           up' \notin Early, w = "explicit" => f = "full",
           w = "handler" => ~Awaiting /\ handler' = f,
           handler' = handler \/ (w = "handler" /\ handler = NoSignal)
    PROVE  BatchHolds'
  <1>. DEFINE b == IF batch = NoBatch THEN EmptyBatch ELSE batch
  <1>1. /\ batch'.waiters = b.waiters \cup {w} /\ b.asked \subseteq batch'.asked
        /\ b.full \/ f = "full" => batch'.full
        /\ f # "full" => f \in batch'.asked
        /\ detached' = detached
    BY EnqueueJoins
  <1>2. f # NoSignal
    BY SentinelAssumption
  <1>3. batch = NoBatch => b.waiters = {} /\ ~b.full
    BY DEF EmptyBatch
  <1>. HIDE DEF b
  <1>4. batch # NoBatch => b = batch
    BY DEF b
  <1>5. "handler" \in batch'.waiters =>
            handler' # NoSignal /\ handler' \in batch'.asked \cup {"full"}
    <2>1. CASE w = "handler"
      BY <1>1, <1>2, <2>1
    <2>2. CASE w # "handler"
      BY <1>1, <1>3, <1>4, <2>2 DEF BatchHolds
    <2>. QED  BY <2>1, <2>2
  <1>6. "explicit" \in batch'.waiters => batch'.full
    BY <1>1, <1>3, <1>4 DEF BatchHolds
  <1>7. detached # NoBatch =>
            /\ "handler" \in detached.waiters =>
                   handler' # NoSignal /\ handler' \in detached.asked \cup {"full"}
            /\ "explicit" \in detached.waiters => detached.full
    BY DEF BatchHolds, Awaiting
  <1>8. detached # NoBatch => "handler" \notin batch'.waiters \cap detached.waiters
    <2>1. CASE w = "handler"
      BY <2>1 DEF Awaiting
    <2>2. CASE w # "handler"
      BY <1>1, <1>3, <1>4, <2>2 DEF BatchHolds
    <2>. QED  BY <2>1, <2>2
  <1>. QED  BY <1>1, <1>5, <1>6, <1>7, <1>8 DEF BatchHolds

LEMMA BatchKept ==
    ASSUME BatchHolds, batch' = batch, detached' = detached,
           handler' = handler \/ ~Awaiting, up' \in Early => up \in Early
    PROVE  BatchHolds'
  <1>1. ~Awaiting => \A b \in {batch, detached} : b # NoBatch => "handler" \notin b.waiters
    BY DEF Awaiting
  <1>. QED  BY <1>1 DEF BatchHolds

LEMMA BatchStep ==
    ASSUME MocInv, BatchHolds, Next
    PROVE  BatchHolds'
  <1>1. CASE \/ Boot \/ SaveStartIntent \/ RecoverEffects \/ AdoptAtStart \/ FailStart \/ Advance
             \/ BeginEffect \/ PrepareEffect \/ CompareEffect \/ LandEffect \/ CommitUnchanged
             \/ CommitEffect \/ RecordPending \/ PassDone \/ TimerTick \/ TickNow
             \/ (\E n \in Notes : ChangeNote(n)) \/ (\E d \in Mocs : EditMoc(d))
    <2>1. UNCHANGED <<batch, detached, handler>>
      BY <1>1 DEF Boot, SaveStartIntent, RecoverEffects, AdoptAtStart, FailStart, Advance,
                  BeginEffect, PrepareEffect, CompareEffect, LandEffect, CommitUnchanged,
                  CommitEffect, RecordPending, PassDone, TimerTick, TickNow, ChangeNote, EditMoc,
                  StartPass, hostRest, taskVars, eventVars
    <2>2. up' \in Early => up \in Early
      BY <1>1 DEF Boot, SaveStartIntent, RecoverEffects, AdoptAtStart, FailStart, Advance,
                  BeginEffect, PrepareEffect, CompareEffect, LandEffect, CommitUnchanged,
                  CommitEffect, RecordPending, PassDone, TimerTick, TickNow, ChangeNote, EditMoc,
                  Early
    <2>. QED  BY <2>1, <2>2, BatchKept
  <1>2. CASE \/ RefuseEffect \/ FailEffect \/ AdoptBeforePass \/ AdoptAfterEffect \/ PlanBatch
             \/ TakeWork \/ SavePeriodicIntent \/ FinishPass \/ FailPass
    <2>1. UNCHANGED <<batch, detached, handler>>
      BY <1>2 DEF RefuseEffect, FailEffect, AdoptBeforePass, AdoptAfterEffect, PlanBatch, TakeWork,
                  SavePeriodicIntent, FinishPass, FailPass, hostRest, taskVars, eventVars
    <2>2. up' \in Early => up \in Early
      BY <1>2 DEF RefuseEffect, FailEffect, AdoptBeforePass, AdoptAfterEffect, PlanBatch, TakeWork,
                  SavePeriodicIntent, FinishPass, FailPass, Decide, Settle, Early
    <2>. QED  BY <2>1, <2>2, BatchKept
  <1>3. CASE StartAdmission
    <2>1. detached' = batch /\ batch' = NoBatch /\ UNCHANGED <<up, handler>>
      BY <1>3 DEF StartAdmission, eventVars
    <2>2. up \notin Early
      BY <1>3, Saving DEF StartAdmission, BatchHolds
    <2>. QED  BY <2>1, <2>2 DEF BatchHolds
  <1>4. CASE FinishAdmission \/ FailAdmission
    <2>1. /\ batch' = batch /\ detached' = NoBatch
          /\ handler' = IF "handler" \in detached.waiters THEN NoSignal ELSE handler
          /\ up' \in Early => up \in Early
      BY <1>4 DEF FinishAdmission, FailAdmission, Early
    <2>2. detached # NoBatch
      BY <1>4, Saving DEF FinishAdmission, FailAdmission
    <2>. QED  BY <2>1, <2>2 DEF BatchHolds
  <1>5. CASE HandleEvent
    <2>1. ~Awaiting /\ up' = up /\ up \notin Early
      BY <1>5 DEF HandleEvent, Early
    <2>2. CASE UNCHANGED taskVars
      BY <2>1, <2>2, BatchKept DEF taskVars
    <2>3. CASE Enqueue(handler, "handler") /\ handler' = handler
      BY <1>5, <2>1, <2>3, BatchJoined DEF HandleEvent
    <2>. QED  BY <1>5, <2>2, <2>3 DEF HandleEvent
  <1>6. CASE \E s \in signals : Deliver(s)
    <2>1. PICK s \in signals : Deliver(s)
      BY <1>6
    <2>2. up' = up /\ up \notin Early /\ s \in Files \cup {"full"}
      BY <2>1 DEF Deliver, Early, MocInv, TypeInv, StageTypes
    <2>3. handler = NoSignal => ~Awaiting
      BY DEF BatchHolds, Awaiting
    <2>4. CASE handler # NoSignal
      BY <2>1, <2>2, <2>4, BatchJoined DEF Deliver
    <2>5. CASE handler = NoSignal /\ s = "full"
      BY <2>1, <2>2, <2>3, <2>5, BatchJoined DEF Deliver
    <2>6. CASE handler = NoSignal /\ s # "full"
      BY <2>1, <2>2, <2>3, <2>6, BatchKept DEF Deliver, taskVars
    <2>. QED  BY <2>4, <2>5, <2>6
  <1>7. CASE WatcherFails
    BY <1>7, BatchJoined DEF WatcherFails, Early
  <1>7b. CASE FailRead
    <2>1. ~Awaiting /\ handler' = NoSignal /\ UNCHANGED <<up, taskVars>>
      BY <1>7b DEF FailRead
    <2>. QED  BY <2>1, BatchKept DEF taskVars
  <1>8. CASE RequestNow
    BY <1>8, BatchJoined DEF RequestNow, Early, eventVars
  <1>9. CASE Shutdown
    <2>1. CASE handler # NoSignal
      BY <1>9, <2>1, BatchJoined DEF Shutdown, Early
    <2>2. CASE handler = NoSignal
      BY <1>9, <2>2, BatchKept DEF Shutdown, Early, taskVars
    <2>. QED  BY <2>1, <2>2
  <1>10. CASE OpenWatcher
    <2>1. CASE UNCHANGED taskVars
      BY <1>10, <2>1, BatchKept DEF OpenWatcher, Early, taskVars
    <2>2. CASE Enqueue("full", "start")
      BY <1>10, <2>2, BatchJoined DEF OpenWatcher, Early
    <2>. QED  BY <1>10, <2>1, <2>2 DEF OpenWatcher
  <1>11. CASE Leave \/ Crash
    BY <1>11 DEF Leave, Crash, Gone, BatchHolds
  <1>. QED
    BY <1>1, <1>2, <1>3, <1>4, <1>5, <1>6, <1>7, <1>7b, <1>8, <1>9, <1>10, <1>11
       DEF Next, Coordinate, Reconcile, StartUp, Receive, Environment
\* A wider intent has the same files in scope, and more.
LEMMA WidensScope ==
    ASSUME NEW i \in Intents, NEW j \in Intents, Widens(i, j), NEW f, InScope(f, j)
    PROVE  InScope(f, i)
  <1>1. j # NoIntent
    BY SentinelAssumption
  <1>2. CASE i.full
    BY <1>2 DEF InScope
  <1>3. CASE ~j.full /\ j.files \subseteq i.files
    BY <1>3 DEF InScope, Scopes
  <1>. QED  BY <1>1, <1>2, <1>3 DEF Widens

LEMMA MergedWidens ==
    ASSUME NEW b
    PROVE  Widens(Merged(b), intent) /\ (b.full => Merged(b).full)
  BY DEF Widens, Merged

\* The intent and the work of the tick stay as they are.
LEMMA WorkKept ==
    ASSUME WorkHolds, UNCHANGED <<intent, writing>>, detached' \in {detached, NoBatch},
           up' \in {"recover", "adopt"} => up \in {"recover", "adopt"},
           \/ pass' \in {"none", "take"} /\ ~current'
           \/ pass' = pass /\ UNCHANGED <<work, current>>
           \/ pass \notin {"none", "take"} /\ UNCHANGED <<work, current>>
    PROVE  WorkHolds'
  BY DEF WorkHolds

LEMMA WorkStep ==
    ASSUME MocInv, BatchHolds, WorkHolds, Next
    PROVE  WorkHolds'
  <1>1. CASE \/ Boot \/ RecoverEffects \/ FailStart \/ Advance
             \/ BeginEffect \/ PrepareEffect \/ CompareEffect \/ LandEffect
             \/ HandleEvent \/ (\E s \in signals : Deliver(s)) \/ WatcherFails \/ FailRead
             \/ RequestNow
             \/ Shutdown \/ OpenWatcher
             \/ (\E n \in Notes : ChangeNote(n)) \/ (\E d \in Mocs : EditMoc(d))
    <2>1. UNCHANGED <<intent, writing, detached, pass, work, current>>
      BY <1>1 DEF Boot, RecoverEffects, FailStart, Advance, BeginEffect, PrepareEffect,
                  CompareEffect, LandEffect, HandleEvent, Deliver, WatcherFails, FailRead,
                  RequestNow,
                  Shutdown, OpenWatcher, ChangeNote, EditMoc, Enqueue, hostRest, taskVars, passVars
    <2>2. up' \in {"recover", "adopt"} => up \in {"recover", "adopt"}
      BY <1>1 DEF Boot, RecoverEffects, FailStart, Advance, BeginEffect, PrepareEffect,
                  CompareEffect, LandEffect, HandleEvent, Deliver, WatcherFails, FailRead,
                  RequestNow,
                  Shutdown, OpenWatcher, ChangeNote, EditMoc
    <2>. QED  BY <2>1, <2>2, WorkKept
  <1>2. CASE \/ CommitUnchanged \/ CommitEffect \/ RecordPending \/ PassDone
    <2>1. /\ UNCHANGED <<intent, writing, detached, work, current, up>>
          /\ pass \notin {"none", "take"}
      BY <1>2 DEF CommitUnchanged, CommitEffect, RecordPending, PassDone, Executing, Unprepared,
                  hostRest, taskVars
    <2>. QED  BY <2>1, WorkKept
  <1>3. CASE TimerTick \/ TickNow \/ AdoptAtStart
    <2>1. /\ UNCHANGED <<intent, writing, detached>>
          /\ up' \in {"recover", "adopt"} => up \in {"recover", "adopt"}
          /\ \/ UNCHANGED <<pass, work, current>>
             \/ pass = "none" /\ pass' = "take" /\ UNCHANGED <<work, current>>
      BY <1>3 DEF TimerTick, TickNow, AdoptAtStart, StartPass, taskVars, passVars
    <2>2. pass = "none" => ~current
      BY DEF MocInv, AcceptedHolds
    <2>3. CASE UNCHANGED <<pass, work, current>>
      BY <2>1, <2>3, WorkKept
    <2>4. CASE pass = "none" /\ pass' = "take" /\ UNCHANGED <<work, current>>
      <3>1. pass' \in {"none", "take"} /\ ~current'
        BY <2>2, <2>4, Zenon
      <3>. QED  BY <2>1, <3>1, WorkKept
    <2>. QED  BY <2>1, <2>3, <2>4
  <1>4. CASE \/ RefuseEffect \/ FailEffect \/ AdoptBeforePass \/ AdoptAfterEffect \/ PlanBatch
    <2>1. UNCHANGED <<intent, writing, detached>> /\ pass \notin {"none", "take"}
      BY <1>4 DEF RefuseEffect, FailEffect, AdoptBeforePass, AdoptAfterEffect, PlanBatch,
                  Executing, hostRest, taskVars
    <2>2. \/ Settle(FALSE, intent)
          \/ UNCHANGED <<work, current, up>>
      BY <1>4 DEF RefuseEffect, FailEffect, AdoptBeforePass, AdoptAfterEffect, PlanBatch
    <2>. QED  BY <2>1, <2>2, WorkKept DEF Settle
  <1>5. CASE StartAdmission
    <2>1. /\ UNCHANGED <<intent, pass, work, current, up>> /\ writing' = Merged(batch)
          /\ detached' = batch
      BY <1>5 DEF StartAdmission, passVars
    <2>. QED  BY <2>1, MergedWidens DEF WorkHolds, Widens
  <1>6. CASE FinishAdmission
    <2>1. detached # NoBatch /\ writing \in Intents
      BY <1>6, Saving DEF FinishAdmission, MocInv, WritingHolds
    <2>2. /\ intent' = writing /\ detached' = NoBatch /\ current' = FALSE
          /\ UNCHANGED <<pass, work>>
          /\ up' \in {"recover", "adopt"} => up \in Early
      BY <1>6 DEF FinishAdmission, Early
    <2>3. Widens(writing, intent) /\ writing # NoIntent
      BY <2>1, SentinelAssumption DEF WorkHolds
    <2>4. Widens(intent, work) /\ intent # NoIntent => Widens(writing, work)
      BY <2>3 DEF Widens
    <2>. QED  BY <2>1, <2>2, <2>3, <2>4 DEF WorkHolds, BatchHolds, Widens
  <1>7. CASE FailAdmission
    <2>1. /\ UNCHANGED <<intent, pass, work, current>> /\ detached' = NoBatch
          /\ up' \in {"recover", "adopt"} => up \in {"recover", "adopt"}
      BY <1>7 DEF FailAdmission, passVars
    <2>. QED  BY <2>1 DEF WorkHolds
  <1>8. CASE SaveStartIntent
    <2>1. /\ intent' = FullIntent /\ UNCHANGED <<pass, work, current, writing, detached>>
          /\ up = "load"
      BY <1>8 DEF SaveStartIntent, taskVars, passVars
    <2>2. pass = "none" /\ ~current /\ detached = NoBatch
      BY <2>1 DEF MocInv, EffectHolds, AcceptedHolds, BatchHolds, Early
    <2>. QED  BY <2>1, <2>2 DEF WorkHolds
  <1>9. CASE TakeWork
    <2>1. /\ UNCHANGED <<intent, detached>> /\ detached = NoBatch /\ pass = "take"
          /\ up \notin {"recover", "adopt"}
      BY <1>9, QueueHead DEF TakeWork, MocInv, EffectHolds
    <2>2. \/ UNCHANGED <<pass, work, current, up>>
          \/ pass' = "owner" /\ work' = intent /\ current' = TRUE /\ up' = up /\ intent # NoIntent
          \/ pass' = "none" /\ current' = FALSE /\ up' \in {up, "open", "failed"}
      BY <1>9 DEF TakeWork, Decide, Settle, passVars
    <2>. QED  BY <2>1, <2>2 DEF WorkHolds, Widens
  <1>10. CASE SavePeriodicIntent
    <2>1. /\ intent' = writing /\ detached' = NoBatch /\ pass = "take"
          /\ up \notin {"recover", "adopt"}
      BY <1>10, QueueHead DEF SavePeriodicIntent, MocInv, EffectHolds
    <2>2. \/ pass' = "owner" /\ work' = writing /\ up' = up /\ writing # NoIntent
          \/ pass' = "none" /\ current' = FALSE /\ up' \in {up, "open", "failed"}
      BY <1>10 DEF SavePeriodicIntent, Decide, Settle
    <2>. QED  BY <2>1, <2>2 DEF WorkHolds, Widens
  <1>11. CASE FinishPass
    <2>1. /\ detached' = detached /\ detached = NoBatch /\ pass = "finish"
          /\ up \notin {"recover", "adopt"}
      BY <1>11, QueueHead DEF FinishPass, MocInv, EffectHolds
    <2>2. \/ UNCHANGED <<pass, work, current, up, intent>>
          \/ pass' = "none" /\ current' = FALSE /\ up' \in {up, "open", "failed"}
      BY <1>11 DEF FinishPass, Settle, passVars
    <2>. QED  BY <2>1, <2>2 DEF WorkHolds, Widens
  <1>12. CASE FailPass
    <2>1. /\ intent' = intent /\ detached' = detached /\ pass' = "none" /\ current' = FALSE
          /\ up' \in {"recover", "adopt"} => up \in {"recover", "adopt"}
      BY <1>12 DEF FailPass, Settle, taskVars
    <2>2. writing' = writing \/ (writing' = NoWrite /\ detached = NoBatch)
      BY <1>12, QueueHead DEF FailPass, taskVars, MocInv
    <2>. QED  BY <2>1, <2>2 DEF WorkHolds
  <1>13. CASE Leave \/ Crash
    BY <1>13 DEF Leave, Crash, Gone, WorkHolds
  <1>. QED
    BY <1>1, <1>2, <1>3, <1>4, <1>5, <1>6, <1>7, <1>8, <1>9, <1>10, <1>11, <1>12, <1>13
       DEF Next, Coordinate, Reconcile, StartUp, Receive, Environment

LEMMA AfterStep ==
    ASSUME MocInv, AfterHolds, Next
    PROVE  AfterHolds'
  <1>1. CASE UNCHANGED <<pass, phase>> \/ pass' # "after"
    BY <1>1 DEF AfterHolds
  <1>2. CASE CommitUnchanged \/ CommitEffect
    BY <1>2 DEF CommitUnchanged, CommitEffect, Atomic!Commit, Atomic!SetPhase, MocInv, TypeInv,
                ContentTypes, AfterHolds, Slot
  <1>3. CASE \/ Boot \/ SaveStartIntent \/ FailStart \/ Advance \/ PrepareEffect \/ CompareEffect
             \/ LandEffect \/ StartAdmission \/ FinishAdmission \/ FailAdmission
             \/ HandleEvent \/ (\E s \in signals : Deliver(s)) \/ WatcherFails \/ FailRead
             \/ RequestNow
             \/ Shutdown \/ OpenWatcher
             \/ (\E n \in Notes : ChangeNote(n)) \/ (\E d \in Mocs : EditMoc(d))
    <2>1. UNCHANGED <<pass, phase>>
      BY <1>3 DEF Boot, SaveStartIntent, FailStart, Advance, PrepareEffect, CompareEffect,
                  LandEffect, StartAdmission, FinishAdmission, FailAdmission, HandleEvent, Deliver,
                  WatcherFails, FailRead, RequestNow, Shutdown, OpenWatcher, ChangeNote, EditMoc,
                  Atomic!Compare, Atomic!Land, Atomic!Edit, hostRest, effectVars, passVars
    <2>. QED  BY <1>1, <2>1
  <1>4. CASE \/ RecoverEffects \/ AdoptAtStart \/ BeginEffect \/ RefuseEffect \/ FailEffect
             \/ AdoptBeforePass \/ AdoptAfterEffect \/ PlanBatch \/ RecordPending \/ PassDone
             \/ TimerTick \/ Leave \/ Crash
    <2>1. pass' # "after"
      BY <1>4 DEF RecoverEffects, AdoptAtStart, BeginEffect, RefuseEffect, FailEffect,
                  AdoptBeforePass, AdoptAfterEffect, PlanBatch, RecordPending, PassDone, TimerTick,
                  Leave, Crash, Gone, StartPass, Settle, Executing, passVars, MocInv, EffectHolds
    <2>. QED  BY <1>1, <2>1
  <1>5. CASE TickNow \/ TakeWork \/ SavePeriodicIntent \/ FinishPass \/ FailPass
    <2>1. UNCHANGED <<pass, phase>> \/ pass' # "after"
      BY <1>5 DEF TickNow, TakeWork, SavePeriodicIntent, FinishPass, FailPass, StartPass, Decide,
                  Settle, passVars, effectVars
    <2>. QED  BY <1>1, <2>1
  <1>. QED
    BY <1>2, <1>3, <1>4, <1>5
       DEF Next, Coordinate, Reconcile, StartUp, Receive, Environment

-----------------------------------------------------------------------------
(***************************************************************************)
(* Refused events.                                                         *)
(***************************************************************************)

\* Whoever serves did so before the step, unless it just saved its first intent.
LEMMA ServingBefore ==
    ASSUME Next, Serving'
    PROVE  Serving \/ SaveStartIntent
  <1>1. CASE Coordinate
    BY <1>1 DEF Coordinate, StartAdmission, FinishAdmission, TakeWork, SavePeriodicIntent,
                FinishPass, Decide, Settle, Serving, historyVars
  <1>2. CASE Reconcile
    BY <1>2 DEF Reconcile, AdoptBeforePass, PlanBatch, RecordPending, BeginEffect, RefuseEffect,
                CommitUnchanged, PrepareEffect, CompareEffect, LandEffect, CommitEffect,
                AdoptAfterEffect, PassDone, Settle, Serving, hostRest, historyVars
  <1>3. CASE StartUp
    BY <1>3 DEF StartUp, Boot, SaveStartIntent, RecoverEffects, AdoptAtStart, OpenWatcher, Leave,
                Gone, Serving, historyVars
  <1>4. CASE Receive \/ TimerTick \/ TickNow \/ Advance
    BY <1>4 DEF Receive, HandleEvent, Deliver, TimerTick, TickNow, Advance, Serving, historyVars
  <1>5. CASE Environment
    BY <1>5 DEF Environment, FailAdmission, FailEffect, FailPass, FailStart, WatcherFails, FailRead,
                RequestNow, Shutdown, Crash, Gone, ChangeNote, EditMoc, Settle, Serving, hostRest,
                historyVars
  <1>. QED  BY <1>1, <1>2, <1>3, <1>4, <1>5 DEF Next

LEMMA RefusedKept ==
    ASSUME RefusedHolds, Serving' => Serving, UNCHANGED intent, refused' \subseteq refused,
           explicit' \in Asking => explicit \in Asking,
           current' => current /\ (pass' = pass \/ pass' = "plan")
    PROVE  RefusedHolds'
  BY DEF RefusedHolds, Asking

LEMMA RefusedStep ==
    ASSUME MocInv, StaleSupport, Next
    PROVE  RefusedHolds'
  <1>. USE DEF StaleSupport
  <1>1. CASE SaveStartIntent
    <2>1. intent' = FullIntent /\ FullIntent # NoIntent /\ ~current'
      <3>1. pass = "none" /\ current' = current
        BY <1>1 DEF SaveStartIntent, passVars, MocInv, EffectHolds
      <3>2. ~current
        BY <3>1 DEF MocInv, AcceptedHolds
      <3>3. ~current'
        BY <3>1, <3>2, Zenon
      <3>. QED  BY <1>1, <3>3, IntentTyped, SentinelAssumption DEF SaveStartIntent
    <2>. QED  BY <2>1 DEF RefusedHolds, FullIntent
  <1>. SUFFICES ASSUME ~SaveStartIntent, Serving'
                PROVE  RefusedHolds'
    BY <1>1 DEF RefusedHolds
  <1>a. Serving
    BY ServingBefore
  <1>2. CASE \/ Boot \/ RecoverEffects \/ FailStart \/ Advance
             \/ BeginEffect \/ PrepareEffect \/ CompareEffect \/ LandEffect \/ StartAdmission
             \/ HandleEvent \/ (\E s \in signals : Deliver(s)) \/ WatcherFails \/ FailRead
             \/ RequestNow
             \/ Shutdown \/ OpenWatcher
             \/ (\E n \in Notes : ChangeNote(n)) \/ (\E d \in Mocs : EditMoc(d))
    <2>1. /\ UNCHANGED <<intent, pass, current, refused>>
          /\ explicit' \in Asking => explicit \in Asking
      BY <1>2 DEF Boot, RecoverEffects, FailStart, Advance, BeginEffect, PrepareEffect,
                  CompareEffect, LandEffect, StartAdmission, HandleEvent, Deliver, WatcherFails,
                  FailRead,
                  RequestNow, Shutdown, OpenWatcher, ChangeNote, EditMoc, hostRest, passVars,
                  statusVars, historyVars, Asking
    <2>. QED  BY <1>a, <2>1, RefusedKept
  <1>3. CASE \/ CommitUnchanged \/ CommitEffect \/ RecordPending \/ PassDone
    <2>1. /\ UNCHANGED <<intent, current, refused, explicit>>
          /\ pass \notin {"owner", "plan"}
      BY <1>3 DEF CommitUnchanged, CommitEffect, RecordPending, PassDone, Executing, Unprepared,
                  hostRest, statusVars, historyVars
    <2>. QED  BY <1>a, <2>1 DEF RefusedHolds
  <1>4. CASE TimerTick \/ TickNow \/ AdoptAtStart
    <2>1. /\ UNCHANGED <<intent, current, refused>>
          /\ pass' = pass \/ pass = "none"
          /\ explicit' \in Asking => explicit \in Asking
      BY <1>4 DEF TimerTick, TickNow, AdoptAtStart, StartPass, passVars, statusVars, historyVars,
                  Asking
    <2>2. pass = "none" => ~current
      BY DEF MocInv, AcceptedHolds
    <2>3. CASE pass' = pass
      BY <1>a, <2>1, <2>3, RefusedKept
    <2>4. CASE pass = "none"
      <3>1. ~current'
        BY <2>1, <2>2, <2>4, Zenon
      <3>. QED  BY <1>a, <2>1, <3>1, RefusedKept
    <2>. QED  BY <2>1, <2>3, <2>4
  <1>5. CASE RefuseEffect \/ FailEffect \/ AdoptAfterEffect \/ FailPass
    <2>1. UNCHANGED <<intent, refused>>
      BY <1>5 DEF RefuseEffect, FailEffect, AdoptAfterEffect, FailPass, hostRest, historyVars
    <2>2. \/ Settle(FALSE, intent)
          \/ UNCHANGED <<current, explicit>> /\ pass = "after"
      BY <1>5 DEF RefuseEffect, FailEffect, AdoptAfterEffect, FailPass, statusVars
    <2>3. CASE Settle(FALSE, intent)
      <3>1. ~current' /\ (explicit' \in Asking => explicit \in Asking)
        BY <2>3 DEF Settle, Asking
      <3>. QED  BY <1>a, <2>1, <3>1, RefusedKept
    <2>4. CASE UNCHANGED <<current, explicit>> /\ pass = "after"
      BY <1>a, <2>1, <2>4 DEF RefusedHolds
    <2>. QED  BY <2>2, <2>3, <2>4
  <1>6. CASE AdoptBeforePass
    <2>1. UNCHANGED <<intent, refused>>
      BY <1>6 DEF AdoptBeforePass, historyVars
    <2>2. /\ current' => current /\ (pass' = pass \/ pass' = "plan")
          /\ explicit' \in Asking => explicit \in Asking
      <3>1. CASE Settle(FALSE, intent)
        BY <3>1 DEF Settle, Asking
      <3>2. CASE ~Settle(FALSE, intent)
        <4>1. UNCHANGED <<current, explicit>> /\ pass' = "plan"
          BY <1>6, <3>2 DEF AdoptBeforePass, statusVars
        <4>. QED  BY <4>1, Zenon
      <3>. QED  BY <3>1, <3>2
    <2>. QED  BY <1>a, <2>1, <2>2, RefusedKept
  <1>7. CASE PlanBatch
    <2>1. intent' = intent /\ refused' = {n \in refused : ~InScope(n, work)}
      BY <1>7 DEF PlanBatch
    <2>2. CASE Settle(FALSE, intent)
      <3>1. ~current' /\ (explicit' \in Asking => explicit \in Asking)
        BY <2>2 DEF Settle, Asking
      <3>2. refused' \subseteq refused
        BY <2>1
      <3>. QED  BY <1>a, <2>1, <3>1, <3>2, RefusedKept
    <2>3. CASE ~Settle(FALSE, intent)
      <3>1. UNCHANGED <<current, explicit>>
        BY <1>7, <2>3 DEF PlanBatch, statusVars
      <3>2. current /\ intent.full => refused' = {}
        BY <2>1 DEF WorkHolds, InScope
      <3>. QED  BY <1>a, <2>1, <3>1, <3>2 DEF RefusedHolds
    <2>. QED  BY <2>2, <2>3
  <1>8. CASE FinishAdmission
    <2>1. detached # NoBatch /\ writing \in Intents /\ writing # NoIntent
      BY <1>8, Saving, SentinelAssumption DEF FinishAdmission, MocInv, WritingHolds
    <2>2. /\ intent' = writing /\ current' = FALSE /\ refused' = refused
          /\ explicit' = explicit \/ "explicit" \in detached.waiters
      BY <1>8 DEF FinishAdmission
    <2>3. "explicit" \in detached.waiters => writing.full
      BY <2>1 DEF BatchHolds, WorkHolds
    <2>4. intent # NoIntent /\ intent.full => writing.full
      BY <2>1 DEF WorkHolds, Widens
    <2>. QED  BY <1>a, <2>1, <2>2, <2>3, <2>4 DEF RefusedHolds
  <1>9. CASE FailAdmission
    <2>1. explicit' \in Asking => explicit \in Asking /\ overlooked'
      BY <1>9 DEF FailAdmission, Asking
    <2>. QED  BY <2>1 DEF Serving, RefusedHolds, Asking
  <1>10. CASE TakeWork
    <2>1. UNCHANGED <<intent, refused>> /\ pass = "take"
      BY <1>10, QueueHead DEF TakeWork, historyVars, MocInv
    <2>2. /\ explicit' \in Asking => explicit \in Asking
          /\ current' => pass' = "owner" \/ UNCHANGED <<pass, current>>
      BY <1>10 DEF TakeWork, Decide, Settle, Asking, passVars, statusVars
    <2>. QED  BY <1>a, <2>1, <2>2 DEF RefusedHolds, Asking
  <1>11. CASE SavePeriodicIntent
    <2>1. intent' = FullIntent /\ FullIntent # NoIntent /\ refused' = refused
      BY <1>11, QueueHead, IntentTyped, SentinelAssumption
         DEF SavePeriodicIntent, historyVars, MocInv, WritingHolds, Task
    <2>2. current' => pass' = "owner"
      BY <1>11 DEF SavePeriodicIntent, Decide, Settle
    <2>. QED  BY <2>1, <2>2 DEF RefusedHolds, FullIntent
  <1>12. CASE FinishPass
    <2>1. pass = "finish" /\ detached = NoBatch /\ refused' = refused
      BY <1>12, QueueHead DEF FinishPass, MocInv
    <2>2. CASE writing = NoWrite /\ ~Obsolete /\ UNCHANGED <<intent, passVars, statusVars>>
      BY <1>a, <2>1, <2>2, RefusedKept DEF passVars, statusVars
    <2>3. CASE ~(writing = NoWrite /\ ~Obsolete /\ UNCHANGED <<intent, passVars, statusVars>>)
      <3>1. /\ intent' = IF writing = NoIntent THEN NoIntent ELSE intent
            /\ Settle(TRUE, intent')
        BY <1>12, <2>3 DEF FinishPass
      <3>2. ~current' /\ (explicit' \in Asking => explicit \in Asking)
        BY <3>1 DEF Settle, Asking
      <3>3. writing = NoIntent => current
        BY <1>12, <2>1, SentinelAssumption DEF FinishPass, Task, MocInv, WritingHolds
      <3>. QED  BY <1>a, <2>1, <3>1, <3>2, <3>3 DEF RefusedHolds, Asking
    <2>. QED  BY <2>2, <2>3
  <1>13. CASE Leave \/ Crash
    BY <1>13 DEF Leave, Crash, Gone, Serving
  <1>. QED
    BY <1>2, <1>3, <1>4, <1>5, <1>6, <1>7, <1>8, <1>9, <1>10, <1>11, <1>12, <1>13
       DEF Next, Coordinate, Reconcile, StartUp, Receive, Environment
-----------------------------------------------------------------------------
(***************************************************************************)
(* What a note that changed is noticed by.                                 *)
(***************************************************************************)

\* The stages of a pass that has its plans.
Applying == {"effects", "execute", "after", "finish"}

Intended(n) == intent # NoIntent /\ InScope(n, intent)
Signalled(n) == \/ n \in signals \/ handler = n \/ Asked(n)
                \/ n \in refused /\ error = "EVENT_PERSIST_FAILED"
Noticed(n) == Signalled(n) \/ (~current /\ Intended(n))
Behind(n, text) == text # Absent /\ text.body[n] # src[n]

\* A target that is behind a note is covered by the intent.  What the pass has
\* planned is as new as the note, or the change was noticed after the plan.  A
\* pass that will clear the intent has a plan for each target that is behind.
Reflected(n) ==
    /\ Stale(n) => Signalled(n) \/ Intended(n)
    /\ \A p \in plans : n \in NotesIn(p.target) /\ Behind(n, p.proposed) => Noticed(n)
    /\ current /\ pass \in Applying /\ InScope(n, work) =>
           \A d \in Mocs : n \in NotesIn(d) /\ Behind(n, vault[d]) =>
               Signalled(n) \/ \E p \in plans : p.target = d

StaleHolds == Serving => \A n \in Notes \ missed : Reflected(n)

\* What is on its way needs no more.
LEMMA ReflectedSignalled ==
    ASSUME NEW n \in Notes, Signalled(n)'
    PROVE  Reflected(n)'
  BY DEF Reflected, Noticed

\* Nothing is planned.
LEMMA ReflectedIdle ==
    ASSUME NEW n \in Notes, Stale(n)' => Signalled(n)' \/ Intended(n)', plans' = {},
           ~current' \/ pass' \notin Applying
    PROVE  Reflected(n)'
  BY DEF Reflected

\* The pass goes on with its plans, and what was noticed stays noticed.
LEMMA ReflectedKept ==
    ASSUME NEW n \in Notes, Reflected(n), src'[n] = src[n],
           \A d \in Mocs : vault'[d] = Absent \/ (vault[d] # Absent /\ vault'[d].body = vault[d].body),
           UNCHANGED <<plans, work>>,
           Signalled(n) => Noticed(n)', ~current /\ Intended(n) => Noticed(n)',
           Intended(n) => Signalled(n)' \/ Intended(n)',
           current' => current /\ (pass' \in Applying => pass \in Applying)
    PROVE  Reflected(n)'
  <1>1. Noticed(n)' => Signalled(n)' \/ Intended(n)'
    BY DEF Noticed
  <1>2. \A d \in Mocs : Behind(n, vault[d])' => Behind(n, vault[d])
    BY DEF Behind
  <1>3. Stale(n)' => Signalled(n)' \/ Intended(n)'
    BY <1>1, <1>2 DEF Stale, Behind, Reflected
  <1>4. \A p \in plans : Behind(n, p.proposed)' => Behind(n, p.proposed)
    BY DEF Behind
  <1>5. ASSUME NEW p \in plans', n \in NotesIn(p.target), Behind(n, p.proposed)'
        PROVE  Noticed(n)'
    <2>1. p \in plans /\ Behind(n, p.proposed)
      BY <1>4, <1>5
    <2>2. Noticed(n)
      BY <1>5, <2>1 DEF Reflected
    <2>. QED  BY <2>2 DEF Noticed
  <1>6. ASSUME current', pass' \in Applying, InScope(n, work)', NEW d \in Mocs, n \in NotesIn(d),
               Behind(n, vault[d])'
        PROVE  Signalled(n)' \/ \E p \in plans' : p.target = d
    <2>1. current /\ pass \in Applying /\ InScope(n, work)
      BY <1>6 DEF InScope, Scopes
    <2>2. Signalled(n) \/ \E p \in plans : p.target = d
      BY <1>2, <1>6, <2>1 DEF Reflected
    <2>3. Signalled(n) => Signalled(n)'
      BY <1>6 DEF Noticed
    <2>. QED  BY <2>2, <2>3
  <1>. QED  BY <1>3, <1>5, <1>6 DEF Reflected

\* A step that does not concern what is noticed.
LEMMA ReflectedUntouched ==
    ASSUME NEW n \in Notes, Reflected(n), src'[n] = src[n],
           \A d \in Mocs : vault'[d] = Absent \/ (vault[d] # Absent /\ vault'[d].body = vault[d].body),
           UNCHANGED <<plans, work, current, intent, batch, detached, refused, error>>,
           handler' = handler \/ handler # n, signals \subseteq signals',
           pass' = pass \/ pass' \notin Applying \/ pass \in Applying
    PROVE  Reflected(n)'
  <1>1. Signalled(n) => Signalled(n)'
    BY DEF Signalled, Asked
  <1>2. Intended(n)' <=> Intended(n)
    BY DEF Intended, InScope, Scopes
  <1>3. current' <=> current
    OBVIOUS
  <1>. QED  BY <1>1, <1>2, <1>3, ReflectedKept DEF Noticed

\* What is asked for when somebody enqueues a file, or everything.
LEMMA EnqueueAsks ==
    ASSUME MocInv, NEW f \in Files \cup {"full"},
           NEW w \in {"handler", "storm", "explicit", "start", "shutdown"}, Enqueue(f, w),
           NEW n \in Notes
    PROVE  /\ Asked(n) => Asked(n)'
           /\ f \in {n, "full"} => Asked(n)'
  <1>1. batch' \in Batches /\ batch' # NoBatch
    BY JoinTyped DEF MocInv, TypeInv, IntentTypes
  <1>2. n \in Files /\ n # "full"
    BY SentinelAssumption DEF Files
  <1>3. f = "full" => n \in batch'.asked
    BY <1>2, EnqueueJoins
  <1>4. f = n => n \in batch'.asked
    BY <1>2, EnqueueJoins
  <1>5. batch # NoBatch => batch.asked \subseteq batch'.asked
    BY EnqueueJoins
  <1>6. detached' = detached
    BY DEF Enqueue
  <1>. QED  BY <1>1, <1>3, <1>4, <1>5, <1>6 DEF Asked

\* A tick that settles leaves a refused event in the status.
LEMMA SettleKeepsError ==
    ASSUME NEW ok, NEW left, Settle(ok, left), error = "EVENT_PERSIST_FAILED",
           ~(ok /\ left = NoIntent /\ explicit = "rejoined")
    PROVE  error' = "EVENT_PERSIST_FAILED"
  BY DEF Settle

LEMMA SettledSignals ==
    ASSUME NEW ok, NEW left, Settle(ok, left), UNCHANGED <<signals, handler, batch, detached, refused>>,
           refused # {} => ~(ok /\ left = NoIntent /\ explicit = "rejoined"), NEW n \in Notes,
           Signalled(n)
    PROVE  Signalled(n)'
  BY SettleKeepsError DEF Signalled, Asked

\* A tick that settles without clearing the intent.
LEMMA SettledReflected ==
    ASSUME NEW ok, NEW left, Settle(ok, left),
           UNCHANGED <<src, vault, intent, signals, handler, batch, detached, refused>>,
           refused # {} => ~(ok /\ left = NoIntent /\ explicit = "rejoined"), NEW n \in Notes,
           Reflected(n)
    PROVE  Reflected(n)'
  <1>1. Signalled(n) => Signalled(n)'
    BY SettledSignals
  <1>2. Intended(n)' <=> Intended(n)
    BY DEF Intended, InScope, Scopes
  <1>3. Stale(n)' <=> Stale(n)
    BY DEF Stale
  <1>4. Stale(n)' => Signalled(n)' \/ Intended(n)'
    BY <1>1, <1>2, <1>3 DEF Reflected
  <1>5. plans' = {} /\ ~current'
    BY DEF Settle
  <1>6. Reflected(n)'
    BY <1>4, <1>5, ReflectedIdle
  <1>. QED  BY <1>6

\* How what a pass plans relates to the notes.
LEMMA PlanReflects ==
    ASSUME MocInv, NEW n \in Notes, NEW d \in Mocs, n \in NotesIn(d)
    PROVE  /\ PlanFor(d).target = d /\ ~Behind(n, PlanFor(d).proposed)
           /\ \A i : InScope(n, i) => InScope(d, i)
  <1>1. ProposedFor(d).body = Body(d, src)
    BY DEF ProposedFor, Text
  <1>2. ProposedFor(d).body[n] = src[n]
    BY <1>1 DEF Body
  <1>3. DirOf[n] = DirOf[d]
    BY DEF NotesIn
  <1>. QED  BY <1>2, <1>3 DEF PlanFor, Behind, InScope

LEMMA StalePlanned ==
    ASSUME MocInv, StaleSupport, StaleHolds, Serving, PlanBatch, NEW n \in Notes \ missed'
    PROVE  Reflected(n)'
  <1>. DEFINE scope == {d \in Mocs : InScope(d, work)}
  <1>1. /\ UNCHANGED <<src, vault, intent, batch, detached, signals, handler>>
        /\ refused' = {m \in refused : ~InScope(m, work)}
        /\ missed' = {m \in missed : ~InScope(m, work)} /\ pass = "plan"
    BY DEF PlanBatch, taskVars, eventVars
  <1>2. InScope(n, work) => Intended(n)
    <2>1. intent # NoIntent /\ Widens(intent, work) /\ {intent, work} \subseteq Intents
      BY <1>1 DEF StaleSupport, WorkHolds, MocInv, TypeInv, IntentTypes
    <2>. QED  BY <2>1, WidensScope DEF Intended
  <1>3. Intended(n)' <=> Intended(n)
    BY <1>1 DEF Intended, InScope, Scopes
  <1>4. n \in missed => Intended(n)
    BY <1>1, <1>2
  <1>5. error = "EVENT_PERSIST_FAILED" => error' = "EVENT_PERSIST_FAILED"
    <2>1. CASE Settle(FALSE, intent)
      BY <2>1, SettleKeepsError
    <2>2. CASE ~Settle(FALSE, intent)
      BY <2>2 DEF PlanBatch, statusVars
    <2>. QED  BY <2>1, <2>2
  <1>6. Signalled(n) => Signalled(n)' \/ Intended(n)
    BY <1>1, <1>2, <1>5 DEF Signalled, Asked
  <1>7. Stale(n)' => Signalled(n)' \/ Intended(n)'
    BY <1>1, <1>3, <1>4, <1>6 DEF Stale, StaleHolds, Reflected
  <1>8. CASE Settle(FALSE, intent)
    <2>1. plans' = {} /\ ~current'
      BY <1>8 DEF Settle
    <2>. QED  BY <1>7, <2>1, ReflectedIdle
  <1>9. CASE ~Settle(FALSE, intent)
    <2>1. plans' = {PlanFor(d) : d \in scope} /\ work' = work
      BY <1>9 DEF PlanBatch
    <2>2. ASSUME NEW p \in plans', n \in NotesIn(p.target)
          PROVE  ~Behind(n, p.proposed)'
      <3>1. PICK d \in scope : p = PlanFor(d)
        BY <2>1
      <3>2. p.target = d
        BY <3>1 DEF PlanFor
      <3>3. ~Behind(n, p.proposed)
        BY <2>2, <3>1, <3>2, PlanReflects
      <3>. QED  BY <1>1, <3>3 DEF Behind
    <2>3. ASSUME NEW d \in Mocs, n \in NotesIn(d), InScope(n, work)'
          PROVE  \E p \in plans' : p.target = d
      <3>1. InScope(n, work)
        BY <2>1, <2>3 DEF InScope, Scopes
      <3>2. d \in scope /\ PlanFor(d).target = d
        BY <2>3, <3>1, PlanReflects
      <3>. QED  BY <2>1, <3>2
    <2>. QED  BY <1>7, <2>2, <2>3 DEF Reflected
  <1>. QED  BY <1>8, <1>9

\* The rename of an effect brings the target to where its plan was.
LEMMA StaleLanded ==
    ASSUME MocInv, StaleHolds, Serving, LandEffect, NEW n \in Notes \ missed'
    PROVE  Reflected(n)'
  <1>1. /\ UNCHANGED <<src, intent, batch, detached, handler, missed, refused, error, plans, work,
                      current, pass>>
        /\ signals \subseteq signals' /\ pass = "execute"
        /\ vault' = [vault EXCEPT ![Effect.target] = Effect.proposed]
    BY DEF LandEffect, Atomic!Land, Executing, Effect, hostRest, taskVars, passVars, statusVars
  <1>2. Effect \in plans /\ Effect.target \in Mocs
    BY <1>1 DEF MocInv, EffectHolds, TypeInv, ContentTypes, EffectPlans
  <1>3. Reflected(n)
    BY <1>1 DEF StaleHolds
  <1>4. /\ Signalled(n) => Signalled(n)'
        /\ Intended(n)' <=> Intended(n)
    BY <1>1 DEF Signalled, Asked, Intended, InScope, Scopes
  <1>6. ASSUME NEW d \in Mocs, n \in NotesIn(d), Behind(n, vault[d])'
        PROVE  Behind(n, vault[d]) \/ (d = Effect.target /\ Behind(n, Effect.proposed))
    BY <1>1, <1>2, <1>6 DEF Behind, MocInv, TypeInv, ContentTypes
  <1>7. n \in NotesIn(Effect.target) /\ Behind(n, Effect.proposed) => Noticed(n)
    BY <1>2, <1>3 DEF Reflected
  <1>8. Stale(n)' => Signalled(n)' \/ Intended(n)'
    <2>. SUFFICES ASSUME Stale(n)'
                  PROVE  Signalled(n) \/ Intended(n)
      BY <1>4
    <2>1. PICK d \in Mocs : n \in NotesIn(d) /\ Behind(n, vault[d])'
      BY DEF Stale, Behind
    <2>2. CASE Behind(n, vault[d])
      BY <1>3, <2>1, <2>2 DEF Reflected, Stale, Behind
    <2>3. CASE d = Effect.target /\ Behind(n, Effect.proposed)
      BY <1>7, <2>1, <2>3 DEF Noticed
    <2>. QED  BY <1>6, <2>1, <2>2, <2>3
  <1>9. ASSUME NEW p \in plans', n \in NotesIn(p.target), Behind(n, p.proposed)'
        PROVE  Noticed(n)'
    <2>1. p \in plans /\ Behind(n, p.proposed)
      BY <1>1, <1>9 DEF Behind
    <2>2. Noticed(n)
      BY <1>3, <1>9, <2>1 DEF Reflected
    <2>. QED  BY <1>1, <1>4, <2>2 DEF Noticed
  <1>10. ASSUME current', pass' \in Applying, InScope(n, work)', NEW d \in Mocs, n \in NotesIn(d),
                Behind(n, vault[d])'
         PROVE  Signalled(n)' \/ \E p \in plans' : p.target = d
    <2>1. current /\ pass \in Applying /\ InScope(n, work)
      BY <1>1, <1>10 DEF InScope, Scopes
    <2>2. CASE Behind(n, vault[d])
      BY <1>1, <1>3, <1>4, <1>10, <2>1, <2>2 DEF Reflected
    <2>3. CASE d = Effect.target
      BY <1>1, <1>2, <2>3
    <2>. QED  BY <1>6, <1>10, <2>2, <2>3
  <1>. QED  BY <1>8, <1>9, <1>10 DEF Reflected

\* The plan of a committed effect is done with: its target holds what it proposed.
LEMMA StaleAdopted ==
    ASSUME MocInv, StaleSupport, StaleHolds, Serving, AdoptAfterEffect, ~Settle(FALSE, intent),
           NEW n \in Notes \ missed'
    PROVE  Reflected(n)'
  <1>1. /\ UNCHANGED <<src, vault, intent, batch, detached, handler, signals, missed, refused, error,
                      work, current>>
        /\ pass = "after" /\ pass' = "effects" /\ plans' = plans \ {Effect} /\ OwnershipKnown
    BY DEF AdoptAfterEffect, RecoverOwnership, taskVars, statusVars, historyVars
  <1>2. vault[Effect.target] = Effect.proposed /\ Effect \in plans
    BY <1>1 DEF OwnershipKnown, StaleSupport, AfterHolds, MocInv, EffectHolds
  <1>3. Reflected(n)
    BY <1>1 DEF StaleHolds
  <1>4. /\ Signalled(n)' <=> Signalled(n)
        /\ Intended(n)' <=> Intended(n)
        /\ Noticed(n)' <=> Noticed(n)
    BY <1>1 DEF Noticed, Signalled, Asked, Intended, InScope, Scopes
  <1>5. Stale(n)' => Signalled(n)' \/ Intended(n)'
    BY <1>1, <1>3, <1>4 DEF Reflected, Stale
  <1>6. \A p \in plans' : n \in NotesIn(p.target) /\ Behind(n, p.proposed)' => Noticed(n)'
    BY <1>1, <1>3, <1>4 DEF Reflected, Behind
  <1>7. ASSUME current', InScope(n, work)', NEW d \in Mocs, n \in NotesIn(d), Behind(n, vault[d])'
        PROVE  Signalled(n)' \/ \E p \in plans' : p.target = d
    <2>1. current /\ pass \in Applying /\ InScope(n, work) /\ Behind(n, vault[d])
      BY <1>1, <1>7 DEF InScope, Scopes, Behind, Applying
    <2>2. Signalled(n) \/ \E p \in plans : p.target = d
      BY <1>3, <1>7, <2>1 DEF Reflected
    <2>3. CASE d = Effect.target
      <3>1. Noticed(n)
        BY <1>2, <1>3, <1>7, <2>1, <2>3 DEF Reflected
      <3>. QED  BY <1>4, <2>1, <3>1 DEF Noticed
    <2>4. CASE d # Effect.target
      BY <1>1, <1>4, <2>2, <2>4
    <2>. QED  BY <2>3, <2>4
  <1>. QED  BY <1>5, <1>6, <1>7 DEF Reflected

\* The end of a pass clears the intent when all it covers is reflected.
LEMMA StaleFinished ==
    ASSUME MocInv, StaleSupport, StaleHolds, Serving, FinishPass, NEW n \in Notes \ missed'
    PROVE  Reflected(n)'
  <1>1. /\ UNCHANGED <<src, vault, batch, detached, handler, signals, missed, refused>>
        /\ pass = "finish" /\ detached = NoBatch
    BY QueueHead DEF FinishPass, eventVars, MocInv
  <1>2. Reflected(n) /\ plans = {}
    BY <1>1 DEF StaleHolds, MocInv, EffectHolds
  <1>3. CASE UNCHANGED <<intent, passVars, statusVars>>
    BY <1>1, <1>2, <1>3, ReflectedUntouched DEF passVars, statusVars
  <1>4. CASE ~UNCHANGED <<intent, passVars, statusVars>>
    <2>1. /\ intent' = IF writing = NoIntent THEN NoIntent ELSE intent
          /\ Settle(TRUE, intent') /\ plans' = {} /\ ~current'
      BY <1>4 DEF FinishPass, Settle
    <2>2. writing = NoIntent => current
      BY <1>1, SentinelAssumption DEF FinishPass, Task, MocInv, WritingHolds
    <2>3. explicit = "rejoined" /\ refused # {} => intent' # NoIntent
      BY <1>1, <2>1, <2>2 DEF StaleSupport, RefusedHolds, Asking
    <2>4. Signalled(n) => Signalled(n)'
      BY <1>1, <2>1, <2>3, SettledSignals
    <2>5. Stale(n)' <=> Stale(n)
      BY <1>1 DEF Stale
    <2>6. CASE writing = NoIntent
      <3>1. Stale(n) /\ Intended(n) => Signalled(n)
        <4>1. InScope(n, work) <=> InScope(n, intent)
          BY <2>2, <2>6 DEF StaleSupport, WorkHolds
        <4>. QED
          BY <1>1, <1>2, <2>2, <2>6, <4>1 DEF Reflected, Stale, Behind, Intended, Applying
      <3>2. Stale(n)' => Signalled(n)'
        BY <1>2, <2>4, <2>5, <3>1 DEF Reflected
      <3>. QED  BY <2>1, <3>2, ReflectedIdle
    <2>7. CASE writing # NoIntent
      BY <1>1, <1>2, <2>1, <2>3, <2>7, SettledReflected
    <2>. QED  BY <2>6, <2>7
  <1>. QED  BY <1>3, <1>4

\* What a saved batch answers for is in the intent; what could not be saved is
\* in the status.
LEMMA StaleAdmitted ==
    ASSUME MocInv, StaleSupport, StaleHolds, Serving,
           StartAdmission \/ FinishAdmission \/ FailAdmission, NEW n \in Notes \ missed'
    PROVE  Reflected(n)'
  <1>1. /\ UNCHANGED <<src, vault, signals, missed, plans, work, pass>>
        /\ Task("admit") /\ (StartAdmission <=> writing = NoWrite)
    BY DEF StartAdmission, FinishAdmission, FailAdmission, passVars, eventVars, historyVars
  <1>2. Reflected(n)
    BY <1>1 DEF StaleHolds
  <1>3. n # "full" /\ n \in Files
    BY SentinelAssumption DEF Files
  <1>4. CASE StartAdmission
    <2>1. /\ UNCHANGED <<intent, current, handler, refused, error>>
          /\ detached' = batch /\ detached = NoBatch
      BY <1>4, Saving DEF StartAdmission, passVars, eventVars, statusVars, historyVars
    <2>2. Signalled(n) => Signalled(n)'
      BY <1>1, <2>1 DEF Signalled, Asked
    <2>3. Intended(n)' <=> Intended(n)
      BY <2>1 DEF Intended, InScope, Scopes
    <2>. QED  BY <1>1, <1>2, <2>1, <2>2, <2>3, ReflectedKept DEF Noticed, MocInv, TypeInv, ContentTypes
  <1>5. CASE FinishAdmission
    <2>1. /\ detached # NoBatch /\ writing \in Intents
          /\ \A f \in detached.asked : Covers(writing, f)
      BY <1>5, Saving DEF FinishAdmission, MocInv, WritingHolds
    <2>2. /\ intent' = writing /\ current' = FALSE /\ UNCHANGED <<batch, refused, error>>
          /\ handler' = IF "handler" \in detached.waiters THEN NoSignal ELSE handler
      BY <1>5 DEF FinishAdmission
    <2>3. intent' # NoIntent
      BY <2>1, <2>2, SentinelAssumption
    <2>4. n \in detached.asked => Intended(n)'
      BY <2>1, <2>2, <2>3, CoveredInScope DEF Intended, InScope, Scopes
    <2>5. Intended(n) => Intended(n)'
      <3>1. Widens(writing, intent)
        BY <2>1 DEF StaleSupport, WorkHolds
      <3>2. Intended(n) => InScope(n, writing)
        BY <2>1, <3>1, WidensScope DEF Intended, MocInv, TypeInv, IntentTypes
      <3>. QED  BY <2>2, <2>3, <3>2 DEF Intended, InScope, Scopes
    <2>6. handler = n => handler' = n \/ n \in detached.asked
      BY <1>3, <2>1, <2>2 DEF StaleSupport, BatchHolds
    <2>7. Signalled(n) => Signalled(n)' \/ Intended(n)'
      BY <1>1, <2>2, <2>4, <2>6 DEF Signalled, Asked
    <2>8. Noticed(n)' <=> Signalled(n)' \/ Intended(n)'
      BY <2>2 DEF Noticed
    <2>. QED  BY <1>1, <1>2, <2>2, <2>5, <2>7, <2>8, ReflectedKept
  <1>6. CASE FailAdmission
    <2>1. detached # NoBatch
      BY <1>6, Saving DEF FailAdmission
    <2>2. /\ UNCHANGED <<intent, current, batch>> /\ error' = "EVENT_PERSIST_FAILED"
          /\ refused' = refused \cup (detached.asked \cap Notes)
          /\ handler' = IF "handler" \in detached.waiters THEN NoSignal ELSE handler
      BY <1>6 DEF FailAdmission, passVars
    <2>3. n \in refused \cup detached.asked => Signalled(n)'
      BY <2>2 DEF Signalled
    <2>4. handler = n => handler' = n \/ n \in detached.asked
      BY <1>3, <2>1, <2>2 DEF StaleSupport, BatchHolds
    <2>5. Signalled(n) => Signalled(n)'
      BY <1>1, <2>2, <2>3, <2>4 DEF Signalled, Asked
    <2>6. Intended(n)' <=> Intended(n)
      BY <2>2 DEF Intended, InScope, Scopes
    <2>. QED  BY <1>1, <1>2, <2>2, <2>5, <2>6, ReflectedKept DEF Noticed
  <1>. QED  BY <1>4, <1>5, <1>6

\* Events are delivered and handled.
LEMMA StaleReceived ==
    ASSUME MocInv, StaleSupport, StaleHolds, Serving,
           \/ HandleEvent \/ (\E s \in signals : Deliver(s)) \/ WatcherFails \/ FailRead
           \/ RequestNow
           \/ OpenWatcher,
           NEW n \in Notes \ missed'
    PROVE  Reflected(n)'
  <1>1. /\ UNCHANGED <<src, vault, intent, plans, work, current, pass, refused>>
        /\ n \notin missed
    BY DEF HandleEvent, Deliver, WatcherFails, FailRead, RequestNow, OpenWatcher, passVars,
           historyVars
  <1>2. Reflected(n)
    BY <1>1 DEF StaleHolds
  <1>3. ASSUME NEW w \in {"handler", "storm", "explicit", "start", "shutdown"}, Enqueue("full", w)
        PROVE  Reflected(n)'
    BY <1>3, EnqueueAsks, ReflectedSignalled DEF Signalled
  <1>4. CASE UNCHANGED taskVars /\ error' = error /\ signals \subseteq signals' /\ (handler' = handler \/ handler # n)
    BY <1>1, <1>2, <1>4, ReflectedUntouched DEF taskVars
  <1>5. CASE HandleEvent
    <2>1. signals' = signals /\ error' = error
      BY <1>5 DEF HandleEvent, statusVars
    <2>2. CASE handler \in Mocs /\ UNCHANGED taskVars
      <3>1. handler # n
        BY <2>2, MocAssumption
      <3>. QED  BY <1>4, <2>1, <2>2, <3>1
    <2>3. CASE ~(handler \in Mocs /\ UNCHANGED taskVars)
      <3>1. Enqueue(handler, "handler") /\ handler' = handler /\ handler \in Files
        BY <1>5, <2>3 DEF HandleEvent
      <3>2. Asked(n) => Asked(n)'
        BY <3>1, EnqueueAsks
      <3>3. Signalled(n) => Signalled(n)'
        BY <1>1, <2>1, <3>1, <3>2 DEF Signalled
      <3>4. Intended(n)' <=> Intended(n)
        BY <1>1 DEF Intended, InScope, Scopes
      <3>. QED  BY <1>1, <1>2, <3>3, <3>4, ReflectedKept DEF Noticed
    <2>. QED  BY <2>2, <2>3
  <1>6. CASE \E s \in signals : Deliver(s)
    <2>1. PICK s \in signals : Deliver(s)
      BY <1>6
    <2>2. CASE handler # NoSignal
      BY <1>3, <2>1, <2>2 DEF Deliver
    <2>3. CASE handler = NoSignal /\ s = "full"
      BY <1>3, <2>1, <2>3 DEF Deliver
    <2>4. CASE handler = NoSignal /\ s # "full"
      <3>1. /\ handler' = s /\ UNCHANGED taskVars /\ error' = error /\ signals' = signals \ {s}
        BY <2>1, <2>4 DEF Deliver, statusVars
      <3>2. n # NoSignal
        BY SentinelAssumption DEF Files
      <3>3. Signalled(n) => Signalled(n)'
        BY <1>1, <2>4, <3>1, <3>2 DEF Signalled, Asked, taskVars
      <3>4. Intended(n)' <=> Intended(n)
        BY <1>1 DEF Intended, InScope, Scopes
      <3>. QED  BY <1>1, <1>2, <3>3, <3>4, ReflectedKept DEF Noticed
    <2>. QED  BY <2>2, <2>3, <2>4
  <1>7. CASE WatcherFails \/ RequestNow
    BY <1>3, <1>7 DEF WatcherFails, RequestNow
  <1>7b. CASE FailRead
    <2>1. /\ UNCHANGED <<batch, detached, signals, refused, intent, current>>
          /\ handler \in Mocs /\ error' = "EVENT_PERSIST_FAILED"
      BY <1>1, <1>7b DEF FailRead, taskVars
    <2>2. handler # n
      BY <2>1, MocAssumption
    <2>3. Signalled(n) => Signalled(n)'
      BY <2>1, <2>2 DEF Signalled, Asked
    <2>4. Intended(n)' <=> Intended(n)
      BY <2>1 DEF Intended, InScope, Scopes
    <2>. QED  BY <1>1, <1>2, <2>3, <2>4, ReflectedKept DEF Noticed
  <1>8. CASE OpenWatcher
    BY <1>3, <1>4, <1>8 DEF OpenWatcher
  <1>. QED  BY <1>5, <1>6, <1>7, <1>7b, <1>8

LEMMA StaleStep ==
    ASSUME MocInv, StaleSupport, StaleSupport', StaleHolds, Next
    PROVE  StaleHolds'
  <1>. SUFFICES ASSUME Serving', NEW n \in Notes \ missed'
                PROVE  Reflected(n)'
    BY DEF StaleHolds
  <1>1. CASE SaveStartIntent \/ RecoverEffects
    <2>1. pass = "none" /\ UNCHANGED <<pass, plans>> /\ up' \in {"recover", "adopt"}
      BY <1>1 DEF SaveStartIntent, RecoverEffects, passVars, MocInv, EffectHolds, Serving
    <2>2. plans' = {} /\ pass' \notin Applying
      BY <2>1 DEF MocInv, EffectHolds, Applying
    <2>3. intent' = FullIntent /\ FullIntent # NoIntent
      BY <2>1, IntentTyped, SentinelAssumption DEF StaleSupport, WorkHolds
    <2>4. Intended(n)'
      BY <2>3 DEF Intended, InScope, FullIntent
    <2>. QED  BY <2>2, <2>4, ReflectedIdle
  <1>. SUFFICES ASSUME ~SaveStartIntent, ~RecoverEffects
                PROVE  Reflected(n)'
    BY <1>1
  <1>2. Serving
    BY ServingBefore
  <1>3. ASSUME n \notin missed
        PROVE  Reflected(n)
    BY <1>2, <1>3 DEF StaleHolds
  <1>4. CASE \/ Boot \/ FailStart \/ Shutdown \/ Leave \/ Crash
    BY <1>4 DEF Boot, FailStart, Shutdown, Leave, Crash, Gone, Serving
  <1>5. CASE \/ BeginEffect \/ PrepareEffect \/ CompareEffect \/ CommitUnchanged \/ CommitEffect
             \/ RecordPending \/ PassDone \/ TimerTick \/ Advance \/ AdoptAtStart
    <2>1. UNCHANGED <<src, vault, plans, work, current, intent, batch, detached, refused, error,
                      handler, signals, missed>>
      BY <1>5 DEF BeginEffect, PrepareEffect, CompareEffect, CommitUnchanged, CommitEffect,
                  RecordPending, PassDone, TimerTick, Advance, AdoptAtStart, StartPass, hostRest,
                  taskVars, passVars, statusVars, eventVars, historyVars, Atomic!Begin,
                  Atomic!Compare, Atomic!Commit
    <2>2. pass' = pass \/ pass' \notin Applying \/ pass \in Applying
      BY <1>5 DEF BeginEffect, PrepareEffect, CompareEffect, CommitUnchanged, CommitEffect,
                  RecordPending, PassDone, TimerTick, Advance, AdoptAtStart, StartPass, Executing,
                  Unprepared, passVars, Applying
    <2>. QED  BY <1>3, <2>1, <2>2, ReflectedUntouched
  <1>6. CASE \E m \in Notes : ChangeNote(m)
    <2>1. PICK m \in Notes : ChangeNote(m)
      BY <1>6
    <2>2. UNCHANGED <<vault, plans, work, current, intent, batch, detached, refused, error, handler, pass>>
      BY <2>1 DEF ChangeNote, passVars, taskVars, statusVars, eventVars
    <2>3. CASE m = n
      <3>1. n \in signals'
        BY <2>1, <2>3 DEF ChangeNote
      <3>. QED  BY <3>1, ReflectedSignalled DEF Signalled
    <2>4. CASE m # n
      <3>1. n \notin missed /\ signals \subseteq signals' /\ src'[n] = src[n]
        BY <2>1, <2>4 DEF ChangeNote, MocInv, TypeInv, ContentTypes
      <3>. QED  BY <1>3, <2>2, <3>1, ReflectedUntouched
    <2>. QED  BY <2>3, <2>4
  <1>7. CASE \E d \in Mocs : EditMoc(d)
    <2>1. PICK d \in Mocs : EditMoc(d)
      BY <1>7
    <2>2. /\ UNCHANGED <<src, plans, work, current, intent, batch, detached, refused, error, handler,
                         pass, missed>>
          /\ signals \subseteq signals'
      BY <2>1 DEF EditMoc, passVars, taskVars, statusVars
    <2>3. \A c \in Mocs : vault'[c] = Absent \/ (vault[c] # Absent /\ vault'[c].body = vault[c].body)
      <3>1. PICK bytes \in {Absent, [vault[d] EXCEPT !.outer = "human"]} :
                /\ vault' = [vault EXCEPT ![d] = bytes] /\ vault[d] # Absent
        BY <2>1 DEF EditMoc, Atomic!Edit
      <3>2. vault[d] \in [outer : {"generated", "human"}, body : [NotesIn(d) -> {0, 1}]]
        BY <3>1 DEF MocInv, TypeInv, ContentTypes, ContentsOf
      <3>3. bytes = Absent \/ bytes.body = vault[d].body
        BY <3>1, <3>2
      <3>. QED  BY <3>1, <3>3 DEF MocInv, TypeInv, ContentTypes
    <2>. QED  BY <1>3, <2>2, <2>3, ReflectedUntouched
  <1>8. CASE TickNow
    <2>1. UNCHANGED <<src, vault, plans, work, current, intent, batch, detached, refused, handler,
                      signals, missed>>
      BY <1>8 DEF TickNow, StartPass, taskVars, passVars, eventVars, historyVars
    <2>2. pass' = pass \/ pass' \notin Applying
      BY <1>8 DEF TickNow, StartPass, passVars, Applying
    <2>3. error' = error \/ refused = {}
      BY <1>2, <1>8 DEF TickNow, StaleSupport, RefusedHolds, Asking
    <2>4. Signalled(n) => Signalled(n)'
      BY <2>1, <2>3 DEF Signalled, Asked
    <2>5. Intended(n)' <=> Intended(n)
      BY <2>1 DEF Intended, InScope, Scopes
    <2>6. current' <=> current
      BY <2>1
    <2>. QED  BY <1>3, <2>1, <2>2, <2>4, <2>5, <2>6, ReflectedKept DEF Noticed
  <1>9. CASE RefuseEffect \/ FailEffect \/ FailPass
    <2>1. /\ Settle(FALSE, intent)
          /\ UNCHANGED <<src, intent, signals, handler, batch, detached, refused, missed>>
      BY <1>9 DEF RefuseEffect, FailEffect, FailPass, hostRest, taskVars, eventVars, historyVars
    <2>2. vault' = vault
      BY <1>9 DEF RefuseEffect, FailEffect, FailPass, Atomic!Refuse
    <2>. QED  BY <1>3, <2>1, <2>2, SettledReflected
  <1>10. CASE AdoptBeforePass \/ AdoptAfterEffect
    <2>1. UNCHANGED <<src, vault, intent, signals, handler, batch, detached, refused, missed>>
      BY <1>10 DEF AdoptBeforePass, AdoptAfterEffect, taskVars, historyVars
    <2>2. CASE Settle(FALSE, intent)
      BY <1>3, <2>1, <2>2, SettledReflected
    <2>3. CASE ~Settle(FALSE, intent) /\ AdoptBeforePass
      <3>1. UNCHANGED <<current, work, plans, error>> /\ pass' = "plan"
        BY <2>3 DEF AdoptBeforePass, statusVars
      <3>. QED  BY <1>3, <2>1, <3>1, ReflectedUntouched DEF Applying
    <2>4. CASE ~Settle(FALSE, intent) /\ AdoptAfterEffect
      BY <1>2, <2>4, StaleAdopted
    <2>. QED  BY <1>10, <2>2, <2>3, <2>4
  <1>11. CASE TakeWork
    <2>1. /\ UNCHANGED <<src, vault, intent, signals, handler, batch, detached, refused, missed>>
          /\ pass = "take"
      BY <1>11, QueueHead DEF TakeWork, eventVars, historyVars, MocInv
    <2>2. CASE Settle(TRUE, intent)
      <3>1. explicit = "rejoined" /\ refused # {} => intent # NoIntent
        BY <1>2 DEF StaleSupport, RefusedHolds, Asking
      <3>. QED  BY <1>3, <2>1, <2>2, <3>1, SettledReflected
    <2>3. CASE UNCHANGED <<passVars, statusVars>>
      BY <1>3, <2>1, <2>3, ReflectedUntouched DEF passVars, statusVars
    <2>4. CASE pass' = "owner" /\ UNCHANGED <<plans, statusVars>>
      <3>1. plans' = {} /\ pass' \notin Applying
        BY <2>1, <2>4 DEF MocInv, EffectHolds, Applying
      <3>2. /\ Signalled(n)' <=> Signalled(n)
            /\ Intended(n)' <=> Intended(n)
            /\ Stale(n)' <=> Stale(n)
        BY <2>1, <2>4 DEF Signalled, Asked, Intended, InScope, Scopes, Stale, statusVars
      <3>. QED  BY <1>3, <2>1, <3>1, <3>2, ReflectedIdle DEF Reflected
    <2>. QED  BY <1>11, <2>2, <2>3, <2>4 DEF TakeWork, Decide
  <1>12. CASE SavePeriodicIntent
    <2>1. intent' = FullIntent /\ FullIntent # NoIntent /\ pass = "take"
      BY <1>12, QueueHead, IntentTyped, SentinelAssumption
         DEF SavePeriodicIntent, MocInv, WritingHolds, Task
    <2>2. Intended(n)'
      BY <2>1 DEF Intended, InScope, FullIntent
    <2>3. plans' = {} /\ pass' \notin Applying
      BY <1>12, <2>1 DEF SavePeriodicIntent, Decide, Settle, MocInv, EffectHolds, Applying
    <2>. QED  BY <2>2, <2>3, ReflectedIdle
  <1>13. CASE StartAdmission \/ FinishAdmission \/ FailAdmission
    BY <1>2, <1>13, StaleAdmitted
  <1>14. CASE \/ HandleEvent \/ (\E s \in signals : Deliver(s)) \/ WatcherFails \/ FailRead
              \/ RequestNow
              \/ OpenWatcher
    BY <1>2, <1>14, StaleReceived
  <1>15. CASE PlanBatch \/ LandEffect \/ FinishPass
    BY <1>2, <1>15, StalePlanned, StaleLanded, StaleFinished
  <1>. QED
    BY <1>4, <1>5, <1>6, <1>7, <1>8, <1>9, <1>10, <1>11, <1>12, <1>13, <1>14, <1>15
       DEF Next, Coordinate, Reconcile, StartUp, Receive, Environment

LEMMA StaleInit ==
    ASSUME Init
    PROVE  StaleSupport /\ StaleHolds
  BY DEF Init, StaleSupport, BatchHolds, WorkHolds, RefusedHolds, AfterHolds, StaleHolds, Serving

LEMMA StaleUnchanged ==
    ASSUME StaleSupport, StaleHolds, UNCHANGED vars
    PROVE  StaleSupport' /\ StaleHolds'
  <1>1. /\ UNCHANGED <<src, vault, intent, pass, work, current, plans, phase>>
        /\ UNCHANGED <<batch, detached, handler, writing, signals>>
        /\ UNCHANGED <<up, explicit, error, missed, refused, overlooked>>
    BY DEF vars, hostVars, effectVars, taskVars, passVars, eventVars, statusVars, historyVars
  <1>2. BatchHolds' /\ WorkHolds'
    BY <1>1 DEF StaleSupport, BatchHolds, WorkHolds
  <1>3. RefusedHolds' /\ AfterHolds'
    BY <1>1 DEF StaleSupport, RefusedHolds, AfterHolds, Serving
  <1>4. Serving' => Serving
    BY <1>1 DEF Serving
  <1>5. ASSUME Serving', NEW n \in Notes \ missed'
        PROVE  Reflected(n)'
    BY <1>1, <1>4, <1>5, ReflectedUntouched DEF StaleHolds
  <1>. QED  BY <1>2, <1>3, <1>5 DEF StaleSupport, StaleHolds

\* While the runtime serves, a note that changed in front of the watcher and is
\* not yet in its targets is on its way or shows in the status, whatever the
\* vault and however events, passes, people and failures interleave.
THEOREM StalenessIsNeverSilent == Spec => []NoSilentStaleness
  <1>. DEFINE Inv == MocInv /\ StaleSupport /\ StaleHolds
  <1>1. Init => Inv
    BY MocInit, StaleInit
  <1>2. Inv /\ [Next]_vars => Inv'
    <2>. SUFFICES ASSUME Inv, [Next]_vars
                  PROVE  Inv'
      OBVIOUS
    <2>1. MocInv'
      BY MocStep
    <2>2. CASE Next
      <3>1. StaleSupport'
        BY <2>2, BatchStep, WorkStep, RefusedStep, AfterStep DEF StaleSupport
      <3>. QED  BY <2>1, <2>2, <3>1, StaleStep
    <2>3. CASE UNCHANGED vars
      BY <2>1, <2>3, StaleUnchanged
    <2>. QED  BY <2>2, <2>3
  <1>3. Inv => NoSilentStaleness
    <2>. SUFFICES ASSUME Inv, up = "running", ~overlooked, NEW n \in Notes \ missed, Stale(n)
                  PROVE  \/ n \in signals \/ handler = n \/ Asked(n)
                         \/ intent # NoIntent /\ InScope(n, intent)
                         \/ n \in refused /\ error = "EVENT_PERSIST_FAILED"
      BY DEF NoSilentStaleness
    <2>1. Reflected(n)
      BY DEF StaleHolds, Serving
    <2>. QED  BY <2>1 DEF Reflected, Signalled, Intended
  <1>. QED  BY <1>1, <1>2, <1>3, PTL DEF Spec

=============================================================================
