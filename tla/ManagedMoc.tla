------------------------------ MODULE ManagedMoc ------------------------------
(***************************************************************************)
(* The managed "map of content" pipeline: NodeManagedMocRuntime            *)
(* (node/moc-runtime.ts) turns file events into requests, the              *)
(* ManagedMocCoordinator (coordinator.ts) keeps one durable intent and     *)
(* debounces it, and NodeManagedMocHost (node/moc-host.ts) reconciles the  *)
(* intent by planning and executing one effect per managed target and      *)
(* recording its ownership.  The executor is AtomicEffects with one slot:  *)
(* the host has one effect at a time and every plan has a fresh id.        *)
(*                                                                         *)
(* Time is relative and saturates: idle and age are the times since the    *)
(* last and the first event of the intent was recorded, since the time     *)
(* after the last full scan, each up to the option it is compared with.    *)
(*                                                                         *)
(* Abstractions: the generated body of a target is the version of each     *)
(* note of its directory; a target has an outer part that belongs to       *)
(* people; the host's snapshot and its read of the targets are one step.   *)
(***************************************************************************)
EXTENDS Integers, FiniteSets, SequencesExt

CONSTANTS
    Notes,          \* notes of the vault
    Mocs,           \* managed targets
    DirOf,          \* directory of each file, a sequence of names
    PathRank,       \* rank of each target in the order of the paths
    Kind,           \* "fully-managed" or "region-managed"
    Supplied,       \* the binding the consumer supplies for each target
    InitialVault,   \* content of the targets before the first start
    Noisy,          \* notes that may be touched for ever without a change
    Absent, Unbound, NoIntent, NoBatch, NoWrite, NoSignal,
    Debounce, MaxDelay, Periodic, MaxPaths,           \* coordinator options
    MaxNoteEdits, MaxEdits, MaxRequests, MaxFailures, MaxCrashes,   \* bounds of the model
    MaxDisturbances                                   \* bound of their sum

Files == Notes \cup Mocs
NotesIn(d) == {n \in Notes : DirOf[n] = DirOf[d]}
Body(d, versions) == [n \in NotesIn(d) |-> versions[n]]
Text(outer, body) == [outer |-> outer, body |-> body]
ContentsOf(d) == {Absent} \cup [outer : {"generated", "human"}, body : [NotesIn(d) -> {0, 1}]]
AllContents == UNION {ContentsOf(d) : d \in Mocs}
Slot == 1
NoEffect == 0

Intents == [full : BOOLEAN, files : SUBSET Files]
FullIntent == [full |-> TRUE, files |-> {}]
Batches == [full : BOOLEAN, files : SUBSET Files, asked : SUBSET Files,
            waiters : SUBSET {"handler", "storm", "explicit", "start", "shutdown"}]

\* There is a target, and no two have the same path.
ASSUME MocAssumption ==
    /\ Notes \cap Mocs = {} /\ Noisy \subseteq Notes /\ Mocs # {}
    /\ Kind \in [Mocs -> {"fully-managed", "region-managed"}]
    /\ \A f \in Files : DirOf[f] \in Seq(STRING)
    /\ \A d \in Mocs : PathRank[d] \in Nat
    /\ \A c, d \in Mocs : PathRank[c] = PathRank[d] => c = d
    /\ InitialVault \in [Mocs -> AllContents] /\ Supplied \in [Mocs -> AllContents]
    /\ \A d \in Mocs : {InitialVault[d], Supplied[d]} \subseteq ContentsOf(d)
ASSUME MocBoundAssumption ==
    /\ {Debounce, MaxDelay, Periodic, MaxPaths} \subseteq Nat \ {0} /\ MaxDelay >= Debounce
    /\ {MaxNoteEdits, MaxEdits, MaxRequests, MaxFailures, MaxCrashes, MaxDisturbances} \subseteq Nat
ASSUME SentinelAssumption ==
    /\ NoIntent \notin Intents /\ NoWrite \notin Intents /\ NoIntent # NoWrite
    /\ NoBatch \notin Batches /\ NoSignal \notin Files \cup {"full"} /\ "full" \notin Files

VARIABLES
    src,         \* version of each note
    vault,       \* content of each managed target
    intent,      \* moc-host.json: the durable intent (this.intent is the same)
    ownership,   \* moc-host.json: bindings recorded by the host
    pending,     \* moc-host.json: an effect is pending, its plan is plan[Slot]
    plan, phase, landed, claim,   \* the executor, see AtomicEffects
    prepared,    \* the prepared temporary file of the effect exists
    conflict,    \* an earlier recovery found bytes of somebody else
    up,          \* stage of the process
    tasks,       \* tasks of the coordinator's promise queue, oldest first
    writing,     \* the intent the oldest task is saving, or NoWrite
    batch,       \* the open admission batch
    detached,    \* the batch that is being saved
    pass,        \* stage of the active tick
    force,       \* the active tick ignores debounce
    work,        \* the intent the active tick works on
    current,     \* no intent was saved since the tick took its work
    plans,       \* planned effects the pass has still to apply
    idle, age, since,   \* clocks
    watching,    \* the recursive watcher is open
    signals,     \* events the watcher has not delivered
    handler,     \* the event whose handler runs (eventPending)
    own,         \* selfWrites
    explicit,    \* stage of reconcileNow
    error,       \* errorCode
    owed,        \* history: accepted events no finished pass has covered
    seen,        \* history: owed events the snapshot of this pass covers
    missed,      \* history: notes changed while nobody watched
    refused,     \* history: notes whose event could not be saved
    overlooked,  \* history: an event was refused during a reconcileNow
    raced,       \* history: the target changed between comparison and rename
    noteEdits, edits, requests, failures, crashes

hostVars == <<ownership, pending>>
effectVars == <<plan, phase, landed, claim, prepared, conflict>>
taskVars == <<tasks, writing, batch, detached>>
passVars == <<pass, force, work, current, plans>>
clockVars == <<idle, age, since>>
eventVars == <<watching, signals, handler, own>>
statusVars == <<explicit, error>>
historyVars == <<owed, seen, missed, refused, overlooked, raced>>
boundVars == <<noteEdits, edits, requests, failures, crashes>>
vars == <<src, vault, intent, hostVars, effectVars, up, taskVars, passVars, clockVars,
          eventVars, statusVars, historyVars, boundVars>>

Atomic == INSTANCE AtomicEffects WITH
    Effects <- {Slot}, Targets <- Mocs, Contents <- AllContents, Nobody <- NoEffect

(***************************************************************************)
(* Helpers                                                                 *)
(***************************************************************************)
Least(a, b) == IF a < b THEN a ELSE b
Task(t) == tasks # <<>> /\ Head(tasks) = t
Effect == plan[Slot]
Binding(d) == IF ownership[d] = Unbound THEN Supplied[d] ELSE ownership[d]
Stopped == up = "stopping"
Calm == noteEdits + edits + requests + failures + crashes < MaxDisturbances
Spend == Calm /\ failures < MaxFailures /\ failures' = failures + 1

\* Mutant: the directory of a changed file is left out of its scopes.
MutantScopes(i) ==
    {<<>>} \cup UNION {Prefixes(Front(DirOf[f])) : f \in {g \in i.files : DirOf[g] # <<>>}}

\* A changed file concerns its directory and every directory above it.
Scopes(i) == {<<>>} \cup UNION {Prefixes(DirOf[f]) : f \in i.files}
InScope(f, i) == i.full \/ DirOf[f] \in Scopes(i)
Covers(i, f) == i # NoIntent /\ (i.full \/ f \in i.files)

Init ==
    /\ src = [n \in Notes |-> 0]
    /\ vault = InitialVault
    /\ intent = NoIntent
    /\ ownership = [d \in Mocs |-> Unbound] /\ pending = FALSE
    /\ plan = [e \in {Slot} |-> [target |-> CHOOSE d \in Mocs : TRUE, prior |-> Absent,
                                 proposed |-> Absent]]
    /\ Atomic!Init
    /\ prepared = FALSE /\ conflict = FALSE
    /\ up = "down"
    /\ tasks = <<>> /\ writing = NoWrite /\ batch = NoBatch /\ detached = NoBatch
    /\ pass = "none" /\ force = FALSE /\ work = FullIntent /\ current = FALSE /\ plans = {}
    /\ idle = 0 /\ age = 0 /\ since = 0
    /\ watching = FALSE /\ signals = {} /\ handler = NoSignal
    /\ own = [d \in Mocs |-> Unbound]
    /\ explicit = "none" /\ error = "none"
    /\ owed = {} /\ seen = {} /\ missed = {} /\ refused = {}
    /\ overlooked = FALSE /\ raced = FALSE
    /\ noteEdits = 0 /\ requests = 0 /\ crashes = 0

\* The process is gone: what it kept in memory is lost.
Gone ==
    /\ up' = "down"
    /\ tasks' = <<>> /\ writing' = NoWrite /\ batch' = NoBatch /\ detached' = NoBatch
    /\ pass' = "none" /\ force' = FALSE /\ work' = FullIntent /\ current' = FALSE
    /\ plans' = {}
    /\ idle' = 0 /\ age' = 0 /\ since' = 0
    /\ watching' = FALSE /\ signals' = {} /\ handler' = NoSignal
    /\ own' = [d \in Mocs |-> Unbound]
    /\ explicit' = "none" /\ error' = "none"
    /\ seen' = {} /\ missed' = {} /\ refused' = {} /\ overlooked' = FALSE /\ raced' = FALSE
    /\ claim' = NoEffect
    /\ UNCHANGED <<src, vault, intent, hostVars, plan, phase, landed, prepared, conflict, owed,
                   noteEdits, edits, requests>>

(***************************************************************************)
(* Admission (coordinator.ts, enqueue): requests that arrive before the    *)
(* task of the batch runs share the batch.  asked and waiters are the      *)
(* files the batch answers for and the callers awaiting it.                *)
(***************************************************************************)
EmptyBatch == [full |-> FALSE, files |-> {}, asked |-> {}, waiters |-> {}]

Join(b, f, waiter) ==
    LET files == IF f = "full" \/ b.full THEN b.files ELSE b.files \cup {f}
        full == f = "full" \/ b.full \/ Cardinality(files) > MaxPaths
    IN  [full |-> full, files |-> IF full THEN {} ELSE files,
         asked |-> b.asked \cup (IF f = "full" THEN Files ELSE {f}),
         waiters |-> b.waiters \cup {waiter}]

Enqueue(f, waiter) ==
    /\ batch' = Join(IF batch = NoBatch THEN EmptyBatch ELSE batch, f, waiter)
    /\ tasks' = IF batch = NoBatch THEN Append(tasks, "admit") ELSE tasks
    /\ UNCHANGED <<writing, detached>>

\* The intent that adds a batch to the one already saved.
Merged(b) ==
    LET files == b.files \cup (IF intent = NoIntent THEN {} ELSE intent.files)
        full == \/ b.full
                \/ intent # NoIntent /\ intent.full
                \/ Cardinality(files) > MaxPaths
    IN  [full |-> full, files |-> IF full THEN {} ELSE files]

StartAdmission ==
    /\ Task("admit") /\ writing = NoWrite
    /\ writing' = Merged(batch)
    /\ detached' = batch /\ batch' = NoBatch
    /\ UNCHANGED <<src, vault, intent, hostVars, effectVars, up, tasks, passVars, clockVars,
                   eventVars, statusVars, historyVars, boundVars>>

\* The callers whose batch was saved go on.
FinishAdmission ==
    /\ Task("admit") /\ writing # NoWrite
    /\ intent' = writing /\ writing' = NoWrite
    /\ detached' = NoBatch /\ tasks' = Tail(tasks)
    /\ current' = FALSE
    /\ idle' = 0 /\ age' = IF intent = NoIntent THEN 0 ELSE age
    /\ owed' = owed \cup detached.asked /\ seen' = seen \ detached.asked
    /\ handler' = IF "handler" \in detached.waiters THEN NoSignal ELSE handler
    /\ explicit' = IF "explicit" \in detached.waiters THEN "tick" ELSE explicit
    /\ up' = IF "shutdown" \in detached.waiters THEN "stopping" ELSE up
    /\ UNCHANGED <<src, vault, hostVars, effectVars, batch, pass, force, work, plans, since,
                   watching, signals, own, error, missed, refused, overlooked, raced, boundVars>>

\* saveIntent rejects: so do all callers of the batch.
FailAdmission ==
    /\ Spend
    /\ Task("admit") /\ writing # NoWrite
    /\ writing' = NoWrite /\ detached' = NoBatch /\ tasks' = Tail(tasks)
    /\ handler' = IF "handler" \in detached.waiters THEN NoSignal ELSE handler
    /\ explicit' = IF "explicit" \in detached.waiters THEN "none" ELSE explicit
    /\ error' = "EVENT_PERSIST_FAILED"
    /\ up' = IF detached.waiters \cap {"shutdown", "start"} # {} THEN "failed" ELSE up
    /\ refused' = refused \cup (detached.asked \cap Notes)
    /\ overlooked' = (overlooked \/ explicit \in {"tick", "joined", "check", "rejoined"})
    /\ UNCHANGED <<src, vault, intent, hostVars, effectVars, batch, passVars, clockVars, watching,
                   signals, own, owed, seen, missed, raced, noteEdits, edits, requests, crashes>>

(***************************************************************************)
(* start: lease and state file, a full intent, recovery, then one pass.    *)
(***************************************************************************)
Boot ==
    /\ up = "down" /\ up' = "load"
    /\ UNCHANGED <<src, vault, intent, hostVars, effectVars, taskVars, passVars, clockVars,
                   eventVars, statusVars, historyVars, boundVars>>

\* Startup always covers the complete vault, including any missed intent.
SaveStartIntent ==
    /\ up = "load" /\ up' = "recover"
    /\ intent' = FullIntent
    /\ UNCHANGED <<src, vault, hostVars, effectVars, taskVars, passVars, clockVars, eventVars,
                   statusVars, historyVars, boundVars>>

\* executor.recoverStartup of the pending effect (see EffectsExecutor):
\* committed if its bytes are there or prepared, otherwise writes stay blocked.
RecoverEffects ==
    /\ up = "recover"
    /\ LET t == Effect.target
           decide(p) == phase' = [phase EXCEPT ![Slot] = p]
       IN  \/ /\ phase[Slot] \notin Atomic!Undecided
              /\ up' = IF conflict THEN "failed" ELSE "adopt"
              /\ UNCHANGED <<vault, phase, landed, prepared, conflict>>
           \/ /\ phase[Slot] \in Atomic!Undecided /\ vault[t] = Effect.proposed
              /\ decide("COMMITTED") /\ landed' = {Slot} /\ prepared' = FALSE
              /\ up' = IF conflict THEN "failed" ELSE "adopt"
              /\ UNCHANGED <<vault, conflict>>
           \/ /\ phase[Slot] \in Atomic!Undecided
              /\ vault[t] = Effect.prior /\ Effect.prior # Effect.proposed
              /\ IF prepared
                 THEN /\ vault' = [vault EXCEPT ![t] = Effect.proposed]
                      /\ decide("COMMITTED") /\ landed' = {Slot}
                      /\ up' = IF conflict THEN "failed" ELSE "adopt"
                 ELSE decide("RECOVERY_REQUIRED") /\ up' = "failed" /\ UNCHANGED <<vault, landed>>
              /\ prepared' = FALSE
              /\ UNCHANGED conflict
           \/ /\ phase[Slot] \in Atomic!Undecided
              /\ vault[t] \notin {Effect.prior, Effect.proposed}
              /\ decide("STALE") /\ conflict' = TRUE /\ up' = "failed"
              /\ UNCHANGED <<vault, landed, prepared>>
    /\ UNCHANGED <<src, intent, hostVars, plan, claim, taskVars, passVars, clockVars, eventVars,
                   statusVars, historyVars, boundVars>>

\* recoverOwnership (moc-host.ts:119): the journal decides what becomes of the
\* pending effect.  A committed effect whose bytes changed since, or an
\* undecided one, is an error.
OwnershipKnown ==
    pending => \/ phase[Slot] = "COMMITTED" /\ vault[Effect.target] = Effect.proposed
               \/ phase[Slot] \in {"none", "ABORTED", "STALE"}

\* Mutant: the pending effect is cleared without recording what it committed.
MutantRecoverOwnership == OwnershipKnown /\ pending' = FALSE /\ UNCHANGED <<ownership, own>>

RecoverOwnership ==
    /\ OwnershipKnown
    /\ pending' = FALSE
    /\ IF pending /\ phase[Slot] = "COMMITTED"
       THEN /\ ownership' = [ownership EXCEPT ![Effect.target] = Effect.proposed]
            /\ own' = IF Effect.prior = Effect.proposed THEN own
                      ELSE [own EXCEPT ![Effect.target] = Effect.proposed]
       ELSE UNCHANGED <<ownership, own>>

\* Mutant: a tick does not join the active one.
MutantStartPass(forced) ==
    /\ pass' = "take" /\ force' = forced
    /\ tasks' = Append(tasks, "take")
    /\ UNCHANGED <<writing, batch, detached, work, current, plans>>

StartPass(forced) ==
    /\ pass = "none" /\ pass' = "take" /\ force' = forced
    /\ tasks' = Append(tasks, "take")
    /\ UNCHANGED <<writing, batch, detached, work, current, plans>>

AdoptAtStart ==
    /\ up = "adopt"
    /\ \/ RecoverOwnership /\ up' = "first" /\ StartPass(TRUE)
       \/ ~OwnershipKnown /\ up' = "failed" /\ UNCHANGED <<hostVars, own, taskVars, passVars>>
    /\ UNCHANGED <<src, vault, intent, effectVars, clockVars, watching, signals, handler,
                   statusVars, historyVars, boundVars>>

\* The watcher opens after the first pass, or the host runs without one.
OpenWatcher ==
    /\ up = "open" /\ up' = "running"
    /\ \/ watching' = TRUE /\ UNCHANGED <<error, taskVars, failures>>
       \/ Spend /\ watching' = FALSE /\ error' = "WATCHER_UNAVAILABLE" /\ Enqueue("full", "start")
    /\ UNCHANGED <<src, vault, intent, hostVars, effectVars, passVars, clockVars, signals, handler,
                   own, explicit, historyVars, noteEdits, edits, requests, crashes>>

(***************************************************************************)
(* tick: take due work, reconcile it, clear the intent it covered.         *)
(***************************************************************************)
TimerTick ==
    /\ up = "running" /\ StartPass(FALSE)
    /\ UNCHANGED <<src, vault, intent, hostVars, effectVars, up, clockVars, eventVars, statusVars,
                   historyVars, boundVars>>

\* The active tick settles: errorCode, and the callers that joined it.
Settle(ok, left) ==
    /\ pass' = "none" /\ force' = FALSE /\ work' = FullIntent /\ current' = FALSE /\ plans' = {}
    /\ up' = IF up = "first" THEN (IF ok THEN "open" ELSE "failed") ELSE up
    /\ explicit' = IF explicit = "joined" /\ ok THEN "check"
                   ELSE IF explicit \in {"joined", "rejoined"} THEN "none" ELSE explicit
    /\ error' = IF up \notin {"running", "closing"} THEN error
                ELSE IF ~ok
                THEN IF error = "EVENT_PERSIST_FAILED" THEN error ELSE "RECONCILIATION_FAILED"
                ELSE IF /\ left = NoIntent
                        /\ \/ error = "RECONCILIATION_FAILED"
                           \/ explicit = "rejoined" /\ error = "EVENT_PERSIST_FAILED"
                THEN "none" ELSE error

\* Mutant: debounce without a maximal delay.
MutantDue(i, idleFor, ageOf) == force \/ idleFor >= Debounce

Due(i, idleFor, ageOf) == force \/ idleFor >= Debounce \/ ageOf >= MaxDelay

Decide(i, idleFor, ageOf) ==
    IF i # NoIntent /\ Due(i, idleFor, ageOf)
    THEN /\ pass' = "owner" /\ work' = i /\ current' = TRUE
         /\ UNCHANGED <<force, plans, up, statusVars>>
    ELSE Settle(TRUE, i)

\* Mutant: the periodic pass is requested only while an intent is pending.
MutantPeriodicDue == intent # NoIntent /\ since >= Periodic

PeriodicDue == intent = NoIntent /\ since >= Periodic

TakeWork ==
    /\ Task("take") /\ writing = NoWrite
    /\ \/ /\ Stopped
          /\ Settle(TRUE, intent) /\ tasks' = Tail(tasks)
          /\ UNCHANGED writing
       \/ /\ ~Stopped /\ PeriodicDue
          /\ writing' = FullIntent
          /\ UNCHANGED <<passVars, tasks, up, statusVars>>
       \/ /\ ~Stopped /\ ~PeriodicDue
          /\ Decide(intent, idle, age) /\ tasks' = Tail(tasks)
          /\ UNCHANGED writing
    /\ UNCHANGED <<src, vault, intent, hostVars, effectVars, batch, detached, clockVars,
                   eventVars, historyVars, boundVars>>

SavePeriodicIntent ==
    /\ Task("take") /\ writing # NoWrite
    /\ intent' = writing /\ idle' = 0 /\ age' = 0
    /\ writing' = NoWrite /\ tasks' = Tail(tasks)
    /\ Decide(writing, 0, 0)
    /\ UNCHANGED <<src, vault, hostVars, effectVars, batch, detached, since, eventVars,
                   historyVars, boundVars>>

\* recoverOwnership before anything is planned.
AdoptBeforePass ==
    /\ pass = "owner"
    /\ \/ /\ RecoverOwnership
          /\ pass' = "plan" /\ UNCHANGED <<force, work, current, plans, up, statusVars>>
       \/ ~OwnershipKnown /\ Settle(FALSE, intent) /\ UNCHANGED <<hostVars, own>>
    /\ UNCHANGED <<src, vault, intent, effectVars, taskVars, clockVars, watching,
                   signals, handler, historyVars, boundVars>>

\* Mutant: the digest of the current bytes is not compared.
MutantPlannable(d) ==
    Kind[d] = "fully-managed" \/ (vault[d] # Absent /\ Binding(d) # Absent)

\* planMocApply: the bytes must be the ones the binding names.
Plannable(d) ==
    IF Kind[d] = "fully-managed"
    THEN vault[d] = Absent \/ vault[d] = Binding(d)
    ELSE vault[d] # Absent /\ Binding(d) # Absent /\ vault[d].body = Binding(d).body
ProposedFor(d) ==
    Text(IF Kind[d] = "fully-managed" THEN "generated" ELSE vault[d].outer, Body(d, src))
PlanFor(d) == [target |-> d, prior |-> vault[d], proposed |-> ProposedFor(d)]

\* A target that may not be written blocks the batch before any effect.
PlanBatch ==
    /\ pass = "plan"
    /\ LET scope == {d \in Mocs : InScope(d, work)}
       IN  IF \A d \in scope : Plannable(d)
           THEN /\ plans' = {PlanFor(d) : d \in scope}
                /\ pass' = "effects"
                /\ UNCHANGED <<force, work, current, up, statusVars>>
           ELSE Settle(FALSE, intent)
    /\ seen' = {f \in owed : InScope(f, work)}
    /\ missed' = {n \in missed : ~InScope(n, work)}
    /\ refused' = {n \in refused : ~InScope(n, work)}
    /\ UNCHANGED <<src, vault, intent, hostVars, effectVars, taskVars, clockVars, eventVars, owed,
                   overlooked, raced, boundVars>>

\* The effects are applied in the order of the paths.
IsNext(p) == p \in plans /\ \A q \in plans : PathRank[p.target] <= PathRank[q.target]

\* The pending effect is recorded before the executor hears of it.
RecordPending ==
    /\ pass = "effects"
    /\ \E p \in plans : IsNext(p) /\ plan' = [plan EXCEPT ![Slot] = p]
    /\ pending' = TRUE
    /\ phase' = [phase EXCEPT ![Slot] = "none"] /\ landed' = {} /\ prepared' = FALSE
    /\ pass' = "execute"
    /\ UNCHANGED <<src, vault, intent, ownership, claim, conflict, up, taskVars, force, work,
                   current, plans, clockVars, eventVars, statusVars, historyVars, boundVars>>

(***************************************************************************)
(* executor.execute of the pending effect, through AtomicEffects.          *)
(***************************************************************************)
Executing == pass = "execute"
hostRest == <<src, intent, hostVars, taskVars, clockVars, handler, own,
              watching, owed, seen, missed, refused, overlooked, noteEdits, requests, crashes>>

BeginEffect ==
    /\ Executing /\ phase[Slot] = "none"
    /\ Atomic!Begin(Slot)
    /\ UNCHANGED <<hostRest, up, passVars, signals, statusVars, prepared, conflict, raced>>

Unprepared == Executing /\ phase[Slot] = "open" /\ ~prepared /\ Slot \notin landed

\* The host throws on every outcome but committed and no-op.
RefuseEffect ==
    /\ Executing /\ phase[Slot] = "open" /\ claim = NoEffect /\ Slot \notin landed
    /\ vault[Effect.target] # Effect.prior
    /\ Atomic!Refuse(Slot, "STALE")
    /\ prepared' = FALSE
    /\ Settle(FALSE, intent)
    /\ UNCHANGED <<hostRest, signals, conflict, raced>>

CommitUnchanged ==
    /\ Unprepared /\ Effect.prior = Effect.proposed /\ vault[Effect.target] = Effect.prior
    /\ Atomic!Commit(Slot)
    /\ pass' = "after"
    /\ UNCHANGED <<hostRest, up, force, work, current, plans, signals, statusVars, prepared,
                   conflict, raced>>

PrepareEffect ==
    /\ Unprepared /\ Effect.prior # Effect.proposed /\ vault[Effect.target] = Effect.prior
    /\ prepared' = TRUE
    /\ UNCHANGED <<hostRest, vault, plan, phase, landed, claim, conflict, up, passVars,
                   signals, statusVars, raced, edits, failures>>

CompareEffect ==
    /\ Executing /\ prepared /\ claim = NoEffect
    /\ Atomic!Compare(Slot)
    /\ raced' = FALSE
    /\ UNCHANGED <<hostRest, up, passVars, signals, statusVars, prepared, conflict>>

\* The watcher reports the host's own rename as a change of the file or as a
\* rename, depending on the platform.
LandEffect ==
    /\ Executing /\ Atomic!Land(Slot)
    /\ prepared' = FALSE
    /\ signals' \in IF watching THEN {signals \cup {Effect.target}, signals \cup {"full"}}
                    ELSE {signals}
    /\ UNCHANGED <<hostRest, up, passVars, statusVars, conflict, raced>>

CommitEffect ==
    /\ Executing /\ phase[Slot] = "open" /\ Slot \in landed
    /\ vault[Effect.target] = Effect.proposed
    /\ Atomic!Commit(Slot)
    /\ pass' = "after"
    /\ UNCHANGED <<hostRest, up, force, work, current, plans, signals, statusVars, prepared,
                   conflict, raced>>

\* A landed target that does not hold the proposed bytes, a refusal by the
\* validator, a failed write, or an exception: the host gives up the pass.
FailEffect ==
    /\ Executing /\ phase[Slot] = "open"
    /\ \/ /\ Slot \in landed /\ vault[Effect.target] # Effect.proposed
          /\ phase' = [phase EXCEPT ![Slot] = "RECOVERY_REQUIRED"]
          /\ UNCHANGED failures
       \/ /\ Spend
          /\ phase' \in {phase, [phase EXCEPT ![Slot] = "RECOVERY_REQUIRED"]}
       \/ /\ Spend /\ Unprepared
          /\ phase' = [phase EXCEPT ![Slot] = "ABORTED"]
    /\ claim' = NoEffect
    /\ Settle(FALSE, intent)
    /\ UNCHANGED <<hostRest, vault, plan, landed, prepared, conflict, signals, raced, edits>>

\* The committed effect's ownership is recorded from the journal.
AdoptAfterEffect ==
    /\ pass = "after"
    /\ \/ /\ RecoverOwnership
          /\ plans' = plans \ {Effect} /\ pass' = "effects"
          /\ UNCHANGED <<force, work, current, up, statusVars>>
       \/ ~OwnershipKnown /\ Settle(FALSE, intent) /\ UNCHANGED <<hostVars, own>>
    /\ UNCHANGED <<src, vault, intent, effectVars, taskVars, clockVars, watching, signals,
                   handler, historyVars, boundVars>>

PassDone ==
    /\ pass = "effects" /\ plans = {}
    /\ pass' = "finish" /\ tasks' = Append(tasks, "finish")
    /\ UNCHANGED <<src, vault, intent, hostVars, effectVars, up, writing, batch, detached, force,
                   work, current, plans, clockVars, eventVars, statusVars, historyVars, boundVars>>

\* Mutant: the intent is cleared whatever revision it has.
MutantObsolete == intent = NoIntent

\* Events received while executing retain durable work for another pass.
Obsolete == intent = NoIntent \/ ~current

FinishPass ==
    /\ Task("finish")
    /\ \/ /\ writing = NoWrite /\ ~Obsolete
          /\ writing' = NoIntent
          /\ UNCHANGED <<intent, tasks, passVars, up, statusVars, since, owed, seen>>
       \/ /\ writing = NoIntent \/ Obsolete
          /\ intent' = IF writing = NoIntent THEN NoIntent ELSE intent
          /\ writing' = NoWrite /\ tasks' = Tail(tasks)
          /\ since' = IF work.full THEN 0 ELSE since
          /\ owed' = owed \ seen /\ seen' = {}
          /\ Settle(TRUE, intent')
    /\ UNCHANGED <<src, vault, hostVars, effectVars, batch, detached, idle, age, eventVars,
                   missed, refused, overlooked, raced, boundVars>>

\* Any other call of the host fails before it took effect: a save of the
\* intent or of the state file, the snapshot, onCommitted.
FailPass ==
    /\ Spend
    /\ \/ /\ pass \in {"owner", "plan", "effects", "after"}
          /\ UNCHANGED taskVars
       \/ /\ Task("take") \/ Task("finish")
          /\ writing # NoWrite
          /\ tasks' = Tail(tasks) /\ writing' = NoWrite
          /\ UNCHANGED <<batch, detached>>
    /\ Settle(FALSE, intent)
    /\ UNCHANGED <<src, vault, intent, hostVars, effectVars, clockVars, eventVars, historyVars,
                   noteEdits, edits, requests, crashes>>

FailStart ==
    /\ Spend
    /\ up \in {"load", "recover", "adopt"} /\ up' = "failed"
    /\ UNCHANGED <<src, vault, intent, hostVars, effectVars, taskVars, passVars, clockVars,
                   eventVars, statusVars, historyVars, noteEdits, edits, requests, crashes>>

(***************************************************************************)
(* Events (moc-runtime.ts).                                                *)
(***************************************************************************)

\* Overlapping signals collapse into a durable full scan.
Deliver(s) ==
    /\ up = "running" /\ s \in signals /\ signals' = signals \ {s}
    /\ IF handler # NoSignal
       THEN Enqueue("full", "storm") /\ UNCHANGED handler
       ELSE /\ handler' = s
            /\ IF s = "full" THEN Enqueue("full", "handler") ELSE UNCHANGED taskVars
    /\ UNCHANGED <<src, vault, intent, hostVars, effectVars, up, passVars, clockVars, watching,
                   own, statusVars, historyVars, boundVars>>

Awaiting == \E b \in {batch, detached} : b # NoBatch /\ "handler" \in b.waiters

\* The bytes of a file of our own are read before the event is dropped.
HandleEvent ==
    /\ handler \in Files /\ ~Awaiting /\ up \in {"running", "closing"}
    /\ own' = IF handler \in Mocs THEN [own EXCEPT ![handler] = Unbound] ELSE own
    /\ IF handler \in Mocs /\ own[handler] # Unbound /\ vault[handler] = own[handler]
       THEN handler' = NoSignal /\ UNCHANGED taskVars
       ELSE Enqueue(handler, "handler") /\ UNCHANGED handler
    /\ UNCHANGED <<src, vault, intent, hostVars, effectVars, up, passVars, clockVars, watching,
                   signals, statusVars, historyVars, boundVars>>

\* Those bytes cannot be read: the event is dropped and the status shows it.
FailRead ==
    /\ Spend
    /\ handler \in Mocs /\ own[handler] # Unbound /\ ~Awaiting /\ up \in {"running", "closing"}
    /\ handler' = NoSignal /\ error' = "EVENT_PERSIST_FAILED"
    /\ UNCHANGED <<src, vault, intent, hostVars, effectVars, up, taskVars, passVars, clockVars,
                   watching, signals, own, explicit, historyVars, noteEdits, edits, requests,
                   crashes>>

WatcherFails ==
    /\ Spend
    /\ up = "running" /\ watching
    /\ watching' = FALSE /\ error' = "WATCHER_FAILED"
    /\ missed' = missed \cup (signals \cap Notes) /\ signals' = {}
    /\ Enqueue("full", "storm")
    /\ UNCHANGED <<src, vault, intent, hostVars, effectVars, up, passVars, clockVars, handler, own,
                   explicit, owed, seen, refused, overlooked, raced, noteEdits, edits, requests, crashes>>

\* reconcileNow: a durable full request, then up to two forced ticks.
RequestNow ==
    /\ Calm /\ requests < MaxRequests /\ requests' = requests + 1
    /\ up = "running" /\ explicit = "none" /\ explicit' = "saving"
    /\ Enqueue("full", "explicit")
    /\ UNCHANGED <<src, vault, intent, hostVars, effectVars, up, passVars, clockVars, eventVars,
                   error, historyVars, noteEdits, edits, failures, crashes>>

TickNow ==
    /\ up = "running" /\ explicit \in {"tick", "check"}
    /\ IF explicit = "check" /\ intent = NoIntent
       THEN /\ explicit' = "none"
            /\ error' = IF error \in {"RECONCILIATION_FAILED", "EVENT_PERSIST_FAILED"} THEN "none"
                        ELSE error
            /\ UNCHANGED <<taskVars, passVars>>
       ELSE /\ explicit' = IF explicit = "tick" THEN "joined" ELSE "rejoined"
            /\ IF pass = "none" THEN StartPass(TRUE) ELSE UNCHANGED <<taskVars, passVars>>
            /\ UNCHANGED error
    /\ UNCHANGED <<src, vault, intent, hostVars, effectVars, up, clockVars, eventVars,
                   historyVars, boundVars>>

(***************************************************************************)
(* Shutdown, crash and the environment.                                    *)
(***************************************************************************)
Shutdown ==
    /\ Calm /\ crashes < MaxCrashes /\ crashes' = crashes + 1
    /\ up = "running"
    /\ watching' = FALSE /\ signals' = {}
    /\ IF handler # NoSignal
       THEN up' = "closing" /\ Enqueue("full", "shutdown")
       ELSE up' = "stopping" /\ UNCHANGED taskVars
    /\ UNCHANGED <<src, vault, intent, hostVars, effectVars, passVars, clockVars, handler, own,
                   statusVars, historyVars, noteEdits, edits, requests, failures>>

\* A stopped runtime drains its queue.  A start that threw has released the lease, one
\* that answered false keeps it until its process ends: a new process follows both.
Leave ==
    /\ up = "failed" \/ (Stopped /\ tasks = <<>> /\ pass = "none")
    /\ Gone
    /\ UNCHANGED <<failures, crashes>>

Crash ==
    /\ Calm /\ crashes < MaxCrashes /\ crashes' = crashes + 1
    /\ up # "down"
    /\ Gone
    /\ UNCHANGED failures

\* An external edit of a note, or a touch that changes nothing.
ChangeNote(n) ==
    /\ \/ /\ Calm /\ noteEdits < MaxNoteEdits /\ noteEdits' = noteEdits + 1
          /\ src' = [src EXCEPT ![n] = 1 - @]
          /\ missed' = IF watching THEN missed \ {n} ELSE missed \cup {n}
       \/ n \in Noisy /\ watching /\ UNCHANGED <<src, noteEdits, missed>>
    /\ signals' = IF watching THEN signals \cup {n} ELSE signals
    /\ UNCHANGED <<vault, intent, hostVars, effectVars, up, taskVars, passVars, clockVars,
                   watching, handler, own, statusVars, owed, seen, refused, overlooked, raced,
                   edits, requests, failures, crashes>>

\* People write in the outer part of a target, or delete it.
EditMoc(d) ==
    /\ Calm /\ edits < MaxEdits /\ vault[d] # Absent
    /\ \E bytes \in {Absent, [vault[d] EXCEPT !.outer = "human"]} :
           bytes # vault[d] /\ Atomic!Edit(d, bytes)
    /\ raced' = (raced \/ (claim = Slot /\ Effect.target = d))
    /\ signals' = IF watching THEN signals \cup {d} ELSE signals
    /\ UNCHANGED <<src, intent, hostVars, prepared, conflict, up, taskVars, passVars, clockVars,
                   watching, handler, own, statusVars, owed, seen, missed, refused, overlooked,
                   noteEdits, requests, crashes>>

\* Time is observed by the running process only.
Advance ==
    /\ up = "running"
    /\ idle' = IF intent = NoIntent THEN 0 ELSE Least(idle + 1, Debounce)
    /\ age' = IF intent = NoIntent THEN 0 ELSE Least(age + 1, MaxDelay)
    /\ since' = Least(since + 1, Periodic)
    /\ clockVars' # clockVars
    /\ UNCHANGED <<src, vault, intent, hostVars, effectVars, up, taskVars, passVars, eventVars,
                   statusVars, historyVars, boundVars>>

Coordinate ==
    \/ StartAdmission \/ FinishAdmission \/ TakeWork \/ SavePeriodicIntent \/ FinishPass
Reconcile ==
    \/ AdoptBeforePass \/ PlanBatch \/ RecordPending \/ BeginEffect \/ RefuseEffect
    \/ CommitUnchanged \/ PrepareEffect \/ CompareEffect \/ LandEffect \/ CommitEffect
    \/ AdoptAfterEffect \/ PassDone
StartUp == Boot \/ SaveStartIntent \/ RecoverEffects \/ AdoptAtStart \/ OpenWatcher \/ Leave
Receive == HandleEvent \/ \E s \in signals : Deliver(s)

Environment ==
    \/ FailAdmission \/ FailEffect \/ FailPass \/ FailStart \/ FailRead \/ WatcherFails
    \/ RequestNow \/ Shutdown \/ Crash
    \/ \E n \in Notes : ChangeNote(n)
    \/ \E d \in Mocs : EditMoc(d)

Next == Coordinate \/ Reconcile \/ StartUp \/ Receive \/ TimerTick \/ TickNow \/ Advance
            \/ Environment

Spec == Init /\ [][Next]_vars

(* Promises run to their end, the timer fires, the clock advances, watched *)
(* events are delivered and a host that stopped is started again.          *)
FairSpec ==
    /\ Spec
    /\ WF_vars(Coordinate) /\ WF_vars(Reconcile \/ FailEffect) /\ WF_vars(StartUp)
    /\ WF_vars(Receive) /\ WF_vars(TimerTick) /\ WF_vars(TickNow) /\ WF_vars(Advance)
================================================================================
