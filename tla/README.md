# GKOS-Engine in TLA+

A verification project for GKOS-Engine 2.2.0 (`src/`): TLA+ modules of its
stateful components, TLC configurations that check them on small instances, and
TLAPS proofs for every instance. Paths below are relative to the repository;
`executor.ts` is `src/navigation-effects/node/executor.ts`.

Run everything from this directory:

    tlc -workers 2 -config MCEffectsSafety.cfg MCEffects.tla     # a run
    tlapm EffectsProofs.tla                                      # a proof module

`PROJECT.json` lists the components, runs, mutants, the map from definitions to
source lines, findings, hazards and theorems.

## 1. The system

GKOS-Engine indexes a vault of Markdown notes and, when a host enables it, writes
managed "map of content" notes back into the vault. The parts:

| Part | State it keeps | Operations | What makes it hard | Model |
| --- | --- | --- | --- | --- |
| **Navigation Effects executor** `navigation-effects/node/executor.ts`, `journal.ts` | hash-chained journal, target locks, archive runs, receipts in two stores, checkpoint; in memory the recovery latch | `execute`, `executeMany`, `rollback`, `recoverStartup`, `shutdown` | crash between any two durable writes, external edits, failing writes, retries | `EffectsExecutor`, `AtomicEffects` |
| **Vault lease** (same file) | `vault.lease`, quarantine, handle | `acquireVaultLease`, `releaseVaultLease` | several processes, stale leases | `VaultLease` |
| **Managed MOC coordinator** `navigation-effects/coordinator.ts` | one durable intent, revision, debounce clock, admission batch | `start`, `notify`, `requestReconciliation`, `tick`, `stop` | events during a reconciliation, failing persist | `ManagedMoc` |
| **Managed MOC host and runtime** `navigation-effects/node/moc-host.ts`, `moc-runtime.ts` | host state file with one pending effect and the ownership table; watcher, own writes, status | `start`, `reconcile`, `recoverOwnership`, `reconcileNow`, `shutdown` | crash between commit and ownership, own writes that look like edits | `ManagedMoc` |
| **Effects planning** `planner.ts`, `moc-batch.ts`, `markers.ts`, `path-policy.ts` | none | pure functions | text | `Plannable` of `ManagedMoc`; else plans are constants |
| **Vault watcher** `watcher/` | host lock with its claim, SQLite journal, pointers behind a guard, recovery artifacts; hints, timers, a retry epoch | start, genesis, recover, reconcile, publish, retry, shutdown, reset | several hosts, death inside each of them, hints during a scan | `WatcherBootstrap`, `WatcherHost`, `WatcherPublication` |
| **Retrieval state and writer lock** `retrieval/state-writer-lock.ts`, `state-writer-authority.ts` | lock file, recovery claim, pointer digests | acquire, bind, commit, release, recover | handshake with ingest and watcher, interrupted recovery | `StateWriters` |
| **Retrieval algorithms** `retrieval/` | none | chunk, score, fuse, evaluate | floating point, text | none |
| **Ingest** `ingest/` | authority lock and claim, activation root, witness, pointers, attempt status | acquire, activate, record a blocked attempt, finalize, recover | a transition of several files, roll forward | `IngestActivation` (the authority) |
| **Service** `service/` | scheduler queue, event ring, sessions | acquire/release, append/resume, MCP | fairness at the caps, eviction | `WorkScheduler` (the scheduler) |
| **Graphiti ledger** `services/gkos-graphiti/` | SQLite jobs with leases | enqueue, claim, renew, observe, publish, revoke, quarantine, purge | expired leases, late backend calls, publication order | `GraphitiLedger` |
| **GKX core**, governance, science, navigation, desktop facade, CLI | none between calls | parse, build, report | text | none |

How they interact: the coordinator debounces events into one durable intent and
calls the host; the host takes a snapshot, plans, records one pending effect and
calls `execute`; the executor takes the vault lease, recovers once per process,
and then runs one operation at a time on a promise queue; after the commit the
host reads the journal back to advance ownership. The watcher, the legacy
retrieval writer and the ingest authority share the retrieval state directory
through three lock files and the published pointers; the service and the Graphiti
adapter read what they publish.

The executor comes first: it is the only part that changes the user's notes, and
the only one whose mistakes cannot be rebuilt from the vault.

## 2. EffectsExecutor

One process at a time, with the disk it leaves to the next one. Every awaited
durable write is one action, so that `Crash` falls between any two, and
`ExternalEdit` changes any target at any time.

| Variables | Code |
| --- | --- |
| `journal` | `journal.jsonl`, an entry per append; a receipt in an entry is its `receiptDigest` |
| `target`, `temp` | vault targets, and effects whose `.gkx-effect-*.tmp` exists |
| `lock` | the effect named in each `locks/*.lock` |
| `arch[e]` | how many of the six archive writes of `e` are done: before image, binding, manifest row (`Bound`), after image, diff row, result row (`Complete`) |
| `versions`, `alias`, `archVersions`, `archAlias` | immutable and current receipts in the state root and in the archive run |
| `audit` | the journal entry a no-change audit is anchored to |
| `checkpoint` | the journal length the last checkpoint recorded |
| `pc`, `mode`, `cur`, `out`, `bound` | the point `executeSerial` or `recoverStartupSerial` has reached, and its locals |
| `todo`, `heads`, `unsafe` | the loop of `recoverStartupSerial` |
| `latched`, `checked` | `recoveryWriteLatched`, `startupRecoveryChecked` |
| `corrupt`, `applied`, `raced`, `validated` | history, read only by properties |

`Execute` is the try block of `executeSerial`, `Record` is what both callers do
to record an outcome (`writeReceipt`, the no-change audit, the sealing append),
`Recover` is `recoverStartupSerial`. An exception goes through `Throw`: to the
catch block, out of the catch block (its receipt is lost and the lock is
released), or out of recovery (writes are latched). `IoFailure` makes any step of
those fail before it took effect; `AbandonOperation` is a rejection outside the
try block. A rollback is an effect whose plan reverts another one; `executeMany`
and retries are sequences of `Admit`.

What is abstracted: a file is its digest; paths are safe, so the `PATH_DENIED`
outcomes are left out; every plan that changes nothing is a managed
`moc-no-change` plan; the validator may refuse any plan at any call; several
reads between two durable writes are one step. A synced write is atomic and a
failing write writes nothing, so torn files are not covered. A replay that is
answered from its receipts changes nothing and is not an action.

### Properties (`EffectsProperties`)

- `TypeOK`; with it, `validateCheckpoint` never rejects a journal.
- `BeforeImageArchived`: nothing is staged, journaled as APPLYING or replaced
  without its archived before image, binding and manifest row.
- `SealedReceiptsRetained`: a sealed receipt is immutable in both stores and
  anchored to the entry before its seal.
- `CommittedEvidenceComplete`: COMMITTED means sealed, VERIFIED first and fully
  archived, or a no-op with an anchored audit.
- `OnlyPriorReplaced`: a target is replaced only over the bytes the plan names.
  The rename does not compare, so an edit between the last comparison and the
  rename is lost; `raced` marks exactly that window and nothing else is excused.
- `WritesEnabledOnlyWhenResolved`, `OutcomeIsFinal`, `RefusedNeverApplied`,
  `CommittedHeadStands`: what callers are told, and what the vault holds, agree
  across crashes, recoveries, retries and rollbacks.
- `StartedIsDecided` (liveness): every started effect is decided, or writes are
  latched.

Some properties carry a condition (`failures = 0`, `edits = 0`), because the code
does not keep them when a write fails: a retry after a failure behind the rename
finds the target changed by its own first attempt and records STALE, and an
operation abandoned outside the try block stays undecided. They are stated for
the crashes and recoveries they do survive.

### AtomicEffects

`AtomicEffects` is what the executor promises: every effect changes its target in
one step from the bytes its plan names to the bytes it proposes, and gets an
outcome that agrees with that. Comparing and replacing are two steps, because a
rename does not compare; an edit between them is lost, as in the code.
`EffectsRefinement` gives the mapping: an effect is open from its first journal
entry to the entry that seals a receipt, it has landed when the rename happened or
a VERIFIED entry says the after image was found, and it claims its target between
the last comparison and the rename. `ImplementsAtomicEffects` is checked on the
*Chain* instance through crashes and recoveries, and proved for every instance
(`ExecutorImplements`, section 9). `ManagedMoc` uses the abstract
module in place of the executor.

## 3. VaultLease

Any number of processes on any hosts; each file operation of `acquireVaultLease`
and `releaseVaultLease` is a step. A lease is numbered by its creation. A crashed
process stays dead and another member of `Processes` stands for its restart.
Two conditions of the code are nondeterministic: a dead owner may look alive (a
reused pid), and a failing write leaves the handle set. `overlap` records that a
process read a stale lease while another had read one and not yet renamed it.

- `ExclusiveUnlessTakeoversOverlap`: two holders at once need overlapping takeovers.
- `QuarantineNamesItsLease`: without overlap, a quarantined lease and its receipt
  carry their own digest.

## 4. ManagedMoc

Coordinator, host and runtime in one module, because what can go wrong is between
them: a file event that arrives while a reconciliation runs, a commit whose
ownership is not yet recorded, a write of the host itself that comes back as an
event. A step is what runs between two awaits, or one task of the coordinator's
promise queue.

| Variables | Code |
| --- | --- |
| `src`, `vault` | version of each note; content of each managed target, an outer part and a body |
| `intent`, `ownership`, `pending`, `plan[Slot]` | `moc-host.json`, replaced atomically |
| `phase`, `landed`, `claim`, `prepared`, `conflict` | the executor (`AtomicEffects` with one slot, as the host has one effect at a time) |
| `tasks`, `writing`, `batch`, `detached` | promise queue and admission batch of the coordinator |
| `pass`, `force`, `work`, `current`, `plans` | the active tick and the reconciliation it runs |
| `idle`, `age`, `since` | time since the last and the first event of the intent, and since the last full pass, each saturating at the option it is compared with |
| `watching`, `signals`, `handler`, `own`, `explicit`, `error` | `NodeManagedMocRuntime`: watcher, undelivered events, `selfWrites`, `reconcileNow`, status |
| `owed`, `seen`, `missed`, `refused`, `overlooked`, `raced` | history, read only by properties |

- `AcceptedEventsDurable`: an event whose `notify` resolved is in the durable
  intent until a pass that took its snapshot later has finished, through overflow,
  concurrent passes, failing writes, shutdown and crashes.
- `OwnershipFollowsCommit`: when no effect is pending, recorded ownership is what
  the last effect committed.
- `OnlyManagedTextReplaced` (action): a target is replaced only over the bytes
  ownership names, and the text around a managed region never.
- `NoSilentStaleness`: a change the watcher saw is on its way or its loss shows in
  the status.
- `AcceptedIsReconciled`, `ChangesAreReflected` (liveness): accepted work is
  reconciled under a stream of events that never stops (`Noisy`), and once
  requests stop every change is reflected, also one nobody saw; unless the host is
  blocked for good (`<>[]Blocked`). An effect that is open, or a target that cannot be
  planned, for the length of a pass excuses nothing.

Three behaviours of the code show up as conditions. An event that is refused while
`reconcileNow` is between its save and its check is overlooked when the latter
clears the error (`moc-runtime.ts:32-34`, `109`); `overlooked` excuses that only.
The periodic pass runs only without a pending intent, so the liveness properties
wait for the current one. And after a conflicting recovery
(`HOST_RECOVERY_TARGET_CONFLICT`) the host stays blocked for good; `Blocked` names
that and the targets that need review. In the run, where nobody edits a target, no
behaviour needs the exception: both properties hold without it.
With one target edit (918k states, too long beside the other parts of the run) it is
needed, and both hold with it.

Left out: people edit the text around a managed region, or delete a target, but do not
edit the managed text itself. `Plannable` refuses such a target and one whose region was
lost alike, and the second is reached. Of the steps of `recoverOwnership` that can fail,
`FailStart` is the one modelled; the others end the start the same way. `Leave` stands
for the end of the process a start failed in: the lease the code keeps when `start`
answers false, and releases when it throws, is free for the next process in both cases.

Fairness: a started pass, save or start runs to its end, the timer ticks, and time
advances. Events, edits, failures and crashes are owed by nobody.

## 5. The vault watcher

Three modules, cut where the code has an interface. `WatcherBootstrap` says which
process owns the watcher state, `WatcherHost` is what the owner does until it
stops, `WatcherPublication` is the one step of that loop which other processes see.

### WatcherBootstrap

Processes that each start once: `startWatcherHost` up to the opened journal, with
the exclusive host lock, the recovery of a stale lock under a claim, the creation
of the first journal (genesis), and the recovery of a genesis whose process died,
including the election of a single recoverer through a chain of immutable executor
records. Every file operation is a step. A file published through a stage goes
from `none` to `stage`, `linked` (two names, one inode: readers that insist on
one link refuse it) and `final`; a death inside a write leaves it `torn`. What the
directory comparisons of the code see depends on the file system, so they only may
refuse: `Fault`.

- `OneHostServes`, `OneHostWorks`, `OneJournal`: one process serves and it is the one
  the lock names; no two write the files of a journal and nobody writes a file of the
  journal another one serves; and one journal ever becomes the vault's.
- `LoneStartServes`: a start that has the vault to itself is refused only in the
  states `Stranded` lists. Those are the deaths nothing recovers from, and what
  recoveries that overlapped left of each other (`Crossed`), see section 11.

The selector and its candidates name the claim they are about (`selectorClaim`), and a
recovery by another claim refuses them, where the sweep of the candidates stops at the
first foreign one (`Foreign`, `Swept`).

### WatcherHost

One event loop; a step runs between two awaits. The vault is a version number and
`Content` says which versions hold equal bytes, so that an edit may be undone by the
next. A secure scan takes two snapshots: it answers with a version the vault had
while it ran, or is unstable. File system hints may be lost. Requests (a search, a
status) run beside reconciliations.

A publication is one step here, and may stop anywhere. `CutShort` has the four outcomes
its order of durable steps allows: nothing written; the journal has the intent (`orphan`);
the guard, its stage or the temporary pointer stands, the journal not having the
generation active or having it so (`cut`); all done, but the call throws. While `cut`
stands every publication is refused, with a code that is not retried
(`coordinator.ts:1333`, `pointer.ts:208`, `host.ts:493-500`), as is the retry of a vault
with an orphan (`journal.ts:2563-2583`): `PublishRefused`, `HistoryRefused`. Only the
recovery of the next start removes it. `past` is how the failures the journal holds were
resolved, which decides whether that start accepts them (`Startable`).

- `FailureIsRetried`: a failed batch the journal holds is retried for as long as the
  host runs, restarts included, and a stopping host arms no timer.
- `HintsReachAScan`: what a delivered hint was about is committed, or a scan that
  begins after it is on its way.
- `CoverageIsOfTheGeneration`, `AnswersAreCurrent`: a status and a search answer with
  a generation whose content the vault had since the request began.
- `EditsArePublished` (liveness): when the host stays up and the vault rests, its
  content is published in the end and stays published, whatever failed before; unless a
  publication that was cut short is in the way for good (`cut`), or a retry failed
  unrecorded.

The exemptions `absorbed`, `unrecorded` and `cut` are explained in sections 10 and 11. Fairness: a
scan or publication ends, an armed timer fires, somebody starts the host.

### WatcherPublication

`publishWatcherCoherentActivation`, its recovery by the next host and the lock-free
read of the pointer, file by file; the journal's transactions are atomic, as SQLite's
are. A write may be torn, a step may fail, hosts die.

- `ReadersSeeActivated`: a reader gets a complete generation, never an older one than
  was current when it began.
- `StoresAgree`: guard, pointer, authority and journal agree at every point.
- `RecoveryFinishes`: a publication that was cut short is finished by the next start,
  but for the listed files.

## 6. Writers of the retrieval state

`StateWriters` has the three kinds of writer. Each creates its own lock and then looks
for the others (legacy: `acquireLegacyRetrievalStateWriterAuthority`; ingest and
watcher: `storage.ts`, `journal.ts`); a legacy writer replaces its lock to bind the
pointer it will publish and publishes only under the bound lock; a recovery claims a
dead writer's lock by hard-linking it. Ingest and watcher are modelled here as far as
the handshake goes.

- `OneWriter`: one process writes at a time, across the kinds, crashes and recoveries,
  and a legacy writer replaces only the pointer it started from; unless two
  recoveries overlapped (section 11).

`IngestActivation` is the ingest side in full: the intent bound in the lock, the first
and later activations, blocked attempts, and the recovery that rolls a transition
forward once it reached its point of no return and leaves any other as it was.

- `TransitionsComplete`: a transition happens as a whole or not at all, no reader gets
  one that was replaced, and recovery finds its way from every death but a torn
  temporary and a lock created over another's claim.

## 7. GraphitiLedger and WorkScheduler

`GraphitiLedger` is `ledger.py` and `worker.py`: one action per SQLite transaction,
the worker cut at each await of its backend, calls that timed out and still take
effect while their process lives (`late`), leases that expire at any moment.

- `PublishedIsWhole`: what can become readable is whole, was never quarantined or
  revoked, and is the only published generation of its scope.
- `PurgedStaysAbsent`: nothing writes to the graph of a purged job.

`WorkScheduler` is `ServiceWorkScheduler`; each method runs without an await and is one
action with the pump it ends with.

- `WaitersAreServed`: no slot stays free while the pump would find a request for it
  (`SlotsAreUsed`); and while a session could run, no other session of its credential is
  chosen twice, and no other credential more than once between two turns of its own
  (`TurnsAreFair`), whatever comes, goes, expires or is released. The history `passes`
  counts the choices since the session could run. A dead request still uses up a turn of
  its credential, so the sessions of a credential with one count anew.

The pump's loop and the loops over a copy of the queue are recursive functions of the
number of entries done (`Rounds`, `Removed`), so that they can be proved about.

## 8. Runs

| Run | Instance and bounds | Shows |
| --- | --- | --- |
| `effects_safety` | *Batch*: two effects of one archive run, one on an existing and one on an absent target; 1 edit, 1 crash, 1 failing write, 2 attempts per effect (976k states) | `TypeOK` and the four evidence properties |
| `effects_outcomes` | *Chain*: an effect, its rollback and a no-change effect on one target; 1 edit, 2 crashes, 2 attempts (230k) | the four outcome properties and the refinement |
| `moc` | two directories, one with a region-managed and one with a fully managed target; 2 note edits, and 1 each of target edit, `reconcileNow`, failing write and crash or shutdown, any two of all these together (2.43m) | the safety properties of section 4 |
| `liveness` | the pipeline: one directory whose note is touched for ever, one crash, shutdown, note edit or lost watcher; the executor: an effect and its rollback, 1 edit, 2 crashes; the host: 1 edit, 1 fault, 1 request (291k) | the four liveness properties |
| `watcher_bootstrap` | three hosts, three journals, symmetry in both; 2 deaths, one of them inside a write, 1 failing step (736k) | the properties of `WatcherBootstrap` |
| `parts` | several components that share nothing, see below (1.40m) | the properties of the remaining modules |
| `effects_crash`, `effects_final`, `effects_authority`, `lease_takeover`, `watcher_bootstrap_crash`, `host_epoch` | the same instances with only the fault in question | the divergences of section 10 |

`MCParts` puts small instances of components that share no state into one run. A
behaviour is one of one component, chosen by `part` in the initial state; the others
stay as they began, so their states add and do not multiply, and each property
reads `part = "..." => ...`. `MCLiveness` does the same for the parts with liveness
properties, each with the fairness of its own specification. The instances of `MCParts`:

| `part` | Instance |
| --- | --- |
| `lease` | three processes on one host, one on another, three leases |
| `host` | 2 edits, 1 request, any number of restarts, 1 fault: a step that fails for another reason than an edit, a lost native watcher, or a publication cut short by an exception or a death |
| `publication` | 3 publications, 3 deaths, 1 of them inside a write, 1 failing step, 1 reader |
| `writers` | casts of four: two legacy writers and a recovery with the ingest or the watcher, one of each kind, or two writers with two recoveries |
| `ingest` | two owners, two recoveries, with or without a legacy pointer |
| `ledger` | two jobs of one scope, two workers, queue of one, two changes of the source |
| `scheduler` | six searches of two credentials and two sessions, two slots, a queue of three |

Why the bounds are enough for the questions asked: two effects share the run files
and three share a target with a rollback and a superseded head; two crashes put
one crash in execution and one in the recovery from it; a failing write, a crash
and an edit meet in every order in the first run; two attempts give one retry. In
`moc` every hazard is a pair (an event and a pass, a commit and a crash, an edit and
a save), so any two disturbances may meet. Three hosts give a dead one, its recoverer
and a competitor. They do not give every race: an earlier, stronger wording of
`OneHostWorks` (nobody writes while any host serves) passes with three hosts, and the
proof showed the fourth host that breaks it; the same happened to a `LoneStartServes`
whose `Stranded` states left out `Crossed`. The theorems of section 9 hold for any
number. A third publication follows on one that was cut short and recovered.
The host of `liveness` is smaller than that of `parts`, and its executor has one attempt
per effect, because a run checks one formula for all three; tried each by itself,
`EditsArePublished` holds with 2 edits, a request and a fault (922k states), with 3 edits
and a fault, and with 2 edits and 2 faults, and `StartedIsDecided` on *Chain* with its
three effects, two attempts, 1 edit and a crash (42k). `MaxDelay` is 1 in `liveness`: the
debounce is as long, so every event restarts it and only the maximal delay ends it.
Larger instances were tried where they finish: a publication with two readers (802k), all five kinds of writer at
once and two full recoveries (4.6m), three ingest owners (880k), a ledger queue of
two (393k): all properties hold there as well. In the instance of
`watcher_bootstrap` the list `Stranded` is exact: tried as one more invariant, no lone
start that was stranded ever comes to serve.

`CHECK_DEADLOCK FALSE` where the system really stops: an executor with no request,
processes that start once, a service that was closed. In `moc`
deadlock is checked: a coordinator whose queue waits on itself would be found.

Fairness of the executor (`FairSpec`): weak fairness of `Execute \/ Record \/ Recover`,
because a started promise runs to its end on the event loop and the host of a new
process runs recovery before its first write. Requests, edits, failures and crashes are
owed by nobody. `StartedIsDecided` reads `[]<>(latched \/ every journaled effect is
sealed)`; it makes no claim about a second recovery of a live process beyond what the
recovery after a crash while idle finds.

## 9. Proofs

The theorems hold for every value of the constants. What they assume of them is named
beside the constants: for the effects, `EffectsAssumption` to `BoundAssumption` (effects
are positive numbers, plan tables are functions, one run does not hold two effects for
one target); for the managed MOCs, `MocAssumption` and `MocBoundAssumption` (there is a
target, no two have the same path, the options are positive numbers); everywhere, that a sentinel is not an
ordinary value. No assumption bounds the number of processes, requests, edits, faults
or crashes.

Each proof has one lemma per action, or per group of actions that touch the same
variables, and under it a step per part of the invariant the action can disturb. TLC
checked each inductive invariant on the instance of its run before it was proved.

- `EffectsProofs`. `TypeInv` is `TypeOK` plus where the program counter may be in
  each mode. `SafetyInv` adds what the three safety invariants need to be
  inductive: `ArchivedWhenLate` (behind the archive step the effect in progress
  is archived; recovery gets there only through `ArchiveValid`),
  `ReceiptWritten` (which of the four copies of the receipt exist at each step),
  and `PriorBeforeReplace` (at the rename the target holds the prior bytes or an
  edit raced). It gives `TypeCorrect`, `BeforeImageAlwaysArchived`,
  `ReceiptsAlwaysRetained` and the action property `ReplacementIsGuarded`.
  Then commits: `CommitInv` is `CommittedBacked` and
  `OutcomeBacked`: the outcome in progress already has what a COMMITTED entry needs at
  the step it has reached. One lemma proves that evidence only grows (`EvidenceKept`),
  one that appending an entry keeps it (`EvidenceAppended`). The greatest index of an
  effect is found through the well-founded order on naturals (`Least`). It gives
  `CommitsAreBacked`.

  The outcome properties hold under conditions the code does not control (no failing
  write; nobody else editing), so their invariants come in three layers. `OpenInv`
  holds always: the effect in progress is undecided until its outcome is sealed, and
  the reason of a sealed outcome tells whether recovery blocked writes for it.
  `ResolvedHolds` holds while no write has failed: `AliasHolds` (an attempt finds either
  no current receipt or a sealed one, so writing the new receipt never throws between
  the unsealed entry and the seal, the step where an exception would leave an effect in
  doubt with writes enabled), `DoubtHolds` (an effect in doubt is the one in progress,
  or recovery has still to look at it, or writes are blocked) and `OutcomeIsFinal`,
  which is inductive with them. `AloneHolds` holds while nobody else has edited either:
  `BegunHolds` (one effect at most is unfinished with an archive; its target holds the
  prior bytes until it has landed and the proposed bytes from then on) and `WorkHolds`
  (what the operation in progress has compared is still so). Two lemmas about reading
  the journal (`JournalKept`, `JournalAppended`) carry all of it. Together they give
  `WritesNeedResolution`, `OutcomesStayFinal` (the property with the condition that
  `effects_final` shows it needs), `RefusedStaysUnapplied` and `CommittedStands`.

  Last, the refinement. With `AloneInv`, the conjunction of all the above, as the
  invariant, each step of the executor is one of `AtomicEffects` or is not seen there:
  an unsealed entry is `Begin` or nothing (`OpensAnEffect`), a VERIFIED entry is `Adopt`
  (`AdoptsTheBytes`), a seal is `Commit`, `Refuse` or `Fail` with the support each asks
  for (`SealDecides`), the comparison, the rename and the environment are `Compare`,
  `Land`, `Edit`, `WriteFails` and `Drop` (`ClaimsAreSeen`). It gives
  `ExecutorImplements`, without conditions on edits, failures or crashes.
- `MocProofs`. `TypeInv` and five parts: `QueueHolds` (the promise queue holds the batch
  being saved, the open batch and the step of the tick, each at most once, which is why
  a batch is saved before the tick that waits behind it), `WritingHolds` (what the task
  in progress is about to save covers what it took), `AcceptedHolds` (every accepted
  event is in the intent, in what is being saved or in a pass that took its snapshot
  later), `EffectHolds` (the pending effect, the plan in the slot and the ownership
  table agree at each stage of the pass) and `ClaimHolds` (between the last comparison
  and the rename the target holds the prior bytes or an edit raced). It gives
  `MocTypeCorrect`, `AcceptedAlwaysDurable`, `OwnershipAlwaysFollows` and the action
  property `OnlyManagedTextIsReplaced`.

  `StalenessIsNeverSilent` needs more, since a pass clears the intent at its end and the
  intent alone does not tell which notes a target is behind of. `Reflected` follows a
  changed note along its way: its event is pending (`Signalled`), or asked for in a batch
  or the intent (`Noticed`), or the plan under way already holds its new text, or every
  target has it, or an error shows. `StaleSupport` is what the hand-overs rely on: a
  batch still asks for what its waiters wait for (`BatchHolds`), an intent is only widened
  until a pass has covered it (`WorkHolds`), what was refused before a `reconcileNow` is
  part of what it asked for (`RefusedHolds`), and a pass goes on only after a committed
  effect (`AfterHolds`). There is one lemma for each hand-over (`StaleReceived`,
  `StaleAdmitted`, `StalePlanned`, `StaleLanded`, `StaleAdopted`, `StaleFinished`).
- `WatcherProofs`. `WatcherInv` is `FileTypes`, `HostTypes`, `ChainHolds` (the executor
  records are as many as their ordinals allow, the staged one included, so the election
  never finds a gap) and `OwnerHolds` (a live host that goes by a lock of its own is the
  one the lock names: a lock is removed only by its owner or for a dead one). It gives
  `WatcherTypeCorrect` and `OneHostAlwaysServes`. `JournalInv` adds three parts that need
  each other. `RolesHold`: a host in its genesis owns the lock, a recoverer past the stale
  lock is the selected executor, and the two exclude each other, since a genesis begins
  only in a directory without executor records. `FilesHold`: the files with fixed names
  are of one journal and follow each other, what a host has behind it is final, and the
  guard stands until the authority is named. `SelectionHolds`: a recoverer's journal is
  the selected one, bridged before an election, and the records say who was elected. It
  gives `OneHostAlwaysWorks` and `OneJournalAlways`. The first attempt at
  `OneHostAlwaysWorks` failed for a good reason, see section 11.
  `RecordInvariant` adds what the records on disk say: `ClaimsHold` (claims, selection and
  candidates are about locks of dead owners, and a recoverer past the selection goes by
  the claim it names), `RecordsHold` (the bridge is about the selected journal; before a
  selection, a planned journal is the one its creator still goes by and no file with a
  fixed name is there without it) and `LineHolds` (one executor record per host, each
  with the one before it, none without a final bridge). On these rests
  `LoneStartAlwaysServes`. Its invariant `LoneInv` says of a start that found nobody alive
  that nobody else is alive since, and, unless it was stranded, that it is `Ready`: at each
  stage of its route the files and its locals are such that no check refuses. `Takes` is
  the route by the lock, `Recovers` the one by the claim: `Follows` up to its executor
  record, `Room` for the files of its journal. There is one lemma per action or stage
  (`RouteStep`, `TakeoverStep`, `ClaimReady` to `ElectedReady`), and `ReadyStep` joins them.
  The steps of others matter only before the start, and what they leave is in `RecordInv`
  or in `Stranded`.
- `HostProofs`. `HostInv` is types, the property of coverage and five parts. `JobHolds` is about the reconciliation that
  runs: it retries a failure iff the retry epoch is set, a retry that was verified has
  published what it scanned, and what a delivered hint was about is in its scan unless
  one more is pending. `RetryHolds` ties the journal's failed batch to the epoch and the
  epoch to its timer or its retry, `HintsHold` speaks of the same hints between
  reconciliations, `DownHolds` of a host that is down, and `LeftTypes` types what a cut
  publication leaves. `RequestsHold` says that what a
  request has read so far is no older than the request. It gives `HostTypeCorrect`,
  `FailureAlwaysRetried`, `HintsAlwaysReachAScan`, `CoverageAlwaysOfTheGeneration` and
  `AnswersAlwaysCurrent`.
- `WriterProofs`. `Kept` says what each live process relies on at its place, one
  operator for each role: a legacy writer that its lock is still there, that ingest and
  watcher have given way and that the pointer stands (`LegacyFits`), a recovery that
  the writer it is about is dead and that the lock it removes is that writer's
  (`RecoveryFits`). One lemma for each role shows that a step that moves one process
  and lets it rely only on what holds keeps `Kept`; then each step is shown to be such
  a one. It gives `OneWriterAtATime`, for any number of processes of each role.
- `ActivationProofs`. `AuthorityInv` is types and five parts. `FilesHold` says that the
  files fit every lock and claim there is (`Fits`): one of the six states a first
  activation goes through, one of two for any other transition, or what the preflight
  saw; and that readers get an authority when no lock is there. `OwnersHold` says which
  of those states each stage of an owner has reached and that the lock is its own,
  `RecoveriesHold` that one recovery at a time goes by the lock of a dead owner and its
  second link, `RetiredHolds` that a generation which may still become the authority
  was never replaced. `RefusedHolds` is inductive with them: a recovery refuses only
  files that do not fit its lock. The views of those states (`FirstViews`, `LaterViews`,
  `BlockedView`) are lemmas of their own. It gives `TransitionsAlwaysComplete`, for any
  owners and recoveries.

- `SchedulerProofs`. `SchedulerInv` is `Shape` (the lists of turns have who waits, once
  each: `ListsHold`), `TurnsHold` and `Idle` (the pump would find nobody, or no slot is
  free). `TurnsHold` is the strengthening fairness needs: a session was passed over only
  by those that are behind it in the lists now (`Even`), so whoever is ahead of it may
  still be chosen once. Lemmas about lists without repetition say what taking a turn,
  joining and leaving do to who is before whom. `RoundTaken` is the choice a round of the
  pump makes, `DeadRoundEven` and `LiveRoundEven` its two outcomes. That the recursive
  functions of the loops exist (`RoundsExist`, `RemovedExist`) and keep the invariant is
  shown with a least counterexample, since the induction theorems are out of reach; that
  the pump ends idle follows because each round either is idle or takes a request out of
  the queue. It gives `WaitersAlwaysServed`, for any requests, credentials, sessions,
  caps and limits; it assumes only that each request has a credential and a session and
  that caps are natural numbers.
- `PartsProofs` is about what `MCParts` composes. The lease first: `LeaseInv` is
  `TypeOK` and `Exclusion`, which ties each handle to the lease it created and says
  that, without overlap, the only file a takeover may rename is the stale lease it read.
  It gives `LeaseTypeCorrect`, `LeaseExclusive` and `QuarantineFaithful`. Then the
  ledger: `LedgerInv` relates what a worker holds across its awaits to the rows:
  `InHand` (it has claimed the job it fills or still has a late call to, and the
  episodes it has verified are in that job's graph), `RowHolds` (what each state of a
  row says about the graph and about the processes that may still write to it; a
  fenced job never leaves the fenced states), `OnePublished` and `PurgeHolds` (a purge
  under way is of a job that nobody writes). It gives `PublishedAlwaysWhole` and
  `PurgedAlwaysAbsent`, for every set of jobs, scopes and workers. Then the
  publication: `PublicationInv` is `FilesHold` (what a guard, an authority and
  a journal entry say of each other; only what was activated or prepared is ever
  named), `Ready` (what exists on disk at each step of the publisher and of a
  recovery), `Seen` (what a reader has in hand) and `RecoveryFinishes`, which is
  inductive with them. It gives `ReadersAlwaysSeeActivated`, `StoresAlwaysAgree` and
  `RecoveryAlwaysFinishes`, for any number of attempts, deaths, torn writes and I/O
  errors. Last, for the
  publication, the writers, the ingest authority, the ledger, the scheduler and the host, that `PartsSpec` implements the
  part's own specification (each step of the composition is one of the part or leaves
  its variables alone), so that those theorems are theorems of
  the composition: `PartsReaders` to `PartsAnswers`, one for each property the run
  `parts` checks of them.

`HostProofs`, `WriterProofs`, `ActivationProofs`, `SchedulerProofs`, the publication and
the ledger carry what they assume of the constants as an operator (`HostAssumption` and so on).
`MCParts` instantiates those modules, and its `PartsAssumption`, which TLC evaluates, says that
its instances meet it.

Only model-checked: liveness (`StartedIsDecided` and the others), which is out of the
prover's reach. Every invariant and action property of the passing runs is proved.

## 10. Where code and documents disagree

Each has a run that finds it.

1. `effects_crash`: an outcome is journaled before its receipt exists. A crash in
   between makes the next recovery fail with RECEIPT_CORRUPT and latch writes,
   although nothing was corrupted (`executor.ts:805-807`, `1021`).
2. `effects_final`: the checkpoint after COMMITTED is written inside the try
   block; when it fails the committed effect is reopened (`executor.ts:866`, `878`).
3. `effects_authority`: recovery applies a prepared file without revalidating
   (`executor.ts:1072-1083`).
4. `lease_takeover`: overlapping takeovers of one stale lease yield two writers
   (`executor.ts:131-138`).
5. `watcher_bootstrap_crash`: a first process that dies between linking the fixed
   journal pointer and removing its stage leaves a pointer that every later start
   refuses (`watcher/host.ts:519`, `fs-authority.ts:1445-1512`,
   `journal.ts:1067-1083`), although `test/watcher-service-cli.test.mjs:1217` says
   that startup completes a dead bootstrap. The tests stop at the boundaries the
   code exposes to them; this one lies between two of those.
6. `host_epoch`: a retry that has published takes one more scan before it clears the
   epoch (`watcher/host.ts:922-924`). When the vault changes under that scan, the catch
   block cannot record the failure, because the journal has the batch complete
   (`journal.ts:565-574`), and does not get to `scheduleRetry` (`961`): `retryEpoch` stays
   set with no timer, and whatever comes joins a retry that never runs, until a restart.
   `docs/phase5-watcher-host.md:25` says of the epoch "A changed complete activation also
   clears it."

## 11. Observations

What the models and the reading showed beyond those: behaviours that no document,
comment or test was found to deny, so no run expects a violation. Where a property holds
only without such a behaviour, its condition (a history variable, or `cut`) names exactly
it.

- *Deaths the bootstrap does not recover from* (`Stranded`): a pointer, bridge or guard
  with two links; a torn guard, authority, generation descriptor or pointer artifact;
  a fixed pointer whose authority is not final (not routed to recovery); a claim whose
  claimant died after it removed the lock; the debris of a genesis that failed with
  an error, which `trueJournalGenesis` does not admit.
- *A late recoverer beside a serving host*, with four hosts. It goes by another's claim
  about a stale lock, which it reads again only at its end (`journal.ts:2046-2067`,
  `2122`). That other host completes its journal, serves and stops meanwhile; the late one
  then selects a journal of its own and writes its files, while a host that took the first
  journal's pointer before the bridge existed serves. The fixed name is taken, so the
  late one is refused, but its executor record and bridge stay without a claim, one of
  the `Stranded` states.
- *Recoveries that overlap* (`Crossed`, one of the `Stranded` states) can leave a vault that
  every later start refuses, although each of them behaved. A takeover of the lock removes
  its claim while a recoverer that went by that claim still writes: with four hosts, the
  late one selects a journal of its own, names a claim that is gone, ends its bridge and
  dies, and the next start refuses the vault another host has meanwhile completed, served
  and left (`journal.ts:1242-1262`, `1292-1362`, `1674-1718`, `2159-2186`). Two
  recoverers that have read the same last executor record before either stages its own
  both link theirs, one after the other; the chain forks, and `readExecutorChain` refuses
  it for good (`1498-1522`, `1553-1640`).
- *A retry the journal cannot record* (`unrecorded`): what section 10 shows of the
  verifying scan happens whenever a retry fails and the failure is not recorded: a code
  that is not among the retried ones (no space), a publication that is refused, or a
  journal that refuses the record. The host stays open without a timer.
- *A publication cut short in a live host* (`cut`): a step that throws after the guard is
  staged (`coordinator.ts:1493`) leaves it, and every publication until a restart is
  refused without a retry; the host stays open, and `getStatus` throws where the journal
  has the new generation active already (`host.ts:1099`), as does the first call of the
  shutdown. One that throws when all is done leaves `getStatus` free to call the old
  coverage fresh, though a search and a requested status still compare.
- *Starts that are refused* (`NextStartIsPossible`, violated): a failure that was resolved
  by a retry that changed nothing is validated against the outer pointer of that moment
  (`journal.ts:3113-3165`, `contracts.ts:1943-1975`), so once a later publication has moved the
  pointer, the next start refuses the journal; so does one that finds a second child
  of a failed batch, as a retry leaves that was recorded after its parent was resolved,
  or an intent without its outcome beside a resolved failure.
- *An absorbed hint* (`absorbed`): a hint between the last snapshot of a retry's scan
  and its continuation is taken for one the scan saw (`host.ts:803-806`); the
  periodic pass repairs it.
- *Shutdown*: `service.ts:380` waits for requests, while a search that waits for a retry
  is settled only in `on_shutdown` (`host.ts:1404-1421`), after the retry timer was
  cancelled; it ends at the 10 s deadline (`DrainedRequestsMove`). `on_shutdown` awaits
  the active reconciliation without a catch (`host.ts:1403`). A periodic timer shorter
  than a scan can starve a search.
- *Publication*: a death between linking the first authority and removing its
  temporary name makes `readWatcherAuthority` refuse every later start
  (`coordinator.ts:1264`, `1692`; `CutPublicationRecovers`); so does a torn guard stage,
  temporary pointer or authority.
- *Legacy writer*: two recoveries at once can remove the lock of a live writer
  (`state-writer-lock.ts:699-702`; `overlapped`). The prior pointer is read before the
  exclusive create (`488-495`): a writer that publishes in between leaves a lock whose
  owner can never bind and which recovery refuses. A recoverer that dies between
  removing lock and claim, while a writer past its claim check creates a lock and dies,
  leaves a pair no recovery accepts.
- *Ingest*: a preflight that sampled the authority before another owner's transition,
  creates its lock and dies before it rechecks leaves a lock recovery refuses for good
  (`crossed`); so does a torn mutable temporary (`storage.ts:2084-2096`).
- *Graphiti*: when a source is reverted, the id of an earlier job is computed again and
  that job, if terminal, can never be claimed; quarantined jobs hold queue capacity
  until they are revoked or purged.
- *Journal reset* (read, not modelled; `journal.ts:3552-5270`): a death between the link
  and the unlink of the plan, the bridge or the selected executor leaves a file with
  two links, which `readResetRecoveryPlan` and `readResetRecoveryBridge`
  (`3649-3695`, `3792-3810`, `3908-3921`) refuse for good; so does a torn guard stage,
  descriptor or pointer artifact. A second recovery that dies after it unlinked a dead
  executor and before it linked its own, the plan already removed, leaves
  RECOVERY_REQUIRED for good. A reset that fails with an exception releases the lock in
  its `finally` (`host.ts:374-377`) and leaves a plan with neither lock nor bridge. The
  tests (`test/watcher-journal-host.test.mjs:491`, `663`) stop at the boundaries the
  code exposes.
- *Managed MOC*: an event refused during a `reconcileNow` is forgotten when the latter
  clears the error (`overlooked`, `moc-runtime.ts:33`).

## 12. Not modelled

- Parsing, canonical encodings, chunking, scoring, fusion, evaluation, schema
  validation, policy tables, reports, the desktop facade and the command line. They are
  sequential and decided by text or floating-point detail that TLC cannot enumerate
  usefully and that unit tests reach well. They are most of the repository's lines, so
  the share of lines the map covers stays small whatever is modelled of the rest.
- The reset of the watcher's journal, its adoption and their recovery: a second protocol
  of the size of the bootstrap. What its reading showed is in section 11.
- In `EffectsExecutor`: torn writes and the `PATH_DENIED` arm of the catch block. And
  `ReleaseTargetLock` clears any lock that names the effect, where an attempt that ended in
  `TARGET_LOCK_HELD` because an earlier attempt of the same effect left its lock releases
  nothing; no property reads that lock.
- In `WatcherBootstrap`: torn lock and claim files (`journal.ts:925`, `947`, `2106`,
  `2147`). In `WatcherHost`: that the recovery of the next start may itself be refused
  (`WatcherPublication` has that), faults after the rows of a retry that changed nothing
  are committed, and a shutdown of a host whose status throws: it can only die.
- The event ring and the transports of the service; the staging of ingest
  generations and its readers; source removal delivery and the index refresh hook of
  the watcher; the TypeScript broker of Graphiti.

Next would come, in this order: the journal reset, beside `WatcherBootstrap`, whose
locks, claims and artifacts it shares; torn writes in the executor; the event ring;
removal delivery.
