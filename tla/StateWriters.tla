------------------------------ MODULE StateWriters ------------------------------
(***************************************************************************)
(* Who may write the retrieval state directory: the legacy retrieval       *)
(* writer under retrieval-writer.lock, the ingest authority under          *)
(* ingest-authority.lock, or the watcher.  Each creates its own lock and   *)
(* then looks for the others.  A legacy writer replaces its lock to bind   *)
(* the pointer it is about to publish; when its process died, an operator  *)
(* runs a recovery, which claims the lock by a second hard link to it.     *)
(*                                                                         *)
(* A process is one incarnation with one role and one attempt.  A file is  *)
(* what a name points to: the lock's bytes name its process and whether a  *)
(* target is bound, so a file is a record of both, and it has as many      *)
(* links as there are names that show it.  Reading a file, or one of the   *)
(* assertions about the other writers, is one step.  The operator confirms *)
(* that a process died only when it did; a lock is written when created.   *)
(* What ends an ingest or watcher authority is not modelled here.          *)
(***************************************************************************)
EXTENDS Naturals, FiniteSets

CONSTANTS
  Legacy, Recoverers, Ingest, Watchers,   \* processes, by role
  Casts,                                  \* bound: the sets of them that take part
  NoFile, NoPointer, Tombstone

VARIABLES
  lock, claim,         \* retrieval-writer.lock and retrieval-writer.recovery
  ingestLock, watcherLock,   \* the process whose lock it is
  journals,            \* the watcher's journal directory is not empty
  pointer,             \* active-retrieval.json: the legacy writer that published it
  pc, alive,
  prior,               \* of each legacy writer: the pointer it started from
  read,                \* of each recovery: the file its preliminary read found
  claimant,            \* the recovery that made the claim
  overlapped           \* history: a recovery began while another was under way

locks == <<lock, claim, claimant>>
authorities == <<ingestLock, watcherLock, journals>>
vars == <<locks, authorities, pointer, pc, alive, prior, read, overlapped>>

Incarnations == Legacy \cup Recoverers \cup Ingest \cup Watchers
LockFiles == [owner : Legacy, bound : BOOLEAN]

\* What the theorems assume of the constants: a process has one role.
WriterAssumption ==
  /\ Legacy \cap (Recoverers \cup Ingest \cup Watchers) = {}
  /\ Recoverers \cap (Ingest \cup Watchers) = {} /\ Ingest \cap Watchers = {}
  /\ NoFile \notin Incarnations \cup LockFiles
  /\ Casts \subseteq SUBSET Incarnations

Init ==
  /\ lock = NoFile /\ claim = NoFile /\ claimant = NoFile
  /\ ingestLock = NoFile /\ watcherLock = NoFile /\ journals = FALSE
  /\ pointer = NoPointer
  /\ pc = [p \in Incarnations |-> "idle"] /\ alive \in Casts
  /\ prior = [p \in Legacy |-> NoPointer] /\ read = [p \in Recoverers |-> NoFile]
  /\ overlapped = FALSE

-------------------------------------------------------------------------------
Step(p, from, to) == p \in alive /\ pc[p] = from /\ pc' = [pc EXCEPT ![p] = to]
Goes(p, from, ok, to, otherwise) == Step(p, from, IF ok THEN to ELSE otherwise)

File(p, bound) == [owner |-> p, bound |-> bound]
Links(f) == Cardinality({name \in {"lock", "claim"} : f = IF name = "lock" THEN lock ELSE claim})

\* readLock: a file with exactly the allowed number of links.
Reads(f, links) == f # NoFile /\ Links(f) = links

NoWatcher == watcherLock = NoFile /\ ~journals
NoPhase3 == ingestLock = NoFile /\ pointer # Tombstone
NoLegacy == lock = NoFile /\ claim = NoFile
Others == NoWatcher /\ NoPhase3

-------------------------------------------------------------------------------
(* The legacy writer.                                                      *)
Checks(p, from, ok, to, otherwise) ==
  /\ Goes(p, from, ok, to, otherwise)
  /\ UNCHANGED <<locks, authorities, pointer, alive, prior, read, overlapped>>

AcquireLegacy(p) ==
  \/ Checks(p, "idle", Others, "claim", "done")
  \/ Checks(p, "claim", claim = NoFile, "prior", "done")
  \/ /\ Step(p, "prior", "create") /\ prior' = [prior EXCEPT ![p] = pointer]
     /\ UNCHANGED <<locks, authorities, pointer, alive, read, overlapped>>
  \/ /\ Goes(p, "create", lock = NoFile, "recheck", "done")
     /\ lock' = IF lock = NoFile THEN File(p, FALSE) ELSE lock
     /\ UNCHANGED <<claim, claimant, authorities, pointer, alive, prior, read, overlapped>>

\* Mutant of Recheck: it trusts what it saw before it created its lock.
MutantRecheck(p) ==
  \/ Checks(p, "recheck", TRUE, "reopen", "abandon")
  \/ Checks(p, "reopen", lock = File(p, FALSE) /\ Reads(lock, 1), "held", "abandon")

\* The second half of the handshake.
Recheck(p) ==
  \/ Checks(p, "recheck", Others, "reopen", "abandon")
  \/ Checks(p, "reopen", lock = File(p, FALSE) /\ Reads(lock, 1), "held", "abandon")

\* assertLegacyRetrievalWriterCapability: the lock is still the one it wrote.
Capable(p, bound) == lock = File(p, bound) /\ Reads(lock, 1)

\* The build, and the calls of providers, end before the target is bound.
Bind(p) ==
  \/ Checks(p, "held", Capable(p, FALSE), "bind", "release")
  \/ Checks(p, "bind", Others /\ pointer = prior[p], "rename", "release")
  \/ /\ Step(p, "rename", "reread") /\ lock' = File(p, TRUE)
     /\ UNCHANGED <<claim, claimant, authorities, pointer, alive, prior, read, overlapped>>

Commit(p) ==
  \/ Checks(p, "reread", Capable(p, TRUE), "commit", "release")
  \/ Checks(p, "commit", Others /\ pointer = prior[p], "confirm", "release")
  \/ Checks(p, "confirm", Capable(p, TRUE), "publish", "release")
  \/ /\ Step(p, "publish", "release") /\ pointer' = p
     /\ UNCHANGED <<locks, authorities, alive, prior, read, overlapped>>

\* The capability holds whichever lock was written last; a caller that failed
\* before binding ends here too.
ReleaseLegacy(p) ==
  \/ Checks(p, "release", (Capable(p, FALSE) \/ Capable(p, TRUE)) /\ pointer \in {prior[p], p}, "unlink", "done")
  \/ Checks(p, "abandon", lock = File(p, FALSE) /\ Reads(lock, 1), "unlink", "done")
  \/ /\ Step(p, "unlink", "done") /\ lock' = NoFile
     /\ UNCHANGED <<claim, claimant, authorities, pointer, alive, prior, read, overlapped>>

-------------------------------------------------------------------------------
(* The recovery of a stale legacy lock.                                    *)
UnderWay(p) == p \in alive /\ pc[p] \notin {"idle", "done"}

Recovers(p) == UNCHANGED <<authorities, pointer, alive, prior>>

BeginRecovery(p) ==
  /\ Goes(p, "idle", claim = NoFile \/ claimant \notin alive, "restore", "done")
  /\ overlapped' = (overlapped \/ \E q \in Recoverers \ {p} : UnderWay(q))
  /\ UNCHANGED <<locks, read>> /\ Recovers(p)

RestoreLock(p) ==
  /\ Step(p, "restore", "read")
  /\ lock' = IF lock = NoFile THEN claim ELSE lock
  /\ UNCHANGED <<claim, claimant, read, overlapped>> /\ Recovers(p)

\* Through the claim when there is one; the process it names must be dead.
OwnerIsDead(f) == f.owner \notin alive

PreliminaryRead(p) ==
  LET f == IF claim = NoFile THEN lock ELSE claim
      links == IF claim # NoFile /\ lock # NoFile THEN 2 ELSE 1
      ok == Reads(f, links) /\ OwnerIsDead(f)
  IN /\ Goes(p, "read", ok, "pair", "done")
     /\ read' = [read EXCEPT ![p] = IF ok THEN f ELSE @]
     /\ UNCHANGED <<locks, overlapped>> /\ Recovers(p)

ReadPair(p) ==
  /\ Goes(p, "pair", claim = NoFile \/ (claim = read[p] /\ Reads(claim, 2)),
          IF claim = NoFile THEN "link" ELSE "unclaim", "done")
  /\ UNCHANGED <<locks, read, overlapped>> /\ Recovers(p)

RemoveClaim(p, from, to) ==
  /\ Goes(p, from, claim # NoFile, to, "done") /\ claim' = NoFile /\ claimant' = NoFile
  /\ UNCHANGED <<lock, read, overlapped>> /\ Recovers(p)

LinkClaim(p) ==
  LET ok == claim = NoFile /\ lock # NoFile
  IN /\ Goes(p, "link", ok, "claimed", "done")
     /\ claim' = (IF ok THEN lock ELSE claim) /\ claimant' = (IF ok THEN p ELSE claimant)
     /\ UNCHANGED <<lock, read, overlapped>> /\ Recovers(p)

Claimed(p, from, links, to) ==
  /\ Goes(p, from, claim = read[p] /\ Reads(claim, links), to, "done")
  /\ UNCHANGED <<locks, read, overlapped>> /\ Recovers(p)

\* Neither another authority nor a pointer that is not the writer's.
CheckState(p) ==
  /\ Goes(p, "state",
          Others /\ pointer \in {prior[read[p].owner]} \cup (IF read[p].bound THEN {read[p].owner} ELSE {}),
          "remove", "done")
  /\ UNCHANGED <<locks, read, overlapped>> /\ Recovers(p)

RemoveLock(p) ==
  /\ Goes(p, "remove", lock # NoFile, "final", "done") /\ lock' = NoFile
  /\ UNCHANGED <<claim, claimant, read, overlapped>> /\ Recovers(p)

Recover(p) ==
  \/ BeginRecovery(p) \/ RestoreLock(p) \/ PreliminaryRead(p)
  \/ ReadPair(p) \/ RemoveClaim(p, "unclaim", "link") \/ LinkClaim(p)
  \/ Claimed(p, "claimed", 2, "state") \/ CheckState(p)
  \/ RemoveLock(p) \/ Claimed(p, "final", 1, "finish") \/ RemoveClaim(p, "finish", "done")

-------------------------------------------------------------------------------
(* The ingest authority and the watcher.                                   *)
Handshake == UNCHANGED <<locks, alive, prior, read, overlapped>>

IngestSteps(p) ==
  \/ /\ Goes(p, "idle", NoWatcher /\ NoLegacy /\ ingestLock = NoFile, "create", "done")
     /\ UNCHANGED <<authorities, pointer>>
  \/ /\ Goes(p, "create", ingestLock = NoFile, "recheck", "done")
     /\ ingestLock' = (IF ingestLock = NoFile THEN p ELSE ingestLock)
     /\ UNCHANGED <<watcherLock, journals, pointer>>
  \/ Goes(p, "recheck", NoLegacy, "rewatch", "unlink") /\ UNCHANGED <<authorities, pointer>>
  \/ Goes(p, "rewatch", NoWatcher, "ingesting", "unlink") /\ UNCHANGED <<authorities, pointer>>
  \/ Step(p, "ingesting", "unlink") /\ pointer' \in {pointer, Tombstone} /\ UNCHANGED authorities
  \/ Step(p, "unlink", "done") /\ ingestLock' = NoFile /\ UNCHANGED <<watcherLock, journals, pointer>>

WatcherSteps(p) ==
  LET free == NoLegacy /\ ingestLock = NoFile
  IN \/ Goes(p, "idle", free /\ watcherLock = NoFile, "create", "done") /\ UNCHANGED <<authorities, pointer>>
     \/ /\ Goes(p, "create", watcherLock = NoFile, "recheck", "done")
        /\ watcherLock' = (IF watcherLock = NoFile THEN p ELSE watcherLock)
        /\ UNCHANGED <<ingestLock, journals, pointer>>
     \/ Goes(p, "recheck", free, "serving", "unlink") /\ UNCHANGED <<authorities, pointer>>
     \/ /\ Step(p, "serving", "serving") /\ ~journals /\ journals' = TRUE
        /\ UNCHANGED <<ingestLock, watcherLock, pointer>>
     \/ Step(p, "unlink", "done") /\ watcherLock' = NoFile /\ UNCHANGED <<ingestLock, journals, pointer>>

Crash(p) ==
  /\ UnderWay(p) /\ alive' = alive \ {p} /\ pc' = [pc EXCEPT ![p] = "done"]
  /\ UNCHANGED <<locks, authorities, pointer, prior, read, overlapped>>

Next ==
  \/ \E p \in Legacy : AcquireLegacy(p) \/ Recheck(p) \/ Bind(p) \/ Commit(p) \/ ReleaseLegacy(p)
  \/ \E p \in Recoverers : Recover(p)
  \/ \E p \in Ingest : IngestSteps(p) /\ Handshake
  \/ \E p \in Watchers : WatcherSteps(p) /\ Handshake
  \/ \E p \in Incarnations : Crash(p)

Spec == Init /\ [][Next]_vars

-------------------------------------------------------------------------------
\* An acquisition has returned and its authority not been given up.
InCharge(p) ==
  p \in alive /\ pc[p] \in {"held", "bind", "rename", "reread", "commit", "confirm", "publish", "ingesting", "serving"}

\* One process writes the state at a time, across the three kinds of writer, their
\* crashes and recoveries, and a legacy writer replaces only the pointer it started
\* from; unless two recoveries overlapped.
OneWriter ==
  ~overlapped =>
    /\ \A p, q \in Incarnations : InCharge(p) /\ InCharge(q) => p = q
    /\ \A p \in Legacy : InCharge(p) =>
         /\ lock = File(p, pc[p] \in {"reread", "commit", "confirm", "publish"})
         /\ pc[p] \in {"rename", "reread", "commit", "confirm", "publish"} => pointer = prior[p]
===============================================================================
