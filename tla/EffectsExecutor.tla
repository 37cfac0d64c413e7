---------------------------- MODULE EffectsExecutor ----------------------------
(***************************************************************************)
(* NodeNavigationEffectsExecutor (src/navigation-effects/node/executor.ts) *)
(* and its DurableEffectJournal (journal.ts): one process that replaces    *)
(* the bytes of vault targets through a journaled transaction, and the     *)
(* startup recovery that finishes or refuses what a dead process left.     *)
(*                                                                         *)
(* Every awaited durable write is one action, so a crash falls between any *)
(* two of them, and an external editor may change a target at any moment.  *)
(*                                                                         *)
(* Abstractions: a file is its digest; a synced write or rename is atomic  *)
(* and durable (torn writes are not modelled); paths are safe; all actions *)
(* run under the vault lease (VaultLease.tla) and on the serial queue of   *)
(* the executor, so at most one operation is in progress.                  *)
(***************************************************************************)
EXTENDS Integers, Sequences, FiniteSets

CONSTANTS
    Effects,        \* effect ids, numbers in the code-unit order of the ids
    Targets,        \* vault paths
    Bytes,          \* contents a target may have
    Runs,           \* archive run directories
    Absent,         \* a target that does not exist
    NoReceipt,      \* no receipt
    TargetOf,       \* plan.targetPath
    Prior,          \* plan.precondition: the bytes the plan replaces, or Absent
    Proposed,       \* plan.proposedDigest
    RunOf,          \* plan.archiveRunPath
    Original,       \* the effect a rollback plan reverts, 0 for an ordinary plan
    InitialTarget,  \* the vault before the first effect
    MaxEdits, MaxCrashes, MaxFailures, MaxAttempts   \* bounds of the model

NoEffect == 0
Contents == Bytes \cup {Absent}

Outcomes == {"COMMITTED", "STALE", "ABORTED", "RECOVERY_REQUIRED"}
JournalStates == {"RECEIVED", "PLANNED", "PREPARED", "APPLYING", "VERIFIED"} \cup Outcomes
Reasons == {"", "DENIED", "TARGET_PRECONDITION_MISMATCH", "BYTE_IDENTICAL",
            "TARGET_CHANGED_BEFORE_REPLACE", "EXECUTION_FAILURE", "REPLAN_REQUIRED",
            "ARCHIVE_BEFORE_INVALID", "CONFLICTING_EXTERNAL_BYTES",
            "RECOVERY_VERIFIED_AFTER_IMAGE", "RECOVERY_FINISHED_COMMIT",
            "RECOVERY_APPLIED_PREPARED_TEMP"}

(* A receipt: ref is the journal entry it is anchored to (the latest entry *)
(* when it was built); archived says whether it carries the archive digest.*)
Receipt == [eff : Effects, state : Outcomes, reason : Reasons, ref : Nat, archived : BOOLEAN]
Entry == [eff : Effects, state : JournalStates, reason : Reasons,
          receipt : Receipt \cup {NoReceipt}]
Outcome == [state : Outcomes, reason : Reasons, archived : BOOLEAN]

ASSUME EffectsAssumption == Effects \subseteq Nat \ {NoEffect}
ASSUME PlanAssumption ==
    /\ TargetOf \in [Effects -> Targets]
    /\ Prior \in [Effects -> Contents]
    /\ Proposed \in [Effects -> Bytes]
    /\ RunOf \in [Effects -> Runs]
    /\ Original \in [Effects -> Effects \cup {NoEffect}]
    /\ InitialTarget \in [Targets -> Contents]
(* One run never holds two plans for one target (DUPLICATE_BATCH_TARGET). *)
ASSUME RunAssumption ==
    \A e, f \in Effects : RunOf[e] = RunOf[f] /\ TargetOf[e] = TargetOf[f] => e = f
ASSUME SentinelAssumption == Absent \notin Bytes /\ NoReceipt \notin Receipt
ASSUME BoundAssumption ==
    {MaxEdits, MaxCrashes, MaxFailures, MaxAttempts} \subseteq Nat

VARIABLES
    journal,       \* journal.jsonl, the hash-chained sequence of entries
    target,        \* bytes of each vault target
    temp,          \* effects whose prepared temporary file exists
    lock,          \* effect named in each target's lock file, or NoEffect
    arch,          \* archive files written so far, see ArchiveSteps
    versions,      \* immutable receipts in the state root
    alias,         \* current receipt of each effect in the state root
    archVersions,  \* immutable receipts in the archive run
    archAlias,     \* current receipt of each effect in the archive run
    audit,         \* anchor of each effect's no-change audit, 0 if none
    checkpoint,    \* journal length recorded by the last checkpoint
    pc,            \* next durable step of the operation in progress
    mode,          \* "execute" or "recover"
    cur,           \* effect in progress
    out,           \* outcome being recorded
    bound,         \* archiveManifestDigest is known to this attempt
    todo,          \* effects recovery has still to look at
    heads,         \* liveCommittedEffectByTarget of this recovery
    unsafe,        \* some effect forbids enabling writes
    latched,       \* recoveryWriteLatched
    checked,       \* startupRecoveryChecked
    corrupt,       \* recovery refused the durable evidence (it threw)
    applied,       \* history: effects whose rename happened
    raced,         \* history: an edit fell between the recheck and the rename
    validated,     \* history: the validator accepted cur in this process
    edits, crashes, failures   \* counters for the bounds

receiptVars == <<versions, alias, archVersions, archAlias>>
recoveryVars == <<todo, heads, unsafe>>
latchVars == <<latched, checked, corrupt>>
boundVars == <<edits, crashes, failures>>
ghostVars == <<applied, raced, validated>>
vars == <<journal, target, temp, lock, arch, receiptVars, audit, checkpoint, pc, mode, cur,
          out, bound, recoveryVars, latchVars, ghostVars, boundVars>>

(***************************************************************************)
(* Reading the journal                                                     *)
(***************************************************************************)
Indices(e) == {i \in DOMAIN journal : journal[i].eff = e}
LastIndex(e) == LET own == Indices(e) IN CHOOSE i \in own : \A j \in own : j <= i
FirstIndex(e) == LET own == Indices(e) IN CHOOSE i \in own : \A j \in own : i <= j
Journaled(e) == Indices(e) # {}
StateOf(e) == IF Journaled(e) THEN journal[LastIndex(e)].state ELSE "NONE"
ReasonOf(e) == journal[LastIndex(e)].reason
SealOf(e) == journal[LastIndex(e)].receipt
EverIn(e, states) == \E i \in Indices(e) : journal[i].state \in states
Attempts(e) == Cardinality({i \in Indices(e) : journal[i].state = "RECEIVED"})
NoChange(e) == Prior[e] = Proposed[e]

(***************************************************************************)
(* The archive of a run.  arch[e] counts the files of e written, in order: *)
(* before image, binding, manifest row, after image, diff row, result row. *)
(* Manifest, diff and result are files of the run, one row per effect.     *)
(***************************************************************************)
ArchiveSteps == 0 .. 6
Bound == 3
Complete == 6
SameRun(e) == {f \in Effects : RunOf[f] = RunOf[e]}

ArchiveValid(e) ==
    /\ arch[e] >= Bound
    /\ \/ arch[e] = Bound /\ \A f \in SameRun(e) : arch[f] < 5
       \/ /\ \E f \in SameRun(e) : arch[f] = Complete
          /\ \A f \in SameRun(e) : arch[f] # 5

ArchiveComplete(e) == arch[e] = Complete /\ ArchiveValid(e)

(***************************************************************************)
(* Receipts                                                                *)
(***************************************************************************)
Sealed(r) == \E i \in DOMAIN journal : journal[i].receipt = r
Retained(r) == r \in versions /\ r \in archVersions
IsCommit(r) == r.state = "COMMITTED" /\ r.reason # "BYTE_IDENTICAL"

\* The receipt writeReceipt builds for the outcome in progress.
ThisReceipt == [eff |-> cur, state |-> out.state, reason |-> out.reason,
                ref |-> Len(journal), archived |-> out.archived]

\* writeReceipt: an existing alias may be replaced only if it was sealed, or
\* is the precommit receipt a crash left for the same journal entry.
AliasReplaceable(r) ==
    \/ alias[cur] = NoReceipt
    \/ /\ Retained(alias[cur])
       /\ archAlias[cur] = alias[cur]
       /\ \/ alias[cur] = r
          \/ Sealed(alias[cur])
          \/ /\ IsCommit(alias[cur]) /\ alias[cur].reason = "" /\ IsCommit(r)
             /\ alias[cur].ref = r.ref /\ alias[cur].archived = r.archived

\* validateTerminalReceipt of the entries of one effect up to entry i.
TerminalReceiptValid(i) ==
    LET e == journal[i].eff
        r == journal[i].receipt
    IN  /\ r # NoReceipt
        /\ Retained(r)
        /\ r.ref = i - 1
        /\ i = LastIndex(e) => alias[e] = r /\ archAlias[e] = r
        /\ (\/ r.archived
            \/ \E j \in Indices(e) : j <= i /\ journal[j].state \in {"APPLYING", "VERIFIED"})
           => r.archived /\ ArchiveValid(e)

ReceiptHistoryValid(e) ==
    \A i \in Indices(e) :
        journal[i].receipt # NoReceipt /\ journal[i].state # "COMMITTED" => TerminalReceiptValid(i)

\* validateCommittedOperation
CommittedValid(e, checkTarget) ==
    LET r == SealOf(e)
    IN  /\ r # NoReceipt
        /\ Retained(r)
        /\ r.ref = LastIndex(e) - 1
        /\ alias[e] = r
        /\ ~IsCommit(r) => audit[e] = r.ref
        /\ IsCommit(r) => r.archived /\ ArchiveComplete(e) /\ archAlias[e] = r
        /\ checkTarget => target[TargetOf[e]] = Proposed[e]

(***************************************************************************)
(* Control helpers                                                         *)
(***************************************************************************)
AppendEntry(state, reason, receipt) ==
    journal' = Append(journal, [eff |-> cur, state |-> state, reason |-> reason,
                                receipt |-> receipt])
Goto(step) == pc' = step
Decide(state, reason, archived) ==
    out' = [state |-> state, reason |-> reason, archived |-> archived]
NoOutcome == [state |-> "ABORTED", reason |-> "", archived |-> FALSE]
NoHeads == [t \in Targets |-> NoEffect]

\* The catch block of executeSerial: any exception inside the try.
Catch == Decide("RECOVERY_REQUIRED", "EXECUTION_FAILURE", bound) /\ Goto("mark")
Catching == mode = "execute" /\ out.state = "RECOVERY_REQUIRED"

\* The steps inside the try block of executeSerial, or inside its catch.
TrySteps == {"lock", "precondition", "read", "archive", "applying", "clear", "stage", "recheck",
             "replace", "verify", "after", "mark", "audit", "receipt", "alias", "archive-receipt",
             "archive-alias", "seal", "checkpoint"}
Executing(step) == pc = step /\ mode = "execute"
Recovering(step) == pc = step /\ mode = "recover"

(***************************************************************************)
(* The initial state: an empty state root and a process that has not yet   *)
(* run its startup recovery.                                               *)
(***************************************************************************)
VolatileInit ==
    /\ pc = "idle" /\ mode = "execute" /\ cur = NoEffect
    /\ out = NoOutcome /\ bound = FALSE
    /\ todo = {} /\ heads = NoHeads /\ unsafe = FALSE
    /\ latched = FALSE /\ checked = FALSE /\ corrupt = FALSE
    /\ raced = FALSE /\ validated = FALSE

Init ==
    /\ journal = <<>>
    /\ target = InitialTarget
    /\ temp = {}
    /\ lock = [t \in Targets |-> NoEffect]
    /\ arch = [e \in Effects |-> 0]
    /\ versions = {} /\ archVersions = {}
    /\ alias = [e \in Effects |-> NoReceipt]
    /\ archAlias = [e \in Effects |-> NoReceipt]
    /\ audit = [e \in Effects |-> 0]
    /\ checkpoint = 0
    /\ VolatileInit
    /\ applied = {}
    /\ edits = 0 /\ crashes = 0 /\ failures = 0

(***************************************************************************)
(* executeSerial                                                           *)
(***************************************************************************)

\* rollbackSerial may build its plan: the original is committed, replaced
\* existing bytes, and its before image is in the archive.
RollbackReady(r) ==
    Original[r] # NoEffect =>
        LET e == Original[r]
        IN  StateOf(e) = "COMMITTED" /\ Prior[e] # Absent /\ arch[e] >= 1

\* Mutant of MayAttempt: a STALE effect may be tried again like a failed one.
MutantMayAttempt(e) ==
    \/ ~Journaled(e)
    \/ /\ StateOf(e) \in {"RECOVERY_REQUIRED", "STALE"}
       /\ ReceiptHistoryValid(e)
       /\ TerminalReceiptValid(LastIndex(e))

\* An effect is new, or a RECOVERY_REQUIRED one whose evidence is intact.
\* Every other journaled effect is answered from its receipts: no change.
MayAttempt(e) ==
    \/ ~Journaled(e)
    \/ /\ StateOf(e) = "RECOVERY_REQUIRED"
       /\ ReceiptHistoryValid(e)
       /\ TerminalReceiptValid(LastIndex(e))

Admit(e) ==
    /\ pc = "idle" /\ checked /\ ~latched
    /\ Attempts(e) < MaxAttempts
    /\ RollbackReady(e)
    /\ MayAttempt(e)
    /\ mode' = "execute" /\ cur' = e /\ bound' = FALSE /\ out' = NoOutcome
    /\ validated' = FALSE /\ raced' = FALSE
    /\ Goto("RECEIVED")
    /\ UNCHANGED <<journal, target, temp, lock, arch, receiptVars, audit, checkpoint,
                   recoveryVars, latchVars, applied, boundVars>>

AppendAdmission ==
    /\ mode = "execute"
    /\ \/ pc = "RECEIVED" /\ Goto("PLANNED")
       \/ pc = "PLANNED" /\ Goto("PREPARED")
       \/ pc = "PREPARED" /\ Goto("lock")
    /\ AppendEntry(pc, "", NoReceipt)
    /\ UNCHANGED <<target, temp, lock, arch, receiptVars, audit, checkpoint, mode, cur, out,
                   bound, recoveryVars, latchVars, ghostVars, boundVars>>

AcquireTargetLock ==
    /\ Executing("lock")
    /\ \/ /\ lock[TargetOf[cur]] = NoEffect
          /\ lock' = [lock EXCEPT ![TargetOf[cur]] = cur]
          /\ Goto("precondition")
          /\ UNCHANGED out
       \/ /\ lock[TargetOf[cur]] # NoEffect    \* TARGET_LOCK_HELD
          /\ Catch
          /\ UNCHANGED lock
    /\ UNCHANGED <<journal, target, temp, arch, receiptVars, audit, checkpoint, mode, cur,
                   bound, recoveryVars, latchVars, ghostVars, boundVars>>

\* The host's preconditionValidator may refuse the plan at any call.
ValidatePreconditions ==
    /\ Executing("precondition")
    /\ \/ validated' = TRUE /\ Goto("read") /\ UNCHANGED out
       \/ Decide("ABORTED", "DENIED", FALSE) /\ Goto("mark") /\ UNCHANGED validated
    /\ UNCHANGED <<journal, target, temp, lock, arch, receiptVars, audit, checkpoint, mode, cur,
                   bound, recoveryVars, latchVars, applied, raced, boundVars>>

CompareTarget ==
    /\ Executing("read")
    /\ \/ /\ target[TargetOf[cur]] # Prior[cur]
          /\ Decide("STALE", "TARGET_PRECONDITION_MISMATCH", FALSE)
          /\ Goto("mark")
       \/ /\ target[TargetOf[cur]] = Prior[cur]
          /\ NoChange(cur)
          /\ Decide("COMMITTED", "BYTE_IDENTICAL", FALSE)
          /\ Goto("audit")
       \/ /\ target[TargetOf[cur]] = Prior[cur]
          /\ ~NoChange(cur)
          /\ Goto("archive")
          /\ UNCHANGED out
    /\ UNCHANGED <<journal, target, temp, lock, arch, receiptVars, audit, checkpoint, mode, cur,
                   bound, recoveryVars, latchVars, ghostVars, boundVars>>

\* Mutant of ArchiveBefore: the effect is applied before its manifest row is written.
MutantArchiveBefore ==
    /\ Executing("archive")
    /\ arch' = [arch EXCEPT ![cur] = IF @ < Bound THEN @ + 1 ELSE @]
    /\ bound' = (arch'[cur] >= Bound - 1)
    /\ Goto(IF bound' THEN "applying" ELSE "archive")
    /\ UNCHANGED <<journal, target, temp, lock, receiptVars, audit, checkpoint, mode, cur, out,
                   recoveryVars, latchVars, ghostVars, boundVars>>

\* archiveBefore: a file that is already there is compared and kept.
ArchiveBefore ==
    /\ Executing("archive")
    /\ arch' = [arch EXCEPT ![cur] = IF @ < Bound THEN @ + 1 ELSE @]
    /\ bound' = (arch'[cur] >= Bound)
    /\ Goto(IF bound' THEN "applying" ELSE "archive")
    /\ UNCHANGED <<journal, target, temp, lock, receiptVars, audit, checkpoint, mode, cur, out,
                   recoveryVars, latchVars, ghostVars, boundVars>>

AppendApplying ==
    /\ Executing("applying")
    /\ AppendEntry("APPLYING", "", NoReceipt)
    /\ Goto("clear")
    /\ UNCHANGED <<target, temp, lock, arch, receiptVars, audit, checkpoint, mode, cur, out,
                   bound, recoveryVars, latchVars, ghostVars, boundVars>>

StageTemporary ==
    /\ \/ Executing("clear") /\ temp' = temp \ {cur} /\ Goto("stage")
       \/ Executing("stage") /\ temp' = temp \cup {cur} /\ Goto("recheck")
    /\ UNCHANGED <<journal, target, lock, arch, receiptVars, audit, checkpoint, mode, cur, out,
                   bound, recoveryVars, latchVars, ghostVars, boundVars>>

\* Mutant of RecheckTarget: the target is not compared again.
MutantRecheckTarget ==
    /\ Executing("recheck")
    /\ raced' = FALSE
    /\ Goto("replace")
    /\ UNCHANGED <<journal, target, temp, lock, arch, receiptVars, audit, checkpoint, mode, cur,
                   out, bound, recoveryVars, latchVars, applied, validated, boundVars>>

RecheckTarget ==
    /\ Executing("recheck")
    /\ \/ /\ target[TargetOf[cur]] = Prior[cur]
          /\ raced' = FALSE
          /\ Goto("replace")
          /\ UNCHANGED out
       \/ /\ target[TargetOf[cur]] # Prior[cur]
          /\ Decide("STALE", "TARGET_CHANGED_BEFORE_REPLACE", bound)
          /\ Goto("mark")
          /\ UNCHANGED raced
    /\ UNCHANGED <<journal, target, temp, lock, arch, receiptVars, audit, checkpoint, mode, cur,
                   bound, recoveryVars, latchVars, applied, validated, boundVars>>

\* rename(temporaryPath, targetPath), by execution or by recovery.
Replace ==
    /\ pc = "replace"
    /\ target' = [target EXCEPT ![TargetOf[cur]] = Proposed[cur]]
    /\ temp' = temp \ {cur}
    /\ applied' = applied \cup {cur}
    /\ Goto("verify")
    /\ UNCHANGED <<journal, lock, arch, receiptVars, audit, checkpoint, mode, cur, out, bound,
                   recoveryVars, latchVars, raced, validated, boundVars>>

\* Read the after image back; VERIFIED only if it is the proposed one.
VerifyExecuted ==
    /\ Executing("verify")
    /\ \/ /\ target[TargetOf[cur]] = Proposed[cur]
          /\ AppendEntry("VERIFIED", "", NoReceipt)
          /\ Decide("COMMITTED", "", bound)
          /\ Goto("after")
       \/ /\ target[TargetOf[cur]] # Proposed[cur]
          /\ Catch
          /\ UNCHANGED journal
    /\ UNCHANGED <<target, temp, lock, arch, receiptVars, audit, checkpoint, mode, cur, bound,
                   recoveryVars, latchVars, ghostVars, boundVars>>

\* Mutant of WriteArchiveAfter: the receipt does not wait for the result row.
MutantWriteArchiveAfter ==
    /\ pc = "after"
    /\ arch' = [arch EXCEPT ![cur] = IF @ < Complete THEN @ + 1 ELSE @]
    /\ Goto(IF arch'[cur] >= Complete - 1 THEN "receipt" ELSE "after")
    /\ UNCHANGED <<journal, target, temp, lock, receiptVars, audit, checkpoint, mode, cur, out,
                   bound, recoveryVars, latchVars, ghostVars, boundVars>>

\* writeArchiveAfter: after image, diff row, result row.
WriteArchiveAfter ==
    /\ pc = "after"
    /\ arch' = [arch EXCEPT ![cur] = IF @ < Complete THEN @ + 1 ELSE @]
    /\ Goto(IF arch'[cur] = Complete THEN "receipt" ELSE "after")
    /\ UNCHANGED <<journal, target, temp, lock, receiptVars, audit, checkpoint, mode, cur, out,
                   bound, recoveryVars, latchVars, ghostVars, boundVars>>

\* The operation in progress ends: its locals are gone.
Rest ==
    /\ pc' = "idle" /\ mode' = "execute" /\ cur' = NoEffect
    /\ out' = NoOutcome /\ bound' = FALSE
    /\ todo' = {} /\ heads' = NoHeads /\ unsafe' = FALSE
    /\ raced' = FALSE /\ validated' = FALSE

\* recoverStartup and ensureStartupRecovery latch writes when recovery throws.
RecoveryThrows(evidence) ==
    /\ Rest
    /\ latched' = TRUE /\ checked' = TRUE /\ corrupt' = evidence

\* An exception: to the catch block, or out of it (its receipt is lost), or
\* out of recovery.
Throw(evidence) ==
    \/ /\ mode = "execute" /\ ~Catching
       /\ Catch
       /\ UNCHANGED <<mode, cur, bound, recoveryVars, latchVars, raced, validated>>
    \/ /\ mode = "execute" /\ Catching
       /\ Goto("unlock")
       /\ UNCHANGED <<mode, cur, out, bound, recoveryVars, latchVars, raced, validated>>
    \/ /\ mode = "recover"
       /\ RecoveryThrows(evidence)

(***************************************************************************)
(* Recording an outcome: an unsealed entry (except for COMMITTED), the     *)
(* receipt in four writes, then the entry that seals the receipt.          *)
(***************************************************************************)
MarkOutcome ==
    /\ pc = "mark"
    /\ AppendEntry(out.state, out.reason, NoReceipt)
    /\ Goto("receipt")
    /\ UNCHANGED <<target, temp, lock, arch, receiptVars, audit, checkpoint, mode, cur, out,
                   bound, recoveryVars, latchVars, ghostVars, boundVars>>

\* persistNoChangeAudit: immutable, and anchored to an entry of the effect.
AuditAdmissible ==
    /\ journal[Len(journal)].eff = cur
    /\ audit[cur] \in {0, Len(journal)}

PersistNoChangeAudit ==
    /\ pc = "audit"
    /\ \/ /\ AuditAdmissible
          /\ audit' = [audit EXCEPT ![cur] = Len(journal)]
          /\ Goto("receipt")
          /\ UNCHANGED <<mode, cur, out, bound, recoveryVars, latchVars, raced, validated>>
       \/ /\ ~AuditAdmissible
          /\ Throw(TRUE)
          /\ UNCHANGED audit
    /\ UNCHANGED <<journal, target, temp, lock, arch, receiptVars, checkpoint, applied,
                   boundVars>>

WriteReceipt ==
    /\ pc = "receipt"
    /\ \/ /\ AliasReplaceable(ThisReceipt)
          /\ IF alias[cur] = ThisReceipt
             THEN Goto("seal") /\ UNCHANGED versions
             ELSE Goto("alias") /\ versions' = versions \cup {ThisReceipt}
          /\ UNCHANGED <<mode, cur, out, bound, recoveryVars, latchVars, raced, validated>>
       \/ /\ ~AliasReplaceable(ThisReceipt)    \* RECEIPT_CORRUPT
          /\ Throw(TRUE)
          /\ UNCHANGED versions
    /\ UNCHANGED <<journal, target, temp, lock, arch, alias, archVersions, archAlias, audit,
                   checkpoint, applied, boundVars>>

\* Mutant of PublishReceipt: the archive gets the alias but no immutable copy.
MutantPublishReceipt ==
    /\ \/ /\ pc = "alias"
          /\ alias' = [alias EXCEPT ![cur] = ThisReceipt]
          /\ Goto("archive-alias")
          /\ UNCHANGED archAlias
       \/ /\ pc = "archive-alias"
          /\ archAlias' = [archAlias EXCEPT ![cur] = ThisReceipt]
          /\ Goto("seal")
          /\ UNCHANGED alias
    /\ UNCHANGED <<journal, target, temp, lock, arch, versions, archVersions, audit, checkpoint,
                   mode, cur, out, bound, recoveryVars, latchVars, ghostVars, boundVars>>

PublishReceipt ==
    /\ \/ /\ pc = "alias"
          /\ alias' = [alias EXCEPT ![cur] = ThisReceipt]
          /\ Goto("archive-receipt")
          /\ UNCHANGED <<archVersions, archAlias>>
       \/ /\ pc = "archive-receipt"
          /\ archVersions' = archVersions \cup {ThisReceipt}
          /\ Goto("archive-alias")
          /\ UNCHANGED <<alias, archAlias>>
       \/ /\ pc = "archive-alias"
          /\ archAlias' = [archAlias EXCEPT ![cur] = ThisReceipt]
          /\ Goto("seal")
          /\ UNCHANGED <<alias, archVersions>>
    /\ UNCHANGED <<journal, target, temp, lock, arch, versions, audit, checkpoint, mode, cur,
                   out, bound, recoveryVars, latchVars, ghostVars, boundVars>>

AfterSeal ==
    CASE mode = "execute" -> IF IsCommit(ThisReceipt) THEN "checkpoint" ELSE "unlock"
      [] mode = "recover" -> IF IsCommit(ThisReceipt) /\ cur \in temp THEN "clean" ELSE "next"

\* Mutant of SealOutcome: only a commit is sealed.
MutantSealOutcome ==
    /\ pc = "seal"
    /\ IF out.state = "COMMITTED" THEN AppendEntry(out.state, out.reason, ThisReceipt)
       ELSE UNCHANGED journal
    /\ Goto(AfterSeal)
    /\ UNCHANGED <<target, temp, lock, arch, receiptVars, audit, checkpoint, mode, cur, out,
                   bound, recoveryVars, latchVars, ghostVars, boundVars>>

SealOutcome ==
    /\ pc = "seal"
    /\ AppendEntry(out.state, out.reason, ThisReceipt)
    /\ Goto(AfterSeal)
    /\ UNCHANGED <<target, temp, lock, arch, receiptVars, audit, checkpoint, mode, cur, out,
                   bound, recoveryVars, latchVars, ghostVars, boundVars>>

\* Mutant of WriteCheckpoint: the recorded sequence is one too high.
MutantWriteCheckpoint ==
    /\ Executing("checkpoint")
    /\ checkpoint' = Len(journal) + 1
    /\ Goto("unlock")
    /\ UNCHANGED <<journal, target, temp, lock, arch, receiptVars, audit, mode, cur, out, bound,
                   recoveryVars, latchVars, ghostVars, boundVars>>

WriteCheckpoint ==
    /\ Executing("checkpoint")
    /\ checkpoint' = Len(journal)
    /\ Goto("unlock")
    /\ UNCHANGED <<journal, target, temp, lock, arch, receiptVars, audit, mode, cur, out, bound,
                   recoveryVars, latchVars, ghostVars, boundVars>>

\* finally: the lock is removed only by the attempt that created it.
ReleaseTargetLock ==
    /\ Executing("unlock")
    /\ lock' = [lock EXCEPT ![TargetOf[cur]] = IF @ = cur THEN NoEffect ELSE @]
    /\ Rest
    /\ UNCHANGED <<journal, target, temp, arch, receiptVars, audit, checkpoint, latchVars,
                   applied, boundVars>>

(***************************************************************************)
(* recoverStartupSerial                                                    *)
(***************************************************************************)
Resolved(e) == StateOf(e) \in {"COMMITTED", "ABORTED", "STALE"}

\* The last committed effect of a target, unless a later one is unfinished.
LiveHead(t) ==
    LET committed == {e \in Effects : TargetOf[e] = t /\ StateOf(e) = "COMMITTED"}
        head == CHOOSE e \in committed : \A f \in committed : LastIndex(f) <= LastIndex(e)
        superseded == \E f \in Effects :
                          /\ TargetOf[f] = t /\ Journaled(f) /\ ~Resolved(f)
                          /\ FirstIndex(f) > LastIndex(head)
    IN  IF committed = {} \/ superseded THEN NoEffect ELSE head

\* Another recoverStartup of the same process finds what the recovery of a
\* process that crashed while idle finds: the executor keeps nothing else.
StartRecovery ==
    /\ pc = "idle" /\ ~checked
    /\ checkpoint <= Len(journal)    \* validateCheckpoint
    /\ mode' = "recover"
    /\ todo' = {e \in Effects : Journaled(e)}
    /\ heads' = [t \in Targets |-> LiveHead(t)]
    /\ Goto("next")
    /\ UNCHANGED <<journal, target, temp, lock, arch, receiptVars, audit, checkpoint, cur, out,
                   bound, unsafe, latchVars, ghostVars, boundVars>>

IsNext(e) == Recovering("next") /\ e \in todo /\ \A f \in todo : e <= f

LockConflict(e) == lock[TargetOf[e]] \notin {NoEffect, e}

EvidenceValid(e) ==
    /\ ReceiptHistoryValid(e)
    /\ IF StateOf(e) = "COMMITTED"
       THEN CommittedValid(e, heads[TargetOf[e]] = e)
       ELSE ~LockConflict(e)

RecoverCommitted(e) ==
    /\ IsNext(e) /\ EvidenceValid(e) /\ StateOf(e) = "COMMITTED"
    /\ todo' = todo \ {e}
    /\ UNCHANGED <<journal, target, temp, lock, arch, receiptVars, audit, checkpoint, pc, mode,
                   cur, out, bound, heads, unsafe, latchVars, ghostVars, boundVars>>

CleanupStaleTargetLock(e) ==
    /\ IsNext(e) /\ EvidenceValid(e) /\ StateOf(e) # "COMMITTED"
    /\ lock' = [lock EXCEPT ![TargetOf[e]] = NoEffect]
    /\ todo' = todo \ {e}
    /\ cur' = e
    /\ Goto("classify")
    /\ UNCHANGED <<journal, target, temp, arch, receiptVars, audit, checkpoint, mode, out, bound,
                   heads, unsafe, latchVars, ghostVars, boundVars>>

RefuseEvidence(e) ==
    /\ IsNext(e) /\ ~EvidenceValid(e)
    /\ RecoveryThrows(TRUE)
    /\ UNCHANGED <<journal, target, temp, lock, arch, receiptVars, audit, checkpoint, applied,
                   boundVars>>

\* What recovery finds when it classifies an unfinished effect.
Open == Recovering("classify") /\ StateOf(cur) \notin {"STALE", "ABORTED"}
TerminalEvidence ==
    StateOf(cur) \in {"STALE", "ABORTED", "RECOVERY_REQUIRED"} =>
        TerminalReceiptValid(LastIndex(cur))
\* Mutants of AfterImage: only a VERIFIED entry proves the replacement; any
\* APPLYING entry does.
VerifiedAfterImage == target[TargetOf[cur]] = Proposed[cur] /\ StateOf(cur) = "VERIFIED"
ApplyingAfterImage == target[TargetOf[cur]] = Proposed[cur] \/ StateOf(cur) = "APPLYING"
AfterImage == target[TargetOf[cur]] = Proposed[cur]
BeforeImage == target[TargetOf[cur]] = Prior[cur] /\ ~AfterImage
Prepared == cur \in temp
NoChangeUnfinished ==
    /\ NoChange(cur) /\ AfterImage /\ ~Prepared
    /\ StateOf(cur) \in {"RECEIVED", "PLANNED", "PREPARED"}

ClassifyUnchanged ==
    UNCHANGED <<target, lock, arch, receiptVars, audit, checkpoint, mode, cur, bound, todo,
                heads, latchVars, applied, validated, boundVars>>

RefuseTerminalReceipt ==
    /\ Recovering("classify") /\ ~TerminalEvidence
    /\ RecoveryThrows(TRUE)
    /\ UNCHANGED <<journal, target, temp, lock, arch, receiptVars, audit, checkpoint, applied,
                   boundVars>>

\* STALE keeps its outcome; conflicting bytes keep writes blocked, and a
\* left-over temporary file is removed.  ABORTED keeps its outcome.
RecoverRefused ==
    /\ Recovering("classify") /\ TerminalEvidence /\ StateOf(cur) \in {"STALE", "ABORTED"}
    /\ \/ /\ ReasonOf(cur) = "CONFLICTING_EXTERNAL_BYTES"
          /\ unsafe' = TRUE
          /\ UNCHANGED temp
       \/ /\ ReasonOf(cur) # "CONFLICTING_EXTERNAL_BYTES"
          /\ temp' = IF StateOf(cur) = "STALE" THEN temp \ {cur} ELSE temp
          /\ UNCHANGED unsafe
    /\ Goto("next")
    /\ UNCHANGED <<journal, out, raced>>
    /\ ClassifyUnchanged

\* An unfinished no-change effect is committed if the validator still agrees.
RecoverNoChange ==
    /\ Open /\ TerminalEvidence /\ NoChangeUnfinished
    /\ \/ /\ Decide("COMMITTED", "BYTE_IDENTICAL", FALSE)
          /\ Goto("audit")
          /\ UNCHANGED unsafe
       \/ /\ unsafe' = TRUE    \* NO_CHANGE_AUTHORITY_REVALIDATION_FAILED
          /\ Goto("next")
          /\ UNCHANGED out
    /\ UNCHANGED <<journal, temp, raced>>
    /\ ClassifyUnchanged

\* The target holds the after image: finish the commit.
RecoverAfterImage ==
    /\ Open /\ TerminalEvidence /\ AfterImage /\ ~NoChangeUnfinished /\ ArchiveValid(cur)
    /\ IF StateOf(cur) = "VERIFIED"
       THEN UNCHANGED journal
       ELSE AppendEntry("VERIFIED", "RECOVERY_VERIFIED_AFTER_IMAGE", NoReceipt)
    /\ Decide("COMMITTED", "RECOVERY_FINISHED_COMMIT", TRUE)
    /\ Goto("after")
    /\ UNCHANGED <<temp, unsafe, raced>>
    /\ ClassifyUnchanged

\* The before image and the prepared file are there: apply the file.
RecoverPrepared ==
    /\ Open /\ TerminalEvidence /\ BeforeImage /\ Prepared /\ ArchiveValid(cur)
    /\ Decide("COMMITTED", "RECOVERY_APPLIED_PREPARED_TEMP", TRUE)
    /\ raced' = FALSE
    /\ Goto("replace")
    /\ UNCHANGED <<journal, temp, unsafe>>
    /\ ClassifyUnchanged

VerifyRecovered ==
    /\ Recovering("verify")
    /\ \/ /\ AfterImage
          /\ AppendEntry("VERIFIED", "RECOVERY_APPLIED_PREPARED_TEMP", NoReceipt)
          /\ Goto("after")
          /\ UNCHANGED <<mode, cur, out, bound, recoveryVars, latchVars, raced, validated>>
       \/ /\ ~AfterImage    \* RECOVERY_AMBIGUOUS
          /\ RecoveryThrows(FALSE)
          /\ UNCHANGED journal
    /\ UNCHANGED <<target, temp, lock, arch, receiptVars, audit, checkpoint, applied, boundVars>>

RecoverArchiveInvalid ==
    /\ Open /\ TerminalEvidence /\ ~NoChangeUnfinished /\ ~ArchiveValid(cur)
    /\ AfterImage \/ (BeforeImage /\ Prepared)
    /\ Decide("RECOVERY_REQUIRED", "ARCHIVE_BEFORE_INVALID", FALSE)
    /\ unsafe' = TRUE
    /\ Goto("mark")
    /\ UNCHANGED <<journal, temp, raced>>
    /\ ClassifyUnchanged

\* Mutant of RecoverReplan: an effect that waits for a new plan blocks nothing.
MutantRecoverReplan ==
    /\ Open /\ TerminalEvidence /\ BeforeImage /\ ~Prepared
    /\ IF StateOf(cur) = "RECOVERY_REQUIRED"
       THEN Goto("next") /\ UNCHANGED out
       ELSE Goto("mark") /\ Decide("RECOVERY_REQUIRED", "REPLAN_REQUIRED", FALSE)
    /\ UNCHANGED <<journal, temp, raced, unsafe>>
    /\ ClassifyUnchanged

\* Nothing was applied and nothing is prepared.
RecoverReplan ==
    /\ Open /\ TerminalEvidence /\ BeforeImage /\ ~Prepared
    /\ IF StateOf(cur) = "RECOVERY_REQUIRED"
       THEN Goto("next") /\ UNCHANGED out
       ELSE Goto("mark") /\ Decide("RECOVERY_REQUIRED", "REPLAN_REQUIRED", FALSE)
    /\ unsafe' = TRUE
    /\ UNCHANGED <<journal, temp, raced>>
    /\ ClassifyUnchanged

RecoverConflict ==
    /\ Open /\ TerminalEvidence /\ ~AfterImage /\ ~BeforeImage
    /\ Decide("STALE", "CONFLICTING_EXTERNAL_BYTES", ArchiveValid(cur))
    /\ unsafe' = TRUE
    /\ Goto("mark")
    /\ UNCHANGED <<journal, temp, raced>>
    /\ ClassifyUnchanged

RemoveTemporary ==
    /\ Recovering("clean")
    /\ temp' = temp \ {cur}
    /\ Goto("next")
    /\ UNCHANGED <<journal, target, lock, arch, receiptVars, audit, checkpoint, mode, cur, out,
                   bound, recoveryVars, latchVars, ghostVars, boundVars>>

FinishRecovery ==
    /\ Recovering("next") /\ todo = {}
    /\ checkpoint' = Len(journal)
    /\ latched' = unsafe /\ checked' = TRUE
    /\ Rest
    /\ UNCHANGED <<journal, target, temp, lock, arch, receiptVars, audit, corrupt, applied,
                   boundVars>>

(***************************************************************************)
(* The environment: editors, failing writes, the end of the process.       *)
(***************************************************************************)
ExternalEdit(t, b) ==
    /\ edits < MaxEdits /\ edits' = edits + 1
    /\ target[t] # b
    /\ target' = [target EXCEPT ![t] = b]
    /\ raced' = (raced \/ (pc = "replace" /\ TargetOf[cur] = t))
    /\ UNCHANGED <<journal, temp, lock, arch, receiptVars, audit, checkpoint, pc, mode, cur, out,
                   bound, recoveryVars, latchVars, applied, validated, crashes, failures>>

\* An awaited step inside the try block, or of recovery, rejects before it
\* took effect.
IoFailure ==
    /\ failures < MaxFailures /\ failures' = failures + 1
    /\ pc \in TrySteps \/ (mode = "recover" /\ pc # "idle")
    /\ Throw(FALSE)
    /\ UNCHANGED <<journal, target, temp, lock, arch, receiptVars, audit, checkpoint, applied,
                   edits, crashes>>

\* Outside the try block a rejection leaves things as they stand: an undecided
\* journal entry, or a lock file nobody releases.
AbandonOperation ==
    /\ failures < MaxFailures /\ failures' = failures + 1
    /\ mode = "execute" /\ pc \in {"RECEIVED", "PLANNED", "PREPARED", "unlock"}
    /\ Rest
    /\ UNCHANGED <<journal, target, temp, lock, arch, receiptVars, audit, checkpoint, latchVars,
                   applied, edits, crashes>>

NewProcess ==
    /\ crashes < MaxCrashes /\ crashes' = crashes + 1
    /\ checked \/ pc # "idle"
    /\ Rest
    /\ latched' = FALSE /\ checked' = FALSE /\ corrupt' = FALSE
    /\ UNCHANGED <<journal, target, temp, lock, arch, receiptVars, audit, applied, edits,
                   failures>>

Crash == NewProcess /\ UNCHANGED checkpoint

\* shutdown waits for the queue, then writes a clean checkpoint.
Shutdown == NewProcess /\ pc = "idle" /\ checkpoint' = Len(journal)

Execute ==
    \/ AppendAdmission \/ AcquireTargetLock \/ ValidatePreconditions \/ CompareTarget
    \/ ArchiveBefore \/ AppendApplying \/ StageTemporary \/ RecheckTarget \/ Replace
    \/ VerifyExecuted \/ WriteArchiveAfter \/ WriteCheckpoint \/ ReleaseTargetLock

Record ==
    MarkOutcome \/ PersistNoChangeAudit \/ WriteReceipt \/ PublishReceipt \/ SealOutcome

Recover ==
    \/ StartRecovery \/ FinishRecovery
    \/ \E e \in Effects : RecoverCommitted(e) \/ CleanupStaleTargetLock(e) \/ RefuseEvidence(e)
    \/ RefuseTerminalReceipt \/ RecoverRefused \/ RecoverNoChange \/ RecoverAfterImage
    \/ RecoverPrepared \/ VerifyRecovered \/ RecoverArchiveInvalid \/ RecoverReplan
    \/ RecoverConflict \/ RemoveTemporary

Environment ==
    \/ \E t \in Targets, b \in Contents : ExternalEdit(t, b)
    \/ IoFailure \/ AbandonOperation \/ Crash \/ Shutdown

Next == (\E e \in Effects : Admit(e)) \/ Execute \/ Record \/ Recover \/ Environment

Spec == Init /\ [][Next]_vars

(* The executor runs every promise it has started to its end, and the host *)
(* of a new process runs recovery; nobody owes it requests, edits or       *)
(* failures.                                                               *)
FairSpec == Spec /\ WF_vars(Execute \/ Record \/ Recover)
====
