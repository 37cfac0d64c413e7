--------------------------- MODULE EffectsProperties ---------------------------
(***************************************************************************)
(* What the journaled effects executor promises.                           *)
(***************************************************************************)
EXTENDS EffectsExecutor

Steps == {"idle", "RECEIVED", "PLANNED", "PREPARED", "unlock", "next", "classify", "clean"}
             \cup TrySteps

\* The state variables have the types the code gives them, and the checkpoint
\* never runs ahead of the journal (validateCheckpoint never fails).
TypeOK ==
    /\ journal \in Seq(Entry)
    /\ target \in [Targets -> Contents]
    /\ temp \in SUBSET Effects
    /\ lock \in [Targets -> Effects \cup {NoEffect}]
    /\ arch \in [Effects -> ArchiveSteps]
    /\ versions \in SUBSET Receipt /\ archVersions \in SUBSET Receipt
    /\ alias \in [Effects -> Receipt \cup {NoReceipt}]
    /\ archAlias \in [Effects -> Receipt \cup {NoReceipt}]
    /\ audit \in [Effects -> Nat]
    /\ checkpoint \in 0 .. Len(journal)
    /\ pc \in Steps
    /\ mode \in {"execute", "recover"}
    /\ cur \in Effects \cup {NoEffect}
    /\ out \in Outcome
    /\ bound \in BOOLEAN
    /\ todo \in SUBSET Effects
    /\ heads \in [Targets -> Effects \cup {NoEffect}]
    /\ {unsafe, latched, checked, corrupt, raced, validated} \subseteq BOOLEAN
    /\ applied \in SUBSET Effects
    /\ {edits, crashes, failures} \subseteq Nat

\* Whatever crashed or failed, no prepared file, no APPLYING or VERIFIED entry
\* and no replaced target exists without the archived before image, its binding
\* and its manifest row.
BeforeImageArchived ==
    \A e \in Effects :
        e \in temp \/ e \in applied \/ EverIn(e, {"APPLYING", "VERIFIED"}) => arch[e] >= Bound

\* An entry that seals a receipt is preceded by the entry the receipt is
\* anchored to, and the receipt is immutable in both stores.
SealedReceiptsRetained ==
    \A i \in DOMAIN journal :
        LET r == journal[i].receipt
        IN  r # NoReceipt => Retained(r) /\ r.ref = i - 1 /\ r.eff = journal[i].eff

\* A COMMITTED entry is sealed; unless it is a no-op its archive is complete
\* and it was VERIFIED first, and if it is a no-op its audit is anchored.
CommittedEvidenceComplete ==
    \A i \in DOMAIN journal :
        LET e == journal[i].eff
            r == journal[i].receipt
        IN  journal[i].state = "COMMITTED" =>
                /\ r # NoReceipt
                /\ IF IsCommit(r)
                   THEN /\ arch[e] = Complete /\ r.archived
                        /\ \E j \in Indices(e) : j < i /\ journal[j].state = "VERIFIED"
                   ELSE audit[e] = r.ref

\* The executor replaces a target only where it holds the bytes of the plan's
\* precondition, except for an edit that fell between the last comparison and
\* the rename; the bytes it replaces are archived.
OnlyPriorReplaced ==
    [][\A t \in Targets : target'[t] # target[t] /\ edits' = edits =>
           /\ target[t] = Prior[cur] \/ raced
           /\ arch[cur] >= Bound]_vars

\* Without failing writes: while writes are enabled no effect other than the one
\* in progress is undecided, waits for a new plan, lacks its archive or conflicts
\* with external bytes.
WritesEnabledOnlyWhenResolved ==
    failures = 0 /\ checked /\ ~latched =>
        \A e \in Effects \ {cur} :
            Journaled(e) =>
                /\ SealOf(e) # NoReceipt
                /\ ReasonOf(e) \notin {"REPLAN_REQUIRED", "ARCHIVE_BEFORE_INVALID",
                                       "CONFLICTING_EXTERNAL_BYTES"}

\* A sealed COMMITTED, STALE or ABORTED is the last entry of its effect.
OutcomeIsFinal ==
    \A i \in DOMAIN journal :
        /\ journal[i].receipt # NoReceipt
        /\ journal[i].state \in {"COMMITTED", "STALE", "ABORTED"}
        => i = LastIndex(journal[i].eff)

\* With nobody else editing and no failing write, an effect reported as refused
\* was never applied.
RefusedNeverApplied ==
    edits = 0 /\ failures = 0 => \A e \in applied : StateOf(e) \notin {"STALE", "ABORTED"}

\* With nobody else editing and no failing write, a target with a committed
\* effect holds the bytes of the last one, or of a later effect that is not yet
\* decided.
CommittedHeadStands ==
    edits = 0 /\ failures = 0 =>
        \A e \in Effects :
            LET t == TargetOf[e]
            IN  /\ StateOf(e) = "COMMITTED"
                /\ \A f \in Effects : TargetOf[f] = t /\ StateOf(f) = "COMMITTED"
                                          => LastIndex(f) <= LastIndex(e)
                => \/ target[t] = Proposed[e]
                   \/ \E f \in applied :
                          TargetOf[f] = t /\ ~Resolved(f) /\ target[t] = Proposed[f]

\* A process killed between two durable writes, with no failing write and no
\* external edit, leaves evidence recovery accepts: it is never corruption.
CrashNeverLooksCorrupt == edits = 0 /\ failures = 0 => ~corrupt

\* The process that applies an effect has had its authority and preconditions
\* validated for that effect.
AppliedOnlyAfterRecheck ==
    [][target' # target /\ edits' = edits => validated]_vars

\* Again and again every effect with an entry is decided, or recovery has
\* blocked writes: no interruption leaves an effect open for ever.
StartedIsDecided ==
    []<>(latched \/ \A e \in Effects : Journaled(e) => SealOf(e) # NoReceipt)
================================================================================
