----------------------------- MODULE MocProperties -----------------------------
(***************************************************************************)
(* What the managed MOC pipeline promises.                                 *)
(***************************************************************************)
EXTENDS ManagedMoc

TaskNames == {"admit", "take", "finish"}

\* The variables have the types the code gives them, and the promise queue
\* never holds more than one task of each kind beside the one that runs.
MocTypeOK ==
    /\ src \in [Notes -> {0, 1}]
    /\ \A d \in Mocs : vault[d] \in ContentsOf(d) /\ ownership[d] \in ContentsOf(d) \cup {Unbound}
    /\ intent \in Intents \cup {NoIntent} /\ pending \in BOOLEAN
    /\ plan[Slot].target \in Mocs /\ phase[Slot] \in Atomic!Phases
    /\ landed \in SUBSET {Slot} /\ claim \in {Slot, NoEffect}
    /\ up \in {"down", "load", "recover", "adopt", "first", "open", "running", "closing",
               "stopping", "failed"}
    /\ tasks \in BoundedSeq(TaskNames, 3)
    /\ writing \in Intents \cup {NoIntent, NoWrite}
    /\ batch \in Batches \cup {NoBatch} /\ detached \in Batches \cup {NoBatch}
    /\ pass \in {"none", "take", "owner", "plan", "effects", "execute", "after", "finish"}
    /\ work \in Intents
    /\ idle \in 0 .. Debounce /\ age \in 0 .. MaxDelay /\ since \in 0 .. Periodic
    /\ signals \subseteq Files \cup {"full"} /\ handler \in Files \cup {"full", NoSignal}
    /\ explicit \in {"none", "saving", "tick", "joined", "check", "rejoined"}
    /\ error \in {"none", "RECONCILIATION_FAILED", "EVENT_PERSIST_FAILED", "WATCHER_FAILED",
                  "WATCHER_UNAVAILABLE"}

\* An event whose notify or requestReconciliation resolved stays covered by the
\* durable intent until a pass that took its snapshot later has finished,
\* through overflow, concurrent passes, failures, shutdown and crashes.
AcceptedEventsDurable == \A f \in owed : Covers(intent, f)

\* When no effect is pending, the recorded ownership of a target is what the
\* last effect committed there, also after a crash between the two.
OwnershipFollowsCommit ==
    ~pending /\ phase[Slot] = "COMMITTED" => ownership[Effect.target] = Effect.proposed

\* The host replaces a target only while it holds the bytes ownership was last
\* recorded for (or is missing), and never the text around a managed region,
\* except for an edit between the last comparison and the rename.
OnlyManagedTextReplaced ==
    [][\A d \in Mocs :
           vault'[d] # vault[d] /\ edits' = edits /\ ~raced =>
               /\ vault[d] = Absent \/ Binding(d) # Absent
               /\ Kind[d] = "fully-managed" => vault[d] \in {Absent, Binding(d)}
               /\ Kind[d] = "region-managed" =>
                      vault'[d].outer = vault[d].outer /\ vault[d].body = Binding(d).body]_vars

Stale(n) ==
    \E d \in Mocs : n \in NotesIn(d) /\ vault[d] # Absent /\ vault[d].body[n] # src[n]
Asked(n) == \E b \in {batch, detached} : b # NoBatch /\ n \in b.asked

\* While the runtime serves, a note that changed in front of the watcher and is
\* not yet reflected is on its way, or the lost event shows in the status;
\* unless the event was refused while a reconcileNow was in progress.
NoSilentStaleness ==
    up = "running" /\ ~overlooked =>
        \A n \in Notes \ missed : Stale(n) =>
            \/ n \in signals \/ handler = n \/ Asked(n)
            \/ intent # NoIntent /\ InScope(n, intent)
            \/ n \in refused /\ error = "EVENT_PERSIST_FAILED"

\* The host cannot proceed: a conflict, an unrecovered effect, ownership that
\* recovery could not repair, or a target that needs review.
Blocked ==
    \/ conflict \/ phase[Slot] \in {"open", "RECOVERY_REQUIRED"}
    \/ pending /\ ~OwnershipKnown
    \/ \E d \in Mocs : ~Plannable(d)

\* Accepted work is reconciled even if events never stop, unless the host is
\* blocked from some moment on, for good: what holds it up for the length of a
\* pass is no excuse.
AcceptedIsReconciled ==
    \/ <>[]Blocked
    \/ \A f \in Notes : []<>(f \notin owed \/ (pass = "finish" /\ InScope(f, work)))

\* Once requests stop, every change is reflected in the end, also one that
\* nobody saw: the periodic pass finds it, unless the host is blocked for good.
ChangesAreReflected ==
    <>[](batch = NoBatch) => <>[]Blocked \/ \A n \in Notes : []<>(~Stale(n))
================================================================================
