----------------------------- MODULE AtomicEffects -----------------------------
(***************************************************************************)
(* What the effects executor promises to its callers: each effect changes  *)
(* its target in one step, from the bytes its plan names to the bytes it   *)
(* proposes, and the outcome it is given agrees with that.                 *)
(*                                                                         *)
(* The comparison and the replacement are two steps, because a rename does *)
(* not compare: an edit between the two is lost, and nothing else is.      *)
(* EffectsExecutor implements this module (EffectsRefinement.tla) and      *)
(* ManagedMoc uses it in place of the executor.                            *)
(***************************************************************************)
EXTENDS Naturals

CONSTANTS
    Effects,     \* effect ids
    Targets,     \* vault paths
    Contents,    \* what a target may hold, absence included
    Nobody       \* no effect

VARIABLES
    plan,        \* the target, the prior and the proposed bytes of each effect
    vault,       \* the bytes of each target
    phase,       \* "none", "open" or the outcome of each effect
    landed,      \* effects whose proposed bytes were seen in their target
    claim,       \* the effect whose prior bytes were compared last, or Nobody
    edits,       \* edits by others so far
    failures     \* failed writes so far

vars == <<plan, vault, phase, landed, claim, edits, failures>>

Phases == {"none", "open", "COMMITTED", "STALE", "ABORTED", "RECOVERY_REQUIRED"}
Undecided == {"open", "RECOVERY_REQUIRED"}
Tolerated == edits + failures > 0

Holds(e, bytes) == vault[plan[e].target] = bytes
SetPhase(e, p) == phase' = [phase EXCEPT ![e] = p]

\* Work on an effect is recorded.  A decided effect is taken up again only if
\* it needed recovery, or after a failed write.
Begin(e) ==
    /\ phase[e] \in {"none", "RECOVERY_REQUIRED"} \/ (phase[e] # "open" /\ failures > 0)
    /\ SetPhase(e, "open")
    /\ UNCHANGED <<plan, vault, landed, claim, edits, failures>>

\* The target is compared with the prior bytes of the plan.
Compare(e) ==
    /\ phase[e] \in Undecided
    /\ Holds(e, plan[e].prior)
    /\ claim' = e
    /\ UNCHANGED <<plan, vault, phase, landed, edits, failures>>

\* The target is replaced by the effect that compared it.
Land(e) ==
    /\ claim = e
    /\ vault' = [vault EXCEPT ![plan[e].target] = plan[e].proposed]
    /\ landed' = landed \cup {e}
    /\ claim' = Nobody
    /\ UNCHANGED <<plan, phase, edits, failures>>

\* The proposed bytes are found in the target after an interruption.
Adopt(e) ==
    /\ phase[e] \in Undecided
    /\ Holds(e, plan[e].proposed)
    /\ landed' = landed \cup {e}
    /\ SetPhase(e, "open")
    /\ UNCHANGED <<plan, vault, claim, edits, failures>>

Commit(e) ==
    /\ phase[e] = "open"
    /\ e \in landed \/ plan[e].prior = plan[e].proposed
    /\ SetPhase(e, "COMMITTED")
    /\ UNCHANGED <<plan, vault, landed, claim, edits, failures>>

\* A refused effect never reached its target, unless somebody else edited it
\* or a write failed.
Refuse(e, outcome) ==
    /\ phase[e] = "open"
    /\ outcome \in {"STALE", "ABORTED"}
    /\ e \notin landed \/ Tolerated
    /\ SetPhase(e, outcome)
    /\ UNCHANGED <<plan, vault, landed, claim, edits, failures>>

Fail(e) ==
    /\ phase[e] = "open"
    /\ SetPhase(e, "RECOVERY_REQUIRED")
    /\ UNCHANGED <<plan, vault, landed, claim, edits, failures>>

\* The process that compared the target is gone or was interrupted.
Drop ==
    /\ claim # Nobody /\ claim' = Nobody
    /\ UNCHANGED <<plan, vault, phase, landed, edits, failures>>

WriteFails ==
    /\ failures' = failures + 1
    /\ claim' \in {claim, Nobody}
    /\ UNCHANGED <<plan, vault, phase, landed, edits>>

Edit(t, bytes) ==
    /\ edits' = edits + 1
    /\ vault' = [vault EXCEPT ![t] = bytes]
    /\ UNCHANGED <<plan, phase, landed, claim, failures>>

Init ==
    /\ phase = [e \in Effects |-> "none"]
    /\ landed = {} /\ claim = Nobody
    /\ edits = 0 /\ failures = 0

Next ==
    \/ \E e \in Effects :
           \/ Begin(e) \/ Compare(e) \/ Land(e) \/ Adopt(e) \/ Commit(e) \/ Fail(e)
           \/ Refuse(e, "STALE") \/ Refuse(e, "ABORTED")
    \/ Drop \/ WriteFails
    \/ \E t \in Targets, bytes \in Contents : Edit(t, bytes)

Spec == Init /\ [][Next]_vars
================================================================================
