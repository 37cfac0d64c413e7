--------------------------- MODULE EffectsRefinement ---------------------------
(***************************************************************************)
(* The executor implements AtomicEffects.                                  *)
(*                                                                         *)
(* An effect is "open" from its first journal entry to the entry that      *)
(* seals a receipt; it has landed once its rename happened or a VERIFIED   *)
(* entry says that the after image was found; its claim on the target is   *)
(* the time between the last comparison and the rename.                    *)
(***************************************************************************)
EXTENDS EffectsProperties

PlanOf == [e \in Effects |-> [target |-> TargetOf[e], prior |-> Prior[e],
                              proposed |-> Proposed[e]]]
PhaseOf == [e \in Effects |->
    LET own == Indices(e)
        last == CHOOSE i \in own : \A j \in own : j <= i
    IN  IF own = {} THEN "none"
        ELSE IF journal[last].receipt = NoReceipt THEN "open" ELSE journal[last].state]
LandedEffects == applied \cup {e \in Effects : EverIn(e, {"VERIFIED"})}
Claimant == IF pc = "replace" THEN cur ELSE NoEffect

Atomic == INSTANCE AtomicEffects WITH
    Nobody <- NoEffect, plan <- PlanOf, vault <- target, phase <- PhaseOf,
    landed <- LandedEffects, claim <- Claimant

\* Seen from outside, and whatever crashes and is recovered, each effect changes
\* its target in one step from the bytes it was planned on, and is reported
\* committed only if it landed and refused only if it did not.
ImplementsAtomicEffects == Atomic!Spec
================================================================================
