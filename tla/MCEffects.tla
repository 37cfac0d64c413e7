------------------------------- MODULE MCEffects -------------------------------
(***************************************************************************)
(* Small instances of the effects executor.                                *)
(***************************************************************************)
EXTENDS EffectsRefinement

CONSTANTS b0, b1, t1, t2, r1, r2, r3

\* Batch: two effects of one archive run on two targets, one of them new.
BatchTargetOf == <<t1, t2>>
BatchPrior == <<b0, Absent>>
BatchProposed == <<b1, b1>>
BatchRunOf == <<r1, r1>>
BatchOriginal == <<0, 0>>
BatchInitial == [t \in {t1, t2} |-> IF t = t1 THEN b0 ELSE Absent]

\* Chain: an effect, its rollback, and an effect that changes nothing.
ChainTargetOf == <<t1, t1, t1>>
ChainPrior == <<b0, b1, b1>>
ChainProposed == <<b1, b1, b0>>
ChainRunOf == <<r1, r2, r3>>
ChainOriginal == <<0, 0, 1>>
ChainInitial == [t \in {t1} |-> b0]
================================================================================
