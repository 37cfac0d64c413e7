----------------------------- MODULE EffectsProofs -----------------------------
(***************************************************************************)
(* What holds of the effects executor for any vault, plans and bounds:     *)
(* type correctness, the archived before image, the retained receipts, the *)
(* compare-and-swap of every replacement, what stands behind a commit,     *)
(* when writes may be enabled, that an outcome is final and says what the  *)
(* target went through, and that the executor implements AtomicEffects.    *)
(***************************************************************************)
EXTENDS EffectsRefinement, WellFoundedInduction, TLAPS

(***************************************************************************)
(* Types.  TypeOK is inductive once an operation in progress has an effect;*)
(* it is proved group by group.                                            *)
(***************************************************************************)
journalVars == <<journal, checkpoint>>
vaultVars == <<target, temp, applied>>
workVars == <<lock, arch, audit>>

JournalTyped == journal \in Seq(Entry) /\ checkpoint \in 0 .. Len(journal)

VaultTyped ==
    /\ target \in [Targets -> Contents]
    /\ temp \in SUBSET Effects
    /\ applied \in SUBSET Effects

WorkTyped ==
    /\ lock \in [Targets -> Effects \cup {NoEffect}]
    /\ arch \in [Effects -> ArchiveSteps]
    /\ audit \in [Effects -> Nat]

ReceiptsTyped ==
    /\ versions \in SUBSET Receipt /\ archVersions \in SUBSET Receipt
    /\ alias \in [Effects -> Receipt \cup {NoReceipt}]
    /\ archAlias \in [Effects -> Receipt \cup {NoReceipt}]

BoundsTyped == edits \in Nat /\ crashes \in Nat /\ failures \in Nat

RecoveryTyped ==
    /\ todo \in SUBSET Effects
    /\ heads \in [Targets -> Effects \cup {NoEffect}]
    /\ unsafe \in BOOLEAN /\ latched \in BOOLEAN /\ checked \in BOOLEAN /\ corrupt \in BOOLEAN

ControlTyped ==
    /\ pc \in Steps
    /\ mode \in {"execute", "recover"}
    /\ cur \in Effects \cup {NoEffect}
    /\ out \in Outcome
    /\ bound \in BOOLEAN /\ raced \in BOOLEAN /\ validated \in BOOLEAN
    /\ pc \notin {"idle", "next"} => cur \in Effects

TypeInv ==
    /\ JournalTyped /\ VaultTyped /\ WorkTyped /\ ReceiptsTyped /\ BoundsTyped
    /\ RecoveryTyped /\ ControlTyped

LEMMA TypeInvImpliesTypeOK == TypeInv => TypeOK
BY DEF TypeInv, JournalTyped, VaultTyped, WorkTyped, ReceiptsTyped, BoundsTyped, RecoveryTyped,
       ControlTyped, TypeOK

LEMMA InitTyped == Init => TypeInv
<1>. SUFFICES ASSUME Init PROVE TypeInv
  OBVIOUS
<1>1. JournalTyped /\ VaultTyped /\ WorkTyped /\ ReceiptsTyped /\ BoundsTyped
  BY PlanAssumption DEF Init, JournalTyped, VaultTyped, WorkTyped, ReceiptsTyped, BoundsTyped,
                        ArchiveSteps
<1>2. NoOutcome \in Outcome
  BY DEF NoOutcome, Outcome, Outcomes, Reasons
<1>3. RecoveryTyped /\ ControlTyped
  BY <1>2 DEF Init, VolatileInit, RecoveryTyped, ControlTyped, Steps, NoHeads
<1>. QED
  BY <1>1, <1>3 DEF TypeInv

\* A step that leaves a group of variables alone keeps its types.
LEMMA Framed ==
    /\ JournalTyped /\ UNCHANGED journalVars => JournalTyped'
    /\ VaultTyped /\ UNCHANGED vaultVars => VaultTyped'
    /\ WorkTyped /\ UNCHANGED workVars => WorkTyped'
    /\ ReceiptsTyped /\ UNCHANGED receiptVars => ReceiptsTyped'
    /\ BoundsTyped /\ UNCHANGED boundVars => BoundsTyped'
    /\ RecoveryTyped /\ UNCHANGED <<recoveryVars, latchVars>> => RecoveryTyped'
<1>1. JournalTyped /\ UNCHANGED journalVars => JournalTyped'
  BY DEF JournalTyped, journalVars
<1>2. VaultTyped /\ UNCHANGED vaultVars => VaultTyped'
  BY DEF VaultTyped, vaultVars
<1>3. WorkTyped /\ UNCHANGED workVars => WorkTyped'
  BY DEF WorkTyped, workVars
<1>4. ReceiptsTyped /\ UNCHANGED receiptVars => ReceiptsTyped'
  BY DEF ReceiptsTyped, receiptVars
<1>5. BoundsTyped /\ UNCHANGED boundVars => BoundsTyped'
  BY DEF BoundsTyped, boundVars
<1>6. RecoveryTyped /\ UNCHANGED <<recoveryVars, latchVars>> => RecoveryTyped'
  BY DEF RecoveryTyped, recoveryVars, latchVars
<1>. QED
  BY <1>1, <1>2, <1>3, <1>4, <1>5, <1>6

LEMMA Decided ==
    ASSUME NEW state \in Outcomes, NEW reason \in Reasons, NEW archived \in BOOLEAN,
           Decide(state, reason, archived)
    PROVE  out' \in Outcome
BY DEF Decide, Outcome

\* The journal after an append: one entry longer, the earlier entries as they were.
LEMMA Appended ==
    ASSUME journal \in Seq(Entry), checkpoint \in 0 .. Len(journal), cur \in Effects,
           NEW state \in JournalStates, NEW reason \in Reasons,
           NEW receipt \in Receipt \cup {NoReceipt},
           AppendEntry(state, reason, receipt)
    PROVE  /\ journal' \in Seq(Entry)
           /\ Len(journal') = Len(journal) + 1
           /\ checkpoint \in 0 .. Len(journal')
           /\ journal'[Len(journal) + 1] =
                  [eff |-> cur, state |-> state, reason |-> reason, receipt |-> receipt]
           /\ \A i \in 1 .. Len(journal) : journal'[i] = journal[i]
<1>. DEFINE entry == [eff |-> cur, state |-> state, reason |-> reason, receipt |-> receipt]
<1>1. entry \in Entry
  BY DEF Entry
<1>2. journal' = Append(journal, entry)
  BY DEF AppendEntry
<1>. HIDE DEF entry
<1>3. /\ journal' \in Seq(Entry) /\ Len(journal') = Len(journal) + 1
      /\ journal'[Len(journal) + 1] = entry
      /\ \A i \in 1 .. Len(journal) : journal'[i] = journal[i]
  BY <1>1, <1>2
<1>4. checkpoint \in 0 .. Len(journal')
  BY <1>3
<1>. QED
  BY <1>3, <1>4 DEF entry

\* The receipt writeReceipt builds is a receipt.
LEMMA ThisReceiptTyped == TypeInv /\ cur \in Effects => ThisReceipt \in Receipt
BY DEF TypeInv, JournalTyped, ControlTyped, ThisReceipt, Receipt, Outcome

\* Ending an operation, normally or by an exception, leaves typed locals.
LEMMA RestTyped ==
    Rest => ControlTyped' /\ (UNCHANGED <<latched, checked, corrupt>> /\ RecoveryTyped => RecoveryTyped')
<1>1. NoOutcome \in Outcome
  BY DEF NoOutcome, Outcome, Outcomes, Reasons
<1>2. Rest => ControlTyped'
  BY <1>1 DEF Rest, ControlTyped, Steps
<1>3. Rest /\ UNCHANGED <<latched, checked, corrupt>> /\ RecoveryTyped => RecoveryTyped'
  BY DEF Rest, RecoveryTyped, NoHeads
<1>. QED
  BY <1>2, <1>3

LEMMA RecoveryThrowsTyped ==
    ASSUME NEW evidence \in BOOLEAN, RecoveryThrows(evidence)
    PROVE  ControlTyped' /\ RecoveryTyped'
BY RestTyped DEF RecoveryThrows, Rest, RecoveryTyped, NoHeads

LEMMA ThrowTyped ==
    ASSUME ControlTyped, RecoveryTyped, mode = "execute" => cur \in Effects,
           NEW evidence \in BOOLEAN, Throw(evidence)
    PROVE  ControlTyped' /\ RecoveryTyped'
<1>1. CASE mode = "execute" /\ ~Catching
  <2>1. /\ Catch
        /\ UNCHANGED <<mode, cur, bound, recoveryVars, latchVars, raced, validated>>
    BY <1>1 DEF Throw
  <2>2. ControlTyped'
    BY <2>1, <1>1 DEF ControlTyped, Catch, Decide, Goto, Outcome, Outcomes, Reasons, Steps,
       TrySteps
  <2>. QED
    BY <2>1, <2>2 DEF RecoveryTyped, recoveryVars, latchVars
<1>2. CASE mode = "execute" /\ Catching
  <2>1. /\ Goto("unlock")
        /\ UNCHANGED <<mode, cur, out, bound, recoveryVars, latchVars, raced, validated>>
    BY <1>2 DEF Throw
  <2>. QED
    BY <2>1, <1>2 DEF ControlTyped, RecoveryTyped, recoveryVars, latchVars, Goto, Steps,
       TrySteps
<1>3. CASE mode = "recover"
  BY <1>3, RecoveryThrowsTyped DEF Throw
<1>. QED
  BY <1>1, <1>2, <1>3 DEF ControlTyped
(***************************************************************************)
(* Every step keeps the types.                                             *)
(***************************************************************************)
LEMMA TypeStep == TypeInv /\ [Next]_vars => TypeInv'
<1>. SUFFICES ASSUME TypeInv, [Next]_vars PROVE TypeInv'
  OBVIOUS
<1>t. /\ JournalTyped /\ VaultTyped /\ WorkTyped /\ ReceiptsTyped /\ BoundsTyped
      /\ RecoveryTyped /\ ControlTyped
  BY DEF TypeInv
<1>c. /\ mode \in {"execute", "recover"} /\ out \in Outcome /\ bound \in BOOLEAN
      /\ raced \in BOOLEAN /\ validated \in BOOLEAN
      /\ pc \notin {"idle", "next"} => cur \in Effects
  BY <1>t DEF ControlTyped
<1>0. CASE UNCHANGED vars
  <2>1. UNCHANGED <<journalVars, vaultVars, workVars, receiptVars, boundVars, recoveryVars, latchVars>>
    BY <1>0 DEF vars, ghostVars, journalVars, vaultVars, workVars
  <2>2. ControlTyped'
    BY <1>0, <1>t DEF vars, ghostVars, ControlTyped
  <2>. QED
    BY <2>1, <2>2, <1>t, Framed DEF TypeInv
<1>1. ASSUME NEW e \in Effects, Admit(e) PROVE TypeInv'
  <2>1. UNCHANGED <<journalVars, vaultVars, workVars, receiptVars, boundVars, recoveryVars, latchVars>>
    BY <1>1 DEF Admit, receiptVars, recoveryVars, latchVars, boundVars, ghostVars,
       journalVars, vaultVars, workVars
  <2>2. ControlTyped'
    <3>1. NoOutcome \in Outcome
      BY DEF NoOutcome, Outcome, Outcomes, Reasons
    <3>. QED
      BY <1>1, <3>1 DEF Admit, Goto, Steps, ControlTyped
  <2>. QED
    BY <2>1, <2>2, <1>t, Framed DEF TypeInv
<1>2. ASSUME AppendAdmission PROVE TypeInv'
  <2>1. UNCHANGED <<vaultVars, workVars, receiptVars, boundVars, recoveryVars, latchVars>>
    BY <1>2 DEF AppendAdmission, receiptVars, recoveryVars, latchVars, boundVars, ghostVars,
       journalVars, vaultVars, workVars
  <2>2. JournalTyped'
    BY <1>2, <1>t, <1>c, Appended DEF AppendAdmission, Executing, Recovering, JournalTyped,
       JournalStates, Outcomes, Reasons
  <2>3. ControlTyped'
    <3>1. cur \in Effects /\ cur' = cur
      BY <1>2, <1>c DEF AppendAdmission, Executing, Recovering, Open
    <3>2. pc' \in Steps
      BY <1>2 DEF AppendAdmission, Goto, Steps, TrySteps
    <3>3. out' \in Outcome
      BY <1>2, <1>c DEF AppendAdmission
    <3>4. mode' \in {"execute", "recover"} /\ bound' \in BOOLEAN /\ raced' \in BOOLEAN /\ validated' \in BOOLEAN
      BY <1>2, <1>c DEF AppendAdmission, ghostVars
    <3>. QED
      BY <3>1, <3>2, <3>3, <3>4 DEF ControlTyped
  <2>. QED
    BY <2>1, <2>2, <2>3, <1>t, Framed DEF TypeInv
<1>3. ASSUME AcquireTargetLock PROVE TypeInv'
  <2>1. UNCHANGED <<journalVars, vaultVars, receiptVars, boundVars, recoveryVars, latchVars>>
    BY <1>3 DEF AcquireTargetLock, receiptVars, recoveryVars, latchVars, boundVars, ghostVars,
       journalVars, vaultVars, workVars
  <2>2. WorkTyped'
    BY <1>3, <1>t, <1>c DEF AcquireTargetLock, Executing, WorkTyped
  <2>3. ControlTyped'
    <3>1. cur \in Effects /\ cur' = cur
      BY <1>3, <1>c DEF AcquireTargetLock, Catch, Executing, Recovering, Open
    <3>2. pc' \in Steps
      BY <1>3 DEF AcquireTargetLock, Catch, Goto, Steps, TrySteps
    <3>3. out' \in Outcome
      BY <1>3, <1>c, Decided DEF AcquireTargetLock, Catch, Outcomes, Reasons
    <3>4. mode' \in {"execute", "recover"} /\ bound' \in BOOLEAN /\ raced' \in BOOLEAN /\ validated' \in BOOLEAN
      BY <1>3, <1>c DEF AcquireTargetLock, Catch, ghostVars
    <3>. QED
      BY <3>1, <3>2, <3>3, <3>4 DEF ControlTyped
  <2>. QED
    BY <2>1, <2>2, <2>3, <1>t, Framed DEF TypeInv
<1>4. ASSUME ValidatePreconditions PROVE TypeInv'
  <2>1. UNCHANGED <<journalVars, vaultVars, workVars, receiptVars, boundVars, recoveryVars, latchVars>>
    BY <1>4 DEF ValidatePreconditions, receiptVars, recoveryVars, latchVars, boundVars,
       ghostVars, journalVars, vaultVars, workVars
  <2>2. ControlTyped'
    <3>1. cur \in Effects /\ cur' = cur
      BY <1>4, <1>c DEF ValidatePreconditions, Executing, Recovering, Open
    <3>2. pc' \in Steps
      BY <1>4 DEF ValidatePreconditions, Goto, Steps, TrySteps
    <3>3. out' \in Outcome
      BY <1>4, <1>c, Decided DEF ValidatePreconditions, Outcomes, Reasons
    <3>4. mode' \in {"execute", "recover"} /\ bound' \in BOOLEAN /\ raced' \in BOOLEAN /\ validated' \in BOOLEAN
      BY <1>4, <1>c DEF ValidatePreconditions, ghostVars
    <3>. QED
      BY <3>1, <3>2, <3>3, <3>4 DEF ControlTyped
  <2>. QED
    BY <2>1, <2>2, <1>t, Framed DEF TypeInv
<1>5. ASSUME CompareTarget PROVE TypeInv'
  <2>1. UNCHANGED <<journalVars, vaultVars, workVars, receiptVars, boundVars, recoveryVars, latchVars>>
    BY <1>5 DEF CompareTarget, receiptVars, recoveryVars, latchVars, boundVars, ghostVars,
       journalVars, vaultVars, workVars
  <2>2. ControlTyped'
    <3>1. cur \in Effects /\ cur' = cur
      BY <1>5, <1>c DEF CompareTarget, Executing, Recovering, Open
    <3>2. pc' \in Steps
      BY <1>5 DEF CompareTarget, Goto, Steps, TrySteps
    <3>3. out' \in Outcome
      BY <1>5, <1>c, Decided DEF CompareTarget, Outcomes, Reasons
    <3>4. mode' \in {"execute", "recover"} /\ bound' \in BOOLEAN /\ raced' \in BOOLEAN /\ validated' \in BOOLEAN
      BY <1>5, <1>c DEF CompareTarget, ghostVars
    <3>. QED
      BY <3>1, <3>2, <3>3, <3>4 DEF ControlTyped
  <2>. QED
    BY <2>1, <2>2, <1>t, Framed DEF TypeInv
<1>6. ASSUME ArchiveBefore PROVE TypeInv'
  <2>1. UNCHANGED <<journalVars, vaultVars, receiptVars, boundVars, recoveryVars, latchVars>>
    BY <1>6 DEF ArchiveBefore, receiptVars, recoveryVars, latchVars, boundVars, ghostVars,
       journalVars, vaultVars, workVars
  <2>2. WorkTyped'
    <3>1. \A n \in ArchiveSteps : (IF n < Bound THEN n + 1 ELSE n) \in ArchiveSteps
      BY DEF ArchiveSteps, Bound
    <3>. QED
      BY <1>6, <3>1, <1>t DEF ArchiveBefore, WorkTyped
  <2>3. ControlTyped'
    <3>1. cur \in Effects /\ cur' = cur
      BY <1>6, <1>c DEF ArchiveBefore, Executing, Recovering, Open
    <3>2. pc' \in Steps
      BY <1>6 DEF ArchiveBefore, Goto, Steps, TrySteps
    <3>3. out' \in Outcome
      BY <1>6, <1>c DEF ArchiveBefore
    <3>4. mode' \in {"execute", "recover"} /\ bound' \in BOOLEAN /\ raced' \in BOOLEAN /\ validated' \in BOOLEAN
      BY <1>6, <1>c DEF ArchiveBefore, ghostVars
    <3>. QED
      BY <3>1, <3>2, <3>3, <3>4 DEF ControlTyped
  <2>. QED
    BY <2>1, <2>2, <2>3, <1>t, Framed DEF TypeInv
<1>7. ASSUME AppendApplying PROVE TypeInv'
  <2>1. UNCHANGED <<vaultVars, workVars, receiptVars, boundVars, recoveryVars, latchVars>>
    BY <1>7 DEF AppendApplying, receiptVars, recoveryVars, latchVars, boundVars, ghostVars,
       journalVars, vaultVars, workVars
  <2>2. JournalTyped'
    BY <1>7, <1>t, <1>c, Appended DEF AppendApplying, Executing, Recovering, JournalTyped,
       JournalStates, Outcomes, Reasons
  <2>3. ControlTyped'
    <3>1. cur \in Effects /\ cur' = cur
      BY <1>7, <1>c DEF AppendApplying, Executing, Recovering, Open
    <3>2. pc' \in Steps
      BY <1>7 DEF AppendApplying, Goto, Steps, TrySteps
    <3>3. out' \in Outcome
      BY <1>7, <1>c DEF AppendApplying
    <3>4. mode' \in {"execute", "recover"} /\ bound' \in BOOLEAN /\ raced' \in BOOLEAN /\ validated' \in BOOLEAN
      BY <1>7, <1>c DEF AppendApplying, ghostVars
    <3>. QED
      BY <3>1, <3>2, <3>3, <3>4 DEF ControlTyped
  <2>. QED
    BY <2>1, <2>2, <2>3, <1>t, Framed DEF TypeInv
<1>8. ASSUME StageTemporary PROVE TypeInv'
  <2>1. UNCHANGED <<journalVars, workVars, receiptVars, boundVars, recoveryVars, latchVars>>
    BY <1>8 DEF StageTemporary, receiptVars, recoveryVars, latchVars, boundVars, ghostVars,
       journalVars, vaultVars, workVars
  <2>2. VaultTyped'
    BY <1>8, <1>t, <1>c DEF StageTemporary, Executing, VaultTyped, ghostVars
  <2>3. ControlTyped'
    <3>1. cur \in Effects /\ cur' = cur
      BY <1>8, <1>c DEF StageTemporary, Executing, Recovering, Open
    <3>2. pc' \in Steps
      BY <1>8 DEF StageTemporary, Goto, Steps, TrySteps
    <3>3. out' \in Outcome
      BY <1>8, <1>c DEF StageTemporary
    <3>4. mode' \in {"execute", "recover"} /\ bound' \in BOOLEAN /\ raced' \in BOOLEAN /\ validated' \in BOOLEAN
      BY <1>8, <1>c DEF StageTemporary, ghostVars
    <3>. QED
      BY <3>1, <3>2, <3>3, <3>4 DEF ControlTyped
  <2>. QED
    BY <2>1, <2>2, <2>3, <1>t, Framed DEF TypeInv
<1>9. ASSUME RecheckTarget PROVE TypeInv'
  <2>1. UNCHANGED <<journalVars, vaultVars, workVars, receiptVars, boundVars, recoveryVars, latchVars>>
    BY <1>9 DEF RecheckTarget, receiptVars, recoveryVars, latchVars, boundVars, ghostVars,
       journalVars, vaultVars, workVars
  <2>2. ControlTyped'
    <3>1. cur \in Effects /\ cur' = cur
      BY <1>9, <1>c DEF RecheckTarget, Executing, Recovering, Open
    <3>2. pc' \in Steps
      BY <1>9 DEF RecheckTarget, Goto, Steps, TrySteps
    <3>3. out' \in Outcome
      BY <1>9, <1>c, Decided DEF RecheckTarget, Outcomes, Reasons
    <3>4. mode' \in {"execute", "recover"} /\ bound' \in BOOLEAN /\ raced' \in BOOLEAN /\ validated' \in BOOLEAN
      BY <1>9, <1>c DEF RecheckTarget, ghostVars
    <3>. QED
      BY <3>1, <3>2, <3>3, <3>4 DEF ControlTyped
  <2>. QED
    BY <2>1, <2>2, <1>t, Framed DEF TypeInv
<1>10. ASSUME Replace PROVE TypeInv'
  <2>1. UNCHANGED <<journalVars, workVars, receiptVars, boundVars, recoveryVars, latchVars>>
    BY <1>10 DEF Replace, receiptVars, recoveryVars, latchVars, boundVars, ghostVars,
       journalVars, vaultVars, workVars
  <2>2. VaultTyped'
    <3>1. cur \in Effects /\ Proposed[cur] \in Contents
      BY <1>10, <1>c, PlanAssumption DEF Replace, Contents
    <3>. QED
      BY <1>10, <1>t, <3>1 DEF Replace, VaultTyped
  <2>3. ControlTyped'
    <3>1. cur \in Effects /\ cur' = cur
      BY <1>10, <1>c DEF Replace, Executing, Recovering, Open
    <3>2. pc' \in Steps
      BY <1>10 DEF Replace, Goto, Steps, TrySteps
    <3>3. out' \in Outcome
      BY <1>10, <1>c DEF Replace
    <3>4. mode' \in {"execute", "recover"} /\ bound' \in BOOLEAN /\ raced' \in BOOLEAN /\ validated' \in BOOLEAN
      BY <1>10, <1>c DEF Replace, ghostVars
    <3>. QED
      BY <3>1, <3>2, <3>3, <3>4 DEF ControlTyped
  <2>. QED
    BY <2>1, <2>2, <2>3, <1>t, Framed DEF TypeInv
<1>11. ASSUME VerifyExecuted PROVE TypeInv'
  <2>1. UNCHANGED <<vaultVars, workVars, receiptVars, boundVars, recoveryVars, latchVars>>
    BY <1>11 DEF VerifyExecuted, receiptVars, recoveryVars, latchVars, boundVars, ghostVars,
       journalVars, vaultVars, workVars
  <2>2. JournalTyped'
    <3>1. CASE AppendEntry("VERIFIED", "", NoReceipt) /\ UNCHANGED checkpoint
      BY <1>11, <3>1, <1>t, <1>c, Appended DEF VerifyExecuted, Executing, JournalTyped,
         JournalStates, Reasons
    <3>2. CASE UNCHANGED journalVars
      BY <3>2, <1>t, Framed
    <3>. QED
      BY <1>11, <3>1, <3>2 DEF VerifyExecuted, journalVars
  <2>3. ControlTyped'
    <3>1. cur \in Effects /\ cur' = cur
      BY <1>11, <1>c DEF VerifyExecuted, Catch, Executing, Recovering, Open
    <3>2. pc' \in Steps
      BY <1>11 DEF VerifyExecuted, Catch, Goto, Steps, TrySteps
    <3>3. out' \in Outcome
      BY <1>11, <1>c, Decided DEF VerifyExecuted, Catch, Outcomes, Reasons
    <3>4. mode' \in {"execute", "recover"} /\ bound' \in BOOLEAN /\ raced' \in BOOLEAN /\ validated' \in BOOLEAN
      BY <1>11, <1>c DEF VerifyExecuted, Catch, ghostVars
    <3>. QED
      BY <3>1, <3>2, <3>3, <3>4 DEF ControlTyped
  <2>. QED
    BY <2>1, <2>2, <2>3, <1>t, Framed DEF TypeInv
<1>12. ASSUME WriteArchiveAfter PROVE TypeInv'
  <2>1. UNCHANGED <<journalVars, vaultVars, receiptVars, boundVars, recoveryVars, latchVars>>
    BY <1>12 DEF WriteArchiveAfter, receiptVars, recoveryVars, latchVars, boundVars,
       ghostVars, journalVars, vaultVars, workVars
  <2>2. WorkTyped'
    <3>1. \A n \in ArchiveSteps : (IF n < Complete THEN n + 1 ELSE n) \in ArchiveSteps
      BY DEF ArchiveSteps, Complete
    <3>. QED
      BY <1>12, <3>1, <1>t DEF WriteArchiveAfter, WorkTyped
  <2>3. ControlTyped'
    <3>1. cur \in Effects /\ cur' = cur
      BY <1>12, <1>c DEF WriteArchiveAfter, Executing, Recovering, Open
    <3>2. pc' \in Steps
      BY <1>12 DEF WriteArchiveAfter, Goto, Steps, TrySteps
    <3>3. out' \in Outcome
      BY <1>12, <1>c DEF WriteArchiveAfter
    <3>4. mode' \in {"execute", "recover"} /\ bound' \in BOOLEAN /\ raced' \in BOOLEAN /\ validated' \in BOOLEAN
      BY <1>12, <1>c DEF WriteArchiveAfter, ghostVars
    <3>. QED
      BY <3>1, <3>2, <3>3, <3>4 DEF ControlTyped
  <2>. QED
    BY <2>1, <2>2, <2>3, <1>t, Framed DEF TypeInv
<1>13. ASSUME WriteCheckpoint PROVE TypeInv'
  <2>1. UNCHANGED <<vaultVars, workVars, receiptVars, boundVars, recoveryVars, latchVars>>
    BY <1>13 DEF WriteCheckpoint, receiptVars, recoveryVars, latchVars, boundVars, ghostVars,
       journalVars, vaultVars, workVars
  <2>2. JournalTyped'
    BY <1>13, <1>t DEF WriteCheckpoint, JournalTyped
  <2>3. ControlTyped'
    <3>1. cur \in Effects /\ cur' = cur
      BY <1>13, <1>c DEF WriteCheckpoint, Executing, Recovering, Open
    <3>2. pc' \in Steps
      BY <1>13 DEF WriteCheckpoint, Goto, Steps, TrySteps
    <3>3. out' \in Outcome
      BY <1>13, <1>c DEF WriteCheckpoint
    <3>4. mode' \in {"execute", "recover"} /\ bound' \in BOOLEAN /\ raced' \in BOOLEAN /\ validated' \in BOOLEAN
      BY <1>13, <1>c DEF WriteCheckpoint, ghostVars
    <3>. QED
      BY <3>1, <3>2, <3>3, <3>4 DEF ControlTyped
  <2>. QED
    BY <2>1, <2>2, <2>3, <1>t, Framed DEF TypeInv
<1>14. ASSUME ReleaseTargetLock PROVE TypeInv'
  <2>1. UNCHANGED <<journalVars, vaultVars, receiptVars, boundVars>>
    BY <1>14 DEF ReleaseTargetLock, receiptVars, recoveryVars, latchVars, boundVars,
       ghostVars, journalVars, vaultVars, workVars
  <2>2. WorkTyped'
    BY <1>14, <1>t DEF ReleaseTargetLock, WorkTyped
  <2>3. RecoveryTyped'
    BY <1>14, <1>t, RestTyped DEF ReleaseTargetLock, latchVars
  <2>4. ControlTyped'
    BY <1>14, RestTyped DEF ReleaseTargetLock
  <2>. QED
    BY <2>1, <2>2, <2>3, <2>4, <1>t, Framed DEF TypeInv
<1>15. ASSUME MarkOutcome PROVE TypeInv'
  <2>1. UNCHANGED <<vaultVars, workVars, receiptVars, boundVars, recoveryVars, latchVars>>
    BY <1>15 DEF MarkOutcome, receiptVars, recoveryVars, latchVars, boundVars, ghostVars,
       journalVars, vaultVars, workVars
  <2>2. JournalTyped'
    BY <1>15, <1>t, <1>c, Appended DEF MarkOutcome, JournalTyped, JournalStates, Outcome
  <2>3. ControlTyped'
    <3>1. cur \in Effects /\ cur' = cur
      BY <1>15, <1>c DEF MarkOutcome, Executing, Recovering, Open
    <3>2. pc' \in Steps
      BY <1>15 DEF MarkOutcome, Goto, Steps, TrySteps
    <3>3. out' \in Outcome
      BY <1>15, <1>c DEF MarkOutcome
    <3>4. mode' \in {"execute", "recover"} /\ bound' \in BOOLEAN /\ raced' \in BOOLEAN /\ validated' \in BOOLEAN
      BY <1>15, <1>c DEF MarkOutcome, ghostVars
    <3>. QED
      BY <3>1, <3>2, <3>3, <3>4 DEF ControlTyped
  <2>. QED
    BY <2>1, <2>2, <2>3, <1>t, Framed DEF TypeInv
<1>16. ASSUME PersistNoChangeAudit PROVE TypeInv'
  <2>1. UNCHANGED <<journalVars, vaultVars, receiptVars, boundVars>>
    BY <1>16 DEF PersistNoChangeAudit, receiptVars, recoveryVars, latchVars, boundVars,
       ghostVars, journalVars, vaultVars, workVars
  <2>2. WorkTyped'
    <3>1. Len(journal) \in Nat
      BY <1>t DEF JournalTyped
    <3>. QED
      BY <1>16, <3>1, <1>t DEF PersistNoChangeAudit, WorkTyped
  <2>3. ControlTyped' /\ RecoveryTyped'
    <3>1. cur \in Effects
      BY <1>16, <1>c DEF PersistNoChangeAudit
    <3>2. CASE Throw(TRUE)
      BY <1>t, <3>1, <3>2, ThrowTyped
    <3>3. CASE /\ pc' = "receipt"
               /\ UNCHANGED <<mode, cur, out, bound, recoveryVars, latchVars, raced, validated>>
      BY <3>1, <3>3, <1>t DEF ControlTyped, RecoveryTyped, recoveryVars, latchVars, Steps,
         TrySteps
    <3>. QED
      BY <1>16, <3>2, <3>3 DEF PersistNoChangeAudit, Goto
  <2>. QED
    BY <2>1, <2>2, <2>3, <1>t, Framed DEF TypeInv
<1>17. ASSUME WriteReceipt PROVE TypeInv'
  <2>1. UNCHANGED <<journalVars, vaultVars, workVars, boundVars>>
    BY <1>17 DEF WriteReceipt, receiptVars, recoveryVars, latchVars, boundVars, ghostVars,
       journalVars, vaultVars, workVars
  <2>2. ReceiptsTyped'
    <3>1. ThisReceipt \in Receipt
      BY <1>17, <1>c, ThisReceiptTyped DEF WriteReceipt
    <3>. QED
      BY <1>17, <3>1, <1>t DEF WriteReceipt, ReceiptsTyped
  <2>3. ControlTyped' /\ RecoveryTyped'
    <3>1. cur \in Effects
      BY <1>17, <1>c DEF WriteReceipt
    <3>2. CASE Throw(TRUE)
      BY <1>t, <3>1, <3>2, ThrowTyped
    <3>3. CASE /\ pc' = "seal" \/ pc' = "alias"
               /\ UNCHANGED <<mode, cur, out, bound, recoveryVars, latchVars, raced, validated>>
      BY <3>1, <3>3, <1>t DEF ControlTyped, RecoveryTyped, recoveryVars, latchVars, Steps,
         TrySteps
    <3>. QED
      BY <1>17, <3>2, <3>3 DEF WriteReceipt, Goto
  <2>. QED
    BY <2>1, <2>2, <2>3, <1>t, Framed DEF TypeInv
<1>18. ASSUME PublishReceipt PROVE TypeInv'
  <2>1. UNCHANGED <<journalVars, vaultVars, workVars, boundVars, recoveryVars, latchVars>>
    BY <1>18 DEF PublishReceipt, receiptVars, recoveryVars, latchVars, boundVars, ghostVars,
       journalVars, vaultVars, workVars
  <2>2. ReceiptsTyped'
    <3>1. ThisReceipt \in Receipt
      BY <1>18, <1>c, ThisReceiptTyped DEF PublishReceipt
    <3>. QED
      BY <1>18, <3>1, <1>t DEF PublishReceipt, ReceiptsTyped
  <2>3. ControlTyped'
    <3>1. cur \in Effects /\ cur' = cur
      BY <1>18, <1>c DEF PublishReceipt, Executing, Recovering, Open
    <3>2. pc' \in Steps
      BY <1>18 DEF PublishReceipt, Goto, Steps, TrySteps
    <3>3. out' \in Outcome
      BY <1>18, <1>c DEF PublishReceipt
    <3>4. mode' \in {"execute", "recover"} /\ bound' \in BOOLEAN /\ raced' \in BOOLEAN /\ validated' \in BOOLEAN
      BY <1>18, <1>c DEF PublishReceipt, ghostVars
    <3>. QED
      BY <3>1, <3>2, <3>3, <3>4 DEF ControlTyped
  <2>. QED
    BY <2>1, <2>2, <2>3, <1>t, Framed DEF TypeInv
<1>19. ASSUME SealOutcome PROVE TypeInv'
  <2>1. UNCHANGED <<vaultVars, workVars, receiptVars, boundVars, recoveryVars, latchVars>>
    BY <1>19 DEF SealOutcome, receiptVars, recoveryVars, latchVars, boundVars, ghostVars,
       journalVars, vaultVars, workVars
  <2>2. JournalTyped'
    <3>1. cur \in Effects /\ ThisReceipt \in Receipt
      BY <1>19, <1>c, ThisReceiptTyped DEF SealOutcome
    <3>. QED
      BY <1>19, <3>1, <1>t, <1>c, Appended DEF SealOutcome, JournalTyped, JournalStates, Outcome
  <2>3. ControlTyped'
    <3>1. cur \in Effects /\ cur' = cur
      BY <1>19, <1>c DEF SealOutcome, AfterSeal, Executing, Recovering, Open
    <3>2. pc' \in Steps
      BY <1>19, <1>c DEF SealOutcome, AfterSeal, Goto, Steps, TrySteps
    <3>3. out' \in Outcome
      BY <1>19, <1>c DEF SealOutcome, AfterSeal
    <3>4. mode' \in {"execute", "recover"} /\ bound' \in BOOLEAN /\ raced' \in BOOLEAN /\ validated' \in BOOLEAN
      BY <1>19, <1>c DEF SealOutcome, AfterSeal, ghostVars
    <3>. QED
      BY <3>1, <3>2, <3>3, <3>4 DEF ControlTyped
  <2>. QED
    BY <2>1, <2>2, <2>3, <1>t, Framed DEF TypeInv
<1>20. ASSUME StartRecovery PROVE TypeInv'
  <2>1. UNCHANGED <<journalVars, vaultVars, workVars, receiptVars, boundVars>>
    BY <1>20 DEF StartRecovery, receiptVars, recoveryVars, latchVars, boundVars, ghostVars,
       journalVars, vaultVars, workVars
  <2>2. RecoveryTyped'
    <3>1. \A t \in Targets : LiveHead(t) \in Effects \cup {NoEffect}
      BY DEF LiveHead
    <3>. QED
      BY <1>20, <3>1, <1>t DEF StartRecovery, RecoveryTyped, latchVars
  <2>3. ControlTyped'
    BY <1>20, <1>t DEF StartRecovery, ControlTyped, Goto, Steps, ghostVars
  <2>. QED
    BY <2>1, <2>2, <2>3, <1>t, Framed DEF TypeInv
<1>21. ASSUME FinishRecovery PROVE TypeInv'
  <2>1. UNCHANGED <<vaultVars, workVars, receiptVars, boundVars>>
    BY <1>21 DEF FinishRecovery, receiptVars, recoveryVars, latchVars, boundVars, ghostVars,
       journalVars, vaultVars, workVars
  <2>2. JournalTyped'
    BY <1>21, <1>t DEF FinishRecovery, JournalTyped
  <2>3. RecoveryTyped'
    BY <1>21, <1>t DEF FinishRecovery, Rest, RecoveryTyped, NoHeads
  <2>4. ControlTyped'
    BY <1>21, RestTyped DEF FinishRecovery
  <2>. QED
    BY <2>1, <2>2, <2>3, <2>4, <1>t, Framed DEF TypeInv
<1>22. ASSUME NEW e \in Effects, RecoverCommitted(e) PROVE TypeInv'
  <2>1. UNCHANGED <<journalVars, vaultVars, workVars, receiptVars, boundVars>>
    BY <1>22 DEF RecoverCommitted, receiptVars, recoveryVars, latchVars, boundVars, ghostVars,
       journalVars, vaultVars, workVars
  <2>2. RecoveryTyped'
    BY <1>22, <1>t DEF RecoverCommitted, RecoveryTyped, latchVars
  <2>3. ControlTyped'
    BY <1>22, <1>t DEF RecoverCommitted, ControlTyped, ghostVars
  <2>. QED
    BY <2>1, <2>2, <2>3, <1>t, Framed DEF TypeInv
<1>23. ASSUME NEW e \in Effects, CleanupStaleTargetLock(e) PROVE TypeInv'
  <2>1. UNCHANGED <<journalVars, vaultVars, receiptVars, boundVars>>
    BY <1>23 DEF CleanupStaleTargetLock, receiptVars, recoveryVars, latchVars, boundVars,
       ghostVars, journalVars, vaultVars, workVars
  <2>2. WorkTyped'
    BY <1>23, <1>t DEF CleanupStaleTargetLock, WorkTyped
  <2>3. RecoveryTyped'
    BY <1>23, <1>t DEF CleanupStaleTargetLock, RecoveryTyped, latchVars
  <2>4. ControlTyped'
    BY <1>23, <1>t DEF CleanupStaleTargetLock, ControlTyped, Goto, Steps, ghostVars
  <2>. QED
    BY <2>1, <2>2, <2>3, <2>4, <1>t, Framed DEF TypeInv
<1>24. ASSUME NEW e \in Effects, RefuseEvidence(e) PROVE TypeInv'
  <2>1. UNCHANGED <<journalVars, vaultVars, workVars, receiptVars, boundVars>>
    BY <1>24 DEF RefuseEvidence, receiptVars, recoveryVars, latchVars, boundVars, ghostVars,
       journalVars, vaultVars, workVars
  <2>2. RecoveryTyped'
    BY <1>24, <1>t, RecoveryThrowsTyped DEF RefuseEvidence
  <2>3. ControlTyped'
    BY <1>24, RecoveryThrowsTyped DEF RefuseEvidence
  <2>. QED
    BY <2>1, <2>2, <2>3, <1>t, Framed DEF TypeInv
<1>25. ASSUME RefuseTerminalReceipt PROVE TypeInv'
  <2>1. UNCHANGED <<journalVars, vaultVars, workVars, receiptVars, boundVars>>
    BY <1>25 DEF RefuseTerminalReceipt, receiptVars, recoveryVars, latchVars, boundVars,
       ghostVars, journalVars, vaultVars, workVars
  <2>2. RecoveryTyped'
    BY <1>25, <1>t, RecoveryThrowsTyped DEF RefuseTerminalReceipt
  <2>3. ControlTyped'
    BY <1>25, RecoveryThrowsTyped DEF RefuseTerminalReceipt
  <2>. QED
    BY <2>1, <2>2, <2>3, <1>t, Framed DEF TypeInv
<1>26. ASSUME RecoverRefused PROVE TypeInv'
  <2>1. UNCHANGED <<journalVars, workVars, receiptVars, boundVars>>
    BY <1>26 DEF RecoverRefused, ClassifyUnchanged, receiptVars, recoveryVars, latchVars,
       boundVars, ghostVars, journalVars, vaultVars, workVars
  <2>2. VaultTyped'
    BY <1>26, <1>t DEF RecoverRefused, ClassifyUnchanged, VaultTyped
  <2>3. RecoveryTyped'
    BY <1>26, <1>t DEF RecoverRefused, ClassifyUnchanged, RecoveryTyped, latchVars
  <2>4. ControlTyped'
    <3>1. cur \in Effects /\ cur' = cur
      BY <1>26, <1>c DEF RecoverRefused, ClassifyUnchanged, Executing, Recovering, Open
    <3>2. pc' \in Steps
      BY <1>26 DEF RecoverRefused, ClassifyUnchanged, Goto, Steps, TrySteps
    <3>3. out' \in Outcome
      BY <1>26, <1>c DEF RecoverRefused, ClassifyUnchanged
    <3>4. mode' \in {"execute", "recover"} /\ bound' \in BOOLEAN /\ raced' \in BOOLEAN /\ validated' \in BOOLEAN
      BY <1>26, <1>c DEF RecoverRefused, ClassifyUnchanged, ghostVars
    <3>. QED
      BY <3>1, <3>2, <3>3, <3>4 DEF ControlTyped
  <2>. QED
    BY <2>1, <2>2, <2>3, <2>4, <1>t, Framed DEF TypeInv
<1>27. ASSUME RecoverNoChange PROVE TypeInv'
  <2>1. UNCHANGED <<journalVars, vaultVars, workVars, receiptVars, boundVars>>
    BY <1>27 DEF RecoverNoChange, ClassifyUnchanged, receiptVars, recoveryVars, latchVars,
       boundVars, ghostVars, journalVars, vaultVars, workVars
  <2>2. RecoveryTyped'
    BY <1>27, <1>t DEF RecoverNoChange, ClassifyUnchanged, RecoveryTyped, latchVars
  <2>3. ControlTyped'
    <3>1. cur \in Effects /\ cur' = cur
      BY <1>27, <1>c DEF RecoverNoChange, ClassifyUnchanged, Executing, Recovering, Open
    <3>2. pc' \in Steps
      BY <1>27 DEF RecoverNoChange, ClassifyUnchanged, Goto, Steps, TrySteps
    <3>3. out' \in Outcome
      BY <1>27, <1>c, Decided DEF RecoverNoChange, ClassifyUnchanged, Outcomes, Reasons
    <3>4. mode' \in {"execute", "recover"} /\ bound' \in BOOLEAN /\ raced' \in BOOLEAN /\ validated' \in BOOLEAN
      BY <1>27, <1>c DEF RecoverNoChange, ClassifyUnchanged, ghostVars
    <3>. QED
      BY <3>1, <3>2, <3>3, <3>4 DEF ControlTyped
  <2>. QED
    BY <2>1, <2>2, <2>3, <1>t, Framed DEF TypeInv
<1>28. ASSUME RecoverAfterImage PROVE TypeInv'
  <2>1. UNCHANGED <<vaultVars, workVars, receiptVars, boundVars, recoveryVars, latchVars>>
    BY <1>28 DEF RecoverAfterImage, ClassifyUnchanged, receiptVars, recoveryVars, latchVars,
       boundVars, ghostVars, journalVars, vaultVars, workVars
  <2>2. JournalTyped'
    <3>1. CASE AppendEntry("VERIFIED", "RECOVERY_VERIFIED_AFTER_IMAGE", NoReceipt)
      BY <1>28, <3>1, <1>t, <1>c, Appended DEF RecoverAfterImage, ClassifyUnchanged, Open,
         Recovering, JournalTyped,
         JournalStates, Reasons
    <3>2. CASE UNCHANGED journal
      BY <1>28, <3>2, <1>t DEF RecoverAfterImage, ClassifyUnchanged, JournalTyped
    <3>. QED
      BY <1>28, <3>1, <3>2 DEF RecoverAfterImage
  <2>3. ControlTyped'
    <3>1. cur \in Effects /\ cur' = cur
      BY <1>28, <1>c DEF RecoverAfterImage, ClassifyUnchanged, Executing, Recovering, Open
    <3>2. pc' \in Steps
      BY <1>28 DEF RecoverAfterImage, ClassifyUnchanged, Goto, Steps, TrySteps
    <3>3. out' \in Outcome
      BY <1>28, <1>c, Decided DEF RecoverAfterImage, ClassifyUnchanged, Outcomes, Reasons
    <3>4. mode' \in {"execute", "recover"} /\ bound' \in BOOLEAN /\ raced' \in BOOLEAN /\ validated' \in BOOLEAN
      BY <1>28, <1>c DEF RecoverAfterImage, ClassifyUnchanged, ghostVars
    <3>. QED
      BY <3>1, <3>2, <3>3, <3>4 DEF ControlTyped
  <2>. QED
    BY <2>1, <2>2, <2>3, <1>t, Framed DEF TypeInv
<1>29. ASSUME RecoverPrepared PROVE TypeInv'
  <2>1. UNCHANGED <<journalVars, vaultVars, workVars, receiptVars, boundVars, recoveryVars, latchVars>>
    BY <1>29 DEF RecoverPrepared, ClassifyUnchanged, receiptVars, recoveryVars, latchVars,
       boundVars, ghostVars, journalVars, vaultVars, workVars
  <2>2. ControlTyped'
    <3>1. cur \in Effects /\ cur' = cur
      BY <1>29, <1>c DEF RecoverPrepared, ClassifyUnchanged, Executing, Recovering, Open
    <3>2. pc' \in Steps
      BY <1>29 DEF RecoverPrepared, ClassifyUnchanged, Goto, Steps, TrySteps
    <3>3. out' \in Outcome
      BY <1>29, <1>c, Decided DEF RecoverPrepared, ClassifyUnchanged, Outcomes, Reasons
    <3>4. mode' \in {"execute", "recover"} /\ bound' \in BOOLEAN /\ raced' \in BOOLEAN /\ validated' \in BOOLEAN
      BY <1>29, <1>c DEF RecoverPrepared, ClassifyUnchanged, ghostVars
    <3>. QED
      BY <3>1, <3>2, <3>3, <3>4 DEF ControlTyped
  <2>. QED
    BY <2>1, <2>2, <1>t, Framed DEF TypeInv
<1>30. ASSUME VerifyRecovered PROVE TypeInv'
  <2>1. UNCHANGED <<vaultVars, workVars, receiptVars, boundVars, checkpoint>> /\ cur \in Effects
    BY <1>30, <1>c DEF VerifyRecovered, Recovering, vaultVars, workVars
  <2>2. CASE RecoveryThrows(FALSE) /\ UNCHANGED journal
    <3>1. UNCHANGED journalVars
      BY <2>1, <2>2 DEF journalVars
    <3>2. ControlTyped' /\ RecoveryTyped'
      BY <2>2, RecoveryThrowsTyped
    <3>. QED
      BY <2>1, <3>1, <3>2, <1>t, Framed DEF TypeInv
  <2>3. CASE /\ AppendEntry("VERIFIED", "RECOVERY_APPLIED_PREPARED_TEMP", NoReceipt)
             /\ Goto("after")
             /\ UNCHANGED <<mode, cur, out, bound, recoveryVars, latchVars, raced, validated>>
    <3>1. JournalTyped'
      BY <2>1, <2>3, <1>t, Appended DEF JournalTyped, JournalStates, Reasons
    <3>2. ControlTyped'
      BY <2>1, <2>3, <1>t DEF ControlTyped, Goto, Steps, TrySteps
    <3>. QED
      BY <2>1, <2>3, <3>1, <3>2, <1>t, Framed DEF TypeInv
  <2>. QED
    BY <1>30, <2>2, <2>3 DEF VerifyRecovered
<1>31. ASSUME RecoverArchiveInvalid PROVE TypeInv'
  <2>1. UNCHANGED <<journalVars, vaultVars, workVars, receiptVars, boundVars>>
    BY <1>31 DEF RecoverArchiveInvalid, ClassifyUnchanged, receiptVars, recoveryVars,
       latchVars, boundVars, ghostVars, journalVars, vaultVars, workVars
  <2>2. RecoveryTyped'
    BY <1>31, <1>t DEF RecoverArchiveInvalid, ClassifyUnchanged, RecoveryTyped, latchVars
  <2>3. ControlTyped'
    <3>1. cur \in Effects /\ cur' = cur
      BY <1>31, <1>c DEF RecoverArchiveInvalid, ClassifyUnchanged, Executing, Recovering, Open
    <3>2. pc' \in Steps
      BY <1>31 DEF RecoverArchiveInvalid, ClassifyUnchanged, Goto, Steps, TrySteps
    <3>3. out' \in Outcome
      BY <1>31, <1>c, Decided DEF RecoverArchiveInvalid, ClassifyUnchanged, Outcomes, Reasons
    <3>4. mode' \in {"execute", "recover"} /\ bound' \in BOOLEAN /\ raced' \in BOOLEAN /\ validated' \in BOOLEAN
      BY <1>31, <1>c DEF RecoverArchiveInvalid, ClassifyUnchanged, ghostVars
    <3>. QED
      BY <3>1, <3>2, <3>3, <3>4 DEF ControlTyped
  <2>. QED
    BY <2>1, <2>2, <2>3, <1>t, Framed DEF TypeInv
<1>32. ASSUME RecoverReplan PROVE TypeInv'
  <2>1. UNCHANGED <<journalVars, vaultVars, workVars, receiptVars, boundVars>>
    BY <1>32 DEF RecoverReplan, ClassifyUnchanged, receiptVars, recoveryVars, latchVars,
       boundVars, ghostVars, journalVars, vaultVars, workVars
  <2>2. RecoveryTyped'
    BY <1>32, <1>t DEF RecoverReplan, ClassifyUnchanged, RecoveryTyped, latchVars
  <2>3. ControlTyped'
    <3>1. cur \in Effects /\ cur' = cur
      BY <1>32, <1>c DEF RecoverReplan, ClassifyUnchanged, Executing, Recovering, Open
    <3>2. pc' \in Steps
      BY <1>32 DEF RecoverReplan, ClassifyUnchanged, Goto, Steps, TrySteps
    <3>3. out' \in Outcome
      BY <1>32, <1>c, Decided DEF RecoverReplan, ClassifyUnchanged, Outcomes, Reasons
    <3>4. mode' \in {"execute", "recover"} /\ bound' \in BOOLEAN /\ raced' \in BOOLEAN /\ validated' \in BOOLEAN
      BY <1>32, <1>c DEF RecoverReplan, ClassifyUnchanged, ghostVars
    <3>. QED
      BY <3>1, <3>2, <3>3, <3>4 DEF ControlTyped
  <2>. QED
    BY <2>1, <2>2, <2>3, <1>t, Framed DEF TypeInv
<1>33. ASSUME RecoverConflict PROVE TypeInv'
  <2>1. UNCHANGED <<journalVars, vaultVars, workVars, receiptVars, boundVars>>
    BY <1>33 DEF RecoverConflict, ClassifyUnchanged, receiptVars, recoveryVars, latchVars,
       boundVars, ghostVars, journalVars, vaultVars, workVars
  <2>2. RecoveryTyped'
    BY <1>33, <1>t DEF RecoverConflict, ClassifyUnchanged, RecoveryTyped, latchVars
  <2>3. ControlTyped'
    <3>1. cur \in Effects /\ cur' = cur
      BY <1>33, <1>c DEF RecoverConflict, ClassifyUnchanged, Executing, Recovering, Open
    <3>2. pc' \in Steps
      BY <1>33 DEF RecoverConflict, ClassifyUnchanged, Goto, Steps, TrySteps
    <3>3. out' \in Outcome
      BY <1>33, <1>c, Decided DEF RecoverConflict, ArchiveValid, ClassifyUnchanged, Outcomes,
         Reasons
    <3>4. mode' \in {"execute", "recover"} /\ bound' \in BOOLEAN /\ raced' \in BOOLEAN /\ validated' \in BOOLEAN
      BY <1>33, <1>c DEF RecoverConflict, ClassifyUnchanged, ghostVars
    <3>. QED
      BY <3>1, <3>2, <3>3, <3>4 DEF ControlTyped
  <2>. QED
    BY <2>1, <2>2, <2>3, <1>t, Framed DEF TypeInv
<1>34. ASSUME RemoveTemporary PROVE TypeInv'
  <2>1. UNCHANGED <<journalVars, workVars, receiptVars, boundVars, recoveryVars, latchVars>>
    BY <1>34 DEF RemoveTemporary, receiptVars, recoveryVars, latchVars, boundVars, ghostVars,
       journalVars, vaultVars, workVars
  <2>2. VaultTyped'
    BY <1>34, <1>t DEF RemoveTemporary, VaultTyped, ghostVars
  <2>3. ControlTyped'
    <3>1. cur \in Effects /\ cur' = cur
      BY <1>34, <1>c DEF RemoveTemporary, Executing, Recovering, Open
    <3>2. pc' \in Steps
      BY <1>34 DEF RemoveTemporary, Goto, Steps, TrySteps
    <3>3. out' \in Outcome
      BY <1>34, <1>c DEF RemoveTemporary
    <3>4. mode' \in {"execute", "recover"} /\ bound' \in BOOLEAN /\ raced' \in BOOLEAN /\ validated' \in BOOLEAN
      BY <1>34, <1>c DEF RemoveTemporary, ghostVars
    <3>. QED
      BY <3>1, <3>2, <3>3, <3>4 DEF ControlTyped
  <2>. QED
    BY <2>1, <2>2, <2>3, <1>t, Framed DEF TypeInv
<1>35. ASSUME NEW t \in Targets, NEW b \in Contents, ExternalEdit(t, b) PROVE TypeInv'
  <2>1. UNCHANGED <<journalVars, workVars, receiptVars, recoveryVars, latchVars>>
    BY <1>35 DEF ExternalEdit, receiptVars, recoveryVars, latchVars, boundVars, ghostVars,
       journalVars, vaultVars, workVars
  <2>2. VaultTyped'
    BY <1>35, <1>t DEF ExternalEdit, VaultTyped
  <2>3. BoundsTyped'
    BY <1>35, <1>t DEF ExternalEdit, BoundsTyped
  <2>4. ControlTyped'
    BY <1>35, <1>t DEF ExternalEdit, ControlTyped
  <2>. QED
    BY <2>1, <2>2, <2>3, <2>4, <1>t, Framed DEF TypeInv
<1>36. ASSUME IoFailure PROVE TypeInv'
  <2>1. UNCHANGED <<journalVars, vaultVars, workVars, receiptVars>>
    BY <1>36 DEF IoFailure, journalVars, vaultVars, workVars
  <2>2. BoundsTyped'
    BY <1>36, <1>t DEF IoFailure, BoundsTyped
  <2>3. mode = "execute" => cur \in Effects
    BY <1>36, <1>c DEF IoFailure, TrySteps
  <2>4. ControlTyped' /\ RecoveryTyped'
    BY <1>36, <2>3, <1>t, ThrowTyped DEF IoFailure
  <2>. QED
    BY <2>1, <2>2, <2>4, <1>t, Framed DEF TypeInv
<1>37. ASSUME Crash PROVE TypeInv'
  <2>1. UNCHANGED <<vaultVars, workVars, receiptVars>>
    BY <1>37 DEF Crash, NewProcess, vaultVars, workVars
  <2>2. JournalTyped'
    BY <1>37, <1>t DEF Crash, NewProcess, JournalTyped
  <2>3. BoundsTyped'
    BY <1>37, <1>t DEF Crash, NewProcess, BoundsTyped
  <2>4. ControlTyped' /\ RecoveryTyped'
    BY <1>37, RestTyped DEF Crash, NewProcess, Rest, RecoveryTyped, NoHeads
  <2>. QED
    BY <2>1, <2>2, <2>3, <2>4, <1>t, Framed DEF TypeInv
<1>38. ASSUME Shutdown PROVE TypeInv'
  <2>1. UNCHANGED <<vaultVars, workVars, receiptVars>>
    BY <1>38 DEF Shutdown, NewProcess, vaultVars, workVars
  <2>2. JournalTyped'
    BY <1>38, <1>t DEF Shutdown, NewProcess, JournalTyped
  <2>3. BoundsTyped'
    BY <1>38, <1>t DEF Shutdown, NewProcess, BoundsTyped
  <2>4. ControlTyped' /\ RecoveryTyped'
    BY <1>38, RestTyped DEF Shutdown, NewProcess, Rest, RecoveryTyped, NoHeads
  <2>. QED
    BY <2>1, <2>2, <2>3, <2>4, <1>t, Framed DEF TypeInv
<1>39. ASSUME AbandonOperation PROVE TypeInv'
  <2>1. UNCHANGED <<journalVars, vaultVars, workVars, receiptVars>>
    BY <1>39 DEF AbandonOperation, journalVars, vaultVars, workVars
  <2>2. BoundsTyped'
    BY <1>39, <1>t DEF AbandonOperation, BoundsTyped
  <2>3. ControlTyped' /\ RecoveryTyped'
    BY <1>39, <1>t, RestTyped DEF AbandonOperation, latchVars
  <2>. QED
    BY <2>1, <2>2, <2>3, <1>t, Framed DEF TypeInv
<1>. QED
  BY <1>0, <1>1, <1>2, <1>3, <1>4, <1>5, <1>6, <1>7, <1>8, <1>9, <1>10, <1>11, <1>12, <1>13,
     <1>14, <1>15, <1>16, <1>17, <1>18, <1>19, <1>20, <1>21, <1>22, <1>23, <1>24, <1>25,
     <1>26, <1>27, <1>28, <1>29, <1>30, <1>31, <1>32, <1>33, <1>34, <1>35, <1>36, <1>37, <1>38,
     <1>39
     DEF Next, Execute, Record, Recover, Environment

\* The state variables of the executor keep their types, and its checkpoint never
\* runs ahead of its journal.
THEOREM TypeCorrect == Spec => []TypeOK
<1>1. Init => TypeInv
  BY InitTyped
<1>2. TypeInv /\ [Next]_vars => TypeInv'
  BY TypeStep
<1>3. TypeInv => TypeOK
  BY TypeInvImpliesTypeOK
<1>. QED
  BY <1>1, <1>2, <1>3, PTL DEF Spec

(***************************************************************************)
(* The before image, the receipts and the compare-and-swap.                *)
(***************************************************************************)
LateSteps == {"applying", "clear", "stage", "recheck", "replace", "verify", "after"}
ReceiptSteps == {"alias", "archive-receipt", "archive-alias", "seal"}

\* Past archiveBefore the before image of the effect in progress is archived.
ArchivedWhenLate == pc \in LateSteps => arch[cur] >= Bound

\* The receipt that is being published is in each store it has been written to.
ReceiptWritten ==
    /\ pc \in ReceiptSteps => ThisReceipt \in versions
    /\ pc \in {"archive-alias", "seal"} => ThisReceipt \in archVersions

\* Between the last comparison and the rename the target is the prior one.
PriorBeforeReplace == pc = "replace" /\ ~raced => target[TargetOf[cur]] = Prior[cur]

SafetyInv ==
    /\ BeforeImageArchived /\ ArchivedWhenLate
    /\ SealedReceiptsRetained /\ ReceiptWritten
    /\ PriorBeforeReplace

\* An exception leaves the steps these invariants speak of.
LEMMA ThrowGoes == ASSUME NEW evidence, Throw(evidence) PROVE pc' \in {"mark", "unlock", "idle"}
BY DEF Throw, Catch, RecoveryThrows, Rest, Goto

\* A step that neither appends nor publishes.
LEMMA QuietStep ==
    ASSUME TypeInv, SafetyInv, UNCHANGED <<journal, versions, archVersions>>,
           \A e \in Effects : arch'[e] >= arch[e],
           \A e \in Effects : e \in temp' \/ e \in applied' =>
                                  e \in temp \/ e \in applied \/ arch'[e] >= Bound,
           pc' \notin ReceiptSteps,
           pc' \in LateSteps => arch'[cur'] >= Bound,
           pc' = "replace" /\ ~raced' => target'[TargetOf[cur']] = Prior[cur'],
           \A e \in Effects : arch[e] \in Nat /\ arch'[e] \in Nat
    PROVE  SafetyInv'
<1>1. BeforeImageArchived'
  BY DEF SafetyInv, BeforeImageArchived, EverIn, Indices, Bound
<1>2. SealedReceiptsRetained'
  BY DEF SafetyInv, SealedReceiptsRetained, Retained
<1>3. ArchivedWhenLate' /\ ReceiptWritten' /\ PriorBeforeReplace'
  BY DEF ArchivedWhenLate, ReceiptWritten, PriorBeforeReplace, ReceiptSteps
<1>. QED
  BY <1>1, <1>2, <1>3 DEF SafetyInv

\* A step that appends an entry: the receipt it seals is retained and anchored
\* to the entry before, and an APPLYING or VERIFIED effect is archived.
LEMMA AppendStep ==
    ASSUME TypeInv, SafetyInv, cur \in Effects,
           NEW state \in JournalStates, NEW reason \in Reasons,
           NEW receipt \in Receipt \cup {NoReceipt}, AppendEntry(state, reason, receipt),
           state \in {"APPLYING", "VERIFIED"} => arch[cur] >= Bound,
           receipt # NoReceipt => Retained(receipt) /\ receipt.ref = Len(journal) /\ receipt.eff = cur,
           UNCHANGED <<temp, applied, arch, versions, archVersions>>,
           pc' \notin ReceiptSteps, pc' # "replace",
           pc' \in LateSteps => arch[cur'] >= Bound
    PROVE  SafetyInv'
<1>1. /\ journal \in Seq(Entry) /\ Len(journal) \in Nat
      /\ Len(journal') = Len(journal) + 1 /\ journal' \in Seq(Entry)
      /\ journal'[Len(journal) + 1] =
             [eff |-> cur, state |-> state, reason |-> reason, receipt |-> receipt]
      /\ \A i \in 1 .. Len(journal) : journal'[i] = journal[i]
  BY Appended DEF TypeInv, JournalTyped
<1>2. DOMAIN journal = 1 .. Len(journal) /\ DOMAIN journal' = 1 .. (Len(journal) + 1)
  BY <1>1
<1>3. BeforeImageArchived'
  <2>. SUFFICES ASSUME NEW e \in Effects,
                       e \in temp' \/ e \in applied' \/ EverIn(e, {"APPLYING", "VERIFIED"})'
                PROVE  arch'[e] >= Bound
    BY DEF BeforeImageArchived
  <2>1. CASE e \in temp' \/ e \in applied'
    BY <2>1 DEF SafetyInv, BeforeImageArchived
  <2>2. CASE EverIn(e, {"APPLYING", "VERIFIED"})'
    <3>1. PICK i \in DOMAIN journal' : journal'[i].eff = e /\ journal'[i].state \in {"APPLYING", "VERIFIED"}
      BY <2>2 DEF EverIn, Indices
    <3>2. CASE i = Len(journal) + 1
      BY <3>1, <3>2, <1>1
    <3>3. CASE i \in 1 .. Len(journal)
      <4>1. EverIn(e, {"APPLYING", "VERIFIED"})
        BY <3>1, <3>3, <1>1, <1>2 DEF EverIn, Indices
      <4>. QED
        BY <4>1 DEF SafetyInv, BeforeImageArchived
    <3>. QED
      BY <3>1, <3>2, <3>3, <1>1, <1>2
  <2>. QED
    BY <2>1, <2>2
<1>4. SealedReceiptsRetained'
  <2>. SUFFICES ASSUME NEW i \in DOMAIN journal', journal'[i].receipt # NoReceipt
                PROVE  /\ journal'[i].receipt \in versions' /\ journal'[i].receipt \in archVersions'
                       /\ journal'[i].receipt.ref = i - 1
                       /\ journal'[i].receipt.eff = journal'[i].eff
    BY DEF SealedReceiptsRetained, Retained
  <2>1. CASE i = Len(journal) + 1
    BY <2>1, <1>1 DEF Retained
  <2>2. CASE i \in 1 .. Len(journal)
    BY <2>2, <1>1, <1>2 DEF SafetyInv, SealedReceiptsRetained, Retained
  <2>. QED
    BY <2>1, <2>2, <1>1, <1>2
<1>5. ArchivedWhenLate' /\ ReceiptWritten' /\ PriorBeforeReplace'
  BY DEF ArchivedWhenLate, ReceiptWritten, PriorBeforeReplace, ReceiptSteps
<1>. QED
  BY <1>3, <1>4, <1>5 DEF SafetyInv

\* A step that writes the receipt in progress to a store.
LEMMA PublishStep ==
    ASSUME TypeInv, SafetyInv, UNCHANGED <<journal, arch, temp, applied>>,
           versions \subseteq versions', archVersions \subseteq archVersions',
           pc' \in ReceiptSteps, ThisReceipt' = ThisReceipt, ThisReceipt \in versions',
           pc' \in {"archive-alias", "seal"} => ThisReceipt \in archVersions'
    PROVE  SafetyInv'
<1>1. BeforeImageArchived'
  BY DEF SafetyInv, BeforeImageArchived, EverIn, Indices
<1>2. SealedReceiptsRetained'
  BY DEF SafetyInv, SealedReceiptsRetained, Retained
<1>3. ArchivedWhenLate' /\ ReceiptWritten' /\ PriorBeforeReplace'
  BY DEF ArchivedWhenLate, ReceiptWritten, PriorBeforeReplace, ReceiptSteps, LateSteps
<1>. QED
  BY <1>1, <1>2, <1>3 DEF SafetyInv

LEMMA SafetyStep == TypeInv /\ SafetyInv /\ [Next]_vars => SafetyInv'
<1>. SUFFICES ASSUME TypeInv, TypeInv', SafetyInv, [Next]_vars PROVE SafetyInv'
  BY TypeStep
<1>t. /\ mode \in {"execute", "recover"} /\ out \in Outcome /\ Len(journal) \in Nat
      /\ pc \notin {"idle", "next"} => cur \in Effects
      /\ arch \in [Effects -> ArchiveSteps] /\ arch' \in [Effects -> ArchiveSteps]
  BY DEF TypeInv, ControlTyped, JournalTyped, WorkTyped
<1>a. \A e \in Effects : arch[e] \in Nat /\ arch'[e] \in Nat
  BY <1>t DEF ArchiveSteps
<1>l. pc \in LateSteps => arch[cur] >= Bound
  BY DEF SafetyInv, ArchivedWhenLate
<1>0. CASE UNCHANGED vars
  BY <1>0 DEF vars, receiptVars, ghostVars, SafetyInv, BeforeImageArchived, EverIn, Indices,
              ArchivedWhenLate, SealedReceiptsRetained, Retained, ReceiptWritten, ThisReceipt,
              PriorBeforeReplace
<1>1. ASSUME NEW e \in Effects, Admit(e) PROVE SafetyInv'
  <2>1. UNCHANGED <<journal, versions, archVersions, arch, temp, applied>>
    BY <1>1 DEF Admit, receiptVars, ghostVars
  <2>2. pc' \notin LateSteps \cup ReceiptSteps
    BY <1>1 DEF Admit, Goto, LateSteps, ReceiptSteps
  <2>. QED
    BY <2>1, <2>2, <1>a, QuietStep DEF LateSteps
<1>2. ASSUME AppendAdmission PROVE SafetyInv'
  <2>1. /\ UNCHANGED <<temp, applied, arch, versions, archVersions>> /\ cur \in Effects
        /\ pc' \notin LateSteps \cup ReceiptSteps
        /\ AppendEntry(pc, "", NoReceipt)
        /\ pc \in JournalStates \ {"APPLYING", "VERIFIED"} /\ "" \in Reasons
    BY <1>2, <1>t DEF AppendAdmission, Goto, LateSteps, ReceiptSteps, receiptVars, ghostVars,
       JournalStates, Reasons
  <2>. QED
    BY <2>1, AppendStep DEF LateSteps
<1>3. ASSUME AcquireTargetLock PROVE SafetyInv'
  <2>1. UNCHANGED <<journal, versions, archVersions, arch, temp, applied>>
    BY <1>3 DEF AcquireTargetLock, receiptVars, ghostVars, Catch
  <2>2. pc' \notin LateSteps \cup ReceiptSteps
    BY <1>3 DEF AcquireTargetLock, Goto, LateSteps, ReceiptSteps, Catch
  <2>. QED
    BY <2>1, <2>2, <1>a, QuietStep DEF LateSteps
<1>4. ASSUME ValidatePreconditions PROVE SafetyInv'
  <2>1. UNCHANGED <<journal, versions, archVersions, arch, temp, applied>>
    BY <1>4 DEF ValidatePreconditions, receiptVars, ghostVars
  <2>2. pc' \notin LateSteps \cup ReceiptSteps
    BY <1>4 DEF ValidatePreconditions, Goto, LateSteps, ReceiptSteps
  <2>. QED
    BY <2>1, <2>2, <1>a, QuietStep DEF LateSteps
<1>5. ASSUME CompareTarget PROVE SafetyInv'
  <2>1. UNCHANGED <<journal, versions, archVersions, arch, temp, applied>>
    BY <1>5 DEF CompareTarget, receiptVars, ghostVars
  <2>2. pc' \notin LateSteps \cup ReceiptSteps
    BY <1>5 DEF CompareTarget, Goto, LateSteps, ReceiptSteps
  <2>. QED
    BY <2>1, <2>2, <1>a, QuietStep DEF LateSteps
<1>6. ASSUME ArchiveBefore PROVE SafetyInv'
  <2>1. cur \in Effects /\ cur' = cur /\ UNCHANGED <<journal, versions, archVersions, temp, applied>>
    BY <1>6, <1>t DEF ArchiveBefore, Executing, receiptVars, ghostVars
  <2>2. arch' = [arch EXCEPT ![cur] = IF arch[cur] < Bound THEN arch[cur] + 1 ELSE arch[cur]]
    BY <1>6 DEF ArchiveBefore
  <2>3. \A e \in Effects : arch'[e] >= arch[e]
    BY <2>1, <2>2, <1>t, <1>a
  <2>4. pc' = "archive" \/ (pc' = "applying" /\ arch'[cur] >= Bound)
    BY <1>6 DEF ArchiveBefore, Goto
  <2>. QED
    BY <2>1, <2>3, <2>4, <1>a, QuietStep DEF LateSteps, ReceiptSteps
<1>7. ASSUME AppendApplying PROVE SafetyInv'
  <2>1. /\ UNCHANGED <<temp, applied, arch, versions, archVersions, cur>> /\ cur \in Effects
        /\ AppendEntry("APPLYING", "", NoReceipt) /\ pc = "applying" /\ pc' = "clear"
    BY <1>7, <1>t DEF AppendApplying, Executing, Goto, receiptVars, ghostVars
  <2>2. "APPLYING" \in JournalStates /\ "" \in Reasons
    BY DEF JournalStates, Reasons
  <2>. QED
    BY <2>1, <2>2, <1>l, AppendStep DEF LateSteps, ReceiptSteps
<1>8. ASSUME StageTemporary PROVE SafetyInv'
  <2>1. /\ cur \in Effects /\ UNCHANGED <<cur, journal, versions, archVersions, arch, applied>>
        /\ pc \in {"clear", "stage"} /\ pc' \in {"stage", "recheck"} /\ temp' \subseteq temp \cup {cur}
    BY <1>8, <1>t DEF StageTemporary, Executing, Goto, receiptVars, ghostVars
  <2>. QED
    BY <2>1, <1>l, <1>a, QuietStep DEF LateSteps, ReceiptSteps
<1>9. ASSUME RecheckTarget PROVE SafetyInv'
  <2>1. /\ UNCHANGED <<cur, target, journal, versions, archVersions, arch, temp, applied>>
        /\ pc = "recheck"
        /\ pc' = "mark" \/ (pc' = "replace" /\ target[TargetOf[cur]] = Prior[cur])
    BY <1>9 DEF RecheckTarget, Executing, Goto, receiptVars
  <2>. QED
    BY <2>1, <1>l, <1>a, QuietStep DEF LateSteps, ReceiptSteps
<1>10. ASSUME Replace PROVE SafetyInv'
  <2>1. /\ cur \in Effects /\ UNCHANGED <<cur, journal, versions, archVersions, arch>>
        /\ pc = "replace" /\ pc' = "verify" /\ temp' \subseteq temp /\ applied' = applied \cup {cur}
    BY <1>10, <1>t DEF Replace, Goto, receiptVars
  <2>. QED
    BY <2>1, <1>l, <1>a, QuietStep DEF LateSteps, ReceiptSteps
<1>11. ASSUME VerifyExecuted PROVE SafetyInv'
  <2>1. /\ UNCHANGED <<temp, applied, arch, versions, archVersions>> /\ cur \in Effects
        /\ pc = "verify"
    BY <1>11, <1>t DEF VerifyExecuted, Executing, receiptVars, ghostVars
  <2>2. CASE AppendEntry("VERIFIED", "", NoReceipt) /\ pc' = "after" /\ cur' = cur
    <3>1. "VERIFIED" \in JournalStates /\ "" \in Reasons
      BY DEF JournalStates, Reasons
    <3>. QED
      BY <2>1, <2>2, <3>1, <1>l, AppendStep DEF LateSteps, ReceiptSteps
  <2>3. CASE UNCHANGED journal /\ pc' = "mark"
    BY <2>1, <2>3, <1>a, QuietStep DEF LateSteps, ReceiptSteps
  <2>. QED
    BY <1>11, <2>2, <2>3 DEF VerifyExecuted, Catch, Goto
<1>12. ASSUME WriteArchiveAfter PROVE SafetyInv'
  <2>1. /\ cur \in Effects /\ UNCHANGED <<cur, journal, versions, archVersions, temp, applied>>
        /\ pc = "after"
    BY <1>12, <1>t DEF WriteArchiveAfter, receiptVars, ghostVars
  <2>2. arch' = [arch EXCEPT ![cur] = IF arch[cur] < Complete THEN arch[cur] + 1 ELSE arch[cur]]
    BY <1>12 DEF WriteArchiveAfter
  <2>3. \A e \in Effects : arch'[e] >= arch[e]
    BY <2>1, <2>2, <1>t, <1>a
  <2>4. arch'[cur] >= Bound
    BY <2>1, <2>3, <1>l, <1>a DEF LateSteps, Bound
  <2>5. pc' = "receipt" \/ pc' = "after"
    BY <1>12 DEF WriteArchiveAfter, Goto
  <2>. QED
    BY <2>1, <2>3, <2>4, <2>5, <1>a, QuietStep DEF LateSteps, ReceiptSteps
<1>13. ASSUME WriteCheckpoint PROVE SafetyInv'
  <2>1. UNCHANGED <<journal, versions, archVersions, arch, temp, applied>>
    BY <1>13 DEF WriteCheckpoint, receiptVars, ghostVars
  <2>2. pc' \notin LateSteps \cup ReceiptSteps
    BY <1>13 DEF WriteCheckpoint, Goto, LateSteps, ReceiptSteps
  <2>. QED
    BY <2>1, <2>2, <1>a, QuietStep DEF LateSteps
<1>14. ASSUME ReleaseTargetLock PROVE SafetyInv'
  <2>1. UNCHANGED <<journal, versions, archVersions, arch, temp, applied>>
    BY <1>14 DEF ReleaseTargetLock, receiptVars, ghostVars, Rest
  <2>2. pc' \notin LateSteps \cup ReceiptSteps
    BY <1>14 DEF ReleaseTargetLock, Goto, LateSteps, ReceiptSteps, Rest
  <2>. QED
    BY <2>1, <2>2, <1>a, QuietStep DEF LateSteps
<1>15. ASSUME MarkOutcome PROVE SafetyInv'
  <2>1. /\ UNCHANGED <<temp, applied, arch, versions, archVersions>> /\ cur \in Effects
        /\ AppendEntry(out.state, out.reason, NoReceipt) /\ pc' = "receipt"
    BY <1>15, <1>t DEF MarkOutcome, Goto, receiptVars, ghostVars
  <2>2. out.state \in JournalStates \ {"APPLYING", "VERIFIED"} /\ out.reason \in Reasons
    BY <1>t DEF Outcome, Outcomes, JournalStates
  <2>. QED
    BY <2>1, <2>2, AppendStep DEF LateSteps, ReceiptSteps
<1>16. ASSUME PersistNoChangeAudit PROVE SafetyInv'
  <2>1. UNCHANGED <<journal, versions, archVersions, arch, temp, applied>>
    BY <1>16 DEF PersistNoChangeAudit, receiptVars
  <2>2. pc' \in {"receipt", "mark", "unlock", "idle"}
    BY <1>16, ThrowGoes DEF PersistNoChangeAudit, Goto
  <2>. QED
    BY <2>1, <2>2, <1>a, QuietStep DEF LateSteps, ReceiptSteps
<1>17. ASSUME WriteReceipt PROVE SafetyInv'
  <2>1. UNCHANGED <<journal, archVersions, arch, temp, applied>>
    BY <1>17 DEF WriteReceipt
  <2>2. CASE UNCHANGED versions /\ pc' \in {"mark", "unlock", "idle"}
    BY <2>1, <2>2, <1>a, QuietStep DEF LateSteps, ReceiptSteps
  <2>3. CASE /\ alias[cur] = ThisReceipt /\ AliasReplaceable(ThisReceipt)
             /\ pc' = "seal" /\ UNCHANGED <<versions, cur, out>>
    <3>1. cur \in Effects /\ ThisReceipt \in Receipt /\ ThisReceipt' = ThisReceipt
      BY <1>17, <2>1, <2>3, <1>t, ThisReceiptTyped DEF WriteReceipt, ThisReceipt
    <3>2. Retained(ThisReceipt)
      BY <2>3, <3>1, SentinelAssumption DEF AliasReplaceable
    <3>. QED
      BY <2>1, <2>3, <3>1, <3>2, PublishStep DEF Retained, ReceiptSteps
  <2>4. CASE /\ versions' = versions \cup {ThisReceipt}
             /\ pc' = "alias" /\ UNCHANGED <<cur, out>>
    <3>1. ThisReceipt' = ThisReceipt
      BY <2>1, <2>4 DEF ThisReceipt
    <3>. QED
      BY <2>1, <2>4, <3>1, PublishStep DEF ReceiptSteps
  <2>. QED
    BY <1>17, <2>2, <2>3, <2>4, ThrowGoes DEF WriteReceipt, Goto
<1>18. ASSUME PublishReceipt PROVE SafetyInv'
  <2>1. /\ UNCHANGED <<journal, arch, temp, applied, versions, cur, out>>
        /\ pc \in ReceiptSteps /\ pc' \in ReceiptSteps
        /\ archVersions \subseteq archVersions'
    BY <1>18 DEF PublishReceipt, Goto, ReceiptSteps, ghostVars
  <2>2. pc' \in {"archive-alias", "seal"} => ThisReceipt \in archVersions'
    BY <1>18 DEF PublishReceipt, Goto, SafetyInv, ReceiptWritten
  <2>3. ThisReceipt' = ThisReceipt
    BY <2>1 DEF ThisReceipt
  <2>. QED
    BY <2>1, <2>2, <2>3, PublishStep DEF SafetyInv, ReceiptWritten
<1>19. ASSUME SealOutcome PROVE SafetyInv'
  <2>1. /\ UNCHANGED <<temp, applied, arch, versions, archVersions>> /\ cur \in Effects
        /\ AppendEntry(out.state, out.reason, ThisReceipt)
        /\ pc' \notin LateSteps \cup ReceiptSteps /\ pc = "seal"
    BY <1>19, <1>t DEF SealOutcome, Goto, AfterSeal, LateSteps, ReceiptSteps, receiptVars,
       ghostVars
  <2>2. out.state \in JournalStates \ {"APPLYING", "VERIFIED"} /\ out.reason \in Reasons
    BY <1>t DEF Outcome, Outcomes, JournalStates
  <2>3. ThisReceipt \in Receipt /\ ThisReceipt.ref = Len(journal) /\ ThisReceipt.eff = cur
    BY <2>1, ThisReceiptTyped DEF ThisReceipt
  <2>4. Retained(ThisReceipt)
    BY <2>1 DEF SafetyInv, ReceiptWritten, ReceiptSteps, Retained
  <2>. QED
    BY <2>1, <2>2, <2>3, <2>4, AppendStep DEF LateSteps
<1>20. ASSUME StartRecovery PROVE SafetyInv'
  <2>1. UNCHANGED <<journal, versions, archVersions, arch, temp, applied>>
    BY <1>20 DEF StartRecovery, receiptVars, ghostVars
  <2>2. pc' \notin LateSteps \cup ReceiptSteps
    BY <1>20 DEF StartRecovery, Goto, LateSteps, ReceiptSteps
  <2>. QED
    BY <2>1, <2>2, <1>a, QuietStep DEF LateSteps
<1>21. ASSUME FinishRecovery PROVE SafetyInv'
  <2>1. UNCHANGED <<journal, versions, archVersions, arch, temp, applied>>
    BY <1>21 DEF FinishRecovery, receiptVars, ghostVars, Rest
  <2>2. pc' \notin LateSteps \cup ReceiptSteps
    BY <1>21 DEF FinishRecovery, Goto, LateSteps, ReceiptSteps, Rest
  <2>. QED
    BY <2>1, <2>2, <1>a, QuietStep DEF LateSteps
<1>22. ASSUME NEW e \in Effects, RecoverCommitted(e) PROVE SafetyInv'
  <2>1. UNCHANGED <<journal, versions, archVersions, arch, temp, applied>> /\ pc' = "next"
    BY <1>22 DEF RecoverCommitted, IsNext, Recovering, receiptVars, ghostVars
  <2>. QED
    BY <2>1, <1>a, QuietStep DEF LateSteps, ReceiptSteps
<1>23. ASSUME NEW e \in Effects, CleanupStaleTargetLock(e) PROVE SafetyInv'
  <2>1. UNCHANGED <<journal, versions, archVersions, arch, temp, applied>>
    BY <1>23 DEF CleanupStaleTargetLock, receiptVars, ghostVars
  <2>2. pc' \notin LateSteps \cup ReceiptSteps
    BY <1>23 DEF CleanupStaleTargetLock, Goto, LateSteps, ReceiptSteps
  <2>. QED
    BY <2>1, <2>2, <1>a, QuietStep DEF LateSteps
<1>24. ASSUME NEW e \in Effects, RefuseEvidence(e) PROVE SafetyInv'
  <2>1. UNCHANGED <<journal, versions, archVersions, arch, temp, applied>>
    BY <1>24 DEF RefuseEvidence, receiptVars, ghostVars, RecoveryThrows, Rest
  <2>2. pc' \notin LateSteps \cup ReceiptSteps
    BY <1>24 DEF RefuseEvidence, Goto, LateSteps, ReceiptSteps, RecoveryThrows, Rest
  <2>. QED
    BY <2>1, <2>2, <1>a, QuietStep DEF LateSteps
<1>25. ASSUME RefuseTerminalReceipt PROVE SafetyInv'
  <2>1. UNCHANGED <<journal, versions, archVersions, arch, temp, applied>>
    BY <1>25 DEF RefuseTerminalReceipt, receiptVars, ghostVars, RecoveryThrows, Rest
  <2>2. pc' \notin LateSteps \cup ReceiptSteps
    BY <1>25 DEF RefuseTerminalReceipt, Goto, LateSteps, ReceiptSteps, RecoveryThrows, Rest
  <2>. QED
    BY <2>1, <2>2, <1>a, QuietStep DEF LateSteps
<1>26. ASSUME RecoverRefused PROVE SafetyInv'
  <2>1. /\ UNCHANGED <<journal, versions, archVersions, arch, applied>>
        /\ temp' \subseteq temp /\ pc' = "next"
    BY <1>26 DEF RecoverRefused, ClassifyUnchanged, Goto, receiptVars
  <2>. QED
    BY <2>1, <1>a, QuietStep DEF LateSteps, ReceiptSteps
<1>27. ASSUME RecoverNoChange PROVE SafetyInv'
  <2>1. UNCHANGED <<journal, versions, archVersions, arch, temp, applied>>
    BY <1>27 DEF RecoverNoChange, receiptVars, ghostVars, ClassifyUnchanged
  <2>2. pc' \notin LateSteps \cup ReceiptSteps
    BY <1>27 DEF RecoverNoChange, Goto, LateSteps, ReceiptSteps, ClassifyUnchanged
  <2>. QED
    BY <2>1, <2>2, <1>a, QuietStep DEF LateSteps
<1>28. ASSUME RecoverAfterImage PROVE SafetyInv'
  <2>1. /\ UNCHANGED <<temp, applied, arch, versions, archVersions, cur>> /\ cur \in Effects
        /\ pc' = "after" /\ arch[cur] >= Bound
    BY <1>28, <1>t DEF RecoverAfterImage, ClassifyUnchanged, Open, Recovering, Goto,
       ArchiveValid, receiptVars
  <2>2. CASE AppendEntry("VERIFIED", "RECOVERY_VERIFIED_AFTER_IMAGE", NoReceipt)
    <3>1. "VERIFIED" \in JournalStates /\ "RECOVERY_VERIFIED_AFTER_IMAGE" \in Reasons
      BY DEF JournalStates, Reasons
    <3>. QED
      BY <2>1, <2>2, <3>1, AppendStep DEF LateSteps, ReceiptSteps
  <2>3. CASE UNCHANGED journal
    BY <2>1, <2>3, <1>a, QuietStep DEF LateSteps, ReceiptSteps
  <2>. QED
    BY <1>28, <2>2, <2>3 DEF RecoverAfterImage
<1>29. ASSUME RecoverPrepared PROVE SafetyInv'
  <2>1. /\ UNCHANGED <<journal, versions, archVersions, temp, applied, arch, cur, target>>
        /\ pc' = "replace" /\ arch[cur] >= Bound /\ target[TargetOf[cur]] = Prior[cur]
    BY <1>29 DEF RecoverPrepared, ClassifyUnchanged, BeforeImage, Goto, ArchiveValid,
       receiptVars
  <2>. QED
    BY <2>1, <1>a, QuietStep DEF LateSteps, ReceiptSteps
<1>30. ASSUME VerifyRecovered PROVE SafetyInv'
  <2>1. /\ UNCHANGED <<temp, applied, arch, versions, archVersions>> /\ cur \in Effects
        /\ pc = "verify"
    BY <1>30, <1>t DEF VerifyRecovered, Recovering, receiptVars
  <2>2. CASE AppendEntry("VERIFIED", "RECOVERY_APPLIED_PREPARED_TEMP", NoReceipt) /\ pc' = "after" /\ cur' = cur
    <3>1. "VERIFIED" \in JournalStates /\ "RECOVERY_APPLIED_PREPARED_TEMP" \in Reasons
      BY DEF JournalStates, Reasons
    <3>. QED
      BY <2>1, <2>2, <3>1, <1>l, AppendStep DEF LateSteps, ReceiptSteps
  <2>3. CASE UNCHANGED journal /\ pc' = "idle"
    BY <2>1, <2>3, <1>a, QuietStep DEF LateSteps, ReceiptSteps
  <2>. QED
    BY <1>30, <2>2, <2>3 DEF VerifyRecovered, RecoveryThrows, Rest, Goto
<1>31. ASSUME RecoverArchiveInvalid PROVE SafetyInv'
  <2>1. UNCHANGED <<journal, versions, archVersions, arch, temp, applied>>
    BY <1>31 DEF RecoverArchiveInvalid, receiptVars, ghostVars, ClassifyUnchanged
  <2>2. pc' \notin LateSteps \cup ReceiptSteps
    BY <1>31 DEF RecoverArchiveInvalid, Goto, LateSteps, ReceiptSteps, ClassifyUnchanged
  <2>. QED
    BY <2>1, <2>2, <1>a, QuietStep DEF LateSteps
<1>32. ASSUME RecoverReplan PROVE SafetyInv'
  <2>1. UNCHANGED <<journal, versions, archVersions, arch, temp, applied>>
    BY <1>32 DEF RecoverReplan, receiptVars, ghostVars, ClassifyUnchanged
  <2>2. pc' \notin LateSteps \cup ReceiptSteps
    BY <1>32 DEF RecoverReplan, Goto, LateSteps, ReceiptSteps, ClassifyUnchanged
  <2>. QED
    BY <2>1, <2>2, <1>a, QuietStep DEF LateSteps
<1>33. ASSUME RecoverConflict PROVE SafetyInv'
  <2>1. UNCHANGED <<journal, versions, archVersions, arch, temp, applied>>
    BY <1>33 DEF RecoverConflict, receiptVars, ghostVars, ClassifyUnchanged
  <2>2. pc' \notin LateSteps \cup ReceiptSteps
    BY <1>33 DEF RecoverConflict, Goto, LateSteps, ReceiptSteps, ClassifyUnchanged
  <2>. QED
    BY <2>1, <2>2, <1>a, QuietStep DEF LateSteps
<1>34. ASSUME RemoveTemporary PROVE SafetyInv'
  <2>1. /\ UNCHANGED <<journal, versions, archVersions, arch, applied>>
        /\ temp' \subseteq temp /\ pc' = "next"
    BY <1>34 DEF RemoveTemporary, Goto, receiptVars, ghostVars
  <2>. QED
    BY <2>1, <1>a, QuietStep DEF LateSteps, ReceiptSteps
<1>35. ASSUME NEW t \in Targets, NEW b \in Contents, ExternalEdit(t, b) PROVE SafetyInv'
  <2>1. /\ UNCHANGED <<journal, versions, archVersions, arch, temp, applied, pc, cur, out>>
        /\ target' = [target EXCEPT ![t] = b]
        /\ raced' = (raced \/ (pc = "replace" /\ TargetOf[cur] = t))
    BY <1>35 DEF ExternalEdit, receiptVars
  <2>2. PriorBeforeReplace'
    <3>. SUFFICES ASSUME pc = "replace", ~raced' PROVE target'[TargetOf[cur]] = Prior[cur]
      BY <2>1 DEF PriorBeforeReplace
    <3>1. ~raced /\ TargetOf[cur] # t
      BY <2>1
    <3>2. target[TargetOf[cur]] = Prior[cur] /\ TargetOf[cur] \in Targets
      BY <3>1, <1>t, PlanAssumption DEF SafetyInv, PriorBeforeReplace
    <3>. QED
      BY <2>1, <3>1, <3>2 DEF TypeInv, VaultTyped
  <2>3. BeforeImageArchived' /\ ArchivedWhenLate' /\ SealedReceiptsRetained' /\ ReceiptWritten'
    BY <2>1 DEF SafetyInv, BeforeImageArchived, EverIn, Indices, ArchivedWhenLate,
       SealedReceiptsRetained, Retained, ReceiptWritten, ThisReceipt
  <2>. QED
    BY <2>2, <2>3 DEF SafetyInv
<1>36. ASSUME IoFailure PROVE SafetyInv'
  <2>1. UNCHANGED <<journal, versions, archVersions, arch, temp, applied>> /\ Throw(FALSE)
    BY <1>36 DEF IoFailure, receiptVars
  <2>2. pc' \in {"mark", "unlock", "idle"}
    BY <2>1, ThrowGoes
  <2>. QED
    BY <2>1, <2>2, <1>a, QuietStep DEF LateSteps, ReceiptSteps
<1>37. ASSUME Crash PROVE SafetyInv'
  <2>1. UNCHANGED <<journal, versions, archVersions, arch, temp, applied>>
    BY <1>37 DEF Crash, receiptVars, ghostVars, NewProcess, Rest
  <2>2. pc' \notin LateSteps \cup ReceiptSteps
    BY <1>37 DEF Crash, Goto, LateSteps, ReceiptSteps, NewProcess, Rest
  <2>. QED
    BY <2>1, <2>2, <1>a, QuietStep DEF LateSteps
<1>38. ASSUME Shutdown PROVE SafetyInv'
  <2>1. UNCHANGED <<journal, versions, archVersions, arch, temp, applied>>
    BY <1>38 DEF Shutdown, receiptVars, ghostVars, NewProcess, Rest
  <2>2. pc' \notin LateSteps \cup ReceiptSteps
    BY <1>38 DEF Shutdown, Goto, LateSteps, ReceiptSteps, NewProcess, Rest
  <2>. QED
    BY <2>1, <2>2, <1>a, QuietStep DEF LateSteps
<1>39. ASSUME AbandonOperation PROVE SafetyInv'
  <2>1. UNCHANGED <<journal, versions, archVersions, arch, temp, applied>>
    BY <1>39 DEF AbandonOperation, receiptVars
  <2>2. pc' \notin LateSteps \cup ReceiptSteps
    BY <1>39 DEF AbandonOperation, LateSteps, ReceiptSteps, Rest
  <2>. QED
    BY <2>1, <2>2, <1>a, QuietStep DEF LateSteps
<1>. QED
  BY <1>0, <1>1, <1>2, <1>3, <1>4, <1>5, <1>6, <1>7, <1>8, <1>9, <1>10, <1>11, <1>12, <1>13,
     <1>14, <1>15, <1>16, <1>17, <1>18, <1>19, <1>20, <1>21, <1>22, <1>23, <1>24, <1>25,
     <1>26, <1>27, <1>28, <1>29, <1>30, <1>31, <1>32, <1>33, <1>34, <1>35, <1>36, <1>37, <1>38,
     <1>39
     DEF Next, Execute, Record, Recover, Environment

LEMMA SafetyInvariant == Spec => [](TypeInv /\ SafetyInv)
<1>1. Init => TypeInv /\ SafetyInv
  <2>1. Init => SafetyInv
    BY DEF Init, VolatileInit, SafetyInv, BeforeImageArchived, EverIn, Indices,
       ArchivedWhenLate,
           SealedReceiptsRetained, ReceiptWritten, PriorBeforeReplace, LateSteps, ReceiptSteps
  <2>. QED
    BY <2>1, InitTyped
<1>2. TypeInv /\ SafetyInv /\ [Next]_vars => (TypeInv /\ SafetyInv)'
  BY TypeStep, SafetyStep
<1>. QED
  BY <1>1, <1>2, PTL DEF Spec

\* No crash, failure or edit makes the executor prepare, mark or replace anything
\* before the before image, its binding and its manifest row are archived.
THEOREM BeforeImageAlwaysArchived == Spec => []BeforeImageArchived
<1>1. SafetyInv => BeforeImageArchived
  BY DEF SafetyInv
<1>. QED
  BY <1>1, SafetyInvariant, PTL

\* Every receipt the journal seals stays in both stores, bound to the entry that
\* precedes its seal, whatever is retried or recovered later.
THEOREM ReceiptsAlwaysRetained == Spec => []SealedReceiptsRetained
<1>1. SafetyInv => SealedReceiptsRetained
  BY DEF SafetyInv
<1>. QED
  BY <1>1, SafetyInvariant, PTL

\* A replacement is a compare-and-swap up to an edit that lands between the last
\* comparison and the rename, and what it replaces is archived.
THEOREM ReplacementIsGuarded == Spec => OnlyPriorReplaced
<1>1. TypeInv /\ SafetyInv /\ [Next]_vars =>
          [\A t \in Targets : target'[t] # target[t] /\ edits' = edits =>
               /\ target[t] = Prior[cur] \/ raced
               /\ arch[cur] >= Bound]_vars
  <2>. SUFFICES ASSUME TypeInv, SafetyInv, [Next]_vars, NEW t \in Targets,
                       target'[t] # target[t], edits' = edits
                PROVE  (target[t] = Prior[cur] \/ raced) /\ arch[cur] >= Bound
    OBVIOUS
  <2>1. Replace
    <3>1. target' # target
      OBVIOUS
    <3>2. \A x \in Targets, b \in Contents : ~ExternalEdit(x, b)
      BY DEF ExternalEdit, TypeInv, BoundsTyped
    <3>. QED
      BY <3>1, <3>2 DEF Next, vars, Execute, Record, Recover, Environment, Admit,
         AppendAdmission,
         AcquireTargetLock, ValidatePreconditions, CompareTarget, ArchiveBefore, AppendApplying,
         StageTemporary, RecheckTarget, VerifyExecuted, WriteArchiveAfter, WriteCheckpoint,
         ReleaseTargetLock, MarkOutcome, PersistNoChangeAudit, WriteReceipt, PublishReceipt,
         SealOutcome, StartRecovery, FinishRecovery, RecoverCommitted, CleanupStaleTargetLock,
         RefuseEvidence, RefuseTerminalReceipt, RecoverRefused, RecoverNoChange, RecoverAfterImage,
         RecoverPrepared, VerifyRecovered, RecoverArchiveInvalid, RecoverReplan, RecoverConflict,
         RemoveTemporary, ClassifyUnchanged, IoFailure, AbandonOperation,
         Crash, Shutdown, NewProcess
  <2>2. cur \in Effects /\ t = TargetOf[cur] /\ pc = "replace"
    BY <2>1 DEF Replace, TypeInv, ControlTyped, VaultTyped
  <2>. QED
    BY <2>2 DEF SafetyInv, PriorBeforeReplace, ArchivedWhenLate, LateSteps
<1>. QED
  BY <1>1, SafetyInvariant, PTL DEF Spec, OnlyPriorReplaced

-------------------------------------------------------------------------------
(* What stands behind a COMMITTED entry of the journal *)

\* A nonempty set of natural numbers has a least element.
LEMMA Least ==
    ASSUME NEW T, T \subseteq Nat, T # {}
    PROVE  \E x \in T : \A y \in T : x <= y
<1>1. IsWellFoundedOn(OpToRel(<, Nat), Nat)
  BY NatLessThanWellFounded
<1>2. PICK x \in T : \A y \in T : ~ (<<y, x>> \in OpToRel(<, Nat))
  BY <1>1, WFMin
<1>3. \A y \in T : <<y, x>> \in OpToRel(<, Nat) <=> y < x
  BY DEF OpToRel
<1>4. \A y \in T : ~ (y < x)
  BY <1>2, <1>3, Zenon
<1>. QED
  BY <1>4

\* The latest entry of an effect.
LEMMA LastIndexIn ==
    ASSUME JournalTyped, NEW e, Journaled(e)
    PROVE  /\ LastIndex(e) \in Indices(e)
           /\ \A j \in Indices(e) : j <= LastIndex(e)
<1>. DEFINE FromEnd == {Len(journal) - i : i \in Indices(e)}
<1>1. Len(journal) \in Nat /\ Indices(e) \subseteq 1 .. Len(journal)
  BY DEF JournalTyped, Indices
<1>2. FromEnd \in SUBSET Nat /\ FromEnd # {}
  BY <1>1 DEF Journaled
<1>3. PICK n \in FromEnd : \A m \in FromEnd : n <= m
  BY <1>2, Least
<1>4. PICK i \in Indices(e) : n = Len(journal) - i
  OBVIOUS
<1>5. ASSUME NEW j \in Indices(e) PROVE j <= i
  <2>1. Len(journal) - i <= Len(journal) - j
    BY <1>3, <1>4
  <2>. QED
    BY <2>1, <1>1
<1>. QED
  BY <1>4, <1>5 DEF LastIndex

\* An effect whose latest entry is VERIFIED has a VERIFIED entry.
LEMMA VerifiedStateOf ==
    ASSUME JournalTyped, NEW e, StateOf(e) = "VERIFIED"
    PROVE  EverIn(e, {"VERIFIED"})
BY LastIndexIn DEF StateOf, EverIn

\* An effect with a state has an entry.
LEMMA StateOfJournaled ==
    ASSUME JournalTyped, NEW e, StateOf(e) # "NONE"
    PROVE  Len(journal) > 0
BY DEF StateOf, Journaled, Indices, JournalTyped

LEMMA EntriesTyped ==
    ASSUME JournalTyped
    PROVE  \A i \in DOMAIN journal : journal[i] \in Entry /\ journal[i].eff \in Effects
<1>1. \A i \in DOMAIN journal : journal[i] \in Entry
  BY DEF JournalTyped
<1>. QED
  BY <1>1 DEF Entry

(***************************************************************************)
(* The invariant.                                                          *)
(***************************************************************************)

\* The evidence a COMMITTED entry with receipt r of effect e needs before entry i.
Backed(e, r, i) ==
    /\ r # NoReceipt
    /\ IF IsCommit(r)
       THEN arch[e] = Complete /\ r.archived
            /\ \E j \in Indices(e) : j < i /\ journal[j].state = "VERIFIED"
       ELSE audit[e] = r.ref /\ r.ref = i - 1 /\ r.ref > 0

CommittedBacked ==
    \A i \in DOMAIN journal :
        journal[i].state = "COMMITTED" => Backed(journal[i].eff, journal[i].receipt, i)

\* The outcome in progress is the commit of a verified replacement.
ReplaceProved ==
    /\ out.state = "COMMITTED" /\ out.reason # "BYTE_IDENTICAL" /\ out.archived
    /\ EverIn(cur, {"VERIFIED"})

BegunSteps == {"PLANNED", "PREPARED", "lock", "precondition", "read", "audit"}
RecordSteps == {"receipt"} \cup ReceiptSteps

OutcomeBacked ==
    /\ pc \in BegunSteps => Len(journal) > 0
    /\ pc \in LateSteps \ {"after"} /\ mode = "execute" => bound
    /\ pc \in {"replace", "verify"} /\ mode = "recover" =>
           out.state = "COMMITTED" /\ out.reason # "BYTE_IDENTICAL" /\ out.archived
    /\ pc = "after" => ReplaceProved
    /\ pc = "audit" => out.state = "COMMITTED" /\ out.reason = "BYTE_IDENTICAL"
    /\ pc = "mark" => out.state # "COMMITTED"
    /\ pc \in RecordSteps /\ out.state = "COMMITTED" =>
           IF out.reason # "BYTE_IDENTICAL"
           THEN ReplaceProved /\ arch[cur] = Complete
           ELSE audit[cur] = Len(journal) /\ Len(journal) > 0

CommitInv == CommittedBacked /\ OutcomeBacked

\* Steps at which OutcomeBacked asks for something.
WatchedSteps == BegunSteps \cup LateSteps \cup {"mark"} \cup RecordSteps

LEMMA Unwatched == pc' \notin WatchedSteps => OutcomeBacked'
BY DEF WatchedSteps, OutcomeBacked, BegunSteps, LateSteps, RecordSteps, ReceiptSteps

LEMMA MarkedBacked == pc' = "mark" /\ out'.state # "COMMITTED" => OutcomeBacked'
BY DEF OutcomeBacked, BegunSteps, LateSteps, RecordSteps, ReceiptSteps

LEMMA ThrowBacked == ASSUME NEW evidence, Throw(evidence) PROVE OutcomeBacked'
<1>1. CASE Catch
  BY <1>1, MarkedBacked DEF Catch, Decide, Goto
<1>2. CASE pc' \in {"unlock", "idle"}
  BY <1>2, Unwatched DEF WatchedSteps, BegunSteps, LateSteps, RecordSteps, ReceiptSteps
<1>. QED
  BY <1>1, <1>2 DEF Throw, RecoveryThrows, Rest, Goto

\* Evidence outlives a step that neither appends nor audits.
LEMMA EvidenceKept ==
    ASSUME TypeInv, TypeInv', CommittedBacked, UNCHANGED <<journal, audit>>,
           \A e \in Effects : arch'[e] >= arch[e]
    PROVE  CommittedBacked'
<1>1. \A e \in Effects : arch[e] = Complete => arch'[e] = Complete
  BY DEF TypeInv, WorkTyped, ArchiveSteps, Complete
<1>2. \A i \in DOMAIN journal : journal[i].eff \in Effects
  BY EntriesTyped DEF TypeInv
<1>3. ASSUME NEW i \in DOMAIN journal, journal[i].state = "COMMITTED"
      PROVE  Backed(journal[i].eff, journal[i].receipt, i)'
  <2>1. Backed(journal[i].eff, journal[i].receipt, i)
    BY <1>3 DEF CommittedBacked
  <2>. QED
    BY <2>1, <1>1, <1>2 DEF Backed, Indices
<1>. QED
  BY <1>3 DEF CommittedBacked

\* Evidence outlives an append; the entry appended needs its own.
LEMMA EvidenceAppended ==
    ASSUME TypeInv, CommittedBacked, cur \in Effects,
           NEW state \in JournalStates, NEW reason \in Reasons,
           NEW receipt \in Receipt \cup {NoReceipt}, AppendEntry(state, reason, receipt),
           UNCHANGED <<arch, audit>>,
           state = "COMMITTED" => Backed(cur, receipt, Len(journal) + 1)
    PROVE  /\ CommittedBacked'
           /\ \A e, states : EverIn(e, states) => EverIn(e, states)'
           /\ Len(journal') > 0
           /\ state = "VERIFIED" /\ cur' = cur => EverIn(cur, {"VERIFIED"})'
<1>1. /\ journal \in Seq(Entry) /\ Len(journal) \in Nat
      /\ Len(journal') = Len(journal) + 1 /\ journal' \in Seq(Entry)
      /\ journal'[Len(journal) + 1] =
             [eff |-> cur, state |-> state, reason |-> reason, receipt |-> receipt]
      /\ \A i \in 1 .. Len(journal) : journal'[i] = journal[i]
  BY Appended DEF TypeInv, JournalTyped
<1>2. DOMAIN journal = 1 .. Len(journal) /\ DOMAIN journal' = 1 .. (Len(journal) + 1)
  BY <1>1
<1>3. \A e : Indices(e) \subseteq Indices(e)'
  BY <1>1, <1>2 DEF Indices
<1>4. \A e : \A j \in Indices(e) : journal'[j] = journal[j]
  BY <1>1, <1>2 DEF Indices
<1>5. ASSUME NEW e, NEW r, NEW i, Backed(e, r, i) PROVE Backed(e, r, i)'
  BY <1>3, <1>4, <1>5 DEF Backed
<1>6. CommittedBacked'
  <2>. SUFFICES ASSUME NEW i \in DOMAIN journal', journal'[i].state = "COMMITTED"
                PROVE  Backed(journal[i].eff, journal[i].receipt, i)'
    BY DEF CommittedBacked
  <2>1. CASE i = Len(journal) + 1
    <3>1. Backed(cur, receipt, i)
      BY <2>1, <1>1
    <3>2. Backed(cur, receipt, i) => Backed(journal[i].eff, journal[i].receipt, i)'
      BY <2>1, <1>1, <1>3, <1>4 DEF Backed
    <3>. QED
      BY <3>1, <3>2
  <2>2. CASE i \in 1 .. Len(journal)
    <3>1. Backed(journal[i].eff, journal[i].receipt, i)
      BY <2>2, <1>1, <1>2 DEF CommittedBacked
    <3>. QED
      BY <3>1, <2>2, <1>1, <1>3, <1>4 DEF Backed
  <2>. QED
    BY <2>1, <2>2, <1>1, <1>2
<1>7. \A e, states : EverIn(e, states) => EverIn(e, states)'
  BY <1>3, <1>4 DEF EverIn
<1>8. Len(journal') > 0
  BY <1>1
<1>9. state = "VERIFIED" /\ cur' = cur => EverIn(cur, {"VERIFIED"})'
  BY <1>1, <1>2 DEF EverIn, Indices
<1>. QED
  BY <1>6, <1>7, <1>8, <1>9

(***************************************************************************)
(* Every step keeps the invariant.                                         *)
(***************************************************************************)
LEMMA CommitStep == TypeInv /\ SafetyInv /\ CommitInv /\ [Next]_vars => CommitInv'
<1>. SUFFICES ASSUME TypeInv, TypeInv', SafetyInv, CommitInv, [Next]_vars PROVE CommitInv'
  BY TypeStep
<1>i. CommittedBacked /\ OutcomeBacked
  BY DEF CommitInv
<1>t. /\ mode \in {"execute", "recover"} /\ out \in Outcome /\ Len(journal) \in Nat
      /\ pc \notin {"idle", "next"} => cur \in Effects
      /\ arch \in [Effects -> ArchiveSteps] /\ JournalTyped
  BY DEF TypeInv, ControlTyped, JournalTyped, WorkTyped
<1>a. \A e \in Effects : arch[e] \in Nat /\ arch[e] >= arch[e]
  BY <1>t DEF ArchiveSteps
<1>s. /\ out.state \in Outcomes /\ out.reason \in Reasons
      /\ \A state \in Outcomes : state \in JournalStates
  BY <1>t DEF Outcome, JournalStates
<1>0. CASE UNCHANGED vars
  <2>1. UNCHANGED <<journal, audit, arch, pc, mode, cur, out, bound>>
    BY <1>0 DEF vars
  <2>2. CommittedBacked'
    BY <2>1, <1>i, <1>a, EvidenceKept
  <2>3. OutcomeBacked'
    BY <2>1, <1>i DEF OutcomeBacked, ReplaceProved, EverIn, Indices
  <2>. QED
    BY <2>2, <2>3 DEF CommitInv
<1>1. ASSUME NEW e \in Effects, Admit(e) PROVE CommitInv'
  <2>1. UNCHANGED <<journal, audit, arch>>
    BY <1>1 DEF Admit, receiptVars
  <2>2. pc' \notin WatchedSteps
    BY <1>1 DEF Admit, Goto, WatchedSteps, BegunSteps, LateSteps, RecordSteps, ReceiptSteps
  <2>. QED
    BY <2>1, <2>2, <1>i, <1>a, EvidenceKept, Unwatched DEF CommitInv
<1>2. ASSUME AppendAdmission PROVE CommitInv'
  <2>1. /\ pc \in {"RECEIVED", "PLANNED", "PREPARED"} /\ pc' \in {"PLANNED", "PREPARED", "lock"}
        /\ AppendEntry(pc, "", NoReceipt)
        /\ cur \in Effects /\ UNCHANGED <<arch, audit>>
    BY <1>2, <1>t DEF AppendAdmission, Goto
  <2>2. pc \in JournalStates /\ pc # "COMMITTED" /\ "" \in Reasons
    BY <2>1 DEF JournalStates, Reasons
  <2>3. CommittedBacked' /\ Len(journal') > 0
    BY <2>1, <2>2, <1>i, EvidenceAppended
  <2>. QED
    BY <2>1, <2>3 DEF CommitInv, OutcomeBacked, BegunSteps, LateSteps, RecordSteps, ReceiptSteps
<1>3. ASSUME AcquireTargetLock PROVE CommitInv'
  <2>1. UNCHANGED <<journal, audit, arch>>
    BY <1>3 DEF AcquireTargetLock, receiptVars
  <2>2. CommittedBacked'
    BY <2>1, <1>i, <1>a, EvidenceKept
  <2>3. OutcomeBacked'
    <3>1. CASE pc' = "precondition" /\ pc = "lock"
      BY <3>1, <2>1, <1>i DEF OutcomeBacked, BegunSteps, LateSteps, RecordSteps, ReceiptSteps
    <3>2. CASE Catch
      BY <3>2, MarkedBacked DEF Catch, Decide, Goto
    <3>. QED
      BY <1>3, <3>1, <3>2 DEF AcquireTargetLock, Executing, Goto
  <2>. QED
    BY <2>2, <2>3 DEF CommitInv
<1>4. ASSUME ValidatePreconditions PROVE CommitInv'
  <2>1. UNCHANGED <<journal, audit, arch>>
    BY <1>4 DEF ValidatePreconditions, receiptVars
  <2>2. CommittedBacked'
    BY <2>1, <1>i, <1>a, EvidenceKept
  <2>3. OutcomeBacked'
    <3>1. CASE pc' = "read" /\ pc = "precondition"
      BY <3>1, <2>1, <1>i DEF OutcomeBacked, BegunSteps, LateSteps, RecordSteps, ReceiptSteps
    <3>2. CASE pc' = "mark" /\ Decide("ABORTED", "DENIED", FALSE)
      BY <3>2, MarkedBacked DEF Decide
    <3>. QED
      BY <1>4, <3>1, <3>2 DEF ValidatePreconditions, Executing, Goto
  <2>. QED
    BY <2>2, <2>3 DEF CommitInv
<1>5. ASSUME CompareTarget PROVE CommitInv'
  <2>1. UNCHANGED <<journal, audit, arch>>
    BY <1>5 DEF CompareTarget, receiptVars
  <2>2. CommittedBacked'
    BY <2>1, <1>i, <1>a, EvidenceKept
  <2>3. OutcomeBacked'
    <3>1. CASE pc' = "mark" /\ Decide("STALE", "TARGET_PRECONDITION_MISMATCH", FALSE)
      BY <3>1, MarkedBacked DEF Decide
    <3>2. CASE pc' = "audit" /\ Decide("COMMITTED", "BYTE_IDENTICAL", FALSE) /\ pc = "read"
      BY <3>2, <2>1, <1>i DEF Decide, OutcomeBacked, BegunSteps, LateSteps, RecordSteps,
         ReceiptSteps
    <3>3. CASE pc' = "archive"
      BY <3>3, Unwatched DEF Goto, WatchedSteps, BegunSteps, LateSteps, RecordSteps,
         ReceiptSteps
    <3>. QED
      BY <1>5, <3>1, <3>2, <3>3 DEF CompareTarget, Executing, Goto
  <2>. QED
    BY <2>2, <2>3 DEF CommitInv
<1>6. ASSUME ArchiveBefore PROVE CommitInv'
  <2>1. UNCHANGED <<journal, audit, mode>> /\ cur \in Effects /\ mode = "execute"
    BY <1>6, <1>t DEF ArchiveBefore, Executing
  <2>2. arch' = [arch EXCEPT ![cur] = IF arch[cur] < Bound THEN arch[cur] + 1 ELSE arch[cur]]
    BY <1>6 DEF ArchiveBefore
  <2>3. \A e \in Effects : arch'[e] >= arch[e]
    BY <2>1, <2>2, <1>t, <1>a
  <2>4. CommittedBacked'
    BY <2>1, <2>3, <1>i, EvidenceKept
  <2>5. pc' = "archive" \/ (pc' = "applying" /\ bound')
    BY <1>6 DEF ArchiveBefore, Goto
  <2>6. OutcomeBacked'
    BY <2>1, <2>5 DEF OutcomeBacked, BegunSteps, LateSteps, RecordSteps, ReceiptSteps
  <2>. QED
    BY <2>4, <2>6 DEF CommitInv
<1>7. ASSUME AppendApplying PROVE CommitInv'
  <2>1. /\ AppendEntry("APPLYING", "", NoReceipt) /\ pc = "applying" /\ pc' = "clear"
        /\ cur \in Effects /\ mode = "execute" /\ UNCHANGED <<arch, audit, mode, bound>>
    BY <1>7, <1>t DEF AppendApplying, Executing, Goto
  <2>2. "APPLYING" \in JournalStates /\ "" \in Reasons
    BY DEF JournalStates, Reasons
  <2>3. CommittedBacked'
    BY <2>1, <2>2, <1>i, EvidenceAppended
  <2>. QED
    BY <2>1, <2>3, <1>i DEF CommitInv, OutcomeBacked, BegunSteps, LateSteps, RecordSteps,
       ReceiptSteps
<1>8. ASSUME StageTemporary PROVE CommitInv'
  <2>1. UNCHANGED <<journal, audit, arch>>
    BY <1>8 DEF StageTemporary, receiptVars
  <2>2. CommittedBacked'
    BY <2>1, <1>i, <1>a, EvidenceKept
  <2>3. OutcomeBacked'
    <3>1. /\ mode = "execute" /\ UNCHANGED <<mode, bound>>
          /\ pc \in {"clear", "stage"} /\ pc' \in {"stage", "recheck"}
      BY <1>8 DEF StageTemporary, Executing, Goto
    <3>. QED
      BY <3>1, <1>i DEF OutcomeBacked, BegunSteps, LateSteps, RecordSteps, ReceiptSteps
  <2>. QED
    BY <2>2, <2>3 DEF CommitInv
<1>9. ASSUME RecheckTarget PROVE CommitInv'
  <2>1. UNCHANGED <<journal, audit, arch>>
    BY <1>9 DEF RecheckTarget, receiptVars
  <2>2. CommittedBacked'
    BY <2>1, <1>i, <1>a, EvidenceKept
  <2>3. OutcomeBacked'
    <3>1. mode = "execute" /\ pc = "recheck" /\ UNCHANGED <<mode, bound>>
      BY <1>9 DEF RecheckTarget, Executing
    <3>2. CASE pc' = "replace"
      BY <3>1, <3>2, <1>i DEF OutcomeBacked, BegunSteps, LateSteps, RecordSteps, ReceiptSteps
    <3>3. CASE pc' = "mark" /\ Decide("STALE", "TARGET_CHANGED_BEFORE_REPLACE", bound)
      BY <3>3, MarkedBacked DEF Decide
    <3>. QED
      BY <1>9, <3>2, <3>3 DEF RecheckTarget, Goto
  <2>. QED
    BY <2>2, <2>3 DEF CommitInv
<1>10. ASSUME Replace PROVE CommitInv'
  <2>1. UNCHANGED <<journal, audit, arch>>
    BY <1>10 DEF Replace, receiptVars
  <2>2. CommittedBacked'
    BY <2>1, <1>i, <1>a, EvidenceKept
  <2>3. OutcomeBacked'
    <3>1. pc = "replace" /\ pc' = "verify" /\ UNCHANGED <<mode, out, bound>>
      BY <1>10 DEF Replace, Goto
    <3>. QED
      BY <3>1, <1>i DEF OutcomeBacked, BegunSteps, LateSteps, RecordSteps, ReceiptSteps
  <2>. QED
    BY <2>2, <2>3 DEF CommitInv
<1>11. ASSUME VerifyExecuted PROVE CommitInv'
  <2>1. cur \in Effects /\ mode = "execute" /\ pc = "verify" /\ UNCHANGED <<arch, audit, cur>>
    BY <1>11, <1>t DEF VerifyExecuted, Executing
  <2>2. CASE AppendEntry("VERIFIED", "", NoReceipt) /\ Decide("COMMITTED", "", bound)
             /\ pc' = "after"
    <3>1. "VERIFIED" \in JournalStates /\ "" \in Reasons
      BY DEF JournalStates, Reasons
    <3>2. CommittedBacked' /\ EverIn(cur, {"VERIFIED"})'
      BY <2>1, <2>2, <3>1, <1>i, EvidenceAppended
    <3>3. bound
      BY <2>1, <1>i DEF OutcomeBacked, LateSteps
    <3>4. ReplaceProved'
      BY <2>1, <2>2, <3>2, <3>3 DEF Decide, ReplaceProved
    <3>. QED
      BY <2>2, <3>2, <3>4 DEF CommitInv, OutcomeBacked, BegunSteps, LateSteps, RecordSteps,
         ReceiptSteps
  <2>3. CASE Catch /\ UNCHANGED journal
    <3>1. OutcomeBacked'
      BY <2>3, MarkedBacked DEF Catch, Decide, Goto
    <3>. QED
      BY <2>1, <2>3, <3>1, <1>i, <1>a, EvidenceKept DEF CommitInv
  <2>. QED
    BY <1>11, <2>2, <2>3 DEF VerifyExecuted, Goto
<1>12. ASSUME WriteArchiveAfter PROVE CommitInv'
  <2>1. UNCHANGED <<journal, audit, cur, out>> /\ cur \in Effects /\ pc = "after"
    BY <1>12, <1>t DEF WriteArchiveAfter
  <2>2. arch' = [arch EXCEPT ![cur] = IF arch[cur] < Complete THEN arch[cur] + 1 ELSE arch[cur]]
    BY <1>12 DEF WriteArchiveAfter
  <2>3. \A e \in Effects : arch'[e] >= arch[e]
    BY <2>1, <2>2, <1>t, <1>a
  <2>4. CommittedBacked'
    BY <2>1, <2>3, <1>i, EvidenceKept
  <2>5. pc' = "after" \/ (pc' = "receipt" /\ arch'[cur] = Complete)
    BY <1>12 DEF WriteArchiveAfter, Goto
  <2>6. ReplaceProved'
    BY <2>1, <1>i DEF OutcomeBacked, ReplaceProved, EverIn, Indices
  <2>7. OutcomeBacked'
    BY <2>1, <2>5, <2>6 DEF OutcomeBacked, BegunSteps, LateSteps, RecordSteps, ReceiptSteps,
       ReplaceProved
  <2>. QED
    BY <2>4, <2>7 DEF CommitInv
<1>13. ASSUME WriteCheckpoint PROVE CommitInv'
  <2>1. UNCHANGED <<journal, audit, arch>>
    BY <1>13 DEF WriteCheckpoint, receiptVars
  <2>2. pc' \notin WatchedSteps
    BY <1>13 DEF WriteCheckpoint, Goto, WatchedSteps, BegunSteps, LateSteps, RecordSteps,
       ReceiptSteps
  <2>. QED
    BY <2>1, <2>2, <1>i, <1>a, EvidenceKept, Unwatched DEF CommitInv
<1>14. ASSUME ReleaseTargetLock PROVE CommitInv'
  <2>1. UNCHANGED <<journal, audit, arch>>
    BY <1>14 DEF ReleaseTargetLock, receiptVars, Rest
  <2>2. pc' \notin WatchedSteps
    BY <1>14 DEF ReleaseTargetLock, Goto, WatchedSteps, BegunSteps, LateSteps, RecordSteps,
       ReceiptSteps, Rest
  <2>. QED
    BY <2>1, <2>2, <1>i, <1>a, EvidenceKept, Unwatched DEF CommitInv
<1>15. ASSUME MarkOutcome PROVE CommitInv'
  <2>1. /\ AppendEntry(out.state, out.reason, NoReceipt) /\ pc = "mark" /\ pc' = "receipt"
        /\ cur \in Effects /\ UNCHANGED <<arch, audit, out>>
    BY <1>15, <1>t DEF MarkOutcome, Goto
  <2>2. out.state # "COMMITTED"
    BY <2>1, <1>i DEF OutcomeBacked
  <2>3. CommittedBacked'
    BY <2>1, <2>2, <1>i, <1>s, EvidenceAppended
  <2>. QED
    BY <2>1, <2>2, <2>3 DEF CommitInv, OutcomeBacked, BegunSteps, LateSteps, RecordSteps,
       ReceiptSteps
<1>16. ASSUME PersistNoChangeAudit PROVE CommitInv'
  <2>1. UNCHANGED <<journal, arch>> /\ cur \in Effects /\ pc = "audit"
    BY <1>16, <1>t DEF PersistNoChangeAudit
  <2>2. CASE Throw(TRUE) /\ UNCHANGED audit
    BY <2>1, <2>2, <1>i, <1>a, ThrowBacked, EvidenceKept DEF CommitInv
  <2>3. CASE /\ AuditAdmissible /\ audit' = [audit EXCEPT ![cur] = Len(journal)]
             /\ pc' = "receipt" /\ UNCHANGED <<cur, out>>
    <3>1. audit \in [Effects -> Nat] /\ DOMAIN journal = 1 .. Len(journal) /\ Len(journal) > 0
      BY <2>1, <1>i, <1>t DEF TypeInv, WorkTyped, JournalTyped, OutcomeBacked, BegunSteps
    <3>2. CommittedBacked'
      <4>. SUFFICES ASSUME NEW i \in DOMAIN journal, journal[i].state = "COMMITTED"
                    PROVE  Backed(journal[i].eff, journal[i].receipt, i)'
        BY <2>1 DEF CommittedBacked
      <4>1. Backed(journal[i].eff, journal[i].receipt, i)
        BY <1>i DEF CommittedBacked
      <4>2. CASE journal[i].eff = cur /\ ~IsCommit(journal[i].receipt)
        <5>1. audit[cur] = i - 1 /\ audit[cur] > 0
          BY <4>1, <4>2 DEF Backed
        <5>. QED
          BY <5>1, <2>3, <3>1, <1>t DEF AuditAdmissible
      <4>3. CASE IsCommit(journal[i].receipt)
        BY <4>1, <4>3, <2>1 DEF Backed, Indices
      <4>4. CASE journal[i].eff # cur /\ ~IsCommit(journal[i].receipt)
        <5>1. journal[i].eff \in Effects
          BY <1>t, EntriesTyped
        <5>. QED
          BY <4>1, <4>4, <5>1, <2>1, <2>3, <3>1 DEF Backed
      <4>. QED
        BY <4>2, <4>3, <4>4
    <3>3. audit'[cur] = Len(journal) /\ out.reason = "BYTE_IDENTICAL"
      BY <2>1, <2>3, <3>1, <1>i DEF OutcomeBacked
    <3>4. OutcomeBacked'
      BY <2>1, <2>3, <3>1, <3>3 DEF OutcomeBacked, BegunSteps, LateSteps, RecordSteps,
         ReceiptSteps
    <3>. QED
      BY <3>2, <3>4 DEF CommitInv
  <2>. QED
    BY <1>16, <2>2, <2>3 DEF PersistNoChangeAudit, Goto
<1>17. ASSUME WriteReceipt PROVE CommitInv'
  <2>1. UNCHANGED <<journal, audit, arch>>
    BY <1>17 DEF WriteReceipt, receiptVars
  <2>2. CommittedBacked'
    BY <2>1, <1>i, <1>a, EvidenceKept
  <2>3. OutcomeBacked'
    <3>1. CASE Throw(TRUE)
      BY <3>1, ThrowBacked
    <3>2. CASE pc' \in ReceiptSteps /\ pc = "receipt" /\ UNCHANGED <<cur, out>>
      BY <3>2, <2>1, <1>i DEF OutcomeBacked, BegunSteps, LateSteps, RecordSteps, ReceiptSteps,
         ReplaceProved, EverIn, Indices
    <3>. QED
      BY <1>17, <3>1, <3>2 DEF WriteReceipt, Goto, ReceiptSteps
  <2>. QED
    BY <2>2, <2>3 DEF CommitInv
<1>18. ASSUME PublishReceipt PROVE CommitInv'
  <2>1. UNCHANGED <<journal, audit, arch>>
    BY <1>18 DEF PublishReceipt, receiptVars
  <2>2. CommittedBacked'
    BY <2>1, <1>i, <1>a, EvidenceKept
  <2>3. OutcomeBacked'
    <3>1. pc \in ReceiptSteps /\ pc' \in ReceiptSteps /\ UNCHANGED <<cur, out>>
      BY <1>18 DEF PublishReceipt, Goto, ReceiptSteps
    <3>. QED
      BY <3>1, <2>1, <1>i DEF OutcomeBacked, BegunSteps, LateSteps, RecordSteps, ReceiptSteps,
         ReplaceProved, EverIn, Indices
  <2>. QED
    BY <2>2, <2>3 DEF CommitInv
<1>19. ASSUME SealOutcome PROVE CommitInv'
  <2>1. /\ AppendEntry(out.state, out.reason, ThisReceipt) /\ pc = "seal"
        /\ pc' \notin WatchedSteps /\ cur \in Effects /\ UNCHANGED <<arch, audit>>
    BY <1>19, <1>t DEF SealOutcome, AfterSeal, Goto, WatchedSteps, BegunSteps, LateSteps,
       RecordSteps, ReceiptSteps
  <2>2. ThisReceipt \in Receipt /\ ThisReceipt # NoReceipt
    BY <2>1, ThisReceiptTyped, SentinelAssumption
  <2>3. /\ ThisReceipt.state = out.state /\ ThisReceipt.reason = out.reason
        /\ ThisReceipt.archived = out.archived /\ ThisReceipt.ref = Len(journal)
    BY DEF ThisReceipt
  <2>4. out.state = "COMMITTED" => Backed(cur, ThisReceipt, Len(journal) + 1)
    <3>. SUFFICES ASSUME out.state = "COMMITTED" PROVE Backed(cur, ThisReceipt, Len(journal) + 1)
      OBVIOUS
    <3>1. CASE out.reason # "BYTE_IDENTICAL"
      <4>1. arch[cur] = Complete /\ out.archived /\ EverIn(cur, {"VERIFIED"})
        BY <2>1, <3>1, <1>i DEF OutcomeBacked, ReplaceProved, RecordSteps, ReceiptSteps
      <4>2. \E j \in Indices(cur) : j < Len(journal) + 1 /\ journal[j].state = "VERIFIED"
        BY <4>1, <1>t DEF EverIn, Indices, JournalTyped
      <4>. QED
        BY <2>2, <2>3, <3>1, <4>1, <4>2 DEF Backed, IsCommit
    <3>2. CASE out.reason = "BYTE_IDENTICAL"
      <4>1. audit[cur] = Len(journal) /\ Len(journal) > 0
        BY <2>1, <3>2, <1>i DEF OutcomeBacked, RecordSteps, ReceiptSteps
      <4>. QED
        BY <2>2, <2>3, <3>2, <4>1, <1>t DEF Backed, IsCommit
    <3>. QED
      BY <3>1, <3>2
  <2>5. CommittedBacked'
    BY <2>1, <2>2, <2>4, <1>i, <1>s, EvidenceAppended
  <2>. QED
    BY <2>1, <2>5, Unwatched DEF CommitInv
<1>20. ASSUME StartRecovery PROVE CommitInv'
  <2>1. UNCHANGED <<journal, audit, arch>>
    BY <1>20 DEF StartRecovery, receiptVars
  <2>2. pc' \notin WatchedSteps
    BY <1>20 DEF StartRecovery, Goto, WatchedSteps, BegunSteps, LateSteps, RecordSteps,
       ReceiptSteps
  <2>. QED
    BY <2>1, <2>2, <1>i, <1>a, EvidenceKept, Unwatched DEF CommitInv
<1>21. ASSUME FinishRecovery PROVE CommitInv'
  <2>1. UNCHANGED <<journal, audit, arch>>
    BY <1>21 DEF FinishRecovery, receiptVars, Rest
  <2>2. pc' \notin WatchedSteps
    BY <1>21 DEF FinishRecovery, Goto, WatchedSteps, BegunSteps, LateSteps, RecordSteps,
       ReceiptSteps, Rest
  <2>. QED
    BY <2>1, <2>2, <1>i, <1>a, EvidenceKept, Unwatched DEF CommitInv
<1>22. ASSUME NEW e \in Effects, RecoverCommitted(e) PROVE CommitInv'
  <2>1. UNCHANGED <<journal, audit, arch>>
    BY <1>22 DEF RecoverCommitted, receiptVars
  <2>2. CommittedBacked'
    BY <2>1, <1>i, <1>a, EvidenceKept
  <2>3. OutcomeBacked'
    <3>1. pc' = "next"
      BY <1>22 DEF RecoverCommitted, IsNext, Recovering
    <3>. QED
      BY <3>1, Unwatched DEF Goto, WatchedSteps, BegunSteps, LateSteps, RecordSteps,
         ReceiptSteps
  <2>. QED
    BY <2>2, <2>3 DEF CommitInv
<1>23. ASSUME NEW e \in Effects, CleanupStaleTargetLock(e) PROVE CommitInv'
  <2>1. UNCHANGED <<journal, audit, arch>>
    BY <1>23 DEF CleanupStaleTargetLock, receiptVars
  <2>2. pc' \notin WatchedSteps
    BY <1>23 DEF CleanupStaleTargetLock, Goto, WatchedSteps, BegunSteps, LateSteps,
       RecordSteps, ReceiptSteps
  <2>. QED
    BY <2>1, <2>2, <1>i, <1>a, EvidenceKept, Unwatched DEF CommitInv
<1>24. ASSUME NEW e \in Effects, RefuseEvidence(e) PROVE CommitInv'
  <2>1. UNCHANGED <<journal, audit, arch>>
    BY <1>24 DEF RefuseEvidence, receiptVars, RecoveryThrows, Rest
  <2>2. pc' \notin WatchedSteps
    BY <1>24 DEF RefuseEvidence, Goto, WatchedSteps, BegunSteps, LateSteps, RecordSteps,
       ReceiptSteps, RecoveryThrows, Rest
  <2>. QED
    BY <2>1, <2>2, <1>i, <1>a, EvidenceKept, Unwatched DEF CommitInv
<1>25. ASSUME RefuseTerminalReceipt PROVE CommitInv'
  <2>1. UNCHANGED <<journal, audit, arch>>
    BY <1>25 DEF RefuseTerminalReceipt, receiptVars, RecoveryThrows, Rest
  <2>2. pc' \notin WatchedSteps
    BY <1>25 DEF RefuseTerminalReceipt, Goto, WatchedSteps, BegunSteps, LateSteps,
       RecordSteps, ReceiptSteps, RecoveryThrows, Rest
  <2>. QED
    BY <2>1, <2>2, <1>i, <1>a, EvidenceKept, Unwatched DEF CommitInv
<1>26. ASSUME RecoverRefused PROVE CommitInv'
  <2>1. UNCHANGED <<journal, audit, arch>>
    BY <1>26 DEF RecoverRefused, receiptVars, ClassifyUnchanged
  <2>2. pc' \notin WatchedSteps
    BY <1>26 DEF RecoverRefused, Goto, WatchedSteps, BegunSteps, LateSteps, RecordSteps,
       ReceiptSteps, ClassifyUnchanged
  <2>. QED
    BY <2>1, <2>2, <1>i, <1>a, EvidenceKept, Unwatched DEF CommitInv
<1>27. ASSUME RecoverNoChange PROVE CommitInv'
  <2>1. UNCHANGED <<journal, audit, arch>>
    BY <1>27 DEF RecoverNoChange, receiptVars, ClassifyUnchanged
  <2>2. CommittedBacked'
    BY <2>1, <1>i, <1>a, EvidenceKept
  <2>3. OutcomeBacked'
    <3>1. CASE pc' = "next"
      BY <3>1, Unwatched DEF Goto, WatchedSteps, BegunSteps, LateSteps, RecordSteps,
         ReceiptSteps
    <3>2. CASE pc' = "audit" /\ Decide("COMMITTED", "BYTE_IDENTICAL", FALSE)
      <4>1. Len(journal) > 0
        BY <1>27, <1>t, StateOfJournaled DEF RecoverNoChange, NoChangeUnfinished
      <4>. QED
        BY <3>2, <4>1, <2>1 DEF Decide, OutcomeBacked, BegunSteps, LateSteps, RecordSteps,
           ReceiptSteps
    <3>. QED
      BY <1>27, <3>1, <3>2 DEF RecoverNoChange, Goto
  <2>. QED
    BY <2>2, <2>3 DEF CommitInv
<1>28. ASSUME RecoverAfterImage PROVE CommitInv'
  <2>1. /\ cur \in Effects /\ pc' = "after" /\ UNCHANGED <<arch, audit, cur>>
        /\ Decide("COMMITTED", "RECOVERY_FINISHED_COMMIT", TRUE)
    BY <1>28, <1>t DEF RecoverAfterImage, ClassifyUnchanged, Open, Recovering, Goto
  <2>2. CommittedBacked' /\ EverIn(cur, {"VERIFIED"})'
    <3>1. CASE StateOf(cur) = "VERIFIED" /\ UNCHANGED journal
      <4>1. EverIn(cur, {"VERIFIED"})
        BY <3>1, <1>t, VerifiedStateOf
      <4>. QED
        BY <2>1, <3>1, <4>1, <1>i, <1>a, EvidenceKept DEF EverIn, Indices
    <3>2. CASE AppendEntry("VERIFIED", "RECOVERY_VERIFIED_AFTER_IMAGE", NoReceipt)
      <4>1. "VERIFIED" \in JournalStates /\ "RECOVERY_VERIFIED_AFTER_IMAGE" \in Reasons
        BY DEF JournalStates, Reasons
      <4>. QED
        BY <2>1, <3>2, <4>1, <1>i, EvidenceAppended
    <3>. QED
      BY <1>28, <3>1, <3>2 DEF RecoverAfterImage
  <2>3. ReplaceProved'
    BY <2>1, <2>2 DEF Decide, ReplaceProved
  <2>. QED
    BY <2>1, <2>2, <2>3 DEF CommitInv, OutcomeBacked, BegunSteps, LateSteps, RecordSteps,
       ReceiptSteps
<1>29. ASSUME RecoverPrepared PROVE CommitInv'
  <2>1. UNCHANGED <<journal, audit, arch>>
    BY <1>29 DEF RecoverPrepared, receiptVars, ClassifyUnchanged
  <2>2. CommittedBacked'
    BY <2>1, <1>i, <1>a, EvidenceKept
  <2>3. OutcomeBacked'
    <3>1. /\ pc' = "replace" /\ mode' = "recover"
          /\ Decide("COMMITTED", "RECOVERY_APPLIED_PREPARED_TEMP", TRUE)
      BY <1>29 DEF RecoverPrepared, ClassifyUnchanged, Open, Recovering, Goto
    <3>. QED
      BY <3>1 DEF Decide, OutcomeBacked, BegunSteps, LateSteps, RecordSteps, ReceiptSteps
  <2>. QED
    BY <2>2, <2>3 DEF CommitInv
<1>30. ASSUME VerifyRecovered PROVE CommitInv'
  <2>1. cur \in Effects /\ mode = "recover" /\ pc = "verify" /\ UNCHANGED <<arch, audit>>
    BY <1>30, <1>t DEF VerifyRecovered, Recovering
  <2>2. CASE /\ AppendEntry("VERIFIED", "RECOVERY_APPLIED_PREPARED_TEMP", NoReceipt)
             /\ pc' = "after" /\ UNCHANGED <<cur, out>>
    <3>1. "VERIFIED" \in JournalStates /\ "RECOVERY_APPLIED_PREPARED_TEMP" \in Reasons
      BY DEF JournalStates, Reasons
    <3>2. CommittedBacked' /\ EverIn(cur, {"VERIFIED"})'
      BY <2>1, <2>2, <3>1, <1>i, EvidenceAppended
    <3>3. ReplaceProved'
      BY <2>1, <2>2, <3>2, <1>i DEF OutcomeBacked, ReplaceProved
    <3>. QED
      BY <2>2, <3>2, <3>3 DEF CommitInv, OutcomeBacked, BegunSteps, LateSteps, RecordSteps,
         ReceiptSteps
  <2>3. CASE pc' = "idle" /\ UNCHANGED journal
    <3>1. OutcomeBacked'
      BY <2>3, Unwatched DEF Goto, WatchedSteps, BegunSteps, LateSteps, RecordSteps,
         ReceiptSteps
    <3>. QED
      BY <2>1, <2>3, <3>1, <1>i, <1>a, EvidenceKept DEF CommitInv
  <2>. QED
    BY <1>30, <2>2, <2>3 DEF VerifyRecovered, RecoveryThrows, Rest, Goto
<1>31. ASSUME RecoverArchiveInvalid PROVE CommitInv'
  <2>1. UNCHANGED <<journal, audit, arch>>
    BY <1>31 DEF RecoverArchiveInvalid, receiptVars, ClassifyUnchanged
  <2>2. CommittedBacked'
    BY <2>1, <1>i, <1>a, EvidenceKept
  <2>3. OutcomeBacked'
    BY <1>31, MarkedBacked DEF RecoverArchiveInvalid, Decide, Goto
  <2>. QED
    BY <2>2, <2>3 DEF CommitInv
<1>32. ASSUME RecoverConflict PROVE CommitInv'
  <2>1. UNCHANGED <<journal, audit, arch>>
    BY <1>32 DEF RecoverConflict, receiptVars, ClassifyUnchanged
  <2>2. CommittedBacked'
    BY <2>1, <1>i, <1>a, EvidenceKept
  <2>3. OutcomeBacked'
    BY <1>32, MarkedBacked DEF RecoverConflict, Decide, Goto
  <2>. QED
    BY <2>2, <2>3 DEF CommitInv
<1>33. ASSUME RecoverReplan PROVE CommitInv'
  <2>1. UNCHANGED <<journal, audit, arch>>
    BY <1>33 DEF RecoverReplan, receiptVars, ClassifyUnchanged
  <2>2. CommittedBacked'
    BY <2>1, <1>i, <1>a, EvidenceKept
  <2>3. OutcomeBacked'
    <3>1. CASE pc' = "next"
      BY <3>1, Unwatched DEF Goto, WatchedSteps, BegunSteps, LateSteps, RecordSteps,
         ReceiptSteps
    <3>2. CASE pc' = "mark" /\ Decide("RECOVERY_REQUIRED", "REPLAN_REQUIRED", FALSE)
      BY <3>2, MarkedBacked DEF Decide
    <3>. QED
      BY <1>33, <3>1, <3>2 DEF RecoverReplan, Goto
  <2>. QED
    BY <2>2, <2>3 DEF CommitInv
<1>34. ASSUME RemoveTemporary PROVE CommitInv'
  <2>1. UNCHANGED <<journal, audit, arch>>
    BY <1>34 DEF RemoveTemporary, receiptVars
  <2>2. pc' \notin WatchedSteps
    BY <1>34 DEF RemoveTemporary, Goto, WatchedSteps, BegunSteps, LateSteps, RecordSteps,
       ReceiptSteps
  <2>. QED
    BY <2>1, <2>2, <1>i, <1>a, EvidenceKept, Unwatched DEF CommitInv
<1>35. ASSUME NEW t \in Targets, NEW b \in Contents, ExternalEdit(t, b) PROVE CommitInv'
  <2>1. UNCHANGED <<journal, audit, arch>>
    BY <1>35 DEF ExternalEdit, receiptVars
  <2>2. CommittedBacked'
    BY <2>1, <1>i, <1>a, EvidenceKept
  <2>3. OutcomeBacked'
    <3>1. UNCHANGED <<pc, mode, cur, out, bound>>
      BY <1>35 DEF ExternalEdit
    <3>. QED
      BY <3>1, <2>1, <1>i DEF OutcomeBacked, ReplaceProved, EverIn, Indices
  <2>. QED
    BY <2>2, <2>3 DEF CommitInv
<1>36. ASSUME IoFailure PROVE CommitInv'
  <2>1. UNCHANGED <<journal, audit, arch>>
    BY <1>36 DEF IoFailure, receiptVars
  <2>2. CommittedBacked'
    BY <2>1, <1>i, <1>a, EvidenceKept
  <2>3. OutcomeBacked'
    BY <1>36, ThrowBacked DEF IoFailure
  <2>. QED
    BY <2>2, <2>3 DEF CommitInv
<1>37. ASSUME Crash PROVE CommitInv'
  <2>1. UNCHANGED <<journal, audit, arch>>
    BY <1>37 DEF Crash, receiptVars, NewProcess, Rest
  <2>2. pc' \notin WatchedSteps
    BY <1>37 DEF Crash, Goto, WatchedSteps, BegunSteps, LateSteps, RecordSteps, ReceiptSteps,
       NewProcess, Rest
  <2>. QED
    BY <2>1, <2>2, <1>i, <1>a, EvidenceKept, Unwatched DEF CommitInv
<1>38. ASSUME Shutdown PROVE CommitInv'
  <2>1. UNCHANGED <<journal, audit, arch>>
    BY <1>38 DEF Shutdown, receiptVars, NewProcess, Rest
  <2>2. pc' \notin WatchedSteps
    BY <1>38 DEF Shutdown, Goto, WatchedSteps, BegunSteps, LateSteps, RecordSteps,
       ReceiptSteps, NewProcess, Rest
  <2>. QED
    BY <2>1, <2>2, <1>i, <1>a, EvidenceKept, Unwatched DEF CommitInv
<1>39. ASSUME AbandonOperation PROVE CommitInv'
  <2>1. UNCHANGED <<journal, audit, arch>>
    BY <1>39 DEF AbandonOperation
  <2>2. pc' \notin WatchedSteps
    BY <1>39 DEF AbandonOperation, Rest, WatchedSteps, BegunSteps, LateSteps, RecordSteps,
       ReceiptSteps
  <2>. QED
    BY <2>1, <2>2, <1>i, <1>a, EvidenceKept, Unwatched DEF CommitInv
<1>. QED
  BY <1>0, <1>1, <1>2, <1>3, <1>4, <1>5, <1>6, <1>7, <1>8, <1>9, <1>10, <1>11, <1>12, <1>13,
     <1>14, <1>15, <1>16, <1>17, <1>18, <1>19, <1>20, <1>21, <1>22, <1>23, <1>24, <1>25,
     <1>26, <1>27, <1>28, <1>29, <1>30, <1>31, <1>32, <1>33, <1>34, <1>35, <1>36, <1>37, <1>38,
     <1>39
     DEF Next, Execute, Record, Recover, Environment

\* Every COMMITTED entry is sealed by a receipt and backed by a complete archive
\* and a VERIFIED entry before it, or by the audit of a no-op.
THEOREM CommitsAreBacked == Spec => []CommittedEvidenceComplete
<1>1. Init => CommitInv
  BY DEF Init, VolatileInit, CommitInv, CommittedBacked, OutcomeBacked, BegunSteps, LateSteps,
         RecordSteps, ReceiptSteps
<1>2. TypeInv /\ SafetyInv /\ CommitInv /\ [Next]_vars => CommitInv'
  BY CommitStep
<1>3. CommitInv => CommittedEvidenceComplete
  BY DEF CommitInv, CommittedBacked, Backed, CommittedEvidenceComplete
<1>. QED
  BY <1>1, <1>2, <1>3, SafetyInvariant, PTL DEF Spec

(***************************************************************************)
(* The effect in progress is undecided, and what recovery found is in the  *)
(* reason of its outcome.                                                  *)
(***************************************************************************)

\* The effect has an entry and its last one seals no receipt.
Unsealed(e) == Journaled(e) /\ SealOf(e) = NoReceipt

\* Reasons that keep writes disabled.
Blocking == {"REPLAN_REQUIRED", "ARCHIVE_BEFORE_INVALID", "CONFLICTING_EXTERNAL_BYTES"}

\* The reasons that block writes belong to the outcomes recovery gives.
ReasonOfOutcome(state, reason) ==
    /\ state \in {"COMMITTED", "ABORTED"} => reason \notin Blocking
    /\ state = "STALE" => reason \notin {"REPLAN_REQUIRED", "ARCHIVE_BEFORE_INVALID"}
    /\ state = "RECOVERY_REQUIRED" => reason \in Blocking \cup {"EXECUTION_FAILURE"}

\* Every entry has a reason of its outcome, and only outcomes seal a receipt.
EntriesReasoned ==
    \A i \in DOMAIN journal :
        /\ ReasonOfOutcome(journal[i].state, journal[i].reason)
        /\ journal[i].receipt # NoReceipt => journal[i].state \in Outcomes

\* So has the outcome being recorded.
ReasonsHold == EntriesReasoned /\ ReasonOfOutcome(out.state, out.reason)

\* The steps from the first entry of an attempt to its replacement.
EarlySteps == {"lock", "precondition", "read", "archive", "applying"}
\* The steps of an attempt between its first entry and its verification.
WorkSteps == {"PLANNED", "PREPARED", "clear", "stage", "recheck", "replace", "verify"} \cup EarlySteps

\* What the operation in progress knows of the entries of its effect.
OpenHolds ==
    /\ \A e \in todo : Journaled(e)
    /\ pc = "RECEIVED" => ~Journaled(cur) \/ StateOf(cur) = "RECOVERY_REQUIRED"
    /\ mode = "execute" /\ pc \in WorkSteps => Unsealed(cur) /\ ~Resolved(cur)
    /\ pc \in EarlySteps => StateOf(cur) = "PREPARED"
    /\ pc = "after" => StateOf(cur) = "VERIFIED"
    /\ pc \in {"after", "audit"} => Unsealed(cur) /\ ~Resolved(cur)
    /\ pc \in RecordSteps =>
           /\ Unsealed(cur)
           /\ IF out.state = "COMMITTED" THEN ~Resolved(cur) ELSE StateOf(cur) = out.state
    /\ pc \in {"audit"} \cup RecordSteps /\ out.state = "COMMITTED" /\ out.reason = "BYTE_IDENTICAL" =>
           NoChange(cur)
    /\ mode = "execute" /\ pc = "mark" => Unsealed(cur) \/ failures > 0
    /\ mode = "recover" /\ pc = "classify" => Journaled(cur) /\ StateOf(cur) # "COMMITTED"
    /\ mode = "recover" /\ pc \in {"mark", "replace", "verify"} => Journaled(cur) /\ ~Resolved(cur)

(***************************************************************************)
(* While no write has failed: what is in doubt is in progress, still to be *)
(* looked at by recovery, or blocks writes.                                *)
(***************************************************************************)

\* The effect is undecided or needs a new plan, its archive or a review.
InDoubt(e) == Unsealed(e) \/ (Journaled(e) /\ ReasonOf(e) \in Blocking)

\* An existing alias was sealed, so a new receipt may replace it.
AliasHolds ==
    /\ \A e \in Effects : ~Journaled(e) => alias[e] = NoReceipt
    /\ mode = "execute" /\ pc \in {"RECEIVED", "mark", "audit", "after", "receipt"} \cup WorkSteps =>
           \/ alias[cur] = NoReceipt
           \/ Retained(alias[cur]) /\ archAlias[cur] = alias[cur] /\ Sealed(alias[cur])

\* What is in doubt is in progress, still to be looked at, or blocks writes.
DoubtHolds ==
    /\ latched => checked
    /\ mode = "recover" => ~checked
    /\ mode = "execute" /\ pc # "idle" => checked /\ ~latched
    /\ checked /\ ~latched => \A e \in Effects \ {cur} : ~InDoubt(e)
    /\ mode = "execute" /\ pc \in {"idle", "checkpoint", "unlock"} /\ checked /\ ~latched =>
           \A e \in Effects : ~InDoubt(e)
    /\ mode = "execute" /\ pc \in {"mark"} \cup RecordSteps => out.reason \notin Blocking
    /\ mode = "recover" =>
           /\ \A e \in Effects : InDoubt(e) => unsafe \/ e \in todo \/ (e = cur /\ pc # "next")
           /\ pc \in {"mark"} \cup RecordSteps => unsafe \/ out.reason \notin Blocking
           /\ pc = "clean" => unsafe \/ ~InDoubt(cur)

\* What holds as long as no write has failed.
ResolvedHolds == failures = 0 => AliasHolds /\ DoubtHolds /\ OutcomeIsFinal

(***************************************************************************)
(* While nobody else edits either: what the archive, the journal and the   *)
(* target of an unfinished effect say of each other.                       *)
(***************************************************************************)

\* The effect is undecided and has archived something.
Begun(e) == Journaled(e) /\ ~Resolved(e) /\ arch[e] > 0

\* An effect that may have changed its target.
Landed(e) == e \in applied \/ EverIn(e, {"VERIFIED"})

\* At most one effect is begun and undecided; its target holds what it found or,
\* once landed, what it proposes.
BegunHolds ==
    /\ \A e, f \in Effects : Begun(e) /\ Begun(f) => e = f
    /\ \A e \in Effects :
           Begun(e) => target[TargetOf[e]] = IF Landed(e) THEN Proposed[e] ELSE Prior[e]
    /\ \A e \in Effects :
           /\ arch[e] > 0 => Journaled(e)
           /\ StateOf(e) = "RECOVERY_REQUIRED" /\ ReasonOf(e) = "EXECUTION_FAILURE" => arch[e] = 0
           /\ Landed(e) => StateOf(e) \notin {"STALE", "ABORTED"}

\* What the operation in progress has seen is still so.
WorkHolds ==
    /\ mode = "execute" /\ pc \in {"RECEIVED", "PLANNED", "PREPARED", "lock", "precondition", "read", "audit"}
           => arch[cur] = 0
    /\ mode = "execute" /\ pc = "mark" => ~Resolved(cur)
    /\ mode = "execute" /\ pc \in {"archive", "applying", "clear", "stage", "recheck", "replace"} =>
           target[TargetOf[cur]] = Prior[cur]
    /\ pc \in {"archive", "applying", "clear", "stage", "recheck", "replace"} => ~Landed(cur)
    /\ pc \in {"verify", "after"} => Landed(cur)
    /\ pc \in {"mark"} \cup RecordSteps =>
           /\ out.state \in {"STALE", "ABORTED"} => ~Landed(cur)
           /\ out.state = "RECOVERY_REQUIRED" /\ out.reason = "EXECUTION_FAILURE" => arch[cur] = 0
    /\ pc \in {"audit"} \cup RecordSteps /\ out.state = "COMMITTED" => target[TargetOf[cur]] = Proposed[cur]

\* What holds as long as nobody else has edited and no write has failed.
AloneHolds == edits = 0 /\ failures = 0 => BegunHolds /\ WorkHolds /\ CommittedHeadStands

(***************************************************************************)
(* What a step changes of what the journal says.                           *)
(***************************************************************************)

\* A step that appends nothing.
LEMMA JournalKept ==
    UNCHANGED journal =>
        /\ \A e : /\ StateOf(e)' = StateOf(e) /\ SealOf(e)' = SealOf(e) /\ ReasonOf(e)' = ReasonOf(e)
                  /\ LastIndex(e)' = LastIndex(e)
                  /\ Journaled(e)' <=> Journaled(e)
                  /\ Unsealed(e)' <=> Unsealed(e)
                  /\ Resolved(e)' <=> Resolved(e)
                  /\ \A states : EverIn(e, states)' <=> EverIn(e, states)
        /\ \A r : Sealed(r)' <=> Sealed(r)
BY DEF StateOf, SealOf, ReasonOf, Journaled, Unsealed, Resolved, EverIn, LastIndex, Indices, Sealed

\* A step that appends an entry changes what the journal says of its effect only.
LEMMA JournalAppended ==
    ASSUME JournalTyped, NEW c \in Effects, cur = c,
           NEW state \in JournalStates, NEW reason \in Reasons,
           NEW receipt \in Receipt \cup {NoReceipt},
           AppendEntry(state, reason, receipt)
    PROVE  /\ Journaled(c)' /\ StateOf(c)' = state /\ ReasonOf(c)' = reason /\ SealOf(c)' = receipt
           /\ Unsealed(c)' <=> receipt = NoReceipt
           /\ Resolved(c)' <=> state \in {"COMMITTED", "ABORTED", "STALE"}
           /\ LastIndex(c)' = Len(journal) + 1
           /\ \A e : e # c =>
                  /\ StateOf(e)' = StateOf(e) /\ LastIndex(e)' = LastIndex(e)
                  /\ Journaled(e) => SealOf(e)' = SealOf(e) /\ ReasonOf(e)' = ReasonOf(e)
                  /\ Journaled(e)' <=> Journaled(e)
                  /\ Unsealed(e)' <=> Unsealed(e)
                  /\ Resolved(e)' <=> Resolved(e)
           /\ \A e, states : EverIn(e, states)' <=> EverIn(e, states) \/ (e = c /\ state \in states)
           /\ \A r : Sealed(r)' <=> Sealed(r) \/ r = receipt
<1>1. /\ journal \in Seq(Entry) /\ Len(journal) \in Nat
      /\ Len(journal') = Len(journal) + 1 /\ journal' \in Seq(Entry)
      /\ journal'[Len(journal) + 1] =
             [eff |-> c, state |-> state, reason |-> reason, receipt |-> receipt]
      /\ \A i \in 1 .. Len(journal) : journal'[i] = journal[i]
  BY Appended DEF JournalTyped
<1>2. DOMAIN journal = 1 .. Len(journal) /\ DOMAIN journal' = 1 .. (Len(journal) + 1)
  BY <1>1
<1>3. \A e : e # c => Indices(e)' = Indices(e)
  BY <1>1, <1>2 DEF Indices
<1>4. Indices(c)' = Indices(c) \cup {Len(journal) + 1}
  BY <1>1, <1>2 DEF Indices
<1>5. \A e : \A j \in Indices(e) : journal'[j] = journal[j]
  BY <1>1, <1>2 DEF Indices
<1>6. LastIndex(c)' = Len(journal) + 1
  <2>1. Indices(c)' \subseteq Nat /\ \A j \in Indices(c)' : j <= Len(journal) + 1
    BY <1>1, <1>2 DEF Indices
  <2>2. ASSUME NEW k \in Indices(c)', \A j \in Indices(c)' : j <= k PROVE k = Len(journal) + 1
    <3>1. k \in Nat /\ k <= Len(journal) + 1 /\ Len(journal) + 1 <= k
      BY <2>1, <2>2, <1>4
    <3>. QED
      BY <3>1, <1>1
  <2>. QED
    BY <2>1, <2>2, <1>4 DEF LastIndex
<1>7. /\ Journaled(c)' /\ StateOf(c)' = state /\ ReasonOf(c)' = reason /\ SealOf(c)' = receipt
      /\ Unsealed(c)' <=> receipt = NoReceipt
      /\ Resolved(c)' <=> state \in {"COMMITTED", "ABORTED", "STALE"}
  <2>1. Journaled(c)'
    BY <1>4 DEF Journaled
  <2>2. StateOf(c)' = state /\ ReasonOf(c)' = reason /\ SealOf(c)' = receipt
    BY <2>1, <1>6, <1>1 DEF StateOf, ReasonOf, SealOf
  <2>. QED
    BY <2>1, <2>2 DEF Unsealed, Resolved
<1>8. ASSUME NEW e, e # c
      PROVE  /\ StateOf(e)' = StateOf(e) /\ LastIndex(e)' = LastIndex(e)
             /\ Journaled(e) => SealOf(e)' = SealOf(e) /\ ReasonOf(e)' = ReasonOf(e)
             /\ Journaled(e)' <=> Journaled(e)
             /\ Unsealed(e)' <=> Unsealed(e)
             /\ Resolved(e)' <=> Resolved(e)
  <2>1. (Journaled(e)' <=> Journaled(e)) /\ LastIndex(e)' = LastIndex(e)
    BY <1>3, <1>8 DEF Journaled, LastIndex
  <2>2. Journaled(e) => journal'[LastIndex(e)] = journal[LastIndex(e)]
    BY <1>5, LastIndexIn
  <2>3. StateOf(e)' = StateOf(e)
    BY <2>1, <2>2 DEF StateOf
  <2>4. Journaled(e) => SealOf(e)' = SealOf(e) /\ ReasonOf(e)' = ReasonOf(e)
    BY <2>1, <2>2 DEF SealOf, ReasonOf
  <2>. QED
    BY <2>1, <2>3, <2>4 DEF Unsealed, Resolved
<1>9. \A e, states : EverIn(e, states)' <=> EverIn(e, states) \/ (e = c /\ state \in states)
  BY <1>1, <1>3, <1>4, <1>5 DEF EverIn
<1>10. \A r : Sealed(r)' <=> Sealed(r) \/ r = receipt
  BY <1>1, <1>2 DEF Sealed
<1>. QED
  BY <1>6, <1>7, <1>8, <1>9, <1>10

\* The invariant of every behaviour, failing writes and edits included.
OpenInv == ReasonsHold /\ OpenHolds

\* The latest entry of an effect has a reason of its outcome, and seals outcomes only.
LEMMA SealedOutcome ==
    ASSUME JournalTyped, EntriesReasoned, NEW e, Journaled(e)
    PROVE  /\ ReasonOfOutcome(StateOf(e), ReasonOf(e))
           /\ SealOf(e) # NoReceipt => StateOf(e) \in Outcomes
<1>1. LastIndex(e) \in DOMAIN journal
  BY LastIndexIn DEF Indices
<1>. QED
  BY <1>1 DEF EntriesReasoned, StateOf, ReasonOf, SealOf

\* An exception goes to the catch block of an undecided effect, or ends the operation.
LEMMA ThrowOpen ==
    ASSUME TypeInv, OpenInv, NEW evidence, Throw(evidence), UNCHANGED journal,
           pc \in {"audit", "receipt"} \/ failures' > 0
    PROVE  OpenInv'
<1>1. ReasonOfOutcome(out.state, out.reason)'
  <2>1. \/ out' = out
        \/ out'.state = "RECOVERY_REQUIRED" /\ out'.reason = "EXECUTION_FAILURE"
        \/ out'.state = "ABORTED" /\ out'.reason = ""
    <3>1. Catch => out'.state = "RECOVERY_REQUIRED" /\ out'.reason = "EXECUTION_FAILURE"
      BY DEF Catch, Decide
    <3>2. RecoveryThrows(evidence) => out'.state = "ABORTED" /\ out'.reason = ""
      <4>1. RecoveryThrows(evidence) => out' = NoOutcome
        BY Zenon DEF RecoveryThrows, Rest
      <4>2. NoOutcome.state = "ABORTED" /\ NoOutcome.reason = ""
        BY DEF NoOutcome
      <4>. QED
        BY <4>1, <4>2, Zenon
    <3>. QED
      BY <3>1, <3>2, Zenon DEF Throw
  <2>. QED
    BY <2>1 DEF OpenInv, ReasonsHold, ReasonOfOutcome, Blocking
<1>2. mode = "execute" /\ pc \in {"audit", "receipt"} => Unsealed(cur)
  BY DEF OpenInv, OpenHolds, RecordSteps
<1>3. OpenHolds'
  <2>1. CASE mode = "execute"
    BY <2>1, <1>2, JournalKept DEF OpenInv, Throw, Catch, Goto, recoveryVars, OpenHolds,
       WorkSteps, EarlySteps, RecordSteps, ReceiptSteps
  <2>2. CASE mode = "recover"
    BY <2>2 DEF Throw, RecoveryThrows, Rest, OpenHolds, WorkSteps, EarlySteps, RecordSteps, ReceiptSteps
  <2>. QED
    BY <2>1, <2>2 DEF TypeInv, ControlTyped
<1>. QED
  BY <1>1, <1>3 DEF OpenInv, ReasonsHold, EntriesReasoned

\* An entry with a reason of its outcome keeps the entries reasoned.
LEMMA ReasonsAppended ==
    ASSUME TypeInv, EntriesReasoned, cur \in Effects,
           NEW state \in JournalStates, NEW reason \in Reasons,
           NEW receipt \in Receipt \cup {NoReceipt},
           AppendEntry(state, reason, receipt), ReasonOfOutcome(state, reason),
           receipt # NoReceipt => state \in Outcomes
    PROVE  EntriesReasoned'
<1>1. /\ journal \in Seq(Entry) /\ Len(journal) \in Nat
      /\ Len(journal') = Len(journal) + 1 /\ journal' \in Seq(Entry)
      /\ journal'[Len(journal) + 1] =
             [eff |-> cur, state |-> state, reason |-> reason, receipt |-> receipt]
      /\ \A i \in 1 .. Len(journal) : journal'[i] = journal[i]
  BY Appended DEF TypeInv, JournalTyped
<1>2. DOMAIN journal = 1 .. Len(journal) /\ DOMAIN journal' = 1 .. Len(journal) \cup {Len(journal) + 1}
  BY <1>1
<1>. QED
  BY <1>1, <1>2 DEF EntriesReasoned, ReasonOfOutcome

\* An appended entry leaves the entries reasoned and the other effects as they were.
LEMMA OpenAppended ==
    ASSUME TypeInv, OpenInv, cur \in Effects,
           NEW state \in JournalStates, NEW reason \in Reasons,
           NEW receipt \in Receipt \cup {NoReceipt},
           AppendEntry(state, reason, receipt), ReasonOfOutcome(state, reason),
           receipt # NoReceipt => state \in Outcomes,
           ReasonOfOutcome(out.state, out.reason)', cur' = cur, todo' = todo,
           pc' # "RECEIVED", mode' = "recover" => pc' \notin {"classify", "mark", "replace", "verify"},
           mode' = "execute" /\ pc' \in WorkSteps =>
               receipt = NoReceipt /\ state \notin {"COMMITTED", "ABORTED", "STALE"},
           pc' \in EarlySteps => state = "PREPARED",
           pc' = "after" => state = "VERIFIED" /\ receipt = NoReceipt,
           pc' # "audit",
           mode' = "execute" => pc' # "mark",
           pc' \in RecordSteps =>
               /\ receipt = NoReceipt
               /\ IF out'.state = "COMMITTED" THEN FALSE
                  ELSE state = out'.state
    PROVE  OpenInv'
<1>1. EntriesReasoned'
  BY ReasonsAppended DEF OpenInv, ReasonsHold
<1>. PICK c \in Effects : c = cur
  OBVIOUS
<1>2. /\ Journaled(c)' /\ StateOf(c)' = state
      /\ Unsealed(c)' <=> receipt = NoReceipt
      /\ Resolved(c)' <=> state \in {"COMMITTED", "ABORTED", "STALE"}
      /\ \A e : e # c => (Journaled(e)' <=> Journaled(e))
  BY JournalAppended DEF TypeInv
<1>3. OpenHolds'
  BY <1>2 DEF OpenInv, OpenHolds, EarlySteps, RecordSteps
<1>. QED
  BY <1>1, <1>3 DEF OpenInv, ReasonsHold

\* Each step leaves the effect in progress undecided until its outcome is sealed.
LEMMA OpenStep == TypeInv /\ CommitInv /\ OpenInv /\ [Next]_vars => OpenInv'
<1>. SUFFICES ASSUME TypeInv, CommitInv, OpenInv, [Next]_vars PROVE OpenInv'
  OBVIOUS
<1>i. /\ EntriesReasoned /\ ReasonOfOutcome(out.state, out.reason) /\ OpenHolds /\ OutcomeBacked /\ TypeInv
      /\ out \in Outcome /\ failures \in Nat /\ JournalTyped
      /\ mode \in {"execute", "recover"} /\ (pc \notin {"idle", "next"} => cur \in Effects)
  BY DEF OpenInv, ReasonsHold, CommitInv, TypeInv, ControlTyped, BoundsTyped

<1>1. ASSUME NEW e \in Effects, Admit(e) PROVE OpenInv'
  <2>1. UNCHANGED journal /\ ReasonOfOutcome(out.state, out.reason)'
    BY <1>1, <1>i DEF Admit, MayAttempt, Goto, ReasonOfOutcome, Blocking, NoOutcome, recoveryVars, ghostVars, receiptVars
  <2>2. OpenHolds'
    BY <1>1, <1>i, <2>1, JournalKept DEF Admit, MayAttempt, Goto, recoveryVars, latchVars, boundVars, OpenHolds, WorkSteps, EarlySteps, RecordSteps, ReceiptSteps, OutcomeBacked, ReplaceProved, NoOutcome, Unsealed, Resolved
  <2>. QED
    BY <2>1, <2>2, <1>i DEF OpenInv, ReasonsHold, EntriesReasoned
<1>2. ASSUME AcquireTargetLock PROVE OpenInv'
  <2>1. UNCHANGED journal /\ ReasonOfOutcome(out.state, out.reason)'
    BY <1>2, <1>i DEF AcquireTargetLock, Catch, Executing, Decide, Goto, ReasonOfOutcome, Blocking, NoOutcome, recoveryVars, ghostVars, receiptVars
  <2>2. OpenHolds'
    BY <1>2, <1>i, <2>1, JournalKept DEF AcquireTargetLock, Catch, Executing, Decide, Goto, recoveryVars, latchVars, boundVars, OpenHolds, WorkSteps, EarlySteps, RecordSteps, ReceiptSteps, OutcomeBacked, ReplaceProved, NoOutcome, Unsealed, Resolved
  <2>. QED
    BY <2>1, <2>2, <1>i DEF OpenInv, ReasonsHold, EntriesReasoned
<1>3. ASSUME ValidatePreconditions PROVE OpenInv'
  <2>1. UNCHANGED journal /\ ReasonOfOutcome(out.state, out.reason)'
    BY <1>3, <1>i DEF ValidatePreconditions, Executing, Decide, Goto, ReasonOfOutcome, Blocking, NoOutcome, recoveryVars, ghostVars, receiptVars
  <2>2. OpenHolds'
    BY <1>3, <1>i, <2>1, JournalKept DEF ValidatePreconditions, Executing, Decide, Goto, recoveryVars, latchVars, boundVars, OpenHolds, WorkSteps, EarlySteps, RecordSteps, ReceiptSteps, OutcomeBacked, ReplaceProved, NoOutcome, Unsealed, Resolved
  <2>. QED
    BY <2>1, <2>2, <1>i DEF OpenInv, ReasonsHold, EntriesReasoned
<1>4. ASSUME CompareTarget PROVE OpenInv'
  <2>1. UNCHANGED journal /\ ReasonOfOutcome(out.state, out.reason)'
    BY <1>4, <1>i DEF CompareTarget, Executing, Decide, Goto, ReasonOfOutcome, Blocking, NoOutcome, recoveryVars, ghostVars, receiptVars
  <2>2. OpenHolds'
    BY <1>4, <1>i, <2>1, JournalKept DEF CompareTarget, Executing, Decide, Goto, recoveryVars, latchVars, boundVars, OpenHolds, WorkSteps, EarlySteps, RecordSteps, ReceiptSteps, OutcomeBacked, ReplaceProved, NoOutcome, Unsealed, Resolved
  <2>. QED
    BY <2>1, <2>2, <1>i DEF OpenInv, ReasonsHold, EntriesReasoned
<1>5. ASSUME ArchiveBefore PROVE OpenInv'
  <2>1. UNCHANGED journal /\ ReasonOfOutcome(out.state, out.reason)'
    BY <1>5, <1>i DEF ArchiveBefore, Executing, Goto, ReasonOfOutcome, Blocking, NoOutcome, recoveryVars, ghostVars, receiptVars
  <2>2. OpenHolds'
    BY <1>5, <1>i, <2>1, JournalKept DEF ArchiveBefore, Executing, Goto, recoveryVars, latchVars, boundVars, OpenHolds, WorkSteps, EarlySteps, RecordSteps, ReceiptSteps, OutcomeBacked, ReplaceProved, NoOutcome, Unsealed, Resolved
  <2>. QED
    BY <2>1, <2>2, <1>i DEF OpenInv, ReasonsHold, EntriesReasoned
<1>6. ASSUME StageTemporary PROVE OpenInv'
  <2>1. UNCHANGED journal /\ ReasonOfOutcome(out.state, out.reason)'
    BY <1>6, <1>i DEF StageTemporary, Executing, Goto, ReasonOfOutcome, Blocking, NoOutcome, recoveryVars, ghostVars, receiptVars
  <2>2. OpenHolds'
    BY <1>6, <1>i, <2>1, JournalKept DEF StageTemporary, Executing, Goto, recoveryVars, latchVars, boundVars, OpenHolds, WorkSteps, EarlySteps, RecordSteps, ReceiptSteps, OutcomeBacked, ReplaceProved, NoOutcome, Unsealed, Resolved
  <2>. QED
    BY <2>1, <2>2, <1>i DEF OpenInv, ReasonsHold, EntriesReasoned
<1>7. ASSUME RecheckTarget PROVE OpenInv'
  <2>1. UNCHANGED journal /\ ReasonOfOutcome(out.state, out.reason)'
    BY <1>7, <1>i DEF RecheckTarget, Executing, Decide, Goto, ReasonOfOutcome, Blocking, NoOutcome, recoveryVars, ghostVars, receiptVars
  <2>2. OpenHolds'
    BY <1>7, <1>i, <2>1, JournalKept DEF RecheckTarget, Executing, Decide, Goto, recoveryVars, latchVars, boundVars, OpenHolds, WorkSteps, EarlySteps, RecordSteps, ReceiptSteps, OutcomeBacked, ReplaceProved, NoOutcome, Unsealed, Resolved
  <2>. QED
    BY <2>1, <2>2, <1>i DEF OpenInv, ReasonsHold, EntriesReasoned
<1>8. ASSUME Replace PROVE OpenInv'
  <2>1. UNCHANGED journal /\ ReasonOfOutcome(out.state, out.reason)'
    BY <1>8, <1>i DEF Replace, Goto, ReasonOfOutcome, Blocking, NoOutcome, recoveryVars, ghostVars, receiptVars
  <2>2. OpenHolds'
    BY <1>8, <1>i, <2>1, JournalKept DEF Replace, Goto, recoveryVars, latchVars, boundVars, OpenHolds, WorkSteps, EarlySteps, RecordSteps, ReceiptSteps, OutcomeBacked, ReplaceProved, NoOutcome, Unsealed, Resolved
  <2>. QED
    BY <2>1, <2>2, <1>i DEF OpenInv, ReasonsHold, EntriesReasoned
<1>9. ASSUME WriteArchiveAfter PROVE OpenInv'
  <2>1. UNCHANGED journal /\ ReasonOfOutcome(out.state, out.reason)'
    BY <1>9, <1>i DEF WriteArchiveAfter, Goto, ReasonOfOutcome, Blocking, NoOutcome, recoveryVars, ghostVars, receiptVars
  <2>2. OpenHolds'
    BY <1>9, <1>i, <2>1, JournalKept DEF WriteArchiveAfter, Goto, recoveryVars, latchVars, boundVars, OpenHolds, WorkSteps, EarlySteps, RecordSteps, ReceiptSteps, OutcomeBacked, ReplaceProved, NoOutcome, Unsealed, Resolved
  <2>. QED
    BY <2>1, <2>2, <1>i DEF OpenInv, ReasonsHold, EntriesReasoned
<1>10. ASSUME WriteCheckpoint PROVE OpenInv'
  <2>1. UNCHANGED journal /\ ReasonOfOutcome(out.state, out.reason)'
    BY <1>10, <1>i DEF WriteCheckpoint, Executing, Goto, ReasonOfOutcome, Blocking, NoOutcome, recoveryVars, ghostVars, receiptVars
  <2>2. OpenHolds'
    BY <1>10, <1>i, <2>1, JournalKept DEF WriteCheckpoint, Executing, Goto, recoveryVars, latchVars, boundVars, OpenHolds, WorkSteps, EarlySteps, RecordSteps, ReceiptSteps, OutcomeBacked, ReplaceProved, NoOutcome, Unsealed, Resolved
  <2>. QED
    BY <2>1, <2>2, <1>i DEF OpenInv, ReasonsHold, EntriesReasoned
<1>11. ASSUME ReleaseTargetLock PROVE OpenInv'
  <2>1. UNCHANGED journal /\ ReasonOfOutcome(out.state, out.reason)'
    BY <1>11, <1>i DEF ReleaseTargetLock, Executing, Rest, Goto, ReasonOfOutcome, Blocking, NoOutcome, recoveryVars, ghostVars, receiptVars
  <2>2. OpenHolds'
    BY <1>11, <1>i, <2>1, JournalKept DEF ReleaseTargetLock, Executing, Rest, Goto, recoveryVars, latchVars, boundVars, OpenHolds, WorkSteps, EarlySteps, RecordSteps, ReceiptSteps, OutcomeBacked, ReplaceProved, NoOutcome, Unsealed, Resolved
  <2>. QED
    BY <2>1, <2>2, <1>i DEF OpenInv, ReasonsHold, EntriesReasoned
<1>12. ASSUME PublishReceipt PROVE OpenInv'
  <2>1. UNCHANGED journal /\ ReasonOfOutcome(out.state, out.reason)'
    BY <1>12, <1>i DEF PublishReceipt, Goto, ReasonOfOutcome, Blocking, NoOutcome, recoveryVars, ghostVars, receiptVars
  <2>2. OpenHolds'
    BY <1>12, <1>i, <2>1, JournalKept DEF PublishReceipt, Goto, recoveryVars, latchVars, boundVars, OpenHolds, WorkSteps, EarlySteps, RecordSteps, ReceiptSteps, OutcomeBacked, ReplaceProved, NoOutcome, Unsealed, Resolved
  <2>. QED
    BY <2>1, <2>2, <1>i DEF OpenInv, ReasonsHold, EntriesReasoned
<1>13. ASSUME StartRecovery PROVE OpenInv'
  <2>1. UNCHANGED journal /\ ReasonOfOutcome(out.state, out.reason)'
    BY <1>13, <1>i DEF StartRecovery, Goto, ReasonOfOutcome, Blocking, NoOutcome, recoveryVars, ghostVars, receiptVars
  <2>2. OpenHolds'
    BY <1>13, <1>i, <2>1, JournalKept DEF StartRecovery, Goto, recoveryVars, latchVars, boundVars, OpenHolds, WorkSteps, EarlySteps, RecordSteps, ReceiptSteps, OutcomeBacked, ReplaceProved, NoOutcome, Unsealed, Resolved
  <2>. QED
    BY <2>1, <2>2, <1>i DEF OpenInv, ReasonsHold, EntriesReasoned
<1>14. ASSUME FinishRecovery PROVE OpenInv'
  <2>1. UNCHANGED journal /\ ReasonOfOutcome(out.state, out.reason)'
    BY <1>14, <1>i DEF FinishRecovery, Rest, Goto, ReasonOfOutcome, Blocking, NoOutcome, recoveryVars, ghostVars, receiptVars
  <2>2. OpenHolds'
    BY <1>14, <1>i, <2>1, JournalKept DEF FinishRecovery, Rest, Goto, recoveryVars, latchVars, boundVars, OpenHolds, WorkSteps, EarlySteps, RecordSteps, ReceiptSteps, OutcomeBacked, ReplaceProved, NoOutcome, Unsealed, Resolved
  <2>. QED
    BY <2>1, <2>2, <1>i DEF OpenInv, ReasonsHold, EntriesReasoned
<1>15. ASSUME NEW e \in Effects, RecoverCommitted(e) PROVE OpenInv'
  <2>1. UNCHANGED journal /\ ReasonOfOutcome(out.state, out.reason)'
    BY <1>15, <1>i DEF RecoverCommitted, Goto, ReasonOfOutcome, Blocking, NoOutcome, recoveryVars, ghostVars, receiptVars
  <2>2. OpenHolds'
    BY <1>15, <1>i, <2>1, JournalKept DEF RecoverCommitted, Goto, recoveryVars, latchVars, boundVars, OpenHolds, WorkSteps, EarlySteps, RecordSteps, ReceiptSteps, OutcomeBacked, ReplaceProved, NoOutcome, Unsealed, Resolved
  <2>. QED
    BY <2>1, <2>2, <1>i DEF OpenInv, ReasonsHold, EntriesReasoned
<1>16. ASSUME NEW e \in Effects, CleanupStaleTargetLock(e) PROVE OpenInv'
  <2>1. UNCHANGED journal /\ ReasonOfOutcome(out.state, out.reason)'
    BY <1>16, <1>i DEF CleanupStaleTargetLock, IsNext, Recovering, Goto, ReasonOfOutcome, Blocking, NoOutcome, recoveryVars, ghostVars, receiptVars
  <2>2. OpenHolds'
    BY <1>16, <1>i, <2>1, JournalKept DEF CleanupStaleTargetLock, IsNext, Recovering, Goto, recoveryVars, latchVars, boundVars, OpenHolds, WorkSteps, EarlySteps, RecordSteps, ReceiptSteps, OutcomeBacked, ReplaceProved, NoOutcome, Unsealed, Resolved
  <2>. QED
    BY <2>1, <2>2, <1>i DEF OpenInv, ReasonsHold, EntriesReasoned
<1>17. ASSUME NEW e \in Effects, RefuseEvidence(e) PROVE OpenInv'
  <2>1. UNCHANGED journal /\ ReasonOfOutcome(out.state, out.reason)'
    BY <1>17, <1>i DEF RefuseEvidence, RecoveryThrows, Rest, Goto, ReasonOfOutcome, Blocking, NoOutcome, recoveryVars, ghostVars, receiptVars
  <2>2. OpenHolds'
    BY <1>17, <1>i, <2>1, JournalKept DEF RefuseEvidence, RecoveryThrows, Rest, Goto, recoveryVars, latchVars, boundVars, OpenHolds, WorkSteps, EarlySteps, RecordSteps, ReceiptSteps, OutcomeBacked, ReplaceProved, NoOutcome, Unsealed, Resolved
  <2>. QED
    BY <2>1, <2>2, <1>i DEF OpenInv, ReasonsHold, EntriesReasoned
<1>18. ASSUME RefuseTerminalReceipt PROVE OpenInv'
  <2>1. UNCHANGED journal /\ ReasonOfOutcome(out.state, out.reason)'
    BY <1>18, <1>i DEF RefuseTerminalReceipt, RecoveryThrows, Rest, Goto, ReasonOfOutcome, Blocking, NoOutcome, recoveryVars, ghostVars, receiptVars
  <2>2. OpenHolds'
    BY <1>18, <1>i, <2>1, JournalKept DEF RefuseTerminalReceipt, RecoveryThrows, Rest, Goto, recoveryVars, latchVars, boundVars, OpenHolds, WorkSteps, EarlySteps, RecordSteps, ReceiptSteps, OutcomeBacked, ReplaceProved, NoOutcome, Unsealed, Resolved
  <2>. QED
    BY <2>1, <2>2, <1>i DEF OpenInv, ReasonsHold, EntriesReasoned
<1>19. ASSUME RecoverRefused PROVE OpenInv'
  <2>1. UNCHANGED journal /\ ReasonOfOutcome(out.state, out.reason)'
    BY <1>19, <1>i DEF RecoverRefused, ClassifyUnchanged, Goto, ReasonOfOutcome, Blocking, NoOutcome, recoveryVars, ghostVars, receiptVars
  <2>2. OpenHolds'
    BY <1>19, <1>i, <2>1, JournalKept DEF RecoverRefused, ClassifyUnchanged, Goto, recoveryVars, latchVars, boundVars, OpenHolds, WorkSteps, EarlySteps, RecordSteps, ReceiptSteps, OutcomeBacked, ReplaceProved, NoOutcome, Unsealed, Resolved
  <2>. QED
    BY <2>1, <2>2, <1>i DEF OpenInv, ReasonsHold, EntriesReasoned
<1>20. ASSUME RecoverNoChange PROVE OpenInv'
  <2>1. UNCHANGED journal /\ ReasonOfOutcome(out.state, out.reason)'
    BY <1>20, <1>i DEF RecoverNoChange, ClassifyUnchanged, Decide, ReasonOfOutcome, Blocking
  <2>2. (Unsealed(cur) /\ ~Resolved(cur) /\ NoChange(cur)) \/ pc' = "next"
    BY <1>20, <1>i, SealedOutcome DEF RecoverNoChange, Open, Recovering, NoChangeUnfinished, Goto,
       OpenHolds, Outcomes, Unsealed, Resolved
  <2>3. OpenHolds'
    BY <1>20, <1>i, <2>1, <2>2, JournalKept DEF RecoverNoChange, ClassifyUnchanged, Decide, Open,
       Recovering, Goto, OpenHolds, WorkSteps, EarlySteps, RecordSteps, ReceiptSteps, NoChange
  <2>. QED
    BY <2>1, <2>3, <1>i DEF OpenInv, ReasonsHold, EntriesReasoned
<1>21. ASSUME RecoverPrepared PROVE OpenInv'
  <2>1. UNCHANGED journal /\ ReasonOfOutcome(out.state, out.reason)'
    BY <1>21, <1>i DEF RecoverPrepared, ClassifyUnchanged, Decide, Open, Recovering, Goto, ReasonOfOutcome, Blocking, NoOutcome, recoveryVars, ghostVars, receiptVars
  <2>2. OpenHolds'
    BY <1>21, <1>i, <2>1, JournalKept DEF RecoverPrepared, ClassifyUnchanged, Decide, Open, Recovering, Goto, recoveryVars, latchVars, boundVars, OpenHolds, WorkSteps, EarlySteps, RecordSteps, ReceiptSteps, OutcomeBacked, ReplaceProved, NoOutcome, Unsealed, Resolved
  <2>. QED
    BY <2>1, <2>2, <1>i DEF OpenInv, ReasonsHold, EntriesReasoned
<1>22. ASSUME RecoverArchiveInvalid PROVE OpenInv'
  <2>1. UNCHANGED journal /\ ReasonOfOutcome(out.state, out.reason)'
    BY <1>22, <1>i DEF RecoverArchiveInvalid, ClassifyUnchanged, Decide, Open, Recovering, Goto, ReasonOfOutcome, Blocking, NoOutcome, recoveryVars, ghostVars, receiptVars
  <2>2. OpenHolds'
    BY <1>22, <1>i, <2>1, JournalKept DEF RecoverArchiveInvalid, ClassifyUnchanged, Decide, Open, Recovering, Goto, recoveryVars, latchVars, boundVars, OpenHolds, WorkSteps, EarlySteps, RecordSteps, ReceiptSteps, OutcomeBacked, ReplaceProved, NoOutcome, Unsealed, Resolved
  <2>. QED
    BY <2>1, <2>2, <1>i DEF OpenInv, ReasonsHold, EntriesReasoned
<1>23. ASSUME RecoverReplan PROVE OpenInv'
  <2>1. UNCHANGED journal /\ ReasonOfOutcome(out.state, out.reason)'
    BY <1>23, <1>i DEF RecoverReplan, ClassifyUnchanged, Decide, Open, Recovering, Goto, ReasonOfOutcome, Blocking, NoOutcome, recoveryVars, ghostVars, receiptVars
  <2>2. OpenHolds'
    BY <1>23, <1>i, <2>1, JournalKept DEF RecoverReplan, ClassifyUnchanged, Decide, Open, Recovering, Goto, recoveryVars, latchVars, boundVars, OpenHolds, WorkSteps, EarlySteps, RecordSteps, ReceiptSteps, OutcomeBacked, ReplaceProved, NoOutcome, Unsealed, Resolved
  <2>. QED
    BY <2>1, <2>2, <1>i DEF OpenInv, ReasonsHold, EntriesReasoned
<1>24. ASSUME RecoverConflict PROVE OpenInv'
  <2>1. UNCHANGED journal /\ ReasonOfOutcome(out.state, out.reason)'
    BY <1>24, <1>i DEF RecoverConflict, ClassifyUnchanged, Decide, Open, Recovering, Goto, ReasonOfOutcome, Blocking, NoOutcome, recoveryVars, ghostVars, receiptVars
  <2>2. OpenHolds'
    BY <1>24, <1>i, <2>1, JournalKept DEF RecoverConflict, ClassifyUnchanged, Decide, Open, Recovering, Goto, recoveryVars, latchVars, boundVars, OpenHolds, WorkSteps, EarlySteps, RecordSteps, ReceiptSteps, OutcomeBacked, ReplaceProved, NoOutcome, Unsealed, Resolved
  <2>. QED
    BY <2>1, <2>2, <1>i DEF OpenInv, ReasonsHold, EntriesReasoned
<1>25. ASSUME RemoveTemporary PROVE OpenInv'
  <2>1. UNCHANGED journal /\ ReasonOfOutcome(out.state, out.reason)'
    BY <1>25, <1>i DEF RemoveTemporary, Recovering, Goto, ReasonOfOutcome, Blocking, NoOutcome, recoveryVars, ghostVars, receiptVars
  <2>2. OpenHolds'
    BY <1>25, <1>i, <2>1, JournalKept DEF RemoveTemporary, Recovering, Goto, recoveryVars, latchVars, boundVars, OpenHolds, WorkSteps, EarlySteps, RecordSteps, ReceiptSteps, OutcomeBacked, ReplaceProved, NoOutcome, Unsealed, Resolved
  <2>. QED
    BY <2>1, <2>2, <1>i DEF OpenInv, ReasonsHold, EntriesReasoned
<1>26. ASSUME NEW t \in Targets, NEW b \in Contents, ExternalEdit(t, b) PROVE OpenInv'
  <2>1. UNCHANGED journal /\ ReasonOfOutcome(out.state, out.reason)'
    BY <1>26, <1>i DEF ExternalEdit, Goto, ReasonOfOutcome, Blocking, NoOutcome, recoveryVars, ghostVars, receiptVars
  <2>2. OpenHolds'
    BY <1>26, <1>i, <2>1, JournalKept DEF ExternalEdit, Goto, recoveryVars, latchVars, boundVars, OpenHolds, WorkSteps, EarlySteps, RecordSteps, ReceiptSteps, OutcomeBacked, ReplaceProved, NoOutcome, Unsealed, Resolved
  <2>. QED
    BY <2>1, <2>2, <1>i DEF OpenInv, ReasonsHold, EntriesReasoned
<1>27. ASSUME AbandonOperation PROVE OpenInv'
  <2>1. UNCHANGED journal /\ ReasonOfOutcome(out.state, out.reason)'
    BY <1>27, <1>i DEF AbandonOperation, Rest, Goto, ReasonOfOutcome, Blocking, NoOutcome, recoveryVars, ghostVars, receiptVars
  <2>2. OpenHolds'
    BY <1>27, <1>i, <2>1, JournalKept DEF AbandonOperation, Rest, Goto, recoveryVars, latchVars, boundVars, OpenHolds, WorkSteps, EarlySteps, RecordSteps, ReceiptSteps, OutcomeBacked, ReplaceProved, NoOutcome, Unsealed, Resolved
  <2>. QED
    BY <2>1, <2>2, <1>i DEF OpenInv, ReasonsHold, EntriesReasoned
<1>28. ASSUME Crash PROVE OpenInv'
  <2>1. UNCHANGED journal /\ ReasonOfOutcome(out.state, out.reason)'
    BY <1>28, <1>i DEF Crash, NewProcess, Rest, Goto, ReasonOfOutcome, Blocking, NoOutcome, recoveryVars, ghostVars, receiptVars
  <2>2. OpenHolds'
    BY <1>28, <1>i, <2>1, JournalKept DEF Crash, NewProcess, Rest, Goto, recoveryVars, latchVars, boundVars, OpenHolds, WorkSteps, EarlySteps, RecordSteps, ReceiptSteps, OutcomeBacked, ReplaceProved, NoOutcome, Unsealed, Resolved
  <2>. QED
    BY <2>1, <2>2, <1>i DEF OpenInv, ReasonsHold, EntriesReasoned
<1>29. ASSUME Shutdown PROVE OpenInv'
  <2>1. UNCHANGED journal /\ ReasonOfOutcome(out.state, out.reason)'
    BY <1>29, <1>i DEF Shutdown, NewProcess, Rest, Goto, ReasonOfOutcome, Blocking, NoOutcome, recoveryVars, ghostVars, receiptVars
  <2>2. OpenHolds'
    BY <1>29, <1>i, <2>1, JournalKept DEF Shutdown, NewProcess, Rest, Goto, recoveryVars, latchVars, boundVars, OpenHolds, WorkSteps, EarlySteps, RecordSteps, ReceiptSteps, OutcomeBacked, ReplaceProved, NoOutcome, Unsealed, Resolved
  <2>. QED
    BY <2>1, <2>2, <1>i DEF OpenInv, ReasonsHold, EntriesReasoned
<1>30. ASSUME IoFailure PROVE OpenInv'
  <2>1. UNCHANGED journal /\ Throw(FALSE) /\ failures' > 0
    <3>1. UNCHANGED journal /\ failures' > 0
      BY <1>30, <1>i DEF IoFailure
    <3>2. Throw(FALSE)
      BY <1>30, Zenon DEF IoFailure
    <3>. QED
      BY <3>1, <3>2
  <2>. QED
    BY <2>1, <1>i, ThrowOpen
<1>31. ASSUME PersistNoChangeAudit PROVE OpenInv'
  <2>1. CASE Throw(TRUE)
    <3>1. UNCHANGED <<journal, failures>> /\ pc = "audit"
      BY <1>31 DEF PersistNoChangeAudit, boundVars
    <3>. QED
      BY <2>1, <3>1, <1>i, ThrowOpen
  <2>2. CASE ~Throw(TRUE)
    <3>1. UNCHANGED journal /\ ReasonOfOutcome(out.state, out.reason)'
      BY <1>31, <2>2, <1>i DEF PersistNoChangeAudit, ReasonOfOutcome
    <3>2. OpenHolds'
      BY <1>31, <2>2, <1>i, <3>1, JournalKept DEF PersistNoChangeAudit, Goto, recoveryVars, OutcomeBacked,
         OpenHolds, WorkSteps, EarlySteps, RecordSteps, ReceiptSteps
    <3>. QED
      BY <3>1, <3>2, <1>i DEF OpenInv, ReasonsHold, EntriesReasoned
  <2>. QED
    BY <2>1, <2>2
<1>32. ASSUME WriteReceipt PROVE OpenInv'
  <2>1. CASE Throw(TRUE)
    <3>1. UNCHANGED <<journal, failures>> /\ pc = "receipt"
      BY <1>32 DEF WriteReceipt, boundVars
    <3>. QED
      BY <2>1, <3>1, <1>i, ThrowOpen
  <2>2. CASE ~Throw(TRUE)
    <3>1. UNCHANGED journal /\ ReasonOfOutcome(out.state, out.reason)'
      BY <1>32, <2>2, <1>i DEF WriteReceipt, ReasonOfOutcome
    <3>2. OpenHolds'
      BY <1>32, <2>2, <1>i, <3>1, JournalKept DEF WriteReceipt, Goto, recoveryVars, OutcomeBacked,
         OpenHolds, WorkSteps, EarlySteps, RecordSteps, ReceiptSteps
    <3>. QED
      BY <3>1, <3>2, <1>i DEF OpenInv, ReasonsHold, EntriesReasoned
  <2>. QED
    BY <2>1, <2>2
<1>33. ASSUME AppendAdmission PROVE OpenInv'
  <2>1. /\ pc \in {"RECEIVED", "PLANNED", "PREPARED"} /\ AppendEntry(pc, "", NoReceipt) /\ cur \in Effects
        /\ UNCHANGED <<mode, cur, out, todo, failures>>
        /\ pc' = IF pc = "RECEIVED" THEN "PLANNED" ELSE IF pc = "PLANNED" THEN "PREPARED" ELSE "lock"
    BY <1>33, <1>i DEF AppendAdmission, Goto, recoveryVars, boundVars
  <2>2. pc \in JournalStates /\ "" \in Reasons /\ ReasonOfOutcome(pc, "") /\ pc \notin Outcomes
    BY <2>1 DEF JournalStates, Reasons, ReasonOfOutcome, Outcomes
  <2>. QED
    BY <2>1, <2>2, <1>i, OpenAppended, JournalAppended DEF TypeInv,
       OpenHolds, WorkSteps, EarlySteps, RecordSteps, ReceiptSteps, Outcomes
<1>34. ASSUME AppendApplying PROVE OpenInv'
  <2>1. /\ AppendEntry("APPLYING", "", NoReceipt) /\ cur \in Effects
        /\ UNCHANGED <<mode, cur, out, todo, failures>> /\ pc' = "clear"
    BY <1>34, <1>i DEF AppendApplying, Executing, Goto, recoveryVars, boundVars
  <2>2. "APPLYING" \in JournalStates /\ "" \in Reasons /\ ReasonOfOutcome("APPLYING", "")
    BY DEF JournalStates, Reasons, ReasonOfOutcome
  <2>. QED
    BY <2>1, <2>2, <1>i, OpenAppended DEF WorkSteps, EarlySteps, RecordSteps, ReceiptSteps
<1>35. ASSUME VerifyExecuted PROVE OpenInv'
  <2>1. CASE AppendEntry("VERIFIED", "", NoReceipt) /\ Decide("COMMITTED", "", bound) /\ Goto("after")
    <3>1. cur \in Effects /\ UNCHANGED <<mode, cur, todo, failures>> /\ pc' = "after"
      BY <1>35, <2>1, <1>i DEF VerifyExecuted, Executing, Goto, recoveryVars, boundVars
    <3>2. "VERIFIED" \in JournalStates /\ "" \in Reasons /\ ReasonOfOutcome("VERIFIED", "")
      BY DEF JournalStates, Reasons, ReasonOfOutcome
    <3>3. ReasonOfOutcome(out.state, out.reason)'
      BY <2>1 DEF Decide, ReasonOfOutcome, Blocking
    <3>. QED
      BY <2>1, <3>1, <3>2, <3>3, <1>i, OpenAppended DEF WorkSteps, EarlySteps, RecordSteps, ReceiptSteps
  <2>2. CASE Catch /\ UNCHANGED journal
    <3>1. ReasonOfOutcome(out.state, out.reason)'
      BY <2>2 DEF Catch, Decide, ReasonOfOutcome
    <3>2. OpenHolds'
      BY <1>35, <2>2, <1>i, JournalKept DEF VerifyExecuted, Executing, Catch, Goto, recoveryVars, boundVars,
         OpenHolds, WorkSteps, EarlySteps, RecordSteps, ReceiptSteps
    <3>. QED
      BY <2>2, <3>1, <3>2, <1>i DEF OpenInv, ReasonsHold, EntriesReasoned
  <2>. QED
    BY <1>35, <2>1, <2>2 DEF VerifyExecuted
<1>36. ASSUME MarkOutcome PROVE OpenInv'
  <2>1. /\ AppendEntry(out.state, out.reason, NoReceipt) /\ cur \in Effects
        /\ UNCHANGED <<mode, cur, out, todo, failures>> /\ pc' = "receipt" /\ out.state # "COMMITTED"
    BY <1>36, <1>i DEF MarkOutcome, Goto, recoveryVars, boundVars, OutcomeBacked
  <2>2. out.state \in JournalStates /\ out.reason \in Reasons
    BY <1>i DEF Outcome, JournalStates
  <2>. QED
    BY <2>1, <2>2, <1>i, OpenAppended DEF WorkSteps, EarlySteps, RecordSteps, ReceiptSteps
<1>37. ASSUME SealOutcome PROVE OpenInv'
  <2>1. /\ AppendEntry(out.state, out.reason, ThisReceipt) /\ cur \in Effects
        /\ UNCHANGED <<mode, cur, out, todo, failures>> /\ pc' \in {"checkpoint", "unlock", "clean", "next"}
    BY <1>37, <1>i DEF SealOutcome, Goto, recoveryVars, boundVars, AfterSeal
  <2>2. out.state \in Outcomes /\ out.state \in JournalStates /\ out.reason \in Reasons
    BY <1>i DEF Outcome, JournalStates
  <2>3. ThisReceipt \in Receipt
    BY <2>1, ThisReceiptTyped
  <2>. QED
    BY <2>1, <2>2, <2>3, <1>i, OpenAppended DEF WorkSteps, EarlySteps, RecordSteps, ReceiptSteps
<1>38. ASSUME RecoverAfterImage PROVE OpenInv'
  <2>1. /\ cur \in Effects /\ UNCHANGED <<mode, cur, todo, failures>> /\ pc' = "after"
        /\ mode = "recover" /\ pc = "classify"
    BY <1>38, <1>i DEF RecoverAfterImage, Open, Recovering, Goto, ClassifyUnchanged, boundVars
  <2>2. ReasonOfOutcome(out.state, out.reason)'
    BY <1>38 DEF RecoverAfterImage, Decide, ReasonOfOutcome, Blocking
  <2>3. CASE StateOf(cur) = "VERIFIED" /\ UNCHANGED journal
    <3>1. Unsealed(cur) /\ ~Resolved(cur)
      BY <2>1, <2>3, <1>i, SealedOutcome DEF OpenHolds, Unsealed, Resolved, Outcomes
    <3>2. OpenHolds'
      BY <2>1, <2>3, <3>1, <1>i, JournalKept DEF OpenHolds, WorkSteps, EarlySteps, RecordSteps, ReceiptSteps
    <3>. QED
      BY <2>2, <2>3, <3>2, <1>i DEF OpenInv, ReasonsHold, EntriesReasoned
  <2>4. CASE AppendEntry("VERIFIED", "RECOVERY_VERIFIED_AFTER_IMAGE", NoReceipt)
    <3>1. /\ "VERIFIED" \in JournalStates /\ "RECOVERY_VERIFIED_AFTER_IMAGE" \in Reasons
          /\ ReasonOfOutcome("VERIFIED", "RECOVERY_VERIFIED_AFTER_IMAGE")
      BY DEF JournalStates, Reasons, ReasonOfOutcome
    <3>. QED
      BY <2>1, <2>2, <2>4, <3>1, <1>i, OpenAppended DEF WorkSteps, EarlySteps, RecordSteps, ReceiptSteps
  <2>. QED
    BY <1>38, <2>3, <2>4 DEF RecoverAfterImage
<1>39. ASSUME VerifyRecovered PROVE OpenInv'
  <2>1. CASE AppendEntry("VERIFIED", "RECOVERY_APPLIED_PREPARED_TEMP", NoReceipt) /\ Goto("after")
    <3>1. /\ cur \in Effects /\ UNCHANGED <<mode, cur, out, todo, failures>> /\ pc' = "after"
          /\ mode = "recover"
      BY <1>39, <2>1, <1>i DEF VerifyRecovered, Recovering, Goto, RecoveryThrows, Rest, recoveryVars, boundVars
    <3>2. /\ "VERIFIED" \in JournalStates /\ "RECOVERY_APPLIED_PREPARED_TEMP" \in Reasons
          /\ ReasonOfOutcome("VERIFIED", "RECOVERY_APPLIED_PREPARED_TEMP")
      BY DEF JournalStates, Reasons, ReasonOfOutcome
    <3>. QED
      BY <2>1, <3>1, <3>2, <1>i, OpenAppended DEF WorkSteps, EarlySteps, RecordSteps, ReceiptSteps
  <2>2. CASE RecoveryThrows(FALSE) /\ UNCHANGED journal
    <3>1. OpenHolds'
      BY <2>2 DEF RecoveryThrows, Rest, OpenHolds, WorkSteps, EarlySteps, RecordSteps, ReceiptSteps
    <3>2. ReasonOfOutcome(out.state, out.reason)'
      BY <2>2 DEF RecoveryThrows, Rest, NoOutcome, ReasonOfOutcome, Blocking
    <3>. QED
      BY <2>2, <3>1, <3>2, <1>i DEF OpenInv, ReasonsHold, EntriesReasoned
  <2>. QED
    BY <1>39, <2>1, <2>2 DEF VerifyRecovered
<1>40. CASE UNCHANGED vars
  <2>1. UNCHANGED <<journal, pc, mode, cur, out, todo, failures>>
    BY <1>40 DEF vars, recoveryVars, boundVars
  <2>2. OpenHolds'
    BY <2>1, <1>i, JournalKept DEF OpenHolds, NoChange
  <2>. QED
    BY <2>1, <2>2, <1>i DEF OpenInv, ReasonsHold, EntriesReasoned, ReasonOfOutcome
<1>. QED
  BY <1>1, <1>2, <1>3, <1>4, <1>5, <1>6, <1>7, <1>8, <1>9, <1>10, <1>11, <1>12, <1>13, <1>14,
     <1>15, <1>16, <1>17, <1>18, <1>19, <1>20, <1>21, <1>22, <1>23, <1>24, <1>25, <1>26, <1>27,
     <1>28, <1>29, <1>30, <1>31, <1>32, <1>33, <1>34, <1>35, <1>36, <1>37, <1>38, <1>39, <1>40
     DEF Next, Execute, Record, Recover, Environment

\* The journal starts empty.
LEMMA InitialJournal == ASSUME Init PROVE \A i : i \notin DOMAIN journal
<1>1. journal = <<>> /\ journal \in Seq(Entry) /\ Len(<<>>) = 0
  BY InitTyped DEF Init, TypeInv, JournalTyped
<1>2. Len(journal) = 0
  BY <1>1
<1>3. DOMAIN journal = 1 .. Len(journal)
  BY <1>1
<1>. QED
  BY <1>2, <1>3

\* The invariants that hold whatever fails.
LEMMA OpenInvariant == Spec => [](TypeInv /\ SafetyInv /\ CommitInv /\ OpenInv)
<1>1. Init => CommitInv /\ OpenInv
  <2>. SUFFICES ASSUME Init PROVE CommitInv /\ OpenInv
    OBVIOUS
  <2>1. /\ journal = <<>> /\ pc = "idle" /\ todo = {} /\ out.state = "ABORTED" /\ out.reason = ""
    BY DEF Init, VolatileInit, NoOutcome
  <2>2. CommittedBacked /\ EntriesReasoned
    BY InitialJournal DEF CommittedBacked, EntriesReasoned
  <2>3. OutcomeBacked /\ OpenHolds
    BY <2>1 DEF OutcomeBacked, BegunSteps, LateSteps, RecordSteps, ReceiptSteps, OpenHolds, WorkSteps, EarlySteps
  <2>4. ReasonOfOutcome(out.state, out.reason)
    BY <2>1 DEF ReasonOfOutcome, Blocking
  <2>. QED
    BY <2>2, <2>3, <2>4 DEF CommitInv, OpenInv, ReasonsHold
<1>2. Init => SafetyInv
  BY DEF Init, VolatileInit, SafetyInv, BeforeImageArchived, EverIn, Indices, ArchivedWhenLate,
     SealedReceiptsRetained, ReceiptWritten, PriorBeforeReplace, LateSteps, ReceiptSteps
<1>3. TypeInv /\ SafetyInv /\ CommitInv /\ OpenInv /\ [Next]_vars => (TypeInv /\ SafetyInv /\ CommitInv /\ OpenInv)'
  BY TypeStep, SafetyStep, CommitStep, OpenStep
<1>. QED
  BY <1>1, <1>2, <1>3, InitTyped, PTL DEF Spec

\* The steps that may append an entry.
Appends == AppendAdmission \/ AppendApplying \/ VerifyExecuted \/ MarkOutcome \/ SealOutcome
               \/ RecoverAfterImage \/ VerifyRecovered

\* No other step writes to the journal.
LEMMA OnlyAppends == [Next]_vars => UNCHANGED journal \/ Appends
BY DEF Appends, Next, vars, Execute, Record, Recover, Environment, Admit,
   AcquireTargetLock, ValidatePreconditions, CompareTarget, ArchiveBefore,
   StageTemporary, RecheckTarget, Replace, WriteArchiveAfter, WriteCheckpoint,
   ReleaseTargetLock, PersistNoChangeAudit, WriteReceipt, PublishReceipt,
   StartRecovery, FinishRecovery, RecoverCommitted, CleanupStaleTargetLock,
   RefuseEvidence, RefuseTerminalReceipt, RecoverRefused, RecoverNoChange,
   RecoverPrepared, RecoverArchiveInvalid, RecoverReplan, RecoverConflict,
   RemoveTemporary, ClassifyUnchanged, ExternalEdit, IoFailure, AbandonOperation,
   Crash, Shutdown, NewProcess

\* An entry of an undecided effect follows no decision.
LEMMA FinalAppended ==
    ASSUME TypeInv, OutcomeIsFinal, cur \in Effects,
           NEW state \in JournalStates, NEW reason \in Reasons,
           NEW receipt \in Receipt \cup {NoReceipt},
           AppendEntry(state, reason, receipt), Unsealed(cur) \/ ~Resolved(cur)
    PROVE  OutcomeIsFinal'
<1>. PICK c \in Effects : c = cur
  OBVIOUS
<1>1. /\ journal \in Seq(Entry) /\ Len(journal) \in Nat
      /\ Len(journal') = Len(journal) + 1 /\ journal' \in Seq(Entry)
      /\ journal'[Len(journal) + 1] =
             [eff |-> c, state |-> state, reason |-> reason, receipt |-> receipt]
      /\ \A i \in 1 .. Len(journal) : journal'[i] = journal[i]
  BY Appended DEF TypeInv, JournalTyped
<1>2. DOMAIN journal = 1 .. Len(journal) /\ DOMAIN journal' = 1 .. (Len(journal) + 1)
  BY <1>1
<1>3. LastIndex(c)' = Len(journal) + 1 /\ \A e : e # c => LastIndex(e)' = LastIndex(e)
  BY JournalAppended DEF TypeInv
<1>. SUFFICES ASSUME NEW i \in DOMAIN journal', journal'[i].receipt # NoReceipt,
                     journal'[i].state \in {"COMMITTED", "STALE", "ABORTED"}
              PROVE  i = LastIndex(journal[i].eff)'
  BY DEF OutcomeIsFinal
<1>4. CASE i = Len(journal) + 1
  <2>1. journal'[i].eff = c
    BY <1>4, <1>1
  <2>. QED
    BY <2>1, <1>4, <1>3
<1>5. CASE i \in 1 .. Len(journal)
  <2>1. i = LastIndex(journal[i].eff) /\ journal'[i] = journal[i]
    BY <1>5, <1>1, <1>2 DEF OutcomeIsFinal
  <2>2. journal[i].eff # c
    <3>. SUFFICES ASSUME journal[i].eff = c PROVE FALSE
      OBVIOUS
    <3>1. i \in Indices(c) /\ i = LastIndex(c)
      BY <2>1, <1>5, <1>2 DEF Indices
    <3>2. Journaled(c) /\ SealOf(c) # NoReceipt /\ StateOf(c) \in {"COMMITTED", "STALE", "ABORTED"}
      BY <3>1, <2>1 DEF Journaled, SealOf, StateOf
    <3>. QED
      BY <3>2 DEF Unsealed, Resolved
  <2>3. ASSUME NEW f, f = journal[i].eff PROVE i = LastIndex(f)' /\ journal'[i].eff = f
    BY <2>1, <2>2, <2>3, <1>3
  <2>. QED
    BY <2>3
<1>. QED
  BY <1>4, <1>5, <1>1, <1>2

\* Only an undecided effect gets an entry, unless a write failed.
LEMMA AppendsToOpen ==
    ASSUME TypeInv, CommitInv, OpenInv, failures = 0, Appends, journal' # journal
    PROVE  \E c \in Effects, state \in JournalStates, reason \in Reasons,
                  receipt \in Receipt \cup {NoReceipt} :
               /\ cur = c /\ cur' = c /\ mode' = mode
               /\ AppendEntry(state, reason, receipt)
               /\ Unsealed(c) \/ ~Resolved(c)
               /\ receipt = NoReceipt <=> pc # "seal"
               /\ \/ pc \in {"mark", "seal"} /\ state = out.state /\ reason = out.reason /\ out' = out
                  \/ pc \notin {"mark", "seal"} /\ state \notin Outcomes /\ reason \notin Blocking
                     /\ ~Resolved(c) /\ (state = "VERIFIED" => AfterImage)
<1>i. /\ OpenHolds /\ OutcomeBacked /\ out \in Outcome
      /\ mode \in {"execute", "recover"} /\ (pc \notin {"idle", "next"} => cur \in Effects)
  BY DEF OpenInv, CommitInv, TypeInv, ControlTyped
<1>s. {"RECEIVED", "PLANNED", "PREPARED", "APPLYING", "VERIFIED"} \cap Outcomes = {}
  BY DEF Outcomes
<1>r. /\ {"", "RECOVERY_VERIFIED_AFTER_IMAGE", "RECOVERY_APPLIED_PREPARED_TEMP"} \subseteq Reasons
      /\ {"", "RECOVERY_VERIFIED_AFTER_IMAGE", "RECOVERY_APPLIED_PREPARED_TEMP"} \cap Blocking = {}
  BY DEF Reasons, Blocking
<1>1. ASSUME NEW state \in JournalStates, NEW reason \in Reasons, NEW receipt \in Receipt \cup {NoReceipt},
             cur \in Effects, UNCHANGED <<cur, mode>>, AppendEntry(state, reason, receipt),
             Unsealed(cur) \/ ~Resolved(cur), receipt = NoReceipt <=> pc # "seal",
             \/ pc \in {"mark", "seal"} /\ state = out.state /\ reason = out.reason /\ out' = out
             \/ pc \notin {"mark", "seal"} /\ state \notin Outcomes /\ reason \notin Blocking
                     /\ ~Resolved(cur) /\ (state = "VERIFIED" => AfterImage)
      PROVE  \E c \in Effects, s \in JournalStates, r \in Reasons, x \in Receipt \cup {NoReceipt} :
               /\ cur = c /\ cur' = c /\ mode' = mode
               /\ AppendEntry(s, r, x)
               /\ Unsealed(c) \/ ~Resolved(c)
               /\ x = NoReceipt <=> pc # "seal"
               /\ \/ pc \in {"mark", "seal"} /\ s = out.state /\ r = out.reason /\ out' = out
                  \/ pc \notin {"mark", "seal"} /\ s \notin Outcomes /\ r \notin Blocking
                     /\ ~Resolved(c) /\ (s = "VERIFIED" => AfterImage)
  BY <1>1
<1>2. CASE AppendAdmission
  <2>1. /\ pc \in {"RECEIVED", "PLANNED", "PREPARED"} /\ AppendEntry(pc, "", NoReceipt)
        /\ cur \in Effects /\ UNCHANGED <<cur, mode>> /\ mode = "execute"
    BY <1>2, <1>i DEF AppendAdmission
  <2>2. ~Resolved(cur) /\ pc # "VERIFIED"
    BY <2>1, <1>i DEF OpenHolds, WorkSteps, Resolved, StateOf
  <2>. QED
    BY <2>1, <2>2, <1>1, <1>s, <1>r DEF JournalStates
<1>3. CASE AppendApplying
  <2>1. /\ pc = "applying" /\ AppendEntry("APPLYING", "", NoReceipt)
        /\ cur \in Effects /\ UNCHANGED <<cur, mode>> /\ mode = "execute"
    BY <1>3, <1>i DEF AppendApplying, Executing
  <2>. QED
    BY <2>1, <1>1, <1>i, <1>s, <1>r DEF JournalStates, OpenHolds, WorkSteps, EarlySteps
<1>4. CASE VerifyExecuted
  <2>1. /\ pc = "verify" /\ AppendEntry("VERIFIED", "", NoReceipt)
        /\ cur \in Effects /\ UNCHANGED <<cur, mode>> /\ mode = "execute" /\ AfterImage
    BY <1>4, <1>i DEF VerifyExecuted, Executing, AfterImage
  <2>. QED
    BY <2>1, <1>1, <1>i, <1>s, <1>r DEF JournalStates, OpenHolds, WorkSteps
<1>5. CASE MarkOutcome
  <2>1. /\ pc = "mark" /\ AppendEntry(out.state, out.reason, NoReceipt)
        /\ cur \in Effects /\ UNCHANGED <<cur, mode, out>>
    BY <1>5, <1>i DEF MarkOutcome
  <2>2. out.state \in JournalStates /\ out.reason \in Reasons
    BY <1>i DEF Outcome, JournalStates
  <2>. QED
    BY <2>1, <2>2, <1>1, <1>i DEF OpenHolds
<1>6. CASE SealOutcome
  <2>1. /\ pc = "seal" /\ AppendEntry(out.state, out.reason, ThisReceipt)
        /\ cur \in Effects /\ UNCHANGED <<cur, mode, out>>
    BY <1>6, <1>i DEF SealOutcome
  <2>2. out.state \in JournalStates /\ out.reason \in Reasons /\ ThisReceipt \in Receipt
    BY <2>1, <1>i, ThisReceiptTyped DEF Outcome, JournalStates
  <2>3. ThisReceipt # NoReceipt
    BY <2>2, SentinelAssumption
  <2>. QED
    BY <2>1, <2>2, <2>3, <1>1, <1>i DEF OpenHolds, RecordSteps, ReceiptSteps
<1>7. CASE RecoverAfterImage
  <2>1. /\ pc = "classify" /\ AppendEntry("VERIFIED", "RECOVERY_VERIFIED_AFTER_IMAGE", NoReceipt)
        /\ cur \in Effects /\ UNCHANGED <<cur, mode>> /\ mode = "recover"
        /\ StateOf(cur) \notin {"STALE", "ABORTED"} /\ AfterImage
    BY <1>7, <1>i DEF RecoverAfterImage, Open, Recovering, ClassifyUnchanged
  <2>. QED
    BY <2>1, <1>1, <1>i, <1>s, <1>r DEF JournalStates, OpenHolds, Resolved
<1>8. CASE VerifyRecovered
  <2>1. /\ pc = "verify" /\ AppendEntry("VERIFIED", "RECOVERY_APPLIED_PREPARED_TEMP", NoReceipt)
        /\ cur \in Effects /\ UNCHANGED <<cur, mode>> /\ mode = "recover" /\ AfterImage
    BY <1>8, <1>i DEF VerifyRecovered, Recovering
  <2>. QED
    BY <2>1, <1>1, <1>i, <1>s, <1>r DEF JournalStates, OpenHolds
<1>. QED
  BY <1>2, <1>3, <1>4, <1>5, <1>6, <1>7, <1>8 DEF Appends

\* A run without failing writes had none before.
LEMMA FailuresCounted == ASSUME TypeInv, [Next]_vars, failures' = 0 PROVE failures = 0
<1>1. UNCHANGED vars => failures' = failures
  BY DEF vars, boundVars
<1>2. (\E e \in Effects : Admit(e)) => failures' = failures
  BY DEF Admit, boundVars
<1>3. Execute => failures' = failures
  BY DEF Execute, boundVars, AppendAdmission, AcquireTargetLock, ValidatePreconditions, CompareTarget, ArchiveBefore, AppendApplying,
   StageTemporary, RecheckTarget, Replace, VerifyExecuted, WriteArchiveAfter, WriteCheckpoint,
   ReleaseTargetLock
<1>4. Record => failures' = failures
  BY DEF Record, boundVars, MarkOutcome, PersistNoChangeAudit, WriteReceipt, PublishReceipt, SealOutcome
<1>5. Recover => failures' = failures
  BY DEF Recover, boundVars, ClassifyUnchanged, StartRecovery, FinishRecovery, RecoverCommitted, CleanupStaleTargetLock,
   RefuseEvidence, RefuseTerminalReceipt, RecoverRefused, RecoverNoChange, RecoverAfterImage,
   RecoverPrepared, VerifyRecovered, RecoverArchiveInvalid, RecoverReplan, RecoverConflict,
   RemoveTemporary
<1>6. Environment => failures' = failures \/ failures' = failures + 1
  BY DEF Environment, ExternalEdit, IoFailure, AbandonOperation, Crash, Shutdown, NewProcess
<1>7. failures \in Nat
  BY DEF TypeInv, BoundsTyped
<1>. QED
  BY <1>1, <1>2, <1>3, <1>4, <1>5, <1>6, <1>7 DEF Next

\* The steps at which an operation may still write the first receipt of its attempt.
AliasSteps == {"RECEIVED", "mark", "audit", "after", "receipt"} \cup WorkSteps

\* An attempt reaches these steps from one of them, or by its admission.
\* Each step leaves the alias of the effect in progress replaceable.
LEMMA AliasStepsFrom ==
    ASSUME TypeInv, [Next]_vars, failures' = 0, ~PublishReceipt, \A e \in Effects : ~Admit(e),
           mode' = "execute", pc' \in AliasSteps
    PROVE  mode = "execute" /\ pc \in AliasSteps /\ cur' = cur
<1>. USE DEF AliasSteps, WorkSteps, EarlySteps
<1>1. CASE UNCHANGED vars
  BY <1>1 DEF vars
<1>2. CASE Execute
  BY <1>2 DEF Execute, Goto, Executing, Catch, Rest, AppendAdmission, AcquireTargetLock, ValidatePreconditions, CompareTarget, ArchiveBefore, AppendApplying,
   StageTemporary, RecheckTarget, Replace, VerifyExecuted, WriteArchiveAfter, WriteCheckpoint,
   ReleaseTargetLock
<1>3. CASE Record
  <2>1. ASSUME Throw(TRUE), pc \in {"audit", "receipt"}
        PROVE  mode = "execute" /\ pc \in AliasSteps /\ cur' = cur
    BY <2>1 DEF Throw, Catch, RecoveryThrows, Rest, Goto
  <2>. QED
    BY <1>3, <2>1 DEF Record, Goto, AfterSeal, MarkOutcome, PersistNoChangeAudit, WriteReceipt, PublishReceipt, SealOutcome
<1>4. CASE Recover
  BY <1>4 DEF Recover, ClassifyUnchanged, Recovering, IsNext, Open, Goto, RecoveryThrows, Rest, StartRecovery, FinishRecovery, RecoverCommitted, CleanupStaleTargetLock,
   RefuseEvidence, RefuseTerminalReceipt, RecoverRefused, RecoverNoChange, RecoverAfterImage,
   RecoverPrepared, VerifyRecovered, RecoverArchiveInvalid, RecoverReplan, RecoverConflict,
   RemoveTemporary
<1>5. CASE Environment
  <2>1. ~IoFailure /\ ~AbandonOperation
    <3>1. failures' # failures + 1
      BY DEF TypeInv, BoundsTyped
    <3>. QED
      BY <3>1, Zenon DEF IoFailure, AbandonOperation
  <2>. QED
    BY <1>5, <2>1 DEF Environment, ExternalEdit, Crash, Shutdown, NewProcess, Rest
<1>. QED
  BY <1>1, <1>2, <1>3, <1>4, <1>5 DEF Next

\* Receipts are only added; only PublishReceipt replaces an alias.
LEMMA ReceiptsKept ==
    ASSUME [Next]_vars
    PROVE  /\ versions \subseteq versions' /\ archVersions \subseteq archVersions'
           /\ PublishReceipt \/ UNCHANGED <<alias, archAlias>>
<1>1. CASE UNCHANGED vars
  BY <1>1 DEF vars, receiptVars
<1>2. CASE \E e \in Effects : Admit(e)
  BY <1>2 DEF Admit, receiptVars
<1>3. CASE Execute
  BY <1>3 DEF Execute, receiptVars, AppendAdmission, AcquireTargetLock, ValidatePreconditions, CompareTarget, ArchiveBefore, AppendApplying,
   StageTemporary, RecheckTarget, Replace, VerifyExecuted, WriteArchiveAfter, WriteCheckpoint,
   ReleaseTargetLock
<1>4. CASE Record
  BY <1>4 DEF Record, receiptVars, MarkOutcome, PersistNoChangeAudit, WriteReceipt, PublishReceipt, SealOutcome
<1>5. CASE Recover
  BY <1>5 DEF Recover, receiptVars, ClassifyUnchanged, StartRecovery, FinishRecovery, RecoverCommitted, CleanupStaleTargetLock,
   RefuseEvidence, RefuseTerminalReceipt, RecoverRefused, RecoverNoChange, RecoverAfterImage,
   RecoverPrepared, VerifyRecovered, RecoverArchiveInvalid, RecoverReplan, RecoverConflict,
   RemoveTemporary
<1>6. CASE Environment
  BY <1>6 DEF Environment, receiptVars, ExternalEdit, IoFailure, AbandonOperation, Crash, Shutdown, NewProcess
<1>. QED
  BY <1>1, <1>2, <1>3, <1>4, <1>5, <1>6 DEF Next

\* What the journal has recorded and sealed stays so.
LEMMA JournalGrows ==
    ASSUME TypeInv, CommitInv, OpenInv, [Next]_vars, failures = 0
    PROVE  /\ \A e : Journaled(e) => Journaled(e)'
           /\ \A r : Sealed(r) => Sealed(r)'
<1>1. CASE UNCHANGED journal
  BY <1>1, JournalKept
<1>2. CASE Appends /\ journal' # journal
  <2>1. PICK c \in Effects, state \in JournalStates, reason \in Reasons, receipt \in Receipt \cup {NoReceipt} :
            cur = c /\ AppendEntry(state, reason, receipt)
    BY <1>2, AppendsToOpen
  <2>. QED
    BY <2>1, JournalAppended DEF TypeInv
<1>. QED
  BY <1>1, <1>2, OnlyAppends

\* No step records anything of a decided effect.
LEMMA FinalStep ==
    ASSUME TypeInv, CommitInv, OpenInv, OutcomeIsFinal, [Next]_vars, failures = 0
    PROVE  OutcomeIsFinal'
<1>1. CASE UNCHANGED journal
  BY <1>1 DEF OutcomeIsFinal, LastIndex, Indices
<1>2. CASE Appends /\ journal' # journal
  <2>1. PICK c \in Effects, state \in JournalStates, reason \in Reasons, receipt \in Receipt \cup {NoReceipt} :
            cur = c /\ AppendEntry(state, reason, receipt) /\ (Unsealed(c) \/ ~Resolved(c))
    BY <1>2, AppendsToOpen
  <2>. QED
    BY <2>1, FinalAppended
<1>. QED
  BY <1>1, <1>2, OnlyAppends

LEMMA AliasStep ==
    ASSUME TypeInv, CommitInv, OpenInv, AliasHolds, [Next]_vars, failures' = 0
    PROVE  AliasHolds'
<1>i. failures = 0
  BY FailuresCounted
<1>k. /\ \A e : Journaled(e) => Journaled(e)'
      /\ \A r : Sealed(r) => Sealed(r)'
      /\ \A r : Retained(r) => Retained(r)'
  BY <1>i, JournalGrows, ReceiptsKept DEF Retained
<1>1. ASSUME NEW e \in Effects, Admit(e) PROVE AliasHolds'
  <2>1. UNCHANGED <<alias, archAlias, journal>> /\ cur' = e /\ MayAttempt(e)
    BY <1>1 DEF Admit, receiptVars
  <2>2. Journaled(e) => Sealed(SealOf(e)) /\ TerminalReceiptValid(LastIndex(e)) /\ journal[LastIndex(e)].eff = e
    BY <2>1, LastIndexIn DEF MayAttempt, Sealed, SealOf, Indices, TypeInv
  <2>3. \/ alias[e] = NoReceipt
        \/ Retained(alias[e]) /\ archAlias[e] = alias[e] /\ Sealed(alias[e])
    BY <2>2 DEF AliasHolds, TerminalReceiptValid, SealOf
  <2>4. \/ alias'[e] = NoReceipt
        \/ Retained(alias[e])' /\ archAlias'[e] = alias'[e] /\ Sealed(alias[e])'
    BY <2>1, <2>3, <1>k
  <2>. QED
    BY <2>1, <2>4, <1>k DEF AliasHolds
<1>2. CASE PublishReceipt
  <2>1. /\ UNCHANGED <<cur, mode, journal>> /\ pc \in ReceiptSteps /\ cur \in Effects /\ Journaled(cur)
        /\ pc' \in {"archive-receipt", "archive-alias", "seal"}
        /\ \A e \in Effects \ {cur} : alias'[e] = alias[e]
    BY <1>2 DEF PublishReceipt, ReceiptSteps, RecordSteps, Goto, TypeInv, ControlTyped, ReceiptsTyped, OpenInv,
       OpenHolds, Unsealed
  <2>. QED
    BY <2>1, <1>k DEF AliasHolds, WorkSteps, EarlySteps
<1>3. CASE ~PublishReceipt /\ \A e \in Effects : ~Admit(e)
  <2>1. UNCHANGED <<alias, archAlias>>
    BY <1>3, ReceiptsKept
  <2>2. mode' = "execute" /\ pc' \in AliasSteps => mode = "execute" /\ pc \in AliasSteps /\ cur' = cur
    BY <1>3, AliasStepsFrom
  <2>3. ASSUME NEW c, NEW a, a = alias[c], Retained(a) /\ archAlias[c] = a /\ Sealed(a)
        PROVE  Retained(alias[c])' /\ archAlias'[c] = alias'[c] /\ Sealed(alias[c])'
    BY <2>1, <2>3, <1>k
  <2>. QED
    BY <2>1, <2>2, <2>3, <1>k DEF AliasHolds, AliasSteps
<1>. QED
  BY <1>1, <1>2, <1>3

\* An append changes the journal.
LEMMA AppendChanges ==
    ASSUME JournalTyped, NEW state, NEW reason, NEW receipt, AppendEntry(state, reason, receipt)
    PROVE  journal' # journal
<1>1. Len(journal') = Len(journal) + 1 /\ Len(journal) \in Nat
  BY DEF AppendEntry, JournalTyped
<1>. QED
  BY <1>1

\* What is in doubt changes only by an entry, and then only for its effect.
LEMMA DoubtKept == UNCHANGED journal => \A e : InDoubt(e)' <=> InDoubt(e)
BY JournalKept DEF InDoubt

\* An entry puts its effect in doubt, or ends its doubt, and no other.
LEMMA DoubtAppended ==
    ASSUME TypeInv, NEW c \in Effects, cur = c,
           NEW state \in JournalStates, NEW reason \in Reasons,
           NEW receipt \in Receipt \cup {NoReceipt},
           AppendEntry(state, reason, receipt)
    PROVE  /\ InDoubt(c)' <=> receipt = NoReceipt \/ reason \in Blocking
           /\ \A e : e # c => (InDoubt(e)' <=> InDoubt(e))
<1>1. /\ Journaled(c)' /\ ReasonOf(c)' = reason
      /\ Unsealed(c)' <=> receipt = NoReceipt
      /\ \A e : e # c =>
             /\ Journaled(e) => ReasonOf(e)' = ReasonOf(e)
             /\ Journaled(e)' <=> Journaled(e)
             /\ Unsealed(e)' <=> Unsealed(e)
  BY JournalAppended DEF TypeInv
<1>. QED
  BY <1>1 DEF InDoubt

\* Without failing writes only an exception of recovery, or the first one of an
\* attempt, ends what is in progress.
LEMMA ThrowDoubt ==
    ASSUME TypeInv, OpenInv, DoubtHolds, NEW evidence, Throw(evidence), UNCHANGED journal,
           pc \in {"verify", "audit", "receipt"}, ~Catching
    PROVE  DoubtHolds'
<1>1. CASE Catch /\ UNCHANGED <<mode, cur, bound, recoveryVars, latchVars, raced, validated>> /\ mode = "execute"
  <2>1. pc' = "mark" /\ out'.reason = "EXECUTION_FAILURE" /\ UNCHANGED <<todo, unsafe, latched, checked, mode, cur>>
    BY <1>1 DEF Catch, Decide, Goto, recoveryVars, latchVars
  <2>. QED
    BY <2>1, <1>1, DoubtKept DEF DoubtHolds, RecordSteps, ReceiptSteps, Blocking
<1>2. CASE RecoveryThrows(evidence)
  <2>1. pc' = "idle" /\ mode' = "execute" /\ latched' = TRUE /\ checked' = TRUE
    BY <1>2, Zenon DEF RecoveryThrows, Rest
  <2>. QED
    BY <2>1 DEF DoubtHolds, RecordSteps, ReceiptSteps
<1>. QED
  BY <1>1, <1>2, Zenon DEF Throw

\* Each step leaves what is in doubt in progress, to be looked at, or blocking.
LEMMA DoubtStep ==
    ASSUME TypeInv, CommitInv, OpenInv, AliasHolds, DoubtHolds, [Next]_vars, failures' = 0
    PROVE  DoubtHolds'
<1>i. /\ EntriesReasoned /\ ReasonOfOutcome(out.state, out.reason) /\ OpenHolds /\ OutcomeBacked
      /\ mode \in {"execute", "recover"} /\ (pc \notin {"idle", "next"} => cur \in Effects)
      /\ out \in Outcome /\ JournalTyped /\ failures = 0 /\ DoubtHolds
      /\ latched \in BOOLEAN /\ checked \in BOOLEAN /\ unsafe \in BOOLEAN
  BY FailuresCounted DEF OpenInv, ReasonsHold, CommitInv, TypeInv, ControlTyped, RecoveryTyped
<1>1. ASSUME NEW e \in Effects, Admit(e) PROVE DoubtHolds'
  <2>1. UNCHANGED journal
    BY <1>1 DEF Admit, MayAttempt
  <2>. QED
    BY <1>1, <1>i, <2>1, DoubtKept DEF Admit, MayAttempt, Goto, recoveryVars, latchVars, boundVars, ghostVars, DoubtHolds, WorkSteps, EarlySteps, RecordSteps, ReceiptSteps, Blocking
<1>2. ASSUME AcquireTargetLock PROVE DoubtHolds'
  <2>1. UNCHANGED journal
    BY <1>2 DEF AcquireTargetLock, Catch, Executing, Decide
  <2>. QED
    BY <1>2, <1>i, <2>1, DoubtKept DEF AcquireTargetLock, Catch, Executing, Decide, Goto, recoveryVars, latchVars, boundVars, ghostVars, DoubtHolds, WorkSteps, EarlySteps, RecordSteps, ReceiptSteps, Blocking
<1>3. ASSUME ValidatePreconditions PROVE DoubtHolds'
  <2>1. UNCHANGED journal
    BY <1>3 DEF ValidatePreconditions, Executing, Decide
  <2>. QED
    BY <1>3, <1>i, <2>1, DoubtKept DEF ValidatePreconditions, Executing, Decide, Goto, recoveryVars, latchVars, boundVars, ghostVars, DoubtHolds, WorkSteps, EarlySteps, RecordSteps, ReceiptSteps, Blocking
<1>4. ASSUME CompareTarget PROVE DoubtHolds'
  <2>1. UNCHANGED journal
    BY <1>4 DEF CompareTarget, Executing, Decide
  <2>. QED
    BY <1>4, <1>i, <2>1, DoubtKept DEF CompareTarget, Executing, Decide, Goto, recoveryVars, latchVars, boundVars, ghostVars, DoubtHolds, WorkSteps, EarlySteps, RecordSteps, ReceiptSteps, Blocking
<1>5. ASSUME ArchiveBefore PROVE DoubtHolds'
  <2>1. UNCHANGED journal
    BY <1>5 DEF ArchiveBefore, Executing
  <2>. QED
    BY <1>5, <1>i, <2>1, DoubtKept DEF ArchiveBefore, Executing, Goto, recoveryVars, latchVars, boundVars, ghostVars, DoubtHolds, WorkSteps, EarlySteps, RecordSteps, ReceiptSteps, Blocking
<1>6. ASSUME StageTemporary PROVE DoubtHolds'
  <2>1. UNCHANGED journal
    BY <1>6 DEF StageTemporary, Executing
  <2>. QED
    BY <1>6, <1>i, <2>1, DoubtKept DEF StageTemporary, Executing, Goto, recoveryVars, latchVars, boundVars, ghostVars, DoubtHolds, WorkSteps, EarlySteps, RecordSteps, ReceiptSteps, Blocking
<1>7. ASSUME RecheckTarget PROVE DoubtHolds'
  <2>1. UNCHANGED journal
    BY <1>7 DEF RecheckTarget, Executing, Decide
  <2>. QED
    BY <1>7, <1>i, <2>1, DoubtKept DEF RecheckTarget, Executing, Decide, Goto, recoveryVars, latchVars, boundVars, ghostVars, DoubtHolds, WorkSteps, EarlySteps, RecordSteps, ReceiptSteps, Blocking
<1>8. ASSUME Replace PROVE DoubtHolds'
  <2>1. UNCHANGED journal
    BY <1>8 DEF Replace
  <2>. QED
    BY <1>8, <1>i, <2>1, DoubtKept DEF Replace, Goto, recoveryVars, latchVars, boundVars, ghostVars, DoubtHolds, WorkSteps, EarlySteps, RecordSteps, ReceiptSteps, Blocking
<1>9. ASSUME WriteArchiveAfter PROVE DoubtHolds'
  <2>1. UNCHANGED <<journal, mode, cur, out, todo, unsafe, latched, checked>>
    BY <1>9 DEF WriteArchiveAfter, recoveryVars, latchVars
  <2>2. pc = "after" /\ pc' \in {"after", "receipt"} /\ out.reason \notin Blocking
    BY <1>9, <1>i DEF WriteArchiveAfter, Goto, OutcomeBacked, ReplaceProved, ReasonOfOutcome
  <2>. QED
    BY <2>1, <2>2, <1>i, DoubtKept DEF DoubtHolds, RecordSteps, ReceiptSteps
<1>10. ASSUME WriteCheckpoint PROVE DoubtHolds'
  <2>1. UNCHANGED journal
    BY <1>10 DEF WriteCheckpoint, Executing
  <2>. QED
    BY <1>10, <1>i, <2>1, DoubtKept DEF WriteCheckpoint, Executing, Goto, recoveryVars, latchVars, boundVars, ghostVars, DoubtHolds, WorkSteps, EarlySteps, RecordSteps, ReceiptSteps, Blocking
<1>11. ASSUME ReleaseTargetLock PROVE DoubtHolds'
  <2>1. UNCHANGED journal
    BY <1>11 DEF ReleaseTargetLock, Executing, Rest
  <2>. QED
    BY <1>11, <1>i, <2>1, DoubtKept DEF ReleaseTargetLock, Executing, Rest, Goto, recoveryVars, latchVars, boundVars, ghostVars, DoubtHolds, WorkSteps, EarlySteps, RecordSteps, ReceiptSteps, Blocking
<1>12. ASSUME PublishReceipt PROVE DoubtHolds'
  <2>1. UNCHANGED journal
    BY <1>12 DEF PublishReceipt
  <2>. QED
    BY <1>12, <1>i, <2>1, DoubtKept DEF PublishReceipt, Goto, recoveryVars, latchVars, boundVars, ghostVars, DoubtHolds, WorkSteps, EarlySteps, RecordSteps, ReceiptSteps, Blocking
<1>13. ASSUME StartRecovery PROVE DoubtHolds'
  <2>1. /\ UNCHANGED <<journal, latched, checked>> /\ ~checked /\ mode' = "recover" /\ pc' = "next"
        /\ todo' = {e \in Effects : Journaled(e)}
    BY <1>13 DEF StartRecovery, Goto, latchVars
  <2>2. \A e \in Effects : InDoubt(e)' => e \in todo'
    BY <2>1, DoubtKept DEF InDoubt, Unsealed
  <2>. QED
    BY <2>1, <2>2, <1>i DEF DoubtHolds, RecordSteps, ReceiptSteps
<1>14. ASSUME FinishRecovery PROVE DoubtHolds'
  <2>1. /\ UNCHANGED journal /\ mode = "recover" /\ pc = "next" /\ todo = {}
        /\ mode' = "execute" /\ pc' = "idle" /\ latched' = unsafe /\ checked' = TRUE
    BY <1>14 DEF FinishRecovery, Recovering, Rest
  <2>2. ~latched' => \A e \in Effects : ~InDoubt(e)'
    BY <2>1, <1>i, DoubtKept DEF DoubtHolds
  <2>. QED
    BY <2>1, <2>2, <1>i DEF DoubtHolds, RecordSteps, ReceiptSteps
<1>15. ASSUME NEW e \in Effects, RecoverCommitted(e) PROVE DoubtHolds'
  <2>1. /\ UNCHANGED <<journal, pc, mode, cur, out, unsafe, latched, checked>> /\ mode = "recover" /\ pc = "next"
        /\ todo' = todo \ {e} /\ e \in todo /\ SealOf(e) # NoReceipt /\ StateOf(e) = "COMMITTED"
    BY <1>15 DEF RecoverCommitted, IsNext, Recovering, EvidenceValid, CommittedValid, latchVars
  <2>2. ~InDoubt(e)
    BY <2>1, <1>i, SealedOutcome DEF OpenHolds, ReasonOfOutcome, InDoubt, Unsealed
  <2>. QED
    BY <2>1, <2>2, <1>i, DoubtKept DEF DoubtHolds, RecordSteps, ReceiptSteps
<1>16. ASSUME NEW e \in Effects, CleanupStaleTargetLock(e) PROVE DoubtHolds'
  <2>1. UNCHANGED journal
    BY <1>16 DEF CleanupStaleTargetLock, IsNext, Recovering
  <2>. QED
    BY <1>16, <1>i, <2>1, DoubtKept DEF CleanupStaleTargetLock, IsNext, Recovering, Goto, recoveryVars, latchVars, boundVars, ghostVars, DoubtHolds, WorkSteps, EarlySteps, RecordSteps, ReceiptSteps, Blocking
<1>17. ASSUME NEW e \in Effects, RefuseEvidence(e) PROVE DoubtHolds'
  <2>1. UNCHANGED journal
    BY <1>17 DEF RefuseEvidence, RecoveryThrows, Rest
  <2>. QED
    BY <1>17, <1>i, <2>1, DoubtKept DEF RefuseEvidence, RecoveryThrows, Rest, Goto, recoveryVars, latchVars, boundVars, ghostVars, DoubtHolds, WorkSteps, EarlySteps, RecordSteps, ReceiptSteps, Blocking
<1>18. ASSUME RefuseTerminalReceipt PROVE DoubtHolds'
  <2>1. UNCHANGED journal
    BY <1>18 DEF RefuseTerminalReceipt, RecoveryThrows, Rest
  <2>. QED
    BY <1>18, <1>i, <2>1, DoubtKept DEF RefuseTerminalReceipt, RecoveryThrows, Rest, Goto, recoveryVars, latchVars, boundVars, ghostVars, DoubtHolds, WorkSteps, EarlySteps, RecordSteps, ReceiptSteps, Blocking
<1>19. ASSUME RecoverRefused PROVE DoubtHolds'
  <2>1. /\ UNCHANGED <<journal, mode, cur, out, todo, latched, checked>> /\ mode = "recover" /\ pc = "classify"
        /\ pc' = "next" /\ SealOf(cur) # NoReceipt /\ StateOf(cur) \in {"STALE", "ABORTED"}
        /\ unsafe' = TRUE \/ (unsafe' = unsafe /\ ReasonOf(cur) # "CONFLICTING_EXTERNAL_BYTES")
    BY <1>19 DEF RecoverRefused, Recovering, Goto, ClassifyUnchanged, TerminalEvidence, TerminalReceiptValid,
       SealOf, latchVars
  <2>2. unsafe' = TRUE \/ (unsafe' = unsafe /\ ~InDoubt(cur))
    BY <2>1, <1>i, SealedOutcome DEF OpenHolds, ReasonOfOutcome, InDoubt, Unsealed, Blocking
  <2>. QED
    BY <2>1, <2>2, <1>i, DoubtKept DEF DoubtHolds, RecordSteps, ReceiptSteps
<1>20. ASSUME RecoverNoChange PROVE DoubtHolds'
  <2>1. UNCHANGED journal
    BY <1>20 DEF RecoverNoChange, ClassifyUnchanged, Decide, Open, Recovering, NoChangeUnfinished
  <2>. QED
    BY <1>20, <1>i, <2>1, DoubtKept DEF RecoverNoChange, ClassifyUnchanged, Decide, Open, Recovering, NoChangeUnfinished, Goto, recoveryVars, latchVars, boundVars, ghostVars, DoubtHolds, WorkSteps, EarlySteps, RecordSteps, ReceiptSteps, Blocking
<1>21. ASSUME RecoverPrepared PROVE DoubtHolds'
  <2>1. UNCHANGED journal
    BY <1>21 DEF RecoverPrepared, ClassifyUnchanged, Decide, Open, Recovering
  <2>. QED
    BY <1>21, <1>i, <2>1, DoubtKept DEF RecoverPrepared, ClassifyUnchanged, Decide, Open, Recovering, Goto, recoveryVars, latchVars, boundVars, ghostVars, DoubtHolds, WorkSteps, EarlySteps, RecordSteps, ReceiptSteps, Blocking
<1>22. ASSUME RecoverArchiveInvalid PROVE DoubtHolds'
  <2>1. UNCHANGED journal
    BY <1>22 DEF RecoverArchiveInvalid, ClassifyUnchanged, Decide, Open, Recovering
  <2>. QED
    BY <1>22, <1>i, <2>1, DoubtKept DEF RecoverArchiveInvalid, ClassifyUnchanged, Decide, Open, Recovering, Goto, recoveryVars, latchVars, boundVars, ghostVars, DoubtHolds, WorkSteps, EarlySteps, RecordSteps, ReceiptSteps, Blocking
<1>23. ASSUME RecoverReplan PROVE DoubtHolds'
  <2>1. UNCHANGED journal
    BY <1>23 DEF RecoverReplan, ClassifyUnchanged, Decide, Open, Recovering
  <2>. QED
    BY <1>23, <1>i, <2>1, DoubtKept DEF RecoverReplan, ClassifyUnchanged, Decide, Open, Recovering, Goto, recoveryVars, latchVars, boundVars, ghostVars, DoubtHolds, WorkSteps, EarlySteps, RecordSteps, ReceiptSteps, Blocking
<1>24. ASSUME RecoverConflict PROVE DoubtHolds'
  <2>1. UNCHANGED journal
    BY <1>24 DEF RecoverConflict, ClassifyUnchanged, Decide, Open, Recovering
  <2>. QED
    BY <1>24, <1>i, <2>1, DoubtKept DEF RecoverConflict, ClassifyUnchanged, Decide, Open, Recovering, Goto, recoveryVars, latchVars, boundVars, ghostVars, DoubtHolds, WorkSteps, EarlySteps, RecordSteps, ReceiptSteps, Blocking
<1>25. ASSUME RemoveTemporary PROVE DoubtHolds'
  <2>1. UNCHANGED journal
    BY <1>25 DEF RemoveTemporary, Recovering
  <2>. QED
    BY <1>25, <1>i, <2>1, DoubtKept DEF RemoveTemporary, Recovering, Goto, recoveryVars, latchVars, boundVars, ghostVars, DoubtHolds, WorkSteps, EarlySteps, RecordSteps, ReceiptSteps, Blocking
<1>26. ASSUME NEW t \in Targets, NEW b \in Contents, ExternalEdit(t, b) PROVE DoubtHolds'
  <2>1. UNCHANGED journal
    BY <1>26 DEF ExternalEdit
  <2>. QED
    BY <1>26, <1>i, <2>1, DoubtKept DEF ExternalEdit, Goto, recoveryVars, latchVars, boundVars, ghostVars, DoubtHolds, WorkSteps, EarlySteps, RecordSteps, ReceiptSteps, Blocking
<1>27. ASSUME Crash PROVE DoubtHolds'
  <2>1. UNCHANGED journal
    BY <1>27 DEF Crash, NewProcess, Rest
  <2>. QED
    BY <1>27, <1>i, <2>1, DoubtKept DEF Crash, NewProcess, Rest, Goto, recoveryVars, latchVars, boundVars, ghostVars, DoubtHolds, WorkSteps, EarlySteps, RecordSteps, ReceiptSteps, Blocking
<1>28. ASSUME Shutdown PROVE DoubtHolds'
  <2>1. UNCHANGED journal
    BY <1>28 DEF Shutdown, NewProcess, Rest
  <2>. QED
    BY <1>28, <1>i, <2>1, DoubtKept DEF Shutdown, NewProcess, Rest, Goto, recoveryVars, latchVars, boundVars, ghostVars, DoubtHolds, WorkSteps, EarlySteps, RecordSteps, ReceiptSteps, Blocking
<1>29. ASSUME PersistNoChangeAudit PROVE DoubtHolds'
  <2>1. CASE Throw(TRUE) /\ UNCHANGED journal
    <3>1. pc = "audit" /\ ~Catching
      BY <1>29, <1>i DEF PersistNoChangeAudit, OutcomeBacked, Catching
    <3>. QED
      BY <2>1, <3>1, <1>i, ThrowDoubt
  <2>2. CASE UNCHANGED <<journal, mode, cur, out, todo, unsafe, latched, checked>> /\ pc' = "receipt"
    <3>1. pc = "audit" /\ out.reason \notin Blocking
      BY <1>29, <1>i DEF PersistNoChangeAudit, OutcomeBacked, ReasonOfOutcome
    <3>. QED
      BY <2>2, <3>1, <1>i, DoubtKept DEF DoubtHolds, RecordSteps, ReceiptSteps
  <2>. QED
    BY <1>29, <2>1, <2>2, Zenon DEF PersistNoChangeAudit, Goto, recoveryVars, latchVars
<1>30. ASSUME WriteReceipt PROVE DoubtHolds'
  <2>1. CASE Throw(TRUE) /\ UNCHANGED journal /\ ~AliasReplaceable(ThisReceipt)
    <3>1. pc = "receipt"
      BY <1>30 DEF WriteReceipt
    <3>2. mode = "recover"
      BY <3>1, <2>1, <1>i DEF AliasHolds, AliasReplaceable
    <3>. QED
      BY <2>1, <3>1, <3>2, <1>i, ThrowDoubt DEF Catching
  <2>2. CASE UNCHANGED <<journal, mode, cur, out, todo, unsafe, latched, checked>> /\ pc' \in {"alias", "seal"}
    <3>1. pc = "receipt"
      BY <1>30 DEF WriteReceipt
    <3>. QED
      BY <2>2, <3>1, <1>i, DoubtKept DEF DoubtHolds, RecordSteps, ReceiptSteps
  <2>. QED
    BY <1>30, <2>1, <2>2, Zenon DEF WriteReceipt, Goto, recoveryVars, latchVars
<1>31. ASSUME Appends, journal' # journal PROVE DoubtHolds'
  <2>1. PICK c \in Effects, state \in JournalStates, reason \in Reasons, receipt \in Receipt \cup {NoReceipt} :
               /\ cur = c /\ cur' = c /\ mode' = mode
               /\ AppendEntry(state, reason, receipt)
               /\ receipt = NoReceipt <=> pc # "seal"
               /\ \/ pc \in {"mark", "seal"} /\ state = out.state /\ reason = out.reason /\ out' = out
                  \/ pc \notin {"mark", "seal"} /\ state \notin Outcomes /\ reason \notin Blocking
    BY <1>31, <1>i, AppendsToOpen
  <2>2. /\ InDoubt(c)' <=> receipt = NoReceipt \/ reason \in Blocking
        /\ \A e : e # c => (InDoubt(e)' <=> InDoubt(e))
    BY <2>1, DoubtAppended
  <2>3. /\ UNCHANGED <<todo, unsafe, latched, checked>> /\ pc \notin {"idle", "next"}
        /\ \/ pc = "mark" /\ pc' = "receipt"
           \/ pc = "seal" /\ pc' \in (IF mode = "execute" THEN {"checkpoint", "unlock"} ELSE {"clean", "next"})
           \/ pc \notin {"mark", "seal"} /\ pc' \in {"PLANNED", "PREPARED", "lock", "clear", "after"}
    <3>1. CASE AppendAdmission \/ AppendApplying
      BY <3>1 DEF AppendAdmission, AppendApplying, Executing, Goto, recoveryVars, latchVars
    <3>2. CASE MarkOutcome
      BY <3>2 DEF MarkOutcome, Goto, recoveryVars, latchVars
    <3>3. CASE SealOutcome
      BY <3>3, <1>i DEF SealOutcome, AfterSeal, Goto, recoveryVars, latchVars
    <3>4. CASE VerifyExecuted
      BY <3>4, <1>31 DEF VerifyExecuted, Executing, Goto, recoveryVars, latchVars
    <3>5. CASE VerifyRecovered
      BY <3>5, <1>31 DEF VerifyRecovered, Recovering, Goto, recoveryVars, latchVars
    <3>6. CASE RecoverAfterImage
      <4>1. unsafe' = unsafe
        BY <3>6 DEF RecoverAfterImage
      <4>. QED
        BY <3>6, <4>1 DEF RecoverAfterImage, ClassifyUnchanged, Open, Recovering, Goto, latchVars
    <3>. QED
      BY <1>31, <3>1, <3>2, <3>3, <3>4, <3>5, <3>6 DEF Appends
  <2>. QED
    BY <2>1, <2>2, <2>3, <1>i DEF DoubtHolds, RecordSteps, ReceiptSteps
<1>32. ASSUME VerifyExecuted, UNCHANGED journal PROVE DoubtHolds'
  <2>1. CASE AppendEntry("VERIFIED", "", NoReceipt)
    BY <2>1, <1>32, <1>i, AppendChanges
  <2>2. CASE Catch /\ mode = "execute" /\ pc = "verify"
    <3>1. pc' = "mark" /\ out'.reason = "EXECUTION_FAILURE" /\ UNCHANGED <<todo, unsafe, latched, checked, mode, cur>>
      BY <2>2, <1>32 DEF VerifyExecuted, Catch, Decide, Goto, recoveryVars, latchVars
    <3>. QED
      BY <2>2, <3>1, <1>32, <1>i, DoubtKept DEF DoubtHolds, RecordSteps, ReceiptSteps, Blocking
  <2>. QED
    BY <1>32, <2>1, <2>2 DEF VerifyExecuted, Executing
<1>33. ASSUME VerifyRecovered, UNCHANGED journal PROVE DoubtHolds'
  <2>1. CASE AppendEntry("VERIFIED", "RECOVERY_APPLIED_PREPARED_TEMP", NoReceipt)
    BY <2>1, <1>33, <1>i, AppendChanges
  <2>2. CASE RecoveryThrows(FALSE)
    <3>1. pc' = "idle" /\ mode' = "execute" /\ latched' = TRUE /\ checked' = TRUE
      BY <2>2, Zenon DEF RecoveryThrows, Rest
    <3>. QED
      BY <3>1 DEF DoubtHolds, RecordSteps, ReceiptSteps
  <2>. QED
    BY <1>33, <2>1, <2>2, Zenon DEF VerifyRecovered
<1>34. ASSUME RecoverAfterImage, UNCHANGED journal PROVE DoubtHolds'
  <2>1. /\ mode = "recover" /\ pc = "classify" /\ pc' = "after"
        /\ UNCHANGED <<mode, cur, todo, latched, checked, unsafe>>
    BY <1>34 DEF RecoverAfterImage, ClassifyUnchanged, Open, Recovering, Goto, latchVars
  <2>. QED
    BY <2>1, <1>34, <1>i, DoubtKept DEF DoubtHolds, RecordSteps, ReceiptSteps
<1>35. ~IoFailure /\ ~AbandonOperation
  <2>1. failures' # failures + 1
    BY <1>i
  <2>. QED
    BY <2>1, Zenon DEF IoFailure, AbandonOperation
<1>36. CASE UNCHANGED vars
  <2>1. UNCHANGED <<journal, pc, mode, cur, out, todo, unsafe, latched, checked>>
    BY <1>36 DEF vars, recoveryVars, latchVars
  <2>. QED
    BY <2>1, <1>i, DoubtKept DEF DoubtHolds
<1>37. CASE Appends
  <2>1. CASE journal' # journal
    BY <1>37, <2>1, <1>31
  <2>2. CASE UNCHANGED journal
    <3>1. ~AppendAdmission /\ ~AppendApplying /\ ~MarkOutcome /\ ~SealOutcome
      BY <2>2, <1>i, AppendChanges DEF AppendAdmission, AppendApplying, MarkOutcome, SealOutcome
    <3>. QED
      BY <1>37, <2>2, <3>1, <1>32, <1>33, <1>34 DEF Appends
  <2>. QED
    BY <2>1, <2>2
<1>. QED
  BY <1>1, <1>2, <1>3, <1>4, <1>5, <1>6, <1>7, <1>8, <1>9, <1>10, <1>11, <1>12, <1>13, <1>14,
     <1>15, <1>16, <1>17, <1>18, <1>19, <1>20, <1>21, <1>22, <1>23, <1>24, <1>25, <1>26, <1>27,
     <1>28, <1>29, <1>30, <1>36, <1>35, <1>37
     DEF Next, Execute, Record, Recover, Environment, Appends

\* The invariants that hold while no write has failed.
LEMMA ResolvedInvariant ==
    Spec => [](TypeInv /\ SafetyInv /\ CommitInv /\ OpenInv /\ ResolvedHolds)
<1>1. Init => ResolvedHolds
  <2>. SUFFICES ASSUME Init PROVE ResolvedHolds
    OBVIOUS
  <2>1. OutcomeIsFinal /\ \A e : ~Journaled(e) /\ ~InDoubt(e)
    BY InitialJournal DEF OutcomeIsFinal, Journaled, Indices, InDoubt, Unsealed
  <2>. QED
    BY <2>1 DEF Init, VolatileInit, ResolvedHolds, AliasHolds, DoubtHolds, WorkSteps, EarlySteps, RecordSteps,
       ReceiptSteps
<1>2. TypeInv /\ CommitInv /\ OpenInv /\ ResolvedHolds /\ [Next]_vars => ResolvedHolds'
  <2>. SUFFICES ASSUME TypeInv, CommitInv, OpenInv, ResolvedHolds, [Next]_vars, failures' = 0
                PROVE  AliasHolds' /\ DoubtHolds' /\ OutcomeIsFinal'
    BY DEF ResolvedHolds
  <2>1. failures = 0 /\ AliasHolds /\ DoubtHolds /\ OutcomeIsFinal
    BY FailuresCounted DEF ResolvedHolds
  <2>. QED
    BY <2>1, AliasStep, DoubtStep, FinalStep
<1>. QED
  BY <1>1, <1>2, OpenInvariant, PTL DEF Spec

\* While writes are enabled nothing but the effect in progress is undecided or
\* waits for a review, whatever crashes, edits and recoveries came before.
THEOREM WritesNeedResolution == Spec => []WritesEnabledOnlyWhenResolved
<1>1. ResolvedHolds => WritesEnabledOnlyWhenResolved
  BY DEF ResolvedHolds, DoubtHolds, InDoubt, Unsealed, Blocking, WritesEnabledOnlyWhenResolved
<1>. QED
  BY <1>1, ResolvedInvariant, PTL

\* Until a write fails, a sealed outcome is the last entry of its effect.
THEOREM OutcomesStayFinal == Spec => [](failures = 0 => OutcomeIsFinal)
<1>1. ResolvedHolds => (failures = 0 => OutcomeIsFinal)
  BY DEF ResolvedHolds
<1>. QED
  BY <1>1, ResolvedInvariant, PTL

\* What is begun and what has landed change with the journal, the archive and the renames only.
LEMMA BegunKept ==
    ASSUME UNCHANGED <<journal, target, applied, arch>>
    PROVE  /\ \A e : (Begun(e)' <=> Begun(e)) /\ (Landed(e)' <=> Landed(e))
           /\ BegunHolds => BegunHolds'
<1>1. \A e : (Begun(e)' <=> Begun(e)) /\ (Landed(e)' <=> Landed(e))
  BY JournalKept DEF Begun, Landed
<1>. QED
  BY <1>1, JournalKept DEF BegunHolds

\* The entry keeps what is begun if its effect was, and agrees with its target.
LEMMA BegunAppended ==
    ASSUME TypeInv, BegunHolds, NEW c \in Effects, cur = c,
           NEW state \in JournalStates, NEW reason \in Reasons,
           NEW receipt \in Receipt \cup {NoReceipt},
           AppendEntry(state, reason, receipt), UNCHANGED <<target, applied, arch>>,
           state \notin {"COMMITTED", "ABORTED", "STALE"} /\ arch[c] > 0 => ~Resolved(c),
           state = "VERIFIED" => target[TargetOf[c]] = Proposed[c],
           state = "RECOVERY_REQUIRED" /\ reason = "EXECUTION_FAILURE" => arch[c] = 0,
           state \in {"STALE", "ABORTED"} => ~Landed(c)
    PROVE  BegunHolds'
<1>1. /\ Journaled(c)' /\ StateOf(c)' = state /\ ReasonOf(c)' = reason
      /\ Resolved(c)' <=> state \in {"COMMITTED", "ABORTED", "STALE"}
      /\ \A e : e # c => /\ StateOf(e)' = StateOf(e)
                         /\ Journaled(e) => ReasonOf(e)' = ReasonOf(e)
                         /\ Journaled(e)' <=> Journaled(e)
                         /\ Resolved(e)' <=> Resolved(e)
      /\ \A e, states : EverIn(e, states)' <=> EverIn(e, states) \/ (e = c /\ state \in states)
  BY JournalAppended DEF TypeInv
<1>2. \A e \in Effects : e # c => (Begun(e)' <=> Begun(e)) /\ (Landed(e)' <=> Landed(e))
  BY <1>1 DEF Begun, Landed
<1>3. Begun(c)' => Begun(c)
  BY <1>1 DEF Begun, BegunHolds
<1>4. Landed(c)' <=> Landed(c) \/ state = "VERIFIED"
  BY <1>1 DEF Landed
<1>5. \A e \in Effects : Begun(e)' => target'[TargetOf[e]] = IF Landed(e)' THEN Proposed[e] ELSE Prior[e]
  BY <1>2, <1>3, <1>4 DEF BegunHolds
<1>6. \A e, f \in Effects : Begun(e)' /\ Begun(f)' => e = f
  BY <1>2, <1>3 DEF BegunHolds
<1>7. ASSUME NEW e \in Effects
      PROVE  /\ arch'[e] > 0 => Journaled(e)'
             /\ StateOf(e)' = "RECOVERY_REQUIRED" /\ ReasonOf(e)' = "EXECUTION_FAILURE" => arch'[e] = 0
             /\ Landed(e)' => StateOf(e)' \notin {"STALE", "ABORTED"}
  <2>1. CASE e = c
    BY <2>1, <1>1, <1>4
  <2>2. CASE e # c
    <3>1. StateOf(e) = "RECOVERY_REQUIRED" => Journaled(e)
      BY DEF StateOf
    <3>. QED
      BY <2>2, <3>1, <1>1, <1>2 DEF BegunHolds
  <2>. QED
    BY <2>1, <2>2
<1>. QED
  BY <1>5, <1>6, <1>7 DEF BegunHolds

\* A commit of the bytes that stand, or the refusal of an effect that was never
\* applied, leaves the committed bytes in place.
LEMMA HeadAppended ==
    ASSUME TypeInv, CommittedHeadStands, NEW c \in Effects, cur = c,
           NEW state \in JournalStates, NEW reason \in Reasons,
           NEW receipt \in Receipt \cup {NoReceipt},
           AppendEntry(state, reason, receipt), UNCHANGED <<target, applied>>,
           edits = 0, failures = 0, StateOf(c) # "COMMITTED",
           state = "COMMITTED" => target[TargetOf[c]] = Proposed[c],
           state \in {"STALE", "ABORTED"} => c \notin applied
    PROVE  CommittedHeadStands'
<1>1. /\ StateOf(c)' = state /\ LastIndex(c)' = Len(journal) + 1
      /\ Resolved(c)' <=> state \in {"COMMITTED", "ABORTED", "STALE"}
      /\ \A e : e # c => /\ StateOf(e)' = StateOf(e) /\ LastIndex(e)' = LastIndex(e)
                         /\ Resolved(e)' <=> Resolved(e)
  BY JournalAppended DEF TypeInv
<1>. SUFFICES ASSUME NEW e \in Effects, StateOf(e)' = "COMMITTED",
                     \A f \in Effects : TargetOf[f] = TargetOf[e] /\ StateOf(f)' = "COMMITTED"
                                            => LastIndex(f)' <= LastIndex(e)'
              PROVE  \/ target'[TargetOf[e]] = Proposed[e]
                     \/ \E f \in applied' : TargetOf[f] = TargetOf[e] /\ ~Resolved(f)' /\ target'[TargetOf[e]] = Proposed[f]
  BY DEF CommittedHeadStands
<1>2. CASE e = c
  BY <1>2, <1>1
<1>3. CASE e # c
  <2>1. StateOf(e) = "COMMITTED" /\ \A f \in Effects : TargetOf[f] = TargetOf[e] /\ StateOf(f) = "COMMITTED"
                                                           => LastIndex(f) <= LastIndex(e)
    BY <1>1, <1>3
  <2>2. CASE target[TargetOf[e]] = Proposed[e]
    BY <2>2
  <2>3. CASE \E f \in applied : TargetOf[f] = TargetOf[e] /\ ~Resolved(f) /\ target[TargetOf[e]] = Proposed[f]
    <3>. PICK f \in applied : TargetOf[f] = TargetOf[e] /\ ~Resolved(f) /\ target[TargetOf[e]] = Proposed[f]
      BY <2>3
    <3>1. CASE ~Resolved(f)'
      BY <3>1
    <3>2. CASE f = c /\ state = "COMMITTED"
      <4>1. LastIndex(c)' <= LastIndex(e)' /\ LastIndex(e)' = LastIndex(e)
        BY <3>2, <1>1, <1>3
      <4>2. LastIndex(e) \in 1 .. Len(journal) /\ Len(journal) \in Nat
        <5>1. Journaled(e)
          BY <2>1 DEF StateOf
        <5>. QED
          BY <5>1, LastIndexIn DEF Indices, TypeInv, JournalTyped
      <4>. QED
        BY <4>1, <4>2, <1>1
    <3>. QED
      BY <3>1, <3>2, <1>1
  <2>. QED
    BY <2>1, <2>2, <2>3 DEF CommittedHeadStands
<1>. QED
  BY <1>2, <1>3

\* The rename puts the bytes of the effect in progress, which is begun, in its target.
LEMMA BegunReplaced ==
    ASSUME TypeInv, SafetyInv, OpenInv, BegunHolds, WorkHolds, CommittedHeadStands, Replace,
           edits = 0, failures = 0
    PROVE  BegunHolds' /\ CommittedHeadStands' /\ Begun(cur) /\ Landed(cur)' /\ \A e : Begun(e)' <=> Begun(e)
<1>1. /\ cur \in Effects /\ cur' = cur /\ applied' = applied \cup {cur} /\ UNCHANGED <<journal, arch>>
      /\ target' = [target EXCEPT ![TargetOf[cur]] = Proposed[cur]]
      /\ TargetOf[cur] \in Targets /\ target \in [Targets -> Contents] /\ arch \in [Effects -> ArchiveSteps]
      /\ arch[cur] >= Bound
      /\ mode \in {"execute", "recover"} /\ pc = "replace"
  BY PlanAssumption DEF Replace, TypeInv, ControlTyped, VaultTyped, WorkTyped, SafetyInv, ArchivedWhenLate, LateSteps
<1>2. Begun(cur)
  <2>1. Journaled(cur) /\ ~Resolved(cur)
    BY <1>1 DEF OpenInv, OpenHolds, WorkSteps, Unsealed
  <2>2. arch[cur] > 0
    BY <1>1 DEF Bound, ArchiveSteps
  <2>. QED
    BY <2>1, <2>2 DEF Begun
<1>3. \A e : (Begun(e)' <=> Begun(e)) /\ (Landed(e)' <=> Landed(e) \/ e = cur)
  BY <1>1, JournalKept DEF Begun, Landed
<1>4. \A e \in Effects : Begun(e) => e = cur
  BY <1>1, <1>2 DEF BegunHolds
<1>5. BegunHolds'
  <2>1. \A e \in Effects : Begun(e)' => target'[TargetOf[e]] = IF Landed(e)' THEN Proposed[e] ELSE Prior[e]
    BY <1>1, <1>3, <1>4
  <2>2. \A e, f \in Effects : Begun(e)' /\ Begun(f)' => e = f
    BY <1>3, <1>4
  <2>3. ASSUME NEW e \in Effects
        PROVE  /\ arch'[e] > 0 => Journaled(e)'
               /\ StateOf(e)' = "RECOVERY_REQUIRED" /\ ReasonOf(e)' = "EXECUTION_FAILURE" => arch'[e] = 0
               /\ Landed(e)' => StateOf(e)' \notin {"STALE", "ABORTED"}
    BY <1>1, <1>2, <1>3, JournalKept DEF BegunHolds, Begun, Resolved
  <2>. QED
    BY <2>1, <2>2, <2>3 DEF BegunHolds
<1>6. CommittedHeadStands'
  <2>. SUFFICES ASSUME NEW e \in Effects, StateOf(e)' = "COMMITTED",
                       \A f \in Effects : TargetOf[f] = TargetOf[e] /\ StateOf(f)' = "COMMITTED"
                                              => LastIndex(f)' <= LastIndex(e)'
                PROVE  \/ target'[TargetOf[e]] = Proposed[e]
                       \/ \E f \in applied' : /\ TargetOf[f] = TargetOf[e] /\ ~Resolved(f)'
                                              /\ target'[TargetOf[e]] = Proposed[f]
    BY DEF CommittedHeadStands
  <2>1. CASE TargetOf[e] = TargetOf[cur]
    <3>1. ~Resolved(cur)' /\ target'[TargetOf[e]] = Proposed[cur]
      BY <2>1, <1>1, <1>2, JournalKept DEF Begun
    <3>2. PICK c : c = cur
      OBVIOUS
    <3>3. c \in applied' /\ TargetOf[c] = TargetOf[e] /\ ~Resolved(c)' /\ target'[TargetOf[e]] = Proposed[c]
      BY <3>1, <3>2, <2>1, <1>1
    <3>. QED
      BY <3>3
  <2>2. CASE TargetOf[e] # TargetOf[cur]
    <3>1. target'[TargetOf[e]] = target[TargetOf[e]]
      BY <2>2, <1>1, PlanAssumption
    <3>2. \/ target[TargetOf[e]] = Proposed[e]
          \/ \E f \in applied : TargetOf[f] = TargetOf[e] /\ ~Resolved(f) /\ target[TargetOf[e]] = Proposed[f]
      BY <1>1, JournalKept DEF CommittedHeadStands
    <3>. QED
      BY <3>1, <3>2, <1>1, JournalKept
  <2>. QED
    BY <2>1, <2>2
<1>. QED
  BY <1>1, <1>2, <1>3, <1>5, <1>6

\* An entry is all that an append adds to the states an effect has been in.
LEMMA EverAppended ==
    ASSUME JournalTyped, NEW c \in Effects, cur = c,
           NEW state \in JournalStates, NEW reason \in Reasons,
           NEW receipt \in Receipt \cup {NoReceipt}, AppendEntry(state, reason, receipt)
    PROVE  \A e, states : EverIn(e, states)' <=> EverIn(e, states) \/ (e = c /\ state \in states)
BY JournalAppended

\* A VERIFIED entry shows that its effect has landed.
LEMMA VerifiedLands ==
    ASSUME TypeInv, cur \in Effects, cur' = cur, NEW reason \in Reasons,
           AppendEntry("VERIFIED", reason, NoReceipt)
    PROVE  Landed(cur)'
<1>1. PICK c \in Effects : c = cur
  OBVIOUS
<1>2. "VERIFIED" \in JournalStates
  BY DEF JournalStates
<1>3. \A e, states : EverIn(e, states)' <=> EverIn(e, states) \/ (e = c /\ "VERIFIED" \in states)
  BY <1>1, <1>2, EverAppended DEF TypeInv
<1>. QED
  BY <1>1, <1>3 DEF Landed

\* What is in doubt has no place among the begun effects while writes are enabled.
LEMMA NothingElseBegun ==
    ASSUME TypeInv, OpenInv, DoubtHolds, BegunHolds, checked, ~latched,
           NEW e \in Effects, ~InDoubt(e), Journaled(e), ~Resolved(e)
    PROVE  arch[e] = 0 /\ StateOf(e) = "RECOVERY_REQUIRED"
<1>1. SealOf(e) # NoReceipt /\ ReasonOf(e) \notin Blocking
  BY DEF InDoubt, Unsealed
<1>2. StateOf(e) = "RECOVERY_REQUIRED" /\ ReasonOf(e) = "EXECUTION_FAILURE"
  BY <1>1, SealedOutcome DEF OpenInv, ReasonsHold, TypeInv, Resolved, Outcomes, ReasonOfOutcome
<1>. QED
  BY <1>2 DEF BegunHolds

\* An effect that landed had its before image archived.
LEMMA LandedArchived ==
    ASSUME TypeInv, SafetyInv, NEW e \in Effects, Landed(e)
    PROVE  arch[e] >= Bound /\ arch[e] > 0 /\ arch[e] # 0
<1>1. arch[e] >= Bound
  BY DEF Landed, SafetyInv, BeforeImageArchived, EverIn
<1>2. arch[e] \in 0 .. 6
  BY DEF TypeInv, WorkTyped, ArchiveSteps
<1>. QED
  BY <1>1, <1>2 DEF Bound

\* The archive grows for the one effect that is begun.
LEMMA BegunArchived ==
    ASSUME TypeInv, SafetyInv, OpenInv, DoubtHolds, BegunHolds, WorkHolds, ArchiveBefore \/ WriteArchiveAfter
    PROVE  BegunHolds' /\ \A e : Landed(e)' <=> Landed(e)
<1>1. /\ cur \in Effects /\ cur' = cur /\ UNCHANGED <<journal, target, applied>>
      /\ \A e \in Effects : e # cur => arch'[e] = arch[e]
      /\ arch[cur] > 0 => arch'[cur] > 0
      /\ (pc = "archive" /\ mode = "execute") \/ pc = "after"
  <2>1. cur \in Effects /\ arch \in [Effects -> 0 .. 6]
    BY DEF ArchiveBefore, WriteArchiveAfter, Executing, TypeInv, ControlTyped, WorkTyped, ArchiveSteps
  <2>2. PICK step \in {3, 6} : arch' = [arch EXCEPT ![cur] = IF @ < step THEN @ + 1 ELSE @]
    BY DEF ArchiveBefore, WriteArchiveAfter, Bound, Complete
  <2>3. arch'[cur] = (IF arch[cur] < step THEN arch[cur] + 1 ELSE arch[cur]) /\ arch[cur] \in 0 .. 6
    BY <2>1, <2>2
  <2>4. arch[cur] > 0 => arch'[cur] > 0
    BY <2>3
  <2>5. \A e \in Effects : e # cur => arch'[e] = arch[e]
    BY <2>1, <2>2
  <2>6. cur' = cur /\ UNCHANGED <<journal, target, applied>>
    BY DEF ArchiveBefore, WriteArchiveAfter, ghostVars
  <2>. QED
    BY <2>1, <2>4, <2>5, <2>6 DEF ArchiveBefore, WriteArchiveAfter, Executing
<1>2. \A e : (Landed(e)' <=> Landed(e)) /\ (Journaled(e)' <=> Journaled(e)) /\ (Resolved(e)' <=> Resolved(e))
  BY <1>1, JournalKept DEF Landed
<1>3. Journaled(cur) /\ ~Resolved(cur) /\ StateOf(cur) # "RECOVERY_REQUIRED"
  BY <1>1 DEF OpenInv, OpenHolds, WorkSteps, EarlySteps, Unsealed
<1>4. ASSUME NEW e \in Effects, Begun(e) PROVE e = cur
  <2>1. CASE pc = "after"
    <3>1. arch[cur] >= Bound /\ arch[cur] \in 0 .. 6
      BY <2>1, <1>1 DEF SafetyInv, ArchivedWhenLate, LateSteps, TypeInv, WorkTyped, ArchiveSteps
    <3>2. Begun(cur)
      BY <3>1, <1>3 DEF Begun, Bound
    <3>. QED
      BY <3>2, <1>1, <1>4 DEF BegunHolds
  <2>2. CASE pc = "archive" /\ mode = "execute"
    <3>1. e # cur => ~InDoubt(e) /\ checked /\ ~latched
      BY <2>2 DEF DoubtHolds
    <3>2. e # cur => arch[e] = 0
      BY <3>1, <1>4, NothingElseBegun DEF Begun
    <3>. QED
      BY <3>2, <1>4 DEF Begun
  <2>. QED
    BY <2>1, <2>2, <1>1
<1>5. \A e \in Effects : Begun(e)' => e = cur
  BY <1>1, <1>2, <1>4 DEF Begun
<1>6. target[TargetOf[cur]] = IF Landed(cur) THEN Proposed[cur] ELSE Prior[cur]
  <2>1. CASE pc = "after"
    <3>1. arch[cur] >= Bound /\ arch[cur] \in 0 .. 6
      BY <2>1, <1>1 DEF SafetyInv, ArchivedWhenLate, LateSteps, TypeInv, WorkTyped, ArchiveSteps
    <3>. QED
      BY <3>1, <1>1, <1>3 DEF Begun, Bound, BegunHolds
  <2>2. CASE pc = "archive" /\ mode = "execute"
    BY <2>2 DEF WorkHolds
  <2>. QED
    BY <2>1, <2>2, <1>1
<1>7. ASSUME NEW e \in Effects
      PROVE  /\ Begun(e)' => target'[TargetOf[e]] = IF Landed(e)' THEN Proposed[e] ELSE Prior[e]
             /\ arch'[e] > 0 => Journaled(e)'
             /\ StateOf(e)' = "RECOVERY_REQUIRED" /\ ReasonOf(e)' = "EXECUTION_FAILURE" => arch'[e] = 0
             /\ Landed(e)' => StateOf(e)' \notin {"STALE", "ABORTED"}
  <2>1. CASE e = cur
    BY <2>1, <1>1, <1>2, <1>3, <1>6, JournalKept DEF Resolved
  <2>2. CASE e # cur
    BY <2>2, <1>1, <1>2, <1>5, JournalKept DEF BegunHolds
  <2>. QED
    BY <2>1, <2>2
<1>. QED
  BY <1>1, <1>2, <1>5, <1>7 DEF BegunHolds


\* The steps WorkHolds speaks of.
LEMMA WorkStep ==
    ASSUME TypeInv, SafetyInv, CommitInv, OpenInv, AliasHolds, DoubtHolds, BegunHolds, WorkHolds,
           [Next]_vars, edits' = 0, failures' = 0
    PROVE  WorkHolds'
<1>i. /\ EntriesReasoned /\ ReasonOfOutcome(out.state, out.reason) /\ OpenHolds /\ OutcomeBacked
      /\ mode \in {"execute", "recover"} /\ (pc \notin {"idle", "next"} => cur \in Effects)
      /\ out \in Outcome /\ JournalTyped /\ failures = 0 /\ WorkHolds
      /\ arch \in [Effects -> 0 .. 6]
  BY FailuresCounted DEF OpenInv, ReasonsHold, CommitInv, TypeInv, ControlTyped, WorkTyped, ArchiveSteps
<1>z. ASSUME NEW e \in Effects, arch[e] = 0 PROVE ~Landed(e)
  BY <1>z, LandedArchived
<1>c. ASSUME Open, target[TargetOf[cur]] # Proposed[cur] PROVE ~Landed(cur)
  <2>1. cur \in Effects /\ Journaled(cur) /\ ~Resolved(cur)
    BY <1>c, <1>i DEF Open, Recovering, OpenHolds, Resolved
  <2>2. Landed(cur) => Begun(cur)
    BY <2>1, LandedArchived DEF Begun
  <2>. QED
    BY <2>1, <2>2, <1>c DEF BegunHolds
<1>1. ASSUME NEW e \in Effects, Admit(e) PROVE WorkHolds'
  <2>1. /\ UNCHANGED <<journal, target, applied, arch>> /\ pc' = "RECEIVED" /\ cur' = e /\ mode' = "execute"
        /\ pc = "idle" /\ checked /\ ~latched /\ (~Journaled(e) \/ StateOf(e) = "RECOVERY_REQUIRED")
    BY <1>1 DEF Admit, MayAttempt, Goto, ghostVars
  <2>2. arch[e] = 0
    <3>1. CASE ~Journaled(e)
      BY <3>1, <1>i DEF BegunHolds
    <3>2. CASE StateOf(e) = "RECOVERY_REQUIRED"
      <4>1. ~InDoubt(e) /\ Journaled(e) /\ ~Resolved(e)
        BY <2>1, <3>2, <1>i DEF DoubtHolds, StateOf, Resolved
      <4>. QED
        BY <4>1, <2>1, NothingElseBegun
    <3>. QED
      BY <2>1, <3>1, <3>2
  <2>. QED
    BY <2>1, <2>2 DEF WorkHolds, RecordSteps, ReceiptSteps
<1>2. ASSUME AcquireTargetLock PROVE WorkHolds'
  <2>1. UNCHANGED <<journal, target, applied, arch, mode, cur>>
    BY <1>2 DEF AcquireTargetLock, Catch, ghostVars
  <2>2. cur \in Effects /\ arch[cur] = 0 /\ ~Resolved(cur) /\ ~Landed(cur) /\ mode = "execute"
    BY <1>2, <1>i, <1>z DEF AcquireTargetLock, Executing, WorkHolds, OpenHolds, WorkSteps, EarlySteps
  <2>. QED
    BY <1>2, <2>1, <2>2, BegunKept, JournalKept DEF AcquireTargetLock, Catch, Executing, Decide, Goto, WorkHolds, RecordSteps, ReceiptSteps, NoChange
<1>3. ASSUME ValidatePreconditions PROVE WorkHolds'
  <2>1. UNCHANGED <<journal, target, applied, arch, mode, cur>>
    BY <1>3 DEF ValidatePreconditions, Catch, ghostVars
  <2>2. cur \in Effects /\ arch[cur] = 0 /\ ~Resolved(cur) /\ ~Landed(cur) /\ mode = "execute"
    BY <1>3, <1>i, <1>z DEF ValidatePreconditions, Executing, WorkHolds, OpenHolds, WorkSteps, EarlySteps
  <2>. QED
    BY <1>3, <2>1, <2>2, BegunKept, JournalKept DEF ValidatePreconditions, Executing, Decide, Goto, WorkHolds, RecordSteps, ReceiptSteps, NoChange
<1>4. ASSUME CompareTarget PROVE WorkHolds'
  <2>1. UNCHANGED <<journal, target, applied, arch, mode, cur>>
    BY <1>4 DEF CompareTarget, Catch, ghostVars
  <2>2. cur \in Effects /\ arch[cur] = 0 /\ ~Resolved(cur) /\ ~Landed(cur) /\ mode = "execute"
    BY <1>4, <1>i, <1>z DEF CompareTarget, Executing, WorkHolds, OpenHolds, WorkSteps, EarlySteps
  <2>. QED
    BY <1>4, <2>1, <2>2, BegunKept, JournalKept DEF CompareTarget, Executing, Decide, Goto, WorkHolds, RecordSteps, ReceiptSteps, NoChange
<1>5. ASSUME StageTemporary PROVE WorkHolds'
  <2>1. UNCHANGED <<journal, target, applied, arch>>
    BY <1>5 DEF StageTemporary, Executing, ghostVars
  <2>. QED
    BY <1>5, <1>i, <2>1, BegunKept, JournalKept DEF StageTemporary, Executing, Goto, boundVars, ghostVars, WorkHolds, RecordSteps, ReceiptSteps
<1>6. ASSUME RecheckTarget PROVE WorkHolds'
  <2>1. UNCHANGED <<journal, target, applied, arch>>
    BY <1>6 DEF RecheckTarget, Executing, Decide, ghostVars
  <2>. QED
    BY <1>6, <1>i, <2>1, BegunKept, JournalKept DEF RecheckTarget, Executing, Decide, Goto, boundVars, ghostVars, WorkHolds, RecordSteps, ReceiptSteps
<1>7. ASSUME WriteCheckpoint PROVE WorkHolds'
  <2>1. UNCHANGED <<journal, target, applied, arch>>
    BY <1>7 DEF WriteCheckpoint, Executing, ghostVars
  <2>. QED
    BY <1>7, <1>i, <2>1, BegunKept, JournalKept DEF WriteCheckpoint, Executing, Goto, boundVars, ghostVars, WorkHolds, RecordSteps, ReceiptSteps
<1>8. ASSUME ReleaseTargetLock PROVE WorkHolds'
  <2>1. UNCHANGED <<journal, target, applied, arch>>
    BY <1>8 DEF ReleaseTargetLock, Executing, Rest, ghostVars
  <2>. QED
    BY <1>8, <1>i, <2>1, BegunKept, JournalKept DEF ReleaseTargetLock, Executing, Rest, Goto, boundVars, ghostVars, WorkHolds, RecordSteps, ReceiptSteps
<1>9. ASSUME PublishReceipt PROVE WorkHolds'
  <2>1. UNCHANGED <<journal, target, applied, arch>>
    BY <1>9 DEF PublishReceipt, ghostVars
  <2>. QED
    BY <1>9, <1>i, <2>1, BegunKept, JournalKept DEF PublishReceipt, Goto, boundVars, ghostVars, WorkHolds, RecordSteps, ReceiptSteps
<1>10. ASSUME StartRecovery PROVE WorkHolds'
  <2>1. UNCHANGED <<journal, target, applied, arch>>
    BY <1>10 DEF StartRecovery, ghostVars
  <2>. QED
    BY <1>10, <1>i, <2>1, BegunKept, JournalKept DEF StartRecovery, Goto, boundVars, ghostVars, WorkHolds, RecordSteps, ReceiptSteps
<1>11. ASSUME FinishRecovery PROVE WorkHolds'
  <2>1. UNCHANGED <<journal, target, applied, arch>>
    BY <1>11 DEF FinishRecovery, Rest, ghostVars
  <2>. QED
    BY <1>11, <1>i, <2>1, BegunKept, JournalKept DEF FinishRecovery, Rest, Goto, boundVars, ghostVars, WorkHolds, RecordSteps, ReceiptSteps
<1>12. ASSUME NEW e \in Effects, RecoverCommitted(e) PROVE WorkHolds'
  <2>1. UNCHANGED <<journal, target, applied, arch>>
    BY <1>12 DEF RecoverCommitted, ghostVars
  <2>. QED
    BY <1>12, <1>i, <2>1, BegunKept, JournalKept DEF RecoverCommitted, Goto, boundVars, ghostVars, WorkHolds, RecordSteps, ReceiptSteps
<1>13. ASSUME NEW e \in Effects, CleanupStaleTargetLock(e) PROVE WorkHolds'
  <2>1. UNCHANGED <<journal, target, applied, arch>>
    BY <1>13 DEF CleanupStaleTargetLock, IsNext, Recovering, ghostVars
  <2>. QED
    BY <1>13, <1>i, <2>1, BegunKept, JournalKept DEF CleanupStaleTargetLock, IsNext, Recovering, Goto, boundVars, ghostVars, WorkHolds, RecordSteps, ReceiptSteps
<1>14. ASSUME NEW e \in Effects, RefuseEvidence(e) PROVE WorkHolds'
  <2>1. UNCHANGED <<journal, target, applied, arch>>
    BY <1>14 DEF RefuseEvidence, RecoveryThrows, Rest, ghostVars
  <2>. QED
    BY <1>14, <1>i, <2>1, BegunKept, JournalKept DEF RefuseEvidence, RecoveryThrows, Rest, Goto, boundVars, ghostVars, WorkHolds, RecordSteps, ReceiptSteps
<1>15. ASSUME RefuseTerminalReceipt PROVE WorkHolds'
  <2>1. UNCHANGED <<journal, target, applied, arch>>
    BY <1>15 DEF RefuseTerminalReceipt, RecoveryThrows, Rest, ghostVars
  <2>. QED
    BY <1>15, <1>i, <2>1, BegunKept, JournalKept DEF RefuseTerminalReceipt, RecoveryThrows, Rest, Goto, boundVars, ghostVars, WorkHolds, RecordSteps, ReceiptSteps
<1>16. ASSUME RecoverRefused PROVE WorkHolds'
  <2>1. UNCHANGED <<journal, target, applied, arch>>
    BY <1>16 DEF RecoverRefused, ClassifyUnchanged, ghostVars
  <2>. QED
    BY <1>16, <1>i, <2>1, BegunKept, JournalKept DEF RecoverRefused, ClassifyUnchanged, Goto, boundVars, ghostVars, WorkHolds, RecordSteps, ReceiptSteps
<1>17. ASSUME RecoverNoChange PROVE WorkHolds'
  <2>1. UNCHANGED <<journal, target, applied, arch, mode, cur>> /\ mode = "recover"
    BY <1>17 DEF RecoverNoChange, Open, Recovering, ClassifyUnchanged, ghostVars
  <2>2. pc' \in {"audit", "next"} /\ target[TargetOf[cur]] = Proposed[cur]
    BY <1>17 DEF RecoverNoChange, NoChangeUnfinished, AfterImage, Goto
  <2>. QED
    BY <2>1, <2>2, BegunKept DEF WorkHolds, RecordSteps, ReceiptSteps
<1>18. ASSUME RecoverPrepared PROVE WorkHolds'
  <2>1. UNCHANGED <<journal, target, applied, arch, mode, cur>> /\ mode = "recover"
    BY <1>18 DEF RecoverPrepared, Open, Recovering, ClassifyUnchanged, ghostVars
  <2>2. ~Landed(cur)
    BY <1>18, <1>c DEF RecoverPrepared, BeforeImage, AfterImage
  <2>. QED
    BY <1>18, <2>1, <2>2, BegunKept, JournalKept DEF RecoverPrepared, Decide, Goto, WorkHolds, RecordSteps, ReceiptSteps
<1>19. ASSUME RecoverArchiveInvalid PROVE WorkHolds'
  <2>1. UNCHANGED <<journal, target, applied, arch>>
    BY <1>19 DEF RecoverArchiveInvalid, ClassifyUnchanged, Decide, Open, Recovering, ghostVars
  <2>. QED
    BY <1>19, <1>i, <2>1, BegunKept, JournalKept DEF RecoverArchiveInvalid, ClassifyUnchanged, Decide, Open, Recovering, Goto, boundVars, ghostVars, WorkHolds, RecordSteps, ReceiptSteps
<1>20. ASSUME RecoverReplan PROVE WorkHolds'
  <2>1. UNCHANGED <<journal, target, applied, arch>>
    BY <1>20 DEF RecoverReplan, ClassifyUnchanged, Decide, Open, Recovering, ghostVars
  <2>. QED
    BY <1>20, <1>i, <2>1, BegunKept, JournalKept DEF RecoverReplan, ClassifyUnchanged, Decide, Open, Recovering, Goto, boundVars, ghostVars, WorkHolds, RecordSteps, ReceiptSteps
<1>21. ASSUME RecoverConflict PROVE WorkHolds'
  <2>1. UNCHANGED <<journal, target, applied, arch, mode, cur>> /\ mode = "recover"
    BY <1>21 DEF RecoverConflict, Open, Recovering, ClassifyUnchanged, ghostVars
  <2>2. ~Landed(cur)
    BY <1>21, <1>c DEF RecoverConflict, BeforeImage, AfterImage
  <2>. QED
    BY <1>21, <2>1, <2>2, BegunKept, JournalKept DEF RecoverConflict, Decide, Goto, WorkHolds, RecordSteps, ReceiptSteps
<1>22. ASSUME RemoveTemporary PROVE WorkHolds'
  <2>1. UNCHANGED <<journal, target, applied, arch>>
    BY <1>22 DEF RemoveTemporary, Recovering, ghostVars
  <2>. QED
    BY <1>22, <1>i, <2>1, BegunKept, JournalKept DEF RemoveTemporary, Recovering, Goto, boundVars, ghostVars, WorkHolds, RecordSteps, ReceiptSteps
<1>23. ASSUME Crash PROVE WorkHolds'
  <2>1. UNCHANGED <<journal, target, applied, arch>>
    BY <1>23 DEF Crash, NewProcess, Rest, ghostVars
  <2>. QED
    BY <1>23, <1>i, <2>1, BegunKept, JournalKept DEF Crash, NewProcess, Rest, Goto, boundVars, ghostVars, WorkHolds, RecordSteps, ReceiptSteps
<1>24. ASSUME Shutdown PROVE WorkHolds'
  <2>1. UNCHANGED <<journal, target, applied, arch>>
    BY <1>24 DEF Shutdown, NewProcess, Rest, ghostVars
  <2>. QED
    BY <1>24, <1>i, <2>1, BegunKept, JournalKept DEF Shutdown, NewProcess, Rest, Goto, boundVars, ghostVars, WorkHolds, RecordSteps, ReceiptSteps
<1>25. ASSUME ArchiveBefore PROVE WorkHolds'
  <2>1. /\ UNCHANGED <<journal, target, applied, mode, cur>> /\ mode = "execute" /\ pc = "archive"
        /\ pc' \in {"archive", "applying"}
    BY <1>25 DEF ArchiveBefore, Executing, Goto, ghostVars
  <2>2. \A e : Landed(e)' <=> Landed(e)
    BY <1>25, BegunArchived
  <2>. QED
    BY <2>1, <2>2, <1>i DEF WorkHolds, RecordSteps, ReceiptSteps
<1>26. ASSUME WriteArchiveAfter PROVE WorkHolds'
  <2>1. /\ UNCHANGED <<journal, target, applied, mode, cur, out>> /\ pc = "after" /\ out.state = "COMMITTED"
        /\ pc' \in {"after", "receipt"} /\ cur \in Effects
    BY <1>26, <1>i DEF WriteArchiveAfter, Goto, ghostVars, OutcomeBacked, ReplaceProved
  <2>2. Landed(cur) /\ \A e : Landed(e)' <=> Landed(e)
    BY <1>26, <2>1, <1>i, BegunArchived DEF WorkHolds
  <2>3. target[TargetOf[cur]] = Proposed[cur]
    <3>1. Begun(cur)
      BY <2>1, <2>2, <1>i, LandedArchived DEF Begun, OpenHolds, Unsealed
    <3>. QED
      BY <3>1, <2>1, <2>2 DEF BegunHolds
  <2>. QED
    BY <2>1, <2>2, <2>3 DEF WorkHolds, RecordSteps, ReceiptSteps
<1>27. ASSUME Replace PROVE WorkHolds'
  <2>1. Landed(cur)' /\ pc' = "verify"
    BY <1>27, <1>i DEF Replace, Landed, Goto
  <2>. QED
    BY <2>1 DEF WorkHolds, RecordSteps, ReceiptSteps
<1>28. ASSUME PersistNoChangeAudit PROVE WorkHolds'
  <2>1. UNCHANGED <<journal, target, applied, arch>> /\ pc = "audit" /\ out.state = "COMMITTED" /\ ~Catching
    BY <1>28, <1>i DEF PersistNoChangeAudit, OutcomeBacked, Catching
  <2>2. CASE Throw(TRUE)
    <3>1. CASE Catch /\ UNCHANGED <<mode, cur>> /\ mode = "execute"
      <4>1. pc' = "mark" /\ out'.state = "RECOVERY_REQUIRED" /\ arch[cur] = 0 /\ ~Resolved(cur)
        BY <3>1, <2>1, <1>i DEF Catch, Decide, Goto, WorkHolds, OpenHolds
      <4>. QED
        BY <4>1, <3>1, <2>1, JournalKept DEF WorkHolds, RecordSteps, ReceiptSteps
    <3>2. CASE RecoveryThrows(TRUE)
      <4>1. pc' = "idle"
        BY <3>2, Zenon DEF RecoveryThrows, Rest
      <4>. QED
        BY <4>1 DEF WorkHolds, RecordSteps, ReceiptSteps
    <3>. QED
      BY <2>1, <2>2, <3>1, <3>2, Zenon DEF Throw
  <2>3. CASE pc' = "receipt" /\ UNCHANGED <<mode, cur, out>>
    BY <2>1, <2>3, <1>i DEF WorkHolds, RecordSteps, ReceiptSteps
  <2>. QED
    BY <1>28, <2>2, <2>3, Zenon DEF PersistNoChangeAudit, Goto
<1>29. ASSUME WriteReceipt PROVE WorkHolds'
  <2>1. UNCHANGED <<journal, target, applied, arch>> /\ pc = "receipt"
    BY <1>29 DEF WriteReceipt
  <2>2. CASE Throw(TRUE) /\ ~AliasReplaceable(ThisReceipt)
    <3>1. mode = "recover"
      BY <2>1, <2>2, <1>i DEF AliasHolds, AliasReplaceable
    <3>2. pc' = "idle"
      BY <2>2, <3>1, Zenon DEF Throw, RecoveryThrows, Rest
    <3>. QED
      BY <3>2 DEF WorkHolds, RecordSteps, ReceiptSteps
  <2>3. CASE pc' \in {"alias", "seal"} /\ UNCHANGED <<mode, cur, out>>
    BY <2>1, <2>3, <1>i, BegunKept DEF WorkHolds, RecordSteps, ReceiptSteps
  <2>. QED
    BY <1>29, <2>2, <2>3, Zenon DEF WriteReceipt, Goto
<1>30. ASSUME AppendAdmission PROVE WorkHolds'
  <2>1. UNCHANGED <<arch, mode, cur>> /\ mode = "execute" /\ arch[cur] = 0 /\ pc' \in {"PLANNED", "PREPARED", "lock"}
    BY <1>30, <1>i DEF AppendAdmission, Goto, WorkHolds
  <2>. QED
    BY <2>1 DEF WorkHolds, RecordSteps, ReceiptSteps
<1>31. ASSUME AppendApplying PROVE WorkHolds'
  <2>1. /\ UNCHANGED <<arch, mode, cur, target, applied>> /\ mode = "execute" /\ pc = "applying" /\ pc' = "clear"
        /\ AppendEntry("APPLYING", "", NoReceipt) /\ cur \in Effects
    BY <1>31, <1>i DEF AppendApplying, Executing, Goto, ghostVars
  <2>2. target[TargetOf[cur]] = Prior[cur] /\ ~Landed(cur)
    BY <2>1, <1>i DEF WorkHolds
  <2>3. PICK c \in Effects : c = cur
    BY <2>1
  <2>4. EverIn(c, {"VERIFIED"})' <=> EverIn(c, {"VERIFIED"})
    <3>1. "APPLYING" \in JournalStates /\ "" \in Reasons
      BY DEF JournalStates, Reasons
    <3>2. \A e, states : EverIn(e, states)' <=> EverIn(e, states) \/ (e = c /\ "APPLYING" \in states)
      BY <2>1, <2>3, <3>1, <1>i, EverAppended
    <3>. QED
      BY <3>2
  <2>5. ~Landed(cur)'
    BY <2>1, <2>2, <2>3, <2>4 DEF Landed
  <2>. QED
    BY <2>1, <2>2, <2>5 DEF WorkHolds, RecordSteps, ReceiptSteps
<1>32. ASSUME MarkOutcome PROVE WorkHolds'
  <2>1. /\ UNCHANGED <<target, applied, arch, mode, cur, out>> /\ pc = "mark" /\ pc' = "receipt"
        /\ AppendEntry(out.state, out.reason, NoReceipt) /\ cur \in Effects /\ out.state # "COMMITTED"
    BY <1>32, <1>i DEF MarkOutcome, Goto, ghostVars, OutcomeBacked
  <2>2. PICK c \in Effects, state \in JournalStates, reason \in Reasons :
            c = cur /\ state = out.state /\ reason = out.reason /\ state # "VERIFIED"
    BY <2>1, <1>i DEF Outcome, Outcomes, JournalStates
  <2>3. \A e, states : EverIn(e, states)' <=> EverIn(e, states) \/ (e = c /\ state \in states)
    BY <2>1, <2>2, <1>i, EverAppended
  <2>4. Landed(cur)' <=> Landed(cur)
    BY <2>1, <2>2, <2>3 DEF Landed
  <2>. QED
    BY <2>1, <2>4, <1>i DEF WorkHolds, RecordSteps, ReceiptSteps
<1>33. ASSUME SealOutcome PROVE WorkHolds'
  <2>1. pc' \in {"checkpoint", "unlock", "clean", "next"}
    BY <1>33, <1>i DEF SealOutcome, Goto, AfterSeal
  <2>. QED
    BY <2>1 DEF WorkHolds, RecordSteps, ReceiptSteps
<1>34. ASSUME VerifyExecuted PROVE WorkHolds'
  <2>1. cur \in Effects /\ cur' = cur /\ pc = "verify" /\ mode = "execute"
    BY <1>34, <1>i DEF VerifyExecuted, Executing
  <2>2. target[TargetOf[cur]] = Proposed[cur]
    <3>1. Landed(cur) /\ Journaled(cur) /\ ~Resolved(cur)
      BY <2>1, <1>i DEF WorkHolds, OpenHolds, WorkSteps, Unsealed
    <3>2. Begun(cur)
      BY <2>1, <3>1, LandedArchived DEF Begun
    <3>. QED
      BY <2>1, <3>1, <3>2 DEF BegunHolds
  <2>3. AppendEntry("VERIFIED", "", NoReceipt) /\ pc' = "after" /\ "" \in Reasons
    BY <1>34, <2>2 DEF VerifyExecuted, Goto, Reasons
  <2>. QED
    BY <2>1, <2>3, VerifiedLands DEF WorkHolds, RecordSteps, ReceiptSteps
<1>35. ASSUME VerifyRecovered PROVE WorkHolds'
  <2>1. CASE AppendEntry("VERIFIED", "RECOVERY_APPLIED_PREPARED_TEMP", NoReceipt) /\ Goto("after") /\ cur' = cur
    <3>1. "RECOVERY_APPLIED_PREPARED_TEMP" \in Reasons /\ cur \in Effects
      BY <1>35, <1>i DEF VerifyRecovered, Recovering, Reasons
    <3>. QED
      BY <2>1, <3>1, VerifiedLands DEF WorkHolds, RecordSteps, ReceiptSteps, Goto
  <2>2. CASE RecoveryThrows(FALSE)
    <3>1. pc' = "idle"
      BY <2>2, Zenon DEF RecoveryThrows, Rest
    <3>. QED
      BY <3>1 DEF WorkHolds, RecordSteps, ReceiptSteps
  <2>. QED
    BY <1>35, <2>1, <2>2, Zenon DEF VerifyRecovered
<1>36. ASSUME RecoverAfterImage PROVE WorkHolds'
  <2>1. cur \in Effects /\ cur' = cur /\ pc' = "after" /\ UNCHANGED applied
    BY <1>36, <1>i DEF RecoverAfterImage, Open, Recovering, ClassifyUnchanged, Goto
  <2>2. CASE StateOf(cur) = "VERIFIED" /\ UNCHANGED journal
    <3>1. Landed(cur)
      BY <2>2, <1>i, VerifiedStateOf DEF Landed
    <3>2. Landed(cur)'
      BY <2>1, <2>2, <3>1, JournalKept DEF Landed
    <3>. QED
      BY <2>1, <3>2 DEF WorkHolds, RecordSteps, ReceiptSteps
  <2>3. CASE AppendEntry("VERIFIED", "RECOVERY_VERIFIED_AFTER_IMAGE", NoReceipt)
    <3>1. "RECOVERY_VERIFIED_AFTER_IMAGE" \in Reasons
      BY DEF Reasons
    <3>. QED
      BY <2>1, <2>3, <3>1, VerifiedLands DEF WorkHolds, RecordSteps, ReceiptSteps
  <2>. QED
    BY <1>36, <2>2, <2>3 DEF RecoverAfterImage
<1>37. CASE UNCHANGED vars
  <2>1. UNCHANGED <<journal, target, applied, arch, pc, mode, cur, out>>
    BY <1>37 DEF vars, ghostVars
  <2>. QED
    BY <2>1, <1>i, BegunKept, JournalKept DEF WorkHolds
<1>38. ~IoFailure /\ ~AbandonOperation /\ \A t \in Targets, b \in Contents : ~ExternalEdit(t, b)
  <2>1. failures' # failures + 1 /\ edits' # edits + 1
    BY <1>i DEF TypeInv, BoundsTyped
  <2>. QED
    BY <2>1, Zenon DEF IoFailure, AbandonOperation, ExternalEdit
<1>. QED
  BY <1>1, <1>2, <1>3, <1>4, <1>5, <1>6, <1>7, <1>8, <1>9, <1>10, <1>11, <1>12, <1>13, <1>14,
     <1>15, <1>16, <1>17, <1>18, <1>19, <1>20, <1>21, <1>22, <1>23, <1>24, <1>25, <1>26, <1>27,
     <1>28, <1>29, <1>30, <1>31, <1>32, <1>33, <1>34, <1>35, <1>36, <1>37, <1>38
     DEF Next, Execute, Record, Recover, Environment

\* Without edits and failures the vault and the archive change by three actions only.
LEMMA VaultKept ==
    ASSUME TypeInv, [Next]_vars, edits' = 0, failures' = 0, ~Replace, ~ArchiveBefore, ~WriteArchiveAfter
    PROVE  UNCHANGED <<target, applied, arch>>
<1>1. CASE UNCHANGED vars
  BY <1>1 DEF vars, ghostVars
<1>2. CASE \E e \in Effects : Admit(e)
  BY <1>2 DEF Admit
<1>3. CASE Execute
  BY <1>3 DEF Execute, ghostVars, AppendAdmission, AcquireTargetLock, ValidatePreconditions, CompareTarget, AppendApplying,
   StageTemporary, RecheckTarget, VerifyExecuted, WriteCheckpoint,
   ReleaseTargetLock
<1>4. CASE Record
  BY <1>4 DEF Record, ghostVars, MarkOutcome, PersistNoChangeAudit, WriteReceipt, PublishReceipt, SealOutcome
<1>5. CASE Recover
  BY <1>5 DEF Recover, ghostVars, ClassifyUnchanged, StartRecovery, FinishRecovery, RecoverCommitted, CleanupStaleTargetLock,
   RefuseEvidence, RefuseTerminalReceipt, RecoverRefused, RecoverNoChange, RecoverAfterImage,
   RecoverPrepared, VerifyRecovered, RecoverArchiveInvalid, RecoverReplan, RecoverConflict,
   RemoveTemporary
<1>6. CASE Environment
  <2>1. failures' # failures + 1 /\ edits' # edits + 1
    BY DEF TypeInv, BoundsTyped
  <2>2. ~IoFailure /\ ~AbandonOperation /\ \A t \in Targets, b \in Contents : ~ExternalEdit(t, b)
    BY <2>1, Zenon DEF IoFailure, AbandonOperation, ExternalEdit
  <2>. QED
    BY <1>6, <2>2 DEF Environment, Crash, Shutdown, NewProcess
<1>. QED
  BY <1>1, <1>2, <1>3, <1>4, <1>5, <1>6 DEF Next

\* Edits are counted and never forgotten.
LEMMA EditsCounted == ASSUME TypeInv, [Next]_vars, edits' = 0 PROVE edits = 0
<1>1. UNCHANGED vars => edits' = edits
  BY DEF vars, boundVars
<1>2. (\E e \in Effects : Admit(e)) => edits' = edits
  BY DEF Admit, boundVars
<1>3. Execute => edits' = edits
  BY DEF Execute, boundVars, Replace, ArchiveBefore, WriteArchiveAfter, AppendAdmission, AcquireTargetLock, ValidatePreconditions, CompareTarget, AppendApplying,
   StageTemporary, RecheckTarget, VerifyExecuted, WriteCheckpoint,
   ReleaseTargetLock
<1>4. Record => edits' = edits
  BY DEF Record, boundVars, MarkOutcome, PersistNoChangeAudit, WriteReceipt, PublishReceipt, SealOutcome
<1>5. Recover => edits' = edits
  BY DEF Recover, boundVars, ClassifyUnchanged, StartRecovery, FinishRecovery, RecoverCommitted, CleanupStaleTargetLock,
   RefuseEvidence, RefuseTerminalReceipt, RecoverRefused, RecoverNoChange, RecoverAfterImage,
   RecoverPrepared, VerifyRecovered, RecoverArchiveInvalid, RecoverReplan, RecoverConflict,
   RemoveTemporary
<1>6. Environment => edits' = edits \/ edits' = edits + 1
  BY DEF Environment, ExternalEdit, IoFailure, AbandonOperation, Crash, Shutdown, NewProcess
<1>7. edits \in Nat
  BY DEF TypeInv, BoundsTyped
<1>. QED
  BY <1>1, <1>2, <1>3, <1>4, <1>5, <1>6, <1>7 DEF Next

\* Each step keeps the target of an unfinished effect at the bytes it found or,
\* once landed, at those it proposes; and the last commit stands.
LEMMA BegunStep ==
    ASSUME TypeInv, SafetyInv, CommitInv, OpenInv, DoubtHolds, BegunHolds, WorkHolds, CommittedHeadStands,
           [Next]_vars, edits' = 0, failures' = 0, edits = 0, failures = 0
    PROVE  BegunHolds' /\ CommittedHeadStands'
<1>1. CASE Replace
  BY <1>1, BegunReplaced
<1>2. CASE ArchiveBefore \/ WriteArchiveAfter
  <2>1. UNCHANGED <<journal, target, applied>>
    BY <1>2 DEF ArchiveBefore, WriteArchiveAfter, ghostVars
  <2>2. CommittedHeadStands'
    BY <2>1, JournalKept DEF CommittedHeadStands
  <2>. QED
    BY <1>2, <2>2, BegunArchived
<1>3. CASE ~Replace /\ ~ArchiveBefore /\ ~WriteArchiveAfter
  <2>1. UNCHANGED <<target, applied, arch>>
    BY <1>3, VaultKept
  <2>2. CASE UNCHANGED journal
    BY <2>1, <2>2, BegunKept, JournalKept DEF CommittedHeadStands
  <2>3. CASE Appends /\ journal' # journal
    <3>1. PICK c \in Effects, state \in JournalStates, reason \in Reasons, receipt \in Receipt \cup {NoReceipt} :
               /\ cur = c /\ cur' = c /\ mode' = mode
               /\ AppendEntry(state, reason, receipt)
               /\ \/ pc \in {"mark", "seal"} /\ state = out.state /\ reason = out.reason
                  \/ /\ pc \notin {"mark", "seal"} /\ state \notin Outcomes
                     /\ ~Resolved(c) /\ (state = "VERIFIED" => AfterImage)
      BY <2>3, AppendsToOpen
    <3>i. /\ mode \in {"execute", "recover"} /\ out.state \in Outcomes /\ OpenHolds /\ WorkHolds
          /\ "VERIFIED" \notin Outcomes
      BY DEF TypeInv, ControlTyped, Outcome, Outcomes, OpenInv
    <3>2. pc = "mark" => ~Resolved(c) /\ state # "COMMITTED"
      BY <3>1, <3>i DEF OpenHolds, WorkHolds, CommitInv, OutcomeBacked
    <3>3. pc = "seal" => IF state = "COMMITTED" THEN ~Resolved(c) ELSE StateOf(c) = state
      BY <3>1, <3>i DEF OpenHolds, RecordSteps, ReceiptSteps
    <3>4. StateOf(c) # "COMMITTED"
      BY <3>1, <3>2, <3>3 DEF Resolved
    <3>5. state \notin {"COMMITTED", "ABORTED", "STALE"} => ~Resolved(c)
      BY <3>1, <3>2, <3>3 DEF Resolved
    <3>6. state \in {"COMMITTED", "VERIFIED"} => target[TargetOf[c]] = Proposed[c]
      BY <3>1, <3>2, <3>i DEF AfterImage, WorkHolds, RecordSteps, ReceiptSteps, Outcomes
    <3>7. /\ state = "RECOVERY_REQUIRED" /\ reason = "EXECUTION_FAILURE" => arch[c] = 0
          /\ state \in {"STALE", "ABORTED"} => ~Landed(c)
      BY <3>1, <3>i DEF WorkHolds, RecordSteps, ReceiptSteps, Outcomes
    <3>8. BegunHolds'
      BY <2>1, <3>1, <3>5, <3>6, <3>7, BegunAppended
    <3>9. CommittedHeadStands'
      BY <2>1, <3>1, <3>4, <3>6, <3>7, HeadAppended DEF Landed
    <3>. QED
      BY <3>8, <3>9
  <2>. QED
    BY <2>2, <2>3, OnlyAppends
<1>. QED
  BY <1>1, <1>2, <1>3

\* The inductive invariant of the executor.
AloneInv == TypeInv /\ SafetyInv /\ CommitInv /\ OpenInv /\ ResolvedHolds /\ AloneHolds

\* It holds in every state.
LEMMA AloneInvariant == Spec => []AloneInv
<1>1. Init => AloneHolds
  <2>. SUFFICES ASSUME Init PROVE AloneHolds
    OBVIOUS
  <2>1. pc = "idle" /\ applied = {} /\ \A e \in Effects : arch[e] = 0
    BY DEF Init, VolatileInit
  <2>2. \A e : ~Journaled(e) /\ StateOf(e) = "NONE" /\ ~EverIn(e, {"VERIFIED"})
    BY InitialJournal DEF Journaled, Indices, StateOf, EverIn
  <2>3. BegunHolds
    BY <2>1, <2>2 DEF BegunHolds, Begun, Landed
  <2>4. WorkHolds
    BY <2>1 DEF WorkHolds, RecordSteps, ReceiptSteps
  <2>5. CommittedHeadStands
    BY <2>2 DEF CommittedHeadStands
  <2>. QED
    BY <2>3, <2>4, <2>5 DEF AloneHolds
<1>2. TypeInv /\ SafetyInv /\ CommitInv /\ OpenInv /\ ResolvedHolds /\ AloneHolds /\ [Next]_vars => AloneHolds'
  <2>. SUFFICES ASSUME TypeInv, SafetyInv, CommitInv, OpenInv, ResolvedHolds, AloneHolds, [Next]_vars,
                       edits' = 0, failures' = 0
                PROVE  BegunHolds' /\ WorkHolds' /\ CommittedHeadStands'
    BY DEF AloneHolds
  <2>1. edits = 0 /\ failures = 0
    BY EditsCounted, FailuresCounted
  <2>2. /\ AliasHolds /\ DoubtHolds /\ BegunHolds /\ WorkHolds /\ CommittedHeadStands
    BY <2>1 DEF ResolvedHolds, AloneHolds
  <2>. QED
    BY <2>1, <2>2, BegunStep, WorkStep
<1>. QED
  BY <1>1, <1>2, ResolvedInvariant, PTL DEF Spec, AloneInv

\* With nobody else editing and no failing write, an effect that is answered as
\* refused never changed its target.
THEOREM RefusedStaysUnapplied == Spec => []RefusedNeverApplied
<1>1. AloneInv => RefusedNeverApplied
  BY DEF AloneInv, AloneHolds, BegunHolds, Landed, RefusedNeverApplied, TypeInv, VaultTyped
<1>. QED
  BY <1>1, AloneInvariant, PTL

\* With nobody else editing and no failing write, the bytes of the last commit
\* stand, through any crash and recovery.
THEOREM CommittedStands == Spec => []CommittedHeadStands
<1>1. AloneInv => CommittedHeadStands
  BY DEF AloneInv, AloneHolds, CommittedHeadStands
<1>. QED
  BY <1>1, AloneInvariant, PTL

(***************************************************************************)
(* The executor implements AtomicEffects (EffectsRefinement.tla).          *)
(***************************************************************************)

\* The phase of an effect, in the words of the executor.
PhaseAt(e) ==
    IF ~Journaled(e) THEN "none" ELSE IF SealOf(e) = NoReceipt THEN "open" ELSE StateOf(e)

\* PhaseOf reads the last entry of each effect.
LEMMA PhaseRead ==
    /\ PhaseOf = [e \in Effects |-> PhaseAt(e)]
    /\ PhaseOf' = [e \in Effects |-> PhaseAt(e)']
BY DEF PhaseOf, PhaseAt, Journaled, SealOf, StateOf, LastIndex

\* An entry opens its effect, or gives it the outcome it seals.
LEMMA PhaseAppended ==
    ASSUME JournalTyped, NEW c \in Effects, cur = c,
           NEW state \in JournalStates, NEW reason \in Reasons,
           NEW receipt \in Receipt \cup {NoReceipt}, AppendEntry(state, reason, receipt)
    PROVE  PhaseOf' = [PhaseOf EXCEPT ![c] = IF receipt = NoReceipt THEN "open" ELSE state]
<1>1. PhaseAt(c)' = IF receipt = NoReceipt THEN "open" ELSE state
  BY JournalAppended DEF PhaseAt
<1>2. \A e \in Effects : e # c => PhaseAt(e)' = PhaseAt(e)
  BY JournalAppended DEF PhaseAt
<1>. QED
  BY <1>1, <1>2, PhaseRead

\* An effect is undecided while its last entry seals nothing, or recovery is required.
LEMMA PhaseUndecided ==
    ASSUME JournalTyped, EntriesReasoned, NEW e \in Effects, Journaled(e)
    PROVE  /\ Unsealed(e) <=> PhaseAt(e) = "open"
           /\ ~Resolved(e) => PhaseAt(e) \in {"open", "RECOVERY_REQUIRED"}
           /\ PhaseOf[e] = PhaseAt(e)
<1>1. SealOf(e) # NoReceipt => StateOf(e) \in Outcomes
  BY SealedOutcome
<1>2. PhaseOf[e] = PhaseAt(e)
  BY PhaseRead
<1>. QED
  BY <1>1, <1>2 DEF PhaseAt, Unsealed, Resolved, Outcomes

\* What the mapping reads is unchanged: the step is not seen from outside.
LEMMA Unseen ==
    ASSUME UNCHANGED <<journal, target, applied, edits, failures>>, pc # "replace", pc' # "replace"
    PROVE  UNCHANGED Atomic!vars
<1>1. \A e : PhaseAt(e)' = PhaseAt(e) /\ (EverIn(e, {"VERIFIED"})' <=> EverIn(e, {"VERIFIED"}))
  BY JournalKept DEF PhaseAt
<1>2. PhaseOf' = PhaseOf /\ LandedEffects' = LandedEffects /\ Claimant' = Claimant
  BY <1>1, PhaseRead DEF LandedEffects, Claimant
<1>. QED
  BY <1>2 DEF Atomic!vars, PlanOf

\* What the mapping reads, but for the claim, is unchanged.
LEMMA UnseenButClaim ==
    ASSUME UNCHANGED <<journal, applied>>
    PROVE  PhaseOf' = PhaseOf /\ LandedEffects' = LandedEffects /\ PlanOf' = PlanOf
<1>1. \A e : PhaseAt(e)' = PhaseAt(e) /\ (EverIn(e, {"VERIFIED"})' <=> EverIn(e, {"VERIFIED"}))
  BY JournalKept DEF PhaseAt
<1>. QED
  BY <1>1, PhaseRead DEF LandedEffects, PlanOf

\* An unsealed entry takes its effect up, or finds it open.
LEMMA OpensAnEffect ==
    ASSUME TypeInv, NEW c \in Effects, cur = c,
           NEW state \in JournalStates, NEW reason \in Reasons, state # "VERIFIED",
           AppendEntry(state, reason, NoReceipt),
           UNCHANGED <<target, applied, edits, failures>>, pc # "replace", pc' # "replace",
           PhaseOf[c] \in {"none", "open", "RECOVERY_REQUIRED"} \/ failures > 0
    PROVE  [Atomic!Next]_(Atomic!vars)
<1>1. PhaseOf' = [PhaseOf EXCEPT ![c] = "open"]
  BY PhaseAppended DEF TypeInv
<1>2. LandedEffects' = LandedEffects
  <2>1. \A e, states : EverIn(e, states)' <=> EverIn(e, states) \/ (e = c /\ state \in states)
    BY EverAppended DEF TypeInv
  <2>2. \A e : EverIn(e, {"VERIFIED"})' <=> EverIn(e, {"VERIFIED"})
    BY <2>1
  <2>. QED
    BY <2>2 DEF LandedEffects
<1>3. Claimant' = Claimant /\ PlanOf' = PlanOf
  BY DEF Claimant, PlanOf
<1>4. CASE PhaseOf[c] = "open"
  <2>1. PhaseOf' = PhaseOf
    BY <1>1, <1>4, PhaseRead
  <2>. QED
    BY <2>1, <1>2, <1>3 DEF Atomic!vars
<1>5. CASE PhaseOf[c] # "open"
  <2>1. Atomic!Begin(c)
    BY <1>1, <1>2, <1>3, <1>5 DEF Atomic!Begin, Atomic!SetPhase
  <2>. QED
    BY <2>1 DEF Atomic!Next
<1>. QED
  BY <1>4, <1>5

\* A VERIFIED entry adopts the bytes the target is seen to hold.
LEMMA AdoptsTheBytes ==
    ASSUME TypeInv, NEW c \in Effects, cur = c, NEW reason \in Reasons,
           AppendEntry("VERIFIED", reason, NoReceipt),
           UNCHANGED <<target, applied, edits, failures>>, pc # "replace", pc' # "replace",
           PhaseOf[c] \in {"open", "RECOVERY_REQUIRED"}, target[TargetOf[c]] = Proposed[c]
    PROVE  Atomic!Adopt(c)
<1>. "VERIFIED" \in JournalStates
  BY DEF JournalStates
<1>1. PhaseOf' = [PhaseOf EXCEPT ![c] = "open"]
  BY PhaseAppended DEF TypeInv
<1>2. LandedEffects' = LandedEffects \cup {c}
  <2>1. \A e, states : EverIn(e, states)' <=> EverIn(e, states) \/ (e = c /\ "VERIFIED" \in states)
    BY EverAppended DEF TypeInv
  <2>2. \A e : EverIn(e, {"VERIFIED"})' <=> EverIn(e, {"VERIFIED"}) \/ e = c
    BY <2>1
  <2>. QED
    BY <2>2 DEF LandedEffects
<1>3. Claimant' = Claimant /\ PlanOf' = PlanOf
  BY DEF Claimant, PlanOf
<1>4. PlanOf[c].target = TargetOf[c] /\ PlanOf[c].proposed = Proposed[c]
  BY DEF PlanOf
<1>. QED
  BY <1>1, <1>2, <1>3, <1>4 DEF Atomic!Adopt, Atomic!Holds, Atomic!SetPhase, Atomic!Undecided

\* The steps that touch no target, append no entry and do not compare.
LEMMA UnseenSteps ==
    ASSUME TypeInv,
           \/ \E e \in Effects : Admit(e) \/ RecoverCommitted(e) \/ CleanupStaleTargetLock(e) \/ RefuseEvidence(e)
           \/ AcquireTargetLock \/ ValidatePreconditions \/ CompareTarget \/ ArchiveBefore
           \/ StageTemporary \/ WriteArchiveAfter \/ WriteCheckpoint \/ ReleaseTargetLock
           \/ PersistNoChangeAudit \/ WriteReceipt \/ PublishReceipt
           \/ StartRecovery \/ FinishRecovery \/ RefuseTerminalReceipt \/ RecoverRefused
           \/ RecoverNoChange \/ RecoverArchiveInvalid \/ RecoverReplan \/ RecoverConflict
           \/ RemoveTemporary \/ UNCHANGED vars
    PROVE  [Atomic!Next]_(Atomic!vars)
<1>i. pc = "replace" => cur \in Effects
  BY DEF TypeInv, ControlTyped
<1>t. Throw(TRUE) => pc' # "replace"
  BY ThrowGoes
<1>r. RecoveryThrows(TRUE) => pc' = "idle"
  BY Zenon DEF RecoveryThrows, Rest
<1>1. UNCHANGED <<journal, target, applied, edits, failures>>
  BY DEF Admit, RecoverCommitted, CleanupStaleTargetLock, RefuseEvidence, AcquireTargetLock,
     ValidatePreconditions, CompareTarget, ArchiveBefore, StageTemporary, WriteArchiveAfter,
     WriteCheckpoint, ReleaseTargetLock, PersistNoChangeAudit, WriteReceipt, PublishReceipt,
     StartRecovery, FinishRecovery, RefuseTerminalReceipt, RecoverRefused, RecoverNoChange,
     RecoverArchiveInvalid, RecoverReplan, RecoverConflict, RemoveTemporary, ClassifyUnchanged,
     vars, ghostVars, boundVars
<1>2. CASE UNCHANGED vars
  <2>1. Claimant' = Claimant
    BY <1>2 DEF vars, Claimant
  <2>. QED
    BY <1>1, <2>1, UnseenButClaim DEF Atomic!vars
<1>3. CASE \E e \in Effects : Admit(e) \/ RecoverCommitted(e) \/ CleanupStaleTargetLock(e) \/ RefuseEvidence(e)
  <2>1. pc # "replace" /\ pc' # "replace"
    BY <1>3, <1>r DEF Admit, RecoverCommitted, CleanupStaleTargetLock, RefuseEvidence, IsNext, Recovering, Goto
  <2>. QED
    BY <2>1, <1>1, Unseen
<1>4. CASE \/ AcquireTargetLock \/ ValidatePreconditions \/ CompareTarget \/ ArchiveBefore
           \/ StageTemporary \/ WriteArchiveAfter \/ WriteCheckpoint \/ ReleaseTargetLock
  <2>1. pc # "replace" /\ pc' # "replace"
    BY <1>4 DEF AcquireTargetLock, ValidatePreconditions, CompareTarget, ArchiveBefore, StageTemporary,
       WriteArchiveAfter, WriteCheckpoint, ReleaseTargetLock, Executing, Catch, Goto, Rest
  <2>. QED
    BY <2>1, <1>1, Unseen
<1>5. CASE PersistNoChangeAudit \/ WriteReceipt \/ PublishReceipt
  <2>1. pc # "replace" /\ pc' # "replace"
    BY <1>5, <1>t DEF PersistNoChangeAudit, WriteReceipt, PublishReceipt, Goto
  <2>. QED
    BY <2>1, <1>1, Unseen
<1>6. CASE \/ StartRecovery \/ FinishRecovery \/ RefuseTerminalReceipt \/ RecoverRefused
           \/ RecoverNoChange \/ RecoverArchiveInvalid \/ RecoverReplan \/ RecoverConflict
           \/ RemoveTemporary
  <2>1. pc # "replace" /\ pc' # "replace"
    BY <1>6, <1>r DEF StartRecovery, FinishRecovery, RefuseTerminalReceipt, RecoverRefused, RecoverNoChange,
       RecoverArchiveInvalid, RecoverReplan, RecoverConflict, RemoveTemporary, Open, Recovering, Goto, Rest
  <2>. QED
    BY <2>1, <1>1, Unseen
<1>. QED
  BY <1>2, <1>3, <1>4, <1>5, <1>6

\* Sealing is the decision: it has the support the promise asks for.
LEMMA SealDecides ==
    ASSUME AloneInv, SealOutcome
    PROVE  \E c \in Effects : \/ Atomic!Commit(c) \/ Atomic!Fail(c)
                              \/ Atomic!Refuse(c, "STALE") \/ Atomic!Refuse(c, "ABORTED")
<1>i. /\ TypeInv /\ JournalTyped /\ OpenHolds /\ OutcomeBacked /\ EntriesReasoned
      /\ out \in Outcome /\ edits \in Nat /\ failures \in Nat /\ cur \in Effects /\ pc = "seal"
  BY DEF SealOutcome, AloneInv, OpenInv, ReasonsHold, CommitInv, TypeInv, ControlTyped, BoundsTyped
<1>1. PICK c \in Effects, state \in Outcomes, reason \in Reasons : c = cur /\ state = out.state /\ reason = out.reason
  BY <1>i DEF Outcome
<1>2. ThisReceipt \in Receipt /\ ThisReceipt # NoReceipt /\ state \in JournalStates
  BY <1>1, <1>i, ThisReceiptTyped, SentinelAssumption DEF JournalStates
<1>3. /\ AppendEntry(state, reason, ThisReceipt)
      /\ UNCHANGED <<target, applied, edits, failures>> /\ pc' # "replace"
  <2>1. pc' \in {"checkpoint", "unlock", "clean", "next"}
    BY <1>i DEF SealOutcome, AfterSeal, Goto, TypeInv, ControlTyped
  <2>. QED
    BY <2>1, <1>1, <1>i DEF SealOutcome, ghostVars, boundVars
<1>4. PhaseOf' = [PhaseOf EXCEPT ![c] = state]
  BY <1>1, <1>2, <1>3, <1>i, PhaseAppended
<1>5. LandedEffects' = LandedEffects
  <2>1. \A e, states : EverIn(e, states)' <=> EverIn(e, states) \/ (e = c /\ state \in states)
    BY <1>1, <1>2, <1>3, <1>i, EverAppended
  <2>2. state # "VERIFIED"
    BY <1>1 DEF Outcomes
  <2>3. \A e : EverIn(e, {"VERIFIED"})' <=> EverIn(e, {"VERIFIED"})
    BY <2>1, <2>2
  <2>. QED
    BY <2>3, <1>3 DEF LandedEffects
<1>6. Claimant' = Claimant /\ PlanOf' = PlanOf
  BY <1>3, <1>i DEF Claimant, PlanOf
<1>7. PhaseOf[c] = "open"
  <2>1. Unsealed(c)
    BY <1>1, <1>i DEF OpenHolds, RecordSteps, ReceiptSteps
  <2>. QED
    BY <2>1, <1>i, PhaseUndecided DEF Unsealed
<1>8. PlanOf[c].prior = Prior[c] /\ PlanOf[c].proposed = Proposed[c]
  BY DEF PlanOf
<1>9. CASE state = "COMMITTED"
  <2>1. c \in LandedEffects \/ Prior[c] = Proposed[c]
    <3>1. CASE reason = "BYTE_IDENTICAL"
      BY <3>1, <1>9, <1>1, <1>i DEF OpenHolds, NoChange, RecordSteps, ReceiptSteps
    <3>2. CASE reason # "BYTE_IDENTICAL"
      BY <3>2, <1>9, <1>1, <1>i DEF OutcomeBacked, ReplaceProved, RecordSteps, ReceiptSteps, LandedEffects
    <3>. QED
      BY <3>1, <3>2
  <2>2. Atomic!Commit(c)
    BY <2>1, <1>9, <1>3, <1>4, <1>5, <1>6, <1>7, <1>8 DEF Atomic!Commit, Atomic!SetPhase
  <2>. QED
    BY <2>2
<1>10. CASE state = "RECOVERY_REQUIRED"
  <2>1. Atomic!Fail(c)
    BY <1>10, <1>3, <1>4, <1>5, <1>6, <1>7 DEF Atomic!Fail, Atomic!SetPhase
  <2>. QED
    BY <2>1
<1>11. CASE state \in {"STALE", "ABORTED"}
  <2>1. c \notin LandedEffects \/ edits + failures > 0
    <3>1. CASE edits = 0 /\ failures = 0
      <4>1. ~Landed(c)
        BY <3>1, <1>11, <1>1, <1>i DEF AloneInv, AloneHolds, WorkHolds, RecordSteps, ReceiptSteps
      <4>. QED
        BY <4>1 DEF Landed, LandedEffects
    <3>2. CASE ~(edits = 0 /\ failures = 0)
      BY <3>2, <1>i
    <3>. QED
      BY <3>1, <3>2
  <2>2. Atomic!Refuse(c, state)
    BY <2>1, <1>11, <1>3, <1>4, <1>5, <1>6, <1>7 DEF Atomic!Refuse, Atomic!Tolerated, Atomic!SetPhase
  <2>. QED
    BY <2>2, <1>11
<1>. QED
  BY <1>1, <1>9, <1>10, <1>11 DEF Outcomes

\* An entry before the seal takes the effect up, or adopts what its target holds.
LEMMA AppendsAreSeen ==
    ASSUME TypeInv, CommitInv, OpenInv, Appends, ~SealOutcome
    PROVE  [Atomic!Next]_(Atomic!vars)
<1>i. /\ JournalTyped /\ OpenHolds /\ OutcomeBacked /\ EntriesReasoned
      /\ out \in Outcome /\ mode \in {"execute", "recover"}
      /\ (pc \notin {"idle", "next"} => cur \in Effects)
  BY DEF OpenInv, ReasonsHold, CommitInv, TypeInv, ControlTyped
<1>a. ASSUME NEW c \in Effects, Atomic!Adopt(c) PROVE Atomic!Next
  BY <1>a DEF Atomic!Next
<1>u. \A e \in Effects : ~Journaled(e) => PhaseOf[e] = "none"
  BY PhaseRead DEF PhaseAt
<1>1. CASE AppendAdmission \/ AppendApplying
  <2>1. PICK c \in Effects, state \in JournalStates, reason \in Reasons :
            c = cur /\ state # "VERIFIED" /\ AppendEntry(state, reason, NoReceipt)
    <3>1. CASE AppendAdmission
      BY <3>1, <1>i DEF AppendAdmission, JournalStates, Reasons
    <3>2. CASE AppendApplying
      BY <3>2, <1>i DEF AppendApplying, Executing, JournalStates, Reasons
    <3>. QED
      BY <1>1, <3>1, <3>2
  <2>2. UNCHANGED <<target, applied, edits, failures>> /\ pc # "replace" /\ pc' # "replace"
    BY <1>1 DEF AppendAdmission, AppendApplying, Executing, Goto, ghostVars, boundVars
  <2>3. PhaseOf[c] \in {"none", "open", "RECOVERY_REQUIRED"}
    <3>1. ~Journaled(c) \/ Unsealed(c) \/ ~Resolved(c)
      BY <1>1, <2>1, <1>i DEF AppendAdmission, AppendApplying, Executing, OpenHolds, WorkSteps, EarlySteps, Resolved
    <3>. QED
      BY <3>1, <1>u, <1>i, PhaseUndecided DEF Unsealed
  <2>. QED
    BY <2>1, <2>2, <2>3, OpensAnEffect
<1>2. CASE MarkOutcome
  <2>1. PICK c \in Effects, state \in JournalStates, reason \in Reasons :
            c = cur /\ state # "VERIFIED" /\ AppendEntry(state, reason, NoReceipt)
    BY <1>2, <1>i DEF MarkOutcome, Outcome, Outcomes, JournalStates
  <2>2. UNCHANGED <<target, applied, edits, failures>> /\ pc = "mark" /\ pc' = "receipt"
    BY <1>2 DEF MarkOutcome, Goto, ghostVars, boundVars
  <2>3. PhaseOf[c] \in {"none", "open", "RECOVERY_REQUIRED"} \/ failures > 0
    <3>1. Unsealed(c) \/ failures > 0 \/ (Journaled(c) /\ ~Resolved(c))
      BY <2>1, <2>2, <1>i DEF OpenHolds
    <3>. QED
      BY <3>1, <1>i, PhaseUndecided DEF Unsealed
  <2>. QED
    BY <2>1, <2>2, <2>3, OpensAnEffect
<1>3. CASE VerifyExecuted
  <2>1. UNCHANGED <<target, applied, edits, failures>> /\ pc = "verify" /\ mode = "execute" /\ cur \in Effects
    BY <1>3, <1>i DEF VerifyExecuted, Executing, ghostVars, boundVars
  <2>2. CASE AppendEntry("VERIFIED", "", NoReceipt) /\ pc' = "after" /\ target[TargetOf[cur]] = Proposed[cur]
    <3>1. PICK c \in Effects, reason \in Reasons : c = cur /\ reason = ""
      BY <2>1 DEF Reasons
    <3>2. PhaseOf[c] = "open"
      BY <2>1, <3>1, <1>i, PhaseUndecided DEF OpenHolds, WorkSteps, Unsealed
    <3>. QED
      BY <2>1, <2>2, <3>1, <3>2, AdoptsTheBytes, <1>a
  <2>3. CASE UNCHANGED journal /\ pc' = "mark"
    BY <2>1, <2>3, Unseen
  <2>. QED
    BY <1>3, <2>2, <2>3 DEF VerifyExecuted, Catch, Goto
<1>4. CASE VerifyRecovered
  <2>1. UNCHANGED <<target, applied, edits, failures>> /\ pc = "verify" /\ mode = "recover" /\ cur \in Effects
    BY <1>4, <1>i DEF VerifyRecovered, Recovering, boundVars
  <2>2. CASE AppendEntry("VERIFIED", "RECOVERY_APPLIED_PREPARED_TEMP", NoReceipt) /\ pc' = "after" /\ AfterImage
    <3>1. PICK c \in Effects, reason \in Reasons : c = cur /\ reason = "RECOVERY_APPLIED_PREPARED_TEMP"
      BY <2>1 DEF Reasons
    <3>2. PhaseOf[c] \in {"open", "RECOVERY_REQUIRED"}
      BY <2>1, <3>1, <1>i, PhaseUndecided DEF OpenHolds
    <3>. QED
      BY <2>1, <2>2, <3>1, <3>2, AdoptsTheBytes, <1>a DEF AfterImage
  <2>3. CASE UNCHANGED journal /\ RecoveryThrows(FALSE)
    <3>1. pc' = "idle"
      BY <2>3, Zenon DEF RecoveryThrows, Rest
    <3>. QED
      BY <2>1, <2>3, <3>1, Unseen
  <2>. QED
    BY <1>4, <2>2, <2>3, Zenon DEF VerifyRecovered, Goto
<1>5. CASE RecoverAfterImage
  <2>1. /\ UNCHANGED <<target, applied, edits, failures>> /\ pc = "classify" /\ pc' = "after" /\ mode = "recover"
        /\ cur \in Effects /\ target[TargetOf[cur]] = Proposed[cur] /\ StateOf(cur) \notin {"STALE", "ABORTED"}
    BY <1>5, <1>i DEF RecoverAfterImage, Open, Recovering, AfterImage, ClassifyUnchanged, Goto, boundVars
  <2>2. CASE AppendEntry("VERIFIED", "RECOVERY_VERIFIED_AFTER_IMAGE", NoReceipt)
    <3>1. PICK c \in Effects, reason \in Reasons : c = cur /\ reason = "RECOVERY_VERIFIED_AFTER_IMAGE"
      BY <2>1 DEF Reasons
    <3>2. PhaseOf[c] \in {"open", "RECOVERY_REQUIRED"}
      BY <2>1, <3>1, <1>i, PhaseUndecided DEF OpenHolds, Resolved
    <3>. QED
      BY <2>1, <2>2, <3>1, <3>2, AdoptsTheBytes, <1>a
  <2>3. CASE UNCHANGED journal
    BY <2>1, <2>3, Unseen
  <2>. QED
    BY <1>5, <2>2, <2>3 DEF RecoverAfterImage
<1>. QED
  BY <1>1, <1>2, <1>3, <1>4, <1>5 DEF Appends

\* The comparison, the rename, and what the environment does.
LEMMA ClaimsAreSeen ==
    ASSUME AloneInv, \/ RecheckTarget \/ RecoverPrepared \/ Replace \/ Environment
    PROVE  [Atomic!Next]_(Atomic!vars)
<1>i. /\ OpenHolds /\ JournalTyped /\ EntriesReasoned /\ mode \in {"execute", "recover"}
      /\ (pc \notin {"idle", "next"} => cur \in Effects)
      /\ edits \in Nat /\ failures \in Nat /\ NoEffect \notin Effects
  BY EffectsAssumption DEF AloneInv, OpenInv, ReasonsHold, TypeInv, ControlTyped, BoundsTyped
<1>c. /\ Claimant = IF pc = "replace" THEN cur ELSE NoEffect
      /\ Claimant' = IF pc' = "replace" THEN cur' ELSE NoEffect
  BY DEF Claimant
<1>p. \A e \in Effects : /\ PlanOf[e].prior = Prior[e] /\ PlanOf[e].proposed = Proposed[e]
                          /\ PlanOf[e].target = TargetOf[e]
  BY DEF PlanOf
<1>1. CASE RecheckTarget
  <2>1. UNCHANGED <<journal, target, applied, edits, failures, cur>> /\ pc = "recheck" /\ mode = "execute" /\ cur \in Effects
    BY <1>1, <1>i DEF RecheckTarget, Executing, boundVars
  <2>2. CASE target[TargetOf[cur]] = Prior[cur] /\ pc' = "replace"
    <3>1. PICK c \in Effects : c = cur
      BY <2>1
    <3>2. PhaseOf[c] = "open"
      BY <2>1, <3>1, <1>i, PhaseUndecided DEF OpenHolds, WorkSteps, Unsealed
    <3>3. Atomic!Compare(c)
      BY <2>1, <2>2, <3>1, <3>2, <1>c, <1>p, UnseenButClaim DEF Atomic!Compare, Atomic!Undecided, Atomic!Holds
    <3>. QED
      BY <3>3 DEF Atomic!Next
  <2>3. CASE pc' = "mark"
    BY <2>1, <2>3, Unseen
  <2>. QED
    BY <1>1, <2>2, <2>3 DEF RecheckTarget, Goto
<1>2. CASE RecoverPrepared
  <2>1. /\ UNCHANGED <<journal, target, applied, edits, failures, cur>> /\ pc = "classify" /\ mode = "recover"
        /\ cur \in Effects /\ target[TargetOf[cur]] = Prior[cur] /\ pc' = "replace" /\ StateOf(cur) \notin {"STALE", "ABORTED"}
    BY <1>2, <1>i DEF RecoverPrepared, Open, Recovering, BeforeImage, ClassifyUnchanged, Goto, boundVars
  <2>2. PICK c \in Effects : c = cur
    BY <2>1
  <2>3. PhaseOf[c] \in {"open", "RECOVERY_REQUIRED"}
    BY <2>1, <2>2, <1>i, PhaseUndecided DEF OpenHolds, Resolved
  <2>4. Atomic!Compare(c)
    BY <2>1, <2>2, <2>3, <1>c, <1>p, UnseenButClaim DEF Atomic!Compare, Atomic!Undecided, Atomic!Holds
  <2>. QED
    BY <2>4 DEF Atomic!Next
<1>3. CASE Replace
  <2>1. PICK c \in Effects : c = cur
    BY <1>3, <1>i DEF Replace
  <2>2. /\ pc = "replace" /\ pc' = "verify" /\ UNCHANGED <<journal, edits, failures>>
        /\ applied' = applied \cup {c} /\ target' = [target EXCEPT ![TargetOf[c]] = Proposed[c]]
    BY <1>3, <2>1 DEF Replace, Goto, boundVars
  <2>3. PhaseOf' = PhaseOf /\ LandedEffects' = LandedEffects \cup {c} /\ PlanOf' = PlanOf
    <3>1. \A e : PhaseAt(e)' = PhaseAt(e) /\ (EverIn(e, {"VERIFIED"})' <=> EverIn(e, {"VERIFIED"}))
      BY <2>2, JournalKept DEF PhaseAt
    <3>. QED
      BY <3>1, <2>2, PhaseRead DEF LandedEffects, PlanOf
  <2>4. Atomic!Land(c)
    BY <2>1, <2>2, <2>3, <1>c, <1>p DEF Atomic!Land
  <2>. QED
    BY <2>4 DEF Atomic!Next
<1>4. ASSUME NEW t \in Targets, NEW b \in Contents, ExternalEdit(t, b) PROVE [Atomic!Next]_(Atomic!vars)
  <2>1. Atomic!Edit(t, b)
    BY <1>4, <1>c, UnseenButClaim DEF ExternalEdit, Atomic!Edit
  <2>. QED
    BY <2>1 DEF Atomic!Next
<1>5. CASE IoFailure \/ AbandonOperation
  <2>1. pc' # "replace"
    <3>1. Throw(FALSE) => pc' # "replace"
      BY ThrowGoes
    <3>. QED
      BY <1>5, <3>1 DEF IoFailure, AbandonOperation, Rest
  <2>2. UNCHANGED <<journal, target, applied, edits>> /\ failures' = failures + 1
    BY <1>5 DEF IoFailure, AbandonOperation
  <2>3. Atomic!WriteFails
    BY <2>1, <2>2, <1>c, UnseenButClaim DEF Atomic!WriteFails
  <2>. QED
    BY <2>3 DEF Atomic!Next
<1>6. CASE Crash \/ Shutdown
  <2>1. UNCHANGED <<journal, target, applied, edits, failures>> /\ pc' = "idle"
    BY <1>6 DEF Crash, Shutdown, NewProcess, Rest
  <2>2. CASE pc = "replace"
    <3>1. Atomic!Drop
      BY <2>1, <2>2, <1>c, <1>i, UnseenButClaim DEF Atomic!Drop
    <3>. QED
      BY <3>1 DEF Atomic!Next
  <2>3. CASE pc # "replace"
    BY <2>1, <2>3, Unseen
  <2>. QED
    BY <2>2, <2>3
<1>. QED
  BY <1>1, <1>2, <1>3, <1>4, <1>5, <1>6 DEF Environment

\* Seen from outside each effect changes its target in one step, from the bytes
\* it was planned on, and its outcome says whether it did: whatever crashed, was
\* retried, was recovered or was edited by others, the executor is AtomicEffects.
THEOREM ExecutorImplements == Spec => ImplementsAtomicEffects
<1>1. Init => Atomic!Init
  <2>. SUFFICES ASSUME Init PROVE Atomic!Init
    OBVIOUS
  <2>1. pc = "idle" /\ applied = {} /\ edits = 0 /\ failures = 0
    BY DEF Init, VolatileInit
  <2>2. \A e : ~Journaled(e) /\ ~EverIn(e, {"VERIFIED"})
    BY InitialJournal DEF Journaled, Indices, EverIn
  <2>3. PhaseOf = [e \in Effects |-> "none"]
    BY <2>2, PhaseRead DEF PhaseAt
  <2>. QED
    BY <2>1, <2>2, <2>3 DEF Atomic!Init, LandedEffects, Claimant
<1>2. AloneInv /\ [Next]_vars => [Atomic!Next]_(Atomic!vars)
  <2>. SUFFICES ASSUME AloneInv, [Next]_vars PROVE [Atomic!Next]_(Atomic!vars)
    OBVIOUS
  <2>i. TypeInv /\ CommitInv /\ OpenInv
    BY DEF AloneInv
  <2>1. CASE SealOutcome
    BY <2>1, SealDecides DEF Atomic!Next
  <2>2. CASE Appends /\ ~SealOutcome
    BY <2>2, <2>i, AppendsAreSeen
  <2>3. CASE RecheckTarget \/ RecoverPrepared \/ Replace \/ Environment
    BY <2>3, ClaimsAreSeen
  <2>4. CASE ~Appends /\ ~(RecheckTarget \/ RecoverPrepared \/ Replace \/ Environment)
    BY <2>4, <2>i, UnseenSteps DEF Next, Execute, Record, Recover, Appends
  <2>. QED
    BY <2>1, <2>2, <2>3, <2>4
<1>. QED
  BY <1>1, <1>2, AloneInvariant, PTL DEF Spec, ImplementsAtomicEffects, Atomic!Spec
================================================================================
