--------------------------- MODULE WatcherPublication ---------------------------
(***************************************************************************)
(* How a watcher host publishes a generation                               *)
(* (publishWatcherCoherentActivation in src/src/watcher/coordinator.ts),   *)
(* how the next host finishes a publication its predecessor died in        *)
(* (recoverWatcherCoherentActivation, recoverWatcherPointer), and how      *)
(* another process reads the pointer meanwhile (readWatcherPointer).       *)
(*                                                                         *)
(* A generation is a number; each attempt to publish takes a new one.  The *)
(* journal is a database whose transactions are atomic; every other step   *)
(* creates, links, renames or removes one file, and the process may die    *)
(* after it, or inside a write, which leaves the file torn.  While the     *)
(* guard exists readers answer with the pointer the guard calls old.       *)
(* WatcherBootstrap sees to it that one host runs at a time; in            *)
(* WatcherHost a publication is one step.                                  *)
(***************************************************************************)
EXTENDS Naturals

CONSTANTS
  Readers,      \* processes that read the pointer
  MaxAttempts,  \* publications
  MaxCrashes,   \* deaths of a host
  MaxTorn,      \* deaths inside a write
  MaxFaults     \* publications or recoveries that fail with an I/O error

\* What the theorems assume of the constants.
PublicationAssumption == MaxAttempts \in Nat

None == 0       \* no generation: null in the code
Generations == 1 .. MaxAttempts
NoFile == [to |-> None, old |-> None, whole |-> FALSE]
File(to, old) == [to |-> to, old |-> old, whole |-> TRUE]
Torn(f) == f # NoFile /\ ~f.whole

VARIABLES
  immutable,   \* generations with watcher-pointer-<digest>.json
  stage,       \* the guard's stage
  guard,       \* the guard, the same file as the stage while both exist
  temp,        \* the temporary pointer
  fixed,       \* watcher-active.json
  authTemp,    \* temporary file of the authority
  authority,   \* watcher-authority.json, for the first generation
  prepared,    \* journal: generations with an activation intent
  complete,    \* journal: generations whose activation is complete
  active,      \* journal: the active generation
  pc,          \* the next step of the host; "down", "idle" and "refused" are none
  attempt,     \* the generation being published or recovered
  attempts, crashes, torn, faults,
  reader       \* the reads under way

outer == <<immutable, stage, guard, temp, fixed>>
authorities == <<authTemp, authority>>
journal == <<prepared, complete, active>>
bounds == <<crashes, torn, faults>>
vars == <<outer, authorities, journal, pc, attempt, attempts, bounds, reader>>

NoRead == [at |-> "idle", guarded |-> FALSE, born |-> None, value |-> None]

Init ==
  /\ immutable = {} /\ stage = NoFile /\ guard = NoFile /\ temp = NoFile /\ fixed = None
  /\ authTemp = NoFile /\ authority = None
  /\ prepared = {} /\ complete = {} /\ active = None
  /\ pc = "down" /\ attempt = None /\ attempts = 0
  /\ crashes = 0 /\ torn = 0 /\ faults = 0
  /\ reader = [r \in Readers |-> NoRead]

\* What readWatcherPointer answers.
Current == IF guard # NoFile THEN guard.old ELSE fixed

Continue(step) == pc' = step /\ UNCHANGED <<attempt, attempts, bounds, reader>>
Refuse == Continue("refused") /\ UNCHANGED <<outer, authorities, journal>>

-------------------------------------------------------------------------------
(* Publication *)

\* The checks before the first write: no leaf of an unfinished publication.
Clean == stage = NoFile /\ guard = NoFile /\ temp = NoFile /\ authTemp = NoFile

\* Its artifacts are named by their digests and are not modelled.
Begin ==
  /\ pc = "idle" /\ attempts < MaxAttempts
  /\ Clean
  /\ authority = None <=> fixed = None
  /\ attempts' = attempts + 1 /\ attempt' = attempts + 1
  /\ pc' = "prepare"
  /\ UNCHANGED <<outer, authorities, journal, bounds, reader>>

\* prepareWatcherJournalActivation
Prepare ==
  /\ pc = "prepare"
  /\ prepared' = prepared \cup {attempt}
  /\ Continue("immutable")
  /\ UNCHANGED <<outer, authorities, complete, active>>

WriteImmutable ==
  /\ pc = "immutable"
  /\ immutable' = immutable \cup {attempt}
  /\ Continue("stage")
  /\ UNCHANGED <<stage, guard, temp, fixed, authorities, journal>>

WriteStage ==
  /\ pc = "stage"
  /\ stage' = File(attempt, fixed)
  /\ Continue("guard")
  /\ UNCHANGED <<immutable, guard, temp, fixed, authorities, journal>>

LinkGuard ==
  /\ pc = "guard"
  /\ guard' = stage
  /\ Continue("unstage")
  /\ UNCHANGED <<immutable, stage, temp, fixed, authorities, journal>>

\* From here on a publication and a recovery differ in the order of their steps.
Unstage ==
  /\ pc \in {"unstage", "recoverUnstage"}
  /\ stage' = NoFile
  /\ Continue(IF pc = "unstage" THEN "temp" ELSE "recoverTarget")
  /\ UNCHANGED <<immutable, guard, temp, fixed, authorities, journal>>

WriteTemp ==
  /\ pc \in {"temp", "recoverTemp"}
  /\ temp' = File(attempt, None)
  /\ Continue(IF pc = "recoverTemp" THEN "replace"
              ELSE IF authority = None THEN "authTemp" ELSE "replace")
  /\ UNCHANGED <<immutable, stage, guard, fixed, authorities, journal>>

WriteAuthTemp ==
  /\ pc \in {"authTemp", "recoverAuthTemp"}
  /\ authTemp' = File(attempt, None)
  /\ Continue(IF pc = "authTemp" THEN "authority" ELSE "recoverAuthority")
  /\ UNCHANGED <<outer, authority, journal>>

LinkAuthority ==
  /\ pc \in {"authority", "recoverAuthority"}
  /\ authority' = authTemp.to
  /\ Continue(IF pc = "authority" THEN "unlinkAuthTemp" ELSE "recoverUnlinkAuthTemp")
  /\ UNCHANGED <<outer, authTemp, journal>>

UnlinkAuthTemp ==
  /\ pc \in {"unlinkAuthTemp", "recoverUnlinkAuthTemp"}
  /\ authTemp' = NoFile
  /\ Continue(IF pc = "unlinkAuthTemp" THEN "replace" ELSE "recoverFixed")
  /\ UNCHANGED <<outer, authority, journal>>

\* The journal has the generation final before the pointer names it.
MutantReplace ==
  /\ pc = "replace"
  /\ complete' = complete \cup {attempt} /\ active' = attempt
  /\ Continue("finalize")
  /\ UNCHANGED <<outer, authorities, prepared>>

Replace ==
  /\ pc = "replace"
  /\ fixed' = temp.to /\ temp' = NoFile
  /\ Continue("finalize")
  /\ UNCHANGED <<immutable, stage, guard, authorities, journal>>

\* finalizeWatcherJournalActivation; finalizeWatcherJournalTarget in a recovery,
\* which has nothing to do for a generation that is active already.
Finalize ==
  /\ pc = "finalize"
  /\ complete' = complete \cup {attempt}
  /\ active' = attempt
  /\ Continue("unguard")
  /\ UNCHANGED <<outer, authorities, prepared>>

Unguard ==
  /\ pc = "unguard"
  /\ guard' = NoFile
  /\ Continue("idle")
  /\ UNCHANGED <<immutable, stage, temp, fixed, authorities, journal>>

-------------------------------------------------------------------------------
(* The recovery at a host's start *)

\* recoverWatcherPointer up to its first write.
Recover ==
  /\ pc = "down"
  /\ \/ /\ stage # NoFile /\ guard = NoFile
        /\ IF Torn(stage) THEN Refuse
           ELSE Continue("recoverGuard") /\ UNCHANGED <<outer, authorities, journal>>
     \/ /\ stage = NoFile /\ guard = NoFile
        /\ IF fixed = active THEN Continue("idle") /\ UNCHANGED <<outer, authorities, journal>>
           ELSE Refuse
     \/ /\ guard # NoFile
        /\ attempt' = guard.to
        /\ pc' = IF stage # NoFile THEN "recoverUnstage" ELSE "recoverTarget"
        /\ UNCHANGED <<outer, authorities, journal, attempts, bounds, reader>>

RecoverGuard ==
  /\ pc = "recoverGuard"
  /\ guard' = stage
  /\ attempt' = stage.to
  /\ pc' = "recoverUnstage"
  /\ UNCHANGED <<immutable, stage, temp, fixed, authorities, journal, attempts, bounds, reader>>

\* The checks of the fixed pointer and prepare_target: the authority is there, or
\* is made from what the dead host left of it.
RecoverTarget ==
  /\ pc = "recoverTarget"
  /\ IF fixed \notin {guard.old, guard.to} \/ attempt \notin prepared \cap immutable THEN Refuse
     ELSE IF authority # None
     THEN IF authTemp # NoFile THEN Refuse    \* GKX_WATCHER_AUTHORITY_RECOVERY_REQUIRED
          ELSE Continue("recoverFixed") /\ UNCHANGED <<outer, authorities, journal>>
     ELSE IF guard.old # None \/ Torn(authTemp) THEN Refuse
     ELSE /\ Continue(IF authTemp = NoFile THEN "recoverAuthTemp" ELSE "recoverAuthority")
          /\ UNCHANGED <<outer, authorities, journal>>

\* The temporary pointer is always written anew, with an exclusive create.
MutantTakesUpTemp == FALSE

\* The temporary pointer of the dead host is used when it is whole.
TakesUpTemp == temp # NoFile /\ ~Torn(temp)

RecoverFixed ==
  /\ pc = "recoverFixed"
  /\ IF temp = NoFile
     THEN Continue(IF fixed = attempt THEN "finalize" ELSE "recoverTemp")
     ELSE Continue(IF fixed # attempt /\ TakesUpTemp THEN "replace" ELSE "refused")
  /\ UNCHANGED <<outer, authorities, journal>>

-------------------------------------------------------------------------------
(* Failure and death *)

Resting == {"down", "refused"}

\* A step of a publication that throws leaves the host up and its files behind;
\* one of a recovery ends the start.
StepFails ==
  /\ pc \notin Resting \cup {"idle"} /\ faults < MaxFaults
  /\ faults' = faults + 1
  /\ pc' \in {"idle", "down"}
  /\ UNCHANGED <<outer, authorities, journal, attempt, attempts, crashes, torn, reader>>

\* The host stops in order, dies, or gives up a start that was refused.
Stop ==
  /\ pc \in {"idle", "refused"}
  /\ pc' = "down"
  /\ UNCHANGED <<outer, authorities, journal, attempt, attempts, bounds, reader>>

Crash ==
  /\ pc \notin Resting \cup {"idle"} /\ crashes < MaxCrashes
  /\ crashes' = crashes + 1
  /\ pc' = "down"
  /\ UNCHANGED <<outer, authorities, journal, attempt, attempts, torn, faults, reader>>

Half == [to |-> attempt, old |-> fixed, whole |-> FALSE]

CrashWriting ==
  /\ crashes < MaxCrashes /\ torn < MaxTorn
  /\ crashes' = crashes + 1 /\ torn' = torn + 1
  /\ pc' = "down"
  /\ \/ /\ pc = "stage" /\ stage' = Half
        /\ UNCHANGED <<immutable, guard, temp, fixed, authorities>>
     \/ /\ pc \in {"temp", "recoverTemp"} /\ temp' = Half
        /\ UNCHANGED <<immutable, stage, guard, fixed, authorities>>
     \/ /\ pc \in {"authTemp", "recoverAuthTemp"} /\ authTemp' = Half
        /\ UNCHANGED <<outer, authority>>
  /\ UNCHANGED <<journal, attempt, attempts, faults, reader>>

-------------------------------------------------------------------------------
(* readWatcherPointer in another process: guard, pointer, guard *)

ReadGuard(r) ==
  /\ reader[r].at = "idle"
  /\ reader' = [reader EXCEPT ![r] = [at |-> "pointer", guarded |-> guard # NoFile,
                                      born |-> Current, value |-> guard.old]]
  /\ UNCHANGED <<outer, authorities, journal, pc, attempt, attempts, bounds>>

ReadPointer(r) ==
  /\ reader[r].at = "pointer"
  /\ reader' = [reader EXCEPT ![r].at = "again",
                              ![r].value = IF reader[r].guarded THEN @ ELSE fixed]
  /\ UNCHANGED <<outer, authorities, journal, pc, attempt, attempts, bounds>>

\* Only a guarded read is checked again.
MutantGuardStands(r) == reader[r].guarded => guard # NoFile

\* The guard is looked at once more; a change is GKX_WATCHER_POINTER_RETRY_REQUIRED.
GuardStands(r) == reader[r].guarded <=> guard # NoFile

ReadAgain(r) ==
  /\ reader[r].at = "again"
  /\ reader' = [reader EXCEPT ![r] = IF GuardStands(r) THEN [@ EXCEPT !.at = "answer"] ELSE NoRead]
  /\ UNCHANGED <<outer, authorities, journal, pc, attempt, attempts, bounds>>

Answer(r) ==
  /\ reader[r].at = "answer"
  /\ reader' = [reader EXCEPT ![r] = NoRead]
  /\ UNCHANGED <<outer, authorities, journal, pc, attempt, attempts, bounds>>

-------------------------------------------------------------------------------
Next ==
  \/ Begin \/ Prepare \/ WriteImmutable \/ WriteStage \/ LinkGuard \/ Unstage \/ WriteTemp
  \/ WriteAuthTemp \/ LinkAuthority \/ UnlinkAuthTemp \/ Replace \/ Finalize \/ Unguard
  \/ Recover \/ RecoverGuard \/ RecoverTarget \/ RecoverFixed
  \/ StepFails \/ Stop \/ Crash \/ CrashWriting
  \/ \E r \in Readers : ReadGuard(r) \/ ReadPointer(r) \/ ReadAgain(r) \/ Answer(r)

Spec == Init /\ [][Next]_vars

-------------------------------------------------------------------------------
\* What a reader gets is a generation the journal calls complete, and none older
\* than the one that was current when it began to read: a publication shows to
\* every process at once, when its guard is removed, and whatever dies and is
\* recovered it never shows half of one or takes one back.
ReadersSeeActivated ==
  \A r \in Readers : reader[r].at = "answer" =>
    /\ reader[r].value \in complete \cup {None}
    /\ reader[r].born <= reader[r].value /\ reader[r].value <= Current

\* Pointer, journal and authority agree whenever no guard stands, and under a
\* guard they are on the way from its old generation to its new one, in the
\* order in which a recovery can pick them up.
StoresAgree ==
  /\ guard = NoFile =>
       /\ active = fixed /\ (fixed # None => authority # None /\ fixed \in immutable)
       /\ temp = NoFile /\ authTemp = NoFile
  /\ guard # NoFile =>
       /\ guard.whole /\ guard.to \in prepared \cap immutable
       /\ fixed \in {guard.old, guard.to} /\ active \in {guard.old, guard.to}
       /\ fixed = guard.to => authority # None /\ temp = NoFile
       /\ active = guard.to => fixed = guard.to

\* A start is refused only over a file torn in its write, or over an authority
\* whose temporary name was not yet removed: from every other point at which a
\* publication or a recovery can be cut short, it is finished.
RecoveryFinishes ==
  pc = "refused" =>
    Torn(stage) \/ Torn(temp) \/ Torn(authTemp) \/ (authority # None /\ authTemp # NoFile)

\* A host that dies between two steps of its first publication, no file torn,
\* does not keep the next one from starting.
CutPublicationRecovers == pc = "refused" => torn > 0
=============================================================================
