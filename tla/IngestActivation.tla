---------------------------- MODULE IngestActivation ----------------------------
(***************************************************************************)
(* The ingest authority's transitions: an owner takes                      *)
(* ingest-authority.lock, binds in it what it is about to do, and          *)
(* activates its generation or records a blocked attempt file by file; the *)
(* recovery of a dead owner's lock rolls a transition that reached its     *)
(* point of no return forward and leaves any other as it was.              *)
(*                                                                         *)
(* An owner or recovery is one process incarnation with one attempt; an    *)
(* owner also stands for the generation it activates.  Each file operation *)
(* is a step, before or after which a process may die or give up; the      *)
(* reads of one assertion are one step.  A replaced file is written to a   *)
(* temporary name first, where a death leaves it whole or torn.  The       *)
(* operator confirms deaths truthfully and runs one recovery at a time     *)
(* (StateWriters has the others, and the handshake with the legacy writer  *)
(* and the watcher).  Staged generations, migrations and the temporaries   *)
(* of immutable files, which recovery removes, are left out.               *)
(***************************************************************************)
EXTENDS Naturals, FiniteSets

CONSTANTS Owners, Recoveries, None

VARIABLES
  lock, claim,     \* ingest-authority.lock, and the second link to it a recovery makes
  claimant,
  files,           \* activation root, witness, legacy pointer, active pointer, attempt status
  temp,            \* a temporary of a replaced file: "none", "whole" or "torn"
  pc, alive,
  snapshot,        \* of each owner: the files its preflight saw
  found,           \* of each recovery: the lock it recovers
  retired,         \* history: authorities that were replaced
  refused,         \* history: a recovery refused the state it found
  crossed          \* history: a lock was created while a claim existed, or naming a prior state
                   \* that another owner had replaced since it was read

guards == <<lock, claim, claimant>>
history == <<retired, refused, crossed>>
vars == <<guards, files, temp, pc, alive, snapshot, found, history>>

Incarnations == Owners \cup Recoveries
Intents == {"preflight", "activation", "blocked"}
Locks == [owner : Owners, intent : Intents]

\* What the theorem assumes of the constants: a process has one role, and no generation
\* is named like an authority without one.
ActivationAssumption ==
  /\ Owners \cap Recoveries = {} /\ Owners \cap {None, "none", "legacy", "refused"} = {}
  /\ None \notin Locks \cup {"none", "legacy"}

NoFiles == [root |-> None, witness |-> "none", legacy |-> "none", active |-> None, status |-> None]

Init ==
  /\ lock = None /\ claim = None /\ claimant = None
  /\ \E pointer \in {"none", "legacy"} : files = [NoFiles EXCEPT !.legacy = pointer]
  /\ temp = "none"
  /\ pc = [p \in Incarnations |-> "idle"] /\ alive = Incarnations
  /\ snapshot = [o \in Owners |-> NoFiles] /\ found = [r \in Recoveries |-> None]
  /\ retired = {} /\ refused = FALSE /\ crossed = FALSE

-------------------------------------------------------------------------------
\* currentActive without a recovery's lock: the authority a reader gets.
View(f) ==
  CASE f.witness = "none" ->
         IF f.active = None /\ f.root = None /\ f.legacy # "tombstone" THEN f.legacy ELSE "refused"
    [] f.witness = "activating" -> "refused"
    [] f.witness = "active" ->
         IF f.root # None /\ f.legacy = "tombstone" /\ f.active # None THEN f.active ELSE "refused"

Lock(o, intent) == [owner |-> o, intent |-> intent]
Prior(o) == View(snapshot[o])
First(o) == Prior(o) \in {"none", "legacy"}

Step(p, from, to) == p \in alive /\ pc[p] = from /\ pc' = [pc EXCEPT ![p] = to]
Goes(p, from, ok, to, otherwise) == Step(p, from, IF ok THEN to ELSE otherwise)

Holds(o) == lock # None /\ lock.owner = o /\ claim = None

\* revalidateAuthorityPreflight: nothing changed since, and no stray file.
Unchanged(o) == Holds(o) /\ files = snapshot[o] /\ temp = "none"

-------------------------------------------------------------------------------
(* The owner.                                                              *)
Preflight(o) ==
  /\ \/ /\ Goes(o, "idle", lock = None /\ claim = None /\ View(files) # "refused" /\ temp = "none", "create", "done")
        /\ snapshot' = [snapshot EXCEPT ![o] = files] /\ UNCHANGED <<guards, crossed>>
     \/ /\ Goes(o, "create", lock = None, "recheck", "done")
        /\ lock' = (IF lock = None THEN Lock(o, "preflight") ELSE lock)
        /\ crossed' = (crossed \/ (lock = None /\ (claim # None \/ files # snapshot[o])))
        /\ UNCHANGED <<claim, claimant, snapshot>>
     \/ /\ Goes(o, "recheck", claim = None /\ files = snapshot[o] /\ temp = "none", "held", "remove")
        /\ UNCHANGED <<guards, crossed, snapshot>>
  /\ UNCHANGED <<files, temp, alive, found, retired, refused>>

BindIntent(o) ==
  /\ \E intent \in {"activation", "blocked"} :
       /\ Goes(o, "held", Unchanged(o), IF intent = "blocked" THEN "status" ELSE IF First(o) THEN "root" ELSE "pointer", "release")
       /\ lock' = IF Unchanged(o) THEN Lock(o, intent) ELSE lock
  /\ UNCHANGED <<claim, claimant, files, temp, alive, snapshot, found, history>>

Publish(o, step, ok, f, next) ==
  /\ Goes(o, step, ok, next, "release")
  /\ files' = (IF ok THEN f ELSE files)
  /\ UNCHANGED <<guards, temp, alive, snapshot, found, refused, crossed>>

\* The root is the point of no return of a first activation, the pointer of any other.
Activate(o) ==
  /\ \/ Publish(o, "root", Unchanged(o), [files EXCEPT !.root = o], "activating")
     \/ Publish(o, "activating", Holds(o), [files EXCEPT !.witness = "activating"], "tombstone")
     \/ Publish(o, "tombstone", Holds(o), [files EXCEPT !.legacy = "tombstone"], "pointer")
     \/ Publish(o, "pointer", IF First(o) THEN Holds(o) ELSE Unchanged(o), [files EXCEPT !.active = o],
                IF First(o) THEN "active" ELSE "finalize")
     \/ Publish(o, "active", Holds(o) /\ temp = "none", [files EXCEPT !.witness = "active"], "finalize")
  /\ retired' = IF files' # files THEN retired \cup {Prior(o)} ELSE retired

RecordBlocked(o) == Publish(o, "status", Unchanged(o), [files EXCEPT !.status = o], "finalize") /\ UNCHANGED retired

Reached(o, intent) ==
  IF intent = "activation" THEN View(files) = o
  ELSE View(files) = Prior(o) /\ (intent = "blocked" => files.status = o)

Finalize(o) ==
  /\ Goes(o, "finalize", Holds(o) /\ temp = "none" /\ Reached(o, lock.intent), "remove", "release")
  /\ UNCHANGED <<guards, files, temp, alive, snapshot, found, history>>

Release(o) ==
  /\ Goes(o, "release", Unchanged(o) /\ ~(lock.intent = "activation" /\ First(o) /\ files.root # None), "remove", "done")
  /\ UNCHANGED <<guards, files, temp, alive, snapshot, found, history>>

\* An aborted preflight removes the lock only if it is still its own.
RemoveLock(o) ==
  /\ Step(o, "remove", "done") /\ lock' = (IF lock # None /\ lock.owner = o THEN None ELSE lock)
  /\ UNCHANGED <<claim, claimant, files, temp, alive, snapshot, found, history>>

Writing == {"root", "activating", "tombstone", "pointer", "active", "status", "held"}
Replacing == {"tombstone", "pointer", "status", "held"}

\* A step fails, or its caller gives up; a rename that fails leaves its temporary.
Fail(o) ==
  /\ \E step \in Writing \cup {"finalize"} :
       /\ Step(o, step, "release")
       /\ temp' \in IF step \in Writing THEN {temp, "whole"} ELSE {temp}
  /\ UNCHANGED <<guards, files, alive, snapshot, found, history>>

-------------------------------------------------------------------------------
(* The recovery of a dead owner's lock.                                    *)
UnderWay(p) == p \in alive /\ pc[p] \notin {"idle", "done"}
Stale(f) == f # None /\ f.owner \notin alive

Recovers(r) == UNCHANGED <<alive, snapshot, retired, crossed>>
Refuses(ok) == refused' = (refused \/ ~ok)

\* readRecoveryClaimPair: both names show one file.
Paired(r) == lock = claim /\ lock = found[r]

BeginRecovery(r) ==
  LET f == IF claim # None THEN claim ELSE lock
  IN /\ \A q \in Recoveries : ~UnderWay(q)
     /\ Stale(f) /\ (claim = None \/ claimant \notin alive)
     /\ Goes(r, "idle", claim = None \/ lock \in {None, claim}, IF claim = None THEN "claim" ELSE "relink", "done")
     /\ Refuses(claim = None \/ lock \in {None, claim})
     /\ found' = [found EXCEPT ![r] = f]
     /\ UNCHANGED <<guards, files, temp>> /\ Recovers(r)

\* The lock a recovery had removed is put back, and its claim is taken over.
TakeOver(r) ==
  /\ \/ Step(r, "relink", "unclaim") /\ lock' = (IF lock = None THEN claim ELSE lock) /\ UNCHANGED <<claim, claimant, refused>>
     \/ /\ Goes(r, "unclaim", Paired(r), "claim", "done") /\ Refuses(Paired(r))
        /\ claim' = (IF Paired(r) THEN None ELSE claim) /\ claimant' = (IF Paired(r) THEN None ELSE claimant) /\ UNCHANGED lock
     \/ /\ Goes(r, "claim", claim = None /\ lock # None, "clean", "done") /\ Refuses(claim = None /\ lock # None)
        /\ claim' = (IF claim = None THEN lock ELSE claim) /\ claimant' = (IF claim = None THEN r ELSE claimant) /\ UNCHANGED lock
  /\ UNCHANGED <<files, temp, found>> /\ Recovers(r)

\* Temporaries are removed, unless they do not parse.
Clean(r) ==
  /\ Goes(r, "clean", Paired(r) /\ temp # "torn", "complete", "done") /\ Refuses(Paired(r) /\ temp # "torn")
  /\ temp' = (IF temp = "torn" THEN temp ELSE "none")
  /\ UNCHANGED <<guards, files, found>> /\ Recovers(r)

RollsForward(r) == found[r].intent = "activation" /\ First(found[r].owner) /\ files.root # None

\* Mutant of Missing: the active pointer is taken to be there.
MutantMissing(f) ==
  CASE f.witness = "none" -> "activating" [] f.witness = "active" -> "nothing"
    [] f.witness = "activating" -> IF f.legacy # "tombstone" THEN "tombstone" ELSE "active"
Missing(f) ==
  CASE f.witness = "none" -> "activating" [] f.witness = "active" -> "nothing"
    [] f.witness = "activating" ->
         IF f.legacy # "tombstone" THEN "tombstone" ELSE IF f.active = None THEN "pointer" ELSE "active"

\* completeBoundActivationIntent: the files still missing, one at a time.
Complete(r) ==
  LET o == found[r].owner
      ok == Paired(r) /\ (RollsForward(r) => files.root = o /\ files.active \in {None, o})
      step == IF ok /\ RollsForward(r) THEN Missing(files) ELSE "nothing"
  IN /\ Goes(r, "complete", ok, IF step = "nothing" THEN "check" ELSE "complete", "done") /\ Refuses(ok)
     /\ files' = (CASE step = "nothing" -> files
                    [] step = "tombstone" -> [files EXCEPT !.legacy = "tombstone"]
                    [] step = "pointer" -> [files EXCEPT !.active = o]
                    [] OTHER -> [files EXCEPT !.witness = step])
     /\ UNCHANGED <<guards, temp, found>> /\ Recovers(r)

\* The prior authority with nothing changed, or exactly what the lock was bound to.
Recoverable(r) ==
  LET o == found[r].owner
  IN files = snapshot[o] \/ (found[r].intent # "preflight" /\ Reached(o, found[r].intent))

Conclude(r) ==
  /\ \/ /\ Goes(r, "check", Paired(r) /\ Recoverable(r), "unlock", "done") /\ Refuses(Paired(r) /\ Recoverable(r))
        /\ UNCHANGED guards
     \/ Step(r, "unlock", "finish") /\ lock' = None /\ UNCHANGED <<claim, claimant, refused>>
     \/ /\ Goes(r, "finish", claim = found[r], "done", "done") /\ Refuses(claim = found[r])
        /\ claim' = None /\ claimant' = None /\ UNCHANGED lock
  /\ UNCHANGED <<files, temp, found>> /\ Recovers(r)

-------------------------------------------------------------------------------
Crash(p) ==
  /\ UnderWay(p) \/ (p \in Owners \cap alive /\ lock # None /\ lock.owner = p)
  /\ alive' = alive \ {p} /\ pc' = [pc EXCEPT ![p] = "done"]
  /\ temp' \in IF p \in Owners
               THEN {temp} \cup (IF pc[p] \in Writing THEN {"whole"} ELSE {}) \cup (IF pc[p] \in Replacing THEN {"torn"} ELSE {})
               ELSE IF pc[p] = "complete" /\ RollsForward(p) THEN {temp, "whole", "torn"} ELSE {temp}
  /\ UNCHANGED <<guards, files, snapshot, found, history>>

Next ==
  \/ \E o \in Owners :
       \/ Preflight(o) \/ BindIntent(o) \/ Activate(o) \/ RecordBlocked(o) \/ Finalize(o) \/ Release(o) \/ RemoveLock(o) \/ Fail(o)
  \/ \E r \in Recoveries : BeginRecovery(r) \/ TakeOver(r) \/ Clean(r) \/ Complete(r) \/ Conclude(r)
  \/ \E p \in Incarnations : Crash(p)

Spec == Init /\ [][Next]_vars

-------------------------------------------------------------------------------
\* A transition happens as a whole or not at all: a directory without guards has an
\* authority that readers get, no reader gets one that was replaced, also one half of
\* it, and recovery finds its way from every death, but for a torn temporary and for
\* a lock that was created over another's claim or transition.
TransitionsComplete ==
  /\ lock = None /\ claim = None => View(files) # "refused"
  /\ View(files) \notin retired
  /\ refused => temp = "torn" \/ crossed
===============================================================================
