------------------------------ MODULE WriterProofs ------------------------------
(***************************************************************************)
(* One process writes the retrieval state at a time, for any number of     *)
(* legacy writers, recoveries, ingest authorities and watchers, unless     *)
(* recoveries overlap.                                                     *)
(***************************************************************************)
EXTENDS StateWriters, FiniteSetTheorems, TLAPS

\* Where a legacy writer is, by what its lock says.
Unbound == {"recheck", "reopen", "abandon", "held", "bind", "rename"}
Bound == {"reread", "commit", "confirm", "publish"}
Leaving == {"release", "unlink"}
\* It has seen that no other authority was there, after it created its lock.
Seen == {"reopen", "held", "bind", "rename"} \cup Bound

LegacySteps == {"idle", "claim", "prior", "create", "done"} \cup Unbound \cup Bound \cup Leaving
RecoverySteps == {"idle", "restore", "read", "pair", "unclaim", "link", "claimed", "state", "remove",
                  "final", "finish", "done"}
IngestPlaces == {"idle", "create", "recheck", "rewatch", "ingesting", "unlink", "done"}
WatcherPlaces == {"idle", "create", "recheck", "serving", "unlink", "done"}

Pointers == Legacy \cup {NoPointer, Tombstone}

\* Each role has its own steps.
PlaceOf(p, s) ==
  /\ s \in LegacySteps \cup RecoverySteps \cup IngestPlaces \cup WatcherPlaces
  /\ p \in Legacy => s \in LegacySteps
  /\ p \in Recoverers => s \in RecoverySteps
  /\ p \in Ingest => s \in IngestPlaces
  /\ p \in Watchers => s \in WatcherPlaces

PlacesTyped ==
  /\ pc \in [Incarnations -> LegacySteps \cup RecoverySteps \cup IngestPlaces \cup WatcherPlaces]
  /\ \A p \in Incarnations : PlaceOf(p, pc[p])

DataTyped ==
  /\ lock \in LockFiles \cup {NoFile} /\ claim \in LockFiles \cup {NoFile}
  /\ ingestLock \in Ingest \cup {NoFile} /\ watcherLock \in Watchers \cup {NoFile}
  /\ journals \in BOOLEAN /\ overlapped \in BOOLEAN
  /\ alive \subseteq Incarnations
  /\ pointer \in Pointers /\ prior \in [Legacy -> Pointers]
  /\ read \in [Recoverers -> LockFiles \cup {NoFile}]

\* The variables have their types.
TypeInv == PlacesTyped /\ DataTyped

\* What a legacy writer at place s relies on: the lock is the one it wrote, ...
LegacyFits(p, s) ==
  /\ s \in Unbound => lock = File(p, FALSE)
  /\ s \in Bound => lock = File(p, TRUE)
  /\ s \in Leaving => lock \in {File(p, FALSE), File(p, TRUE)}
\* ... the ingest authorities and watchers have given way, ...
  /\ s \in Seen => /\ \A i \in Ingest \cap alive : pc[i] \notin {"rewatch", "ingesting"}
                   /\ \A w \in Watchers \cap alive : pc[w] # "serving"
\* ... and the pointer is the one it started from.
  /\ s \in {"rename"} \cup Bound => pointer = prior[p]

\* What a recovery relies on: it is about a dead writer, and the lock that
\* writer left.
RecoveryFits(r, s) ==
  /\ s \in {"pair", "unclaim", "link", "claimed", "state", "remove"} =>
       read[r] # NoFile /\ read[r].owner \notin alive
  /\ s \in {"state", "remove"} => lock = read[r]

\* What an ingest authority and a watcher rely on: the lock they created, and
\* of the two, one has given way.
IngestFits(i, s) ==
  /\ s \in {"recheck", "rewatch", "ingesting", "unlink"} => ingestLock = i
  /\ s = "ingesting" => \A w \in Watchers \cap alive : pc[w] # "serving"
WatcherFits(w, s) == s \in {"recheck", "serving", "unlink"} => watcherLock = w

LegacyHold == \A p \in Legacy \cap alive : LegacyFits(p, pc[p])
RecoveriesHold == \A r \in Recoverers \cap alive : RecoveryFits(r, pc[r])
AuthoritiesHold == /\ \A i \in Ingest \cap alive : IngestFits(i, pc[i])
                   /\ \A w \in Watchers \cap alive : WatcherFits(w, pc[w])
OneRecovery == \A q, r \in Recoverers : UnderWay(q) /\ UnderWay(r) => q = r

Kept == LegacyHold /\ RecoveriesHold /\ AuthoritiesHold /\ OneRecovery

\* The inductive invariant.
WriterInv == TypeInv /\ (~overlapped => Kept)

\* A file with two links is both the lock and the claim.
LEMMA TwoLinks == ASSUME NEW f, Reads(f, 2) PROVE lock = f /\ claim = f
<1>1. Links(f) = 2
  BY DEF Reads
<1>2. CASE lock # f /\ claim # f
  <2>1. {name \in {"lock", "claim"} : f = IF name = "lock" THEN lock ELSE claim} = {}
    BY <1>2
  <2>. QED
    BY <1>1, <2>1, FS_EmptySet DEF Links
<1>3. CASE lock = f /\ claim # f
  <2>1. {name \in {"lock", "claim"} : f = IF name = "lock" THEN lock ELSE claim} = {"lock"}
    BY <1>3
  <2>. QED
    BY <1>1, <2>1, FS_Singleton DEF Links
<1>4. CASE lock # f /\ claim = f
  <2>1. {name \in {"lock", "claim"} : f = IF name = "lock" THEN lock ELSE claim} = {"claim"}
    BY <1>4
  <2>. QED
    BY <1>1, <2>1, FS_Singleton DEF Links
<1>. QED
  BY <1>2, <1>3, <1>4

\* One process takes a step of its role: the others stay where they are.
LEMMA PlaceMoves ==
    ASSUME PlacesTyped, NEW p \in Incarnations, NEW s, PlaceOf(p, s), pc' = [pc EXCEPT ![p] = s]
    PROVE  PlacesTyped' /\ pc'[p] = s /\ (\A q \in Incarnations \ {p} : pc'[q] = pc[q])
BY DEF PlacesTyped, PlaceOf

\* While no file is the lock, or the lock is that of a live writer p, no other
\* live writer has got past its creation and no recovery is about to remove it.
Early == {"idle", "claim", "prior", "create", "done"}
NooneElse(p) ==
  /\ \A q \in (Legacy \cap alive) \ {p} : pc[q] \in Early
  /\ \A r \in Recoverers \cap alive : pc[r] \notin {"state", "remove"}

LEMMA NotHeld ==
    ASSUME WriterAssumption, TypeInv, Kept, NEW p,
           lock = NoFile \/ (p \in Legacy \cap alive /\ lock \in {File(p, FALSE), File(p, TRUE)})
    PROVE  NooneElse(p)
<1>1. ASSUME NEW q \in (Legacy \cap alive) \ {p} PROVE pc[q] \in Early
  <2>1. lock \notin {File(q, FALSE), File(q, TRUE)}
    <3>1. File(q, FALSE) # NoFile /\ File(q, TRUE) # NoFile
      <4>1. File(q, FALSE) \in LockFiles /\ File(q, TRUE) \in LockFiles
        BY DEF LockFiles, File
      <4>. QED
        BY <4>1 DEF WriterAssumption
    <3>2. p \in Legacy => \A b, c \in BOOLEAN : File(q, b) # File(p, c)
      BY DEF File
    <3>. QED
      BY <3>1, <3>2
  <2>2. pc[q] \in LegacySteps
    BY DEF TypeInv, PlacesTyped, PlaceOf, Incarnations
  <2>. QED
    BY <2>1, <2>2 DEF Kept, LegacyHold, LegacyFits, LegacySteps, Unbound, Bound, Leaving, Early
<1>2. ASSUME NEW r \in Recoverers \cap alive PROVE pc[r] \notin {"state", "remove"}
  <2>1. SUFFICES ASSUME pc[r] \in {"state", "remove"} PROVE FALSE
    OBVIOUS
  <2>2. lock = read[r] /\ read[r] # NoFile /\ read[r].owner \notin alive
    BY <2>1 DEF Kept, RecoveriesHold, RecoveryFits
  <2>. QED
    BY <2>2 DEF File
<1>. QED
  BY <1>1, <1>2 DEF NooneElse

\* A legacy writer takes a step that leaves the lock and the pointer alone and
\* may rely on what its next place relies on.
LEMMA LegacyMoves ==
    ASSUME WriterAssumption, TypeInv, Kept, NEW p \in Legacy, NEW s, PlaceOf(p, s),
           pc' = [pc EXCEPT ![p] = s], LegacyFits(p, s),
           UNCHANGED <<lock, authorities, pointer, alive, prior, read>>
    PROVE  Kept'
<1>. USE DEF WriterAssumption
<1>0. /\ p \in Incarnations /\ pc'[p] = s /\ \A q \in Incarnations \ {p} : pc'[q] = pc[q]
      /\ lock' = lock /\ ingestLock' = ingestLock /\ watcherLock' = watcherLock /\ pointer' = pointer
      /\ alive' = alive /\ prior' = prior /\ read' = read
  BY PlaceMoves DEF TypeInv, Incarnations, authorities
<1>1. \A q \in Recoverers \cup Ingest \cup Watchers : pc'[q] = pc[q]
  BY <1>0 DEF Incarnations
<1>2. LegacyHold'
  <2>. SUFFICES ASSUME NEW q \in Legacy, q \in alive PROVE LegacyFits(q, pc[q])'
    BY <1>0 DEF LegacyHold
  <2>1. LegacyFits(q, pc'[q])
    BY <1>0 DEF Kept, LegacyHold, Incarnations
  <2>. QED
    BY <2>1, <1>0, <1>1 DEF LegacyFits, File
<1>3. RecoveriesHold'
  BY <1>0, <1>1 DEF Kept, RecoveriesHold, RecoveryFits
<1>4. AuthoritiesHold'
  BY <1>0, <1>1 DEF Kept, AuthoritiesHold, IngestFits, WatcherFits
<1>5. OneRecovery'
  BY <1>0, <1>1 DEF Kept, OneRecovery, UnderWay
<1>. QED
  BY <1>2, <1>3, <1>4, <1>5 DEF Kept

\* The same of a step that replaces the lock or the pointer, which noone else
\* relies on then, or what the writer itself remembers.
LEMMA LegacyWrites ==
    ASSUME WriterAssumption, TypeInv, Kept, NEW p \in Legacy \cap alive, NEW s, PlaceOf(p, s),
           pc' = [pc EXCEPT ![p] = s], LegacyFits(p, s)', UNCHANGED <<authorities, alive, read>>,
           NooneElse(p) \/ (UNCHANGED <<lock, pointer>> /\ \A q \in Legacy \ {p} : prior'[q] = prior[q])
    PROVE  Kept'
<1>. USE DEF WriterAssumption
<1>0. /\ p \in Incarnations /\ pc'[p] = s /\ \A q \in Incarnations \ {p} : pc'[q] = pc[q]
      /\ ingestLock' = ingestLock /\ watcherLock' = watcherLock /\ alive' = alive /\ read' = read
  BY PlaceMoves DEF TypeInv, Incarnations, authorities
<1>1. \A q \in Recoverers \cup Ingest \cup Watchers : pc'[q] = pc[q]
  BY <1>0 DEF Incarnations
<1>2. LegacyHold'
  <2>. SUFFICES ASSUME NEW q \in Legacy, q \in alive PROVE LegacyFits(q, pc[q])'
    BY <1>0 DEF LegacyHold
  <2>1. CASE q = p
    <3>. HIDE DEF LegacyFits
    <3>. QED
      BY <2>1, <1>0
  <2>2. CASE q # p /\ NooneElse(p)
    BY <2>2, <1>0 DEF LegacyFits, NooneElse, Early, Unbound, Bound, Leaving, Seen, Incarnations
  <2>3. CASE q # p /\ ~NooneElse(p)
    <3>1. LegacyFits(q, pc'[q]) /\ lock' = lock /\ pointer' = pointer /\ prior'[q] = prior[q]
      BY <2>3, <1>0 DEF Kept, LegacyHold, Incarnations
    <3>. QED
      BY <3>1, <1>0, <1>1 DEF LegacyFits, File
  <2>. QED
    BY <2>1, <2>2, <2>3
<1>3. RecoveriesHold'
  BY <1>0, <1>1 DEF Kept, RecoveriesHold, RecoveryFits, NooneElse
<1>4. AuthoritiesHold'
  BY <1>0, <1>1 DEF Kept, AuthoritiesHold, IngestFits, WatcherFits
<1>5. OneRecovery'
  BY <1>0, <1>1 DEF Kept, OneRecovery, UnderWay
<1>. QED
  BY <1>2, <1>3, <1>4, <1>5 DEF Kept

\* A recovery is the only one under way: what it relies on is all that its step
\* can disturb, unless it replaces a lock that a live writer relies on.
LEMMA RecoveryMoves ==
    ASSUME WriterAssumption, TypeInv, Kept, NEW p \in Recoverers, NEW s, PlaceOf(p, s),
           pc' = [pc EXCEPT ![p] = s], RecoveryFits(p, s)', Recovers(p),
           \A q \in Recoverers \ {p} : ~UnderWay(q),
           lock' = lock \/ \A q \in Legacy \cap alive : pc[q] \in Early
    PROVE  Kept'
<1>. USE DEF WriterAssumption
<1>0. /\ p \in Incarnations /\ pc'[p] = s /\ \A q \in Incarnations \ {p} : pc'[q] = pc[q]
      /\ ingestLock' = ingestLock /\ watcherLock' = watcherLock /\ pointer' = pointer
      /\ alive' = alive /\ prior' = prior
  BY PlaceMoves DEF TypeInv, Incarnations, authorities, Recovers
<1>1. \A q \in Legacy \cup Ingest \cup Watchers : pc'[q] = pc[q]
  BY <1>0 DEF Incarnations
<1>2. LegacyHold'
  BY <1>0, <1>1 DEF Kept, LegacyHold, LegacyFits, Early, Unbound, Bound, Leaving, Seen, File
<1>3. RecoveriesHold'
  <2>. SUFFICES ASSUME NEW q \in Recoverers, q \in alive PROVE RecoveryFits(q, pc[q])'
    BY <1>0 DEF RecoveriesHold
  <2>1. CASE q = p
    <3>. HIDE DEF RecoveryFits
    <3>. QED
      BY <2>1, <1>0
  <2>2. CASE q # p
    BY <2>2, <1>0 DEF RecoveryFits, UnderWay, Incarnations
  <2>. QED
    BY <2>1, <2>2
<1>4. AuthoritiesHold'
  BY <1>0, <1>1 DEF Kept, AuthoritiesHold, IngestFits, WatcherFits
<1>5. OneRecovery'
  BY <1>0 DEF Kept, OneRecovery, UnderWay, Incarnations
<1>. QED
  BY <1>2, <1>3, <1>4, <1>5 DEF Kept

\* A check of a legacy writer is a step that moves it only.
LEMMA LegacyChecks ==
    ASSUME WriterAssumption, TypeInv, Kept, NEW p \in Legacy, NEW from, NEW ok, NEW to, NEW otherwise,
           Checks(p, from, ok, to, otherwise),
           PlaceOf(p, to), PlaceOf(p, otherwise),
           ok => LegacyFits(p, to), ~ok => LegacyFits(p, otherwise)
    PROVE  Kept'
<1>. DEFINE s == IF ok THEN to ELSE otherwise
<1>1. PlaceOf(p, s) /\ LegacyFits(p, s) /\ pc' = [pc EXCEPT ![p] = s]
  BY DEF Checks, Goes, Step
<1>2. UNCHANGED <<lock, authorities, pointer, alive, prior, read>>
  BY DEF Checks, locks
<1>. HIDE DEF s
<1>. QED
  BY <1>1, <1>2, LegacyMoves

LEMMA LegacyStep ==
    ASSUME WriterAssumption, TypeInv, Kept, NEW p \in Legacy,
           AcquireLegacy(p) \/ Recheck(p) \/ Bind(p) \/ Commit(p) \/ ReleaseLegacy(p)
    PROVE  Kept'
<1>. USE DEF WriterAssumption
\* Every place of a legacy writer is one of its role.
<1>0. \A s \in LegacySteps : PlaceOf(p, s)
  BY DEF PlaceOf
<1>a. p \in alive => LegacyFits(p, pc[p])
  BY DEF Kept, LegacyHold
<1>b. Others => /\ \A i \in Ingest \cap alive : pc[i] \notin {"rewatch", "ingesting"}
                /\ \A w \in Watchers \cap alive : pc[w] # "serving"
  BY DEF Kept, AuthoritiesHold, IngestFits, WatcherFits, Others, NoWatcher, NoPhase3, Incarnations
<1>. USE DEF LegacySteps, Unbound, Bound, Leaving, Seen
<1>1. CASE AcquireLegacy(p)
  <2>1. CASE Checks(p, "idle", Others, "claim", "done")
    <3>1. p \in alive /\ pc[p] = "idle"
      BY <2>1 DEF Checks, Goes, Step
    <3>2. (Others) => LegacyFits(p, "claim")
      BY <1>a, <1>b, <3>1 DEF LegacyFits
    <3>3. ~(Others) => LegacyFits(p, "done")
      BY <1>a, <1>b, <3>1 DEF LegacyFits
    <3>4. PlaceOf(p, "claim") /\ PlaceOf(p, "done")
      BY <1>0
    <3>. HIDE DEF LegacySteps, Unbound, Bound, Leaving, Seen
    <3>. QED
      BY <2>1, <3>2, <3>3, <3>4, LegacyChecks
  <2>2. CASE Checks(p, "claim", claim = NoFile, "prior", "done")
    <3>1. p \in alive /\ pc[p] = "claim"
      BY <2>2 DEF Checks, Goes, Step
    <3>2. (claim = NoFile) => LegacyFits(p, "prior")
      BY <1>a, <1>b, <3>1 DEF LegacyFits
    <3>3. ~(claim = NoFile) => LegacyFits(p, "done")
      BY <1>a, <1>b, <3>1 DEF LegacyFits
    <3>4. PlaceOf(p, "prior") /\ PlaceOf(p, "done")
      BY <1>0
    <3>. HIDE DEF LegacySteps, Unbound, Bound, Leaving, Seen
    <3>. QED
      BY <2>2, <3>2, <3>3, <3>4, LegacyChecks
  <2>3. CASE /\ Step(p, "prior", "create") /\ prior' = [prior EXCEPT ![p] = pointer]
             /\ UNCHANGED <<locks, authorities, pointer, alive, read, overlapped>>
    <3>1. p \in alive /\ pc' = [pc EXCEPT ![p] = "create"] /\ PlaceOf(p, "create")
      BY <1>0, <2>3 DEF Step
    <3>2. LegacyFits(p, "create")'
      BY DEF LegacyFits
    <3>. HIDE DEF LegacySteps, Unbound, Bound, Leaving, Seen
    <3>3. \A q \in Legacy \ {p} : prior'[q] = prior[q]
      BY <2>3 DEF TypeInv, DataTyped
    <3>. QED
      BY <2>3, <3>1, <3>2, <3>3, LegacyWrites DEF locks
  <2>4. CASE /\ Goes(p, "create", lock = NoFile, "recheck", "done")
             /\ lock' = IF lock = NoFile THEN File(p, FALSE) ELSE lock
             /\ UNCHANGED <<claim, claimant, authorities, pointer, alive, prior, read, overlapped>>
    <3>1. CASE lock = NoFile
      <4>1. p \in alive /\ pc' = [pc EXCEPT ![p] = "recheck"] /\ PlaceOf(p, "recheck")
        BY <1>0, <2>4, <3>1 DEF Goes, Step
      <4>2. LegacyFits(p, "recheck")'
        BY <2>4, <3>1 DEF LegacyFits, File
      <4>. HIDE DEF LegacySteps, Unbound, Bound, Leaving, Seen
      <4>3. NooneElse(p)
        BY <3>1, NotHeld
      <4>4. UNCHANGED <<authorities, alive, read>>
        BY <2>4
      <4>. QED
        BY <4>1, <4>2, <4>3, <4>4, LegacyWrites
    <3>2. CASE lock # NoFile
      <4>1. p \in alive /\ pc' = [pc EXCEPT ![p] = "done"] /\ PlaceOf(p, "done") /\ LegacyFits(p, "done")
        BY <1>0, <2>4, <3>2 DEF Goes, Step, LegacyFits
      <4>. HIDE DEF LegacySteps, Unbound, Bound, Leaving, Seen
      <4>2. UNCHANGED <<lock, authorities, pointer, alive, prior, read>>
        BY <2>4, <3>2
      <4>. QED
        BY <4>1, <4>2, LegacyMoves
    <3>. QED
      BY <3>1, <3>2
  <2>. QED
    BY <1>1, <2>1, <2>2, <2>3, <2>4 DEF AcquireLegacy
<1>2. CASE Recheck(p)
  <2>1. CASE Checks(p, "recheck", Others, "reopen", "abandon")
    <3>1. p \in alive /\ pc[p] = "recheck"
      BY <2>1 DEF Checks, Goes, Step
    <3>2. (Others) => LegacyFits(p, "reopen")
      BY <1>a, <1>b, <3>1 DEF LegacyFits
    <3>3. ~(Others) => LegacyFits(p, "abandon")
      BY <1>a, <1>b, <3>1 DEF LegacyFits
    <3>4. PlaceOf(p, "reopen") /\ PlaceOf(p, "abandon")
      BY <1>0
    <3>. HIDE DEF LegacySteps, Unbound, Bound, Leaving, Seen
    <3>. QED
      BY <2>1, <3>2, <3>3, <3>4, LegacyChecks
  <2>2. CASE Checks(p, "reopen", lock = File(p, FALSE) /\ Reads(lock, 1), "held", "abandon")
    <3>1. p \in alive /\ pc[p] = "reopen"
      BY <2>2 DEF Checks, Goes, Step
    <3>2. (lock = File(p, FALSE) /\ Reads(lock, 1)) => LegacyFits(p, "held")
      BY <1>a, <1>b, <3>1 DEF LegacyFits
    <3>3. ~(lock = File(p, FALSE) /\ Reads(lock, 1)) => LegacyFits(p, "abandon")
      BY <1>a, <1>b, <3>1 DEF LegacyFits
    <3>4. PlaceOf(p, "held") /\ PlaceOf(p, "abandon")
      BY <1>0
    <3>. HIDE DEF LegacySteps, Unbound, Bound, Leaving, Seen
    <3>. QED
      BY <2>2, <3>2, <3>3, <3>4, LegacyChecks
  <2>. QED
    BY <1>2, <2>1, <2>2 DEF Recheck
<1>3. CASE Bind(p)
  <2>1. CASE Checks(p, "held", Capable(p, FALSE), "bind", "release")
    <3>1. p \in alive /\ pc[p] = "held"
      BY <2>1 DEF Checks, Goes, Step
    <3>2. (Capable(p, FALSE)) => LegacyFits(p, "bind")
      BY <1>a, <1>b, <3>1 DEF LegacyFits
    <3>3. ~(Capable(p, FALSE)) => LegacyFits(p, "release")
      BY <1>a, <1>b, <3>1 DEF LegacyFits
    <3>4. PlaceOf(p, "bind") /\ PlaceOf(p, "release")
      BY <1>0
    <3>. HIDE DEF LegacySteps, Unbound, Bound, Leaving, Seen
    <3>. QED
      BY <2>1, <3>2, <3>3, <3>4, LegacyChecks
  <2>2. CASE Checks(p, "bind", Others /\ pointer = prior[p], "rename", "release")
    <3>1. p \in alive /\ pc[p] = "bind"
      BY <2>2 DEF Checks, Goes, Step
    <3>2. (Others /\ pointer = prior[p]) => LegacyFits(p, "rename")
      BY <1>a, <1>b, <3>1 DEF LegacyFits
    <3>3. ~(Others /\ pointer = prior[p]) => LegacyFits(p, "release")
      BY <1>a, <1>b, <3>1 DEF LegacyFits
    <3>4. PlaceOf(p, "rename") /\ PlaceOf(p, "release")
      BY <1>0
    <3>. HIDE DEF LegacySteps, Unbound, Bound, Leaving, Seen
    <3>. QED
      BY <2>2, <3>2, <3>3, <3>4, LegacyChecks
  <2>3. CASE /\ Step(p, "rename", "reread") /\ lock' = File(p, TRUE)
             /\ UNCHANGED <<claim, claimant, authorities, pointer, alive, prior, read, overlapped>>
    <3>1. p \in alive /\ pc[p] = "rename" /\ pc' = [pc EXCEPT ![p] = "reread"] /\ PlaceOf(p, "reread")
      BY <1>0, <2>3 DEF Step
    <3>2. LegacyFits(p, pc[p])
      BY <1>a, <3>1
    <3>3. LegacyFits(p, "reread")'
      <4>1. /\ \A i \in Ingest \cap alive : pc'[i] = pc[i]
            /\ \A w \in Watchers \cap alive : pc'[w] = pc[w]
        BY <3>1, PlaceMoves DEF TypeInv, Incarnations
      <4>. QED
        BY <2>3, <3>1, <3>2, <4>1 DEF LegacyFits, File
    <3>4. lock = File(p, FALSE)
      BY <3>1, <3>2 DEF LegacyFits
    <3>. HIDE DEF LegacySteps, Unbound, Bound, Leaving, Seen
    <3>5. NooneElse(p)
      BY <3>1, <3>4, NotHeld
    <3>. QED
      BY <2>3, <3>1, <3>3, <3>5, LegacyWrites
  <2>. QED
    BY <1>3, <2>1, <2>2, <2>3 DEF Bind
<1>4. CASE Commit(p)
  <2>1. CASE Checks(p, "reread", Capable(p, TRUE), "commit", "release")
    <3>1. p \in alive /\ pc[p] = "reread"
      BY <2>1 DEF Checks, Goes, Step
    <3>2. (Capable(p, TRUE)) => LegacyFits(p, "commit")
      BY <1>a, <1>b, <3>1 DEF LegacyFits
    <3>3. ~(Capable(p, TRUE)) => LegacyFits(p, "release")
      BY <1>a, <1>b, <3>1 DEF LegacyFits
    <3>4. PlaceOf(p, "commit") /\ PlaceOf(p, "release")
      BY <1>0
    <3>. HIDE DEF LegacySteps, Unbound, Bound, Leaving, Seen
    <3>. QED
      BY <2>1, <3>2, <3>3, <3>4, LegacyChecks
  <2>2. CASE Checks(p, "commit", Others /\ pointer = prior[p], "confirm", "release")
    <3>1. p \in alive /\ pc[p] = "commit"
      BY <2>2 DEF Checks, Goes, Step
    <3>2. (Others /\ pointer = prior[p]) => LegacyFits(p, "confirm")
      BY <1>a, <1>b, <3>1 DEF LegacyFits
    <3>3. ~(Others /\ pointer = prior[p]) => LegacyFits(p, "release")
      BY <1>a, <1>b, <3>1 DEF LegacyFits
    <3>4. PlaceOf(p, "confirm") /\ PlaceOf(p, "release")
      BY <1>0
    <3>. HIDE DEF LegacySteps, Unbound, Bound, Leaving, Seen
    <3>. QED
      BY <2>2, <3>2, <3>3, <3>4, LegacyChecks
  <2>3. CASE Checks(p, "confirm", Capable(p, TRUE), "publish", "release")
    <3>1. p \in alive /\ pc[p] = "confirm"
      BY <2>3 DEF Checks, Goes, Step
    <3>2. (Capable(p, TRUE)) => LegacyFits(p, "publish")
      BY <1>a, <1>b, <3>1 DEF LegacyFits
    <3>3. ~(Capable(p, TRUE)) => LegacyFits(p, "release")
      BY <1>a, <1>b, <3>1 DEF LegacyFits
    <3>4. PlaceOf(p, "publish") /\ PlaceOf(p, "release")
      BY <1>0
    <3>. HIDE DEF LegacySteps, Unbound, Bound, Leaving, Seen
    <3>. QED
      BY <2>3, <3>2, <3>3, <3>4, LegacyChecks
  <2>4. CASE /\ Step(p, "publish", "release") /\ pointer' = p
             /\ UNCHANGED <<locks, authorities, alive, prior, read, overlapped>>
    <3>1. p \in alive /\ pc[p] = "publish" /\ pc' = [pc EXCEPT ![p] = "release"] /\ PlaceOf(p, "release")
      BY <1>0, <2>4 DEF Step
    <3>2. lock = File(p, TRUE)
      BY <1>a, <3>1 DEF LegacyFits
    <3>3. LegacyFits(p, "release")'
      BY <2>4, <3>2 DEF LegacyFits, locks, File
    <3>. HIDE DEF LegacySteps, Unbound, Bound, Leaving, Seen
    <3>4. NooneElse(p)
      BY <3>1, <3>2, NotHeld
    <3>. QED
      BY <2>4, <3>1, <3>3, <3>4, LegacyWrites
  <2>. QED
    BY <1>4, <2>1, <2>2, <2>3, <2>4 DEF Commit
<1>5. CASE ReleaseLegacy(p)
  <2>1. CASE Checks(p, "release", (Capable(p, FALSE) \/ Capable(p, TRUE)) /\ pointer \in {prior[p], p}, "unlink", "done")
    <3>1. p \in alive /\ pc[p] = "release"
      BY <2>1 DEF Checks, Goes, Step
    <3>2. ((Capable(p, FALSE) \/ Capable(p, TRUE)) /\ pointer \in {prior[p], p}) => LegacyFits(p, "unlink")
      BY <1>a, <1>b, <3>1 DEF LegacyFits, Capable
    <3>3. ~((Capable(p, FALSE) \/ Capable(p, TRUE)) /\ pointer \in {prior[p], p}) => LegacyFits(p, "done")
      BY <1>a, <1>b, <3>1 DEF LegacyFits
    <3>4. PlaceOf(p, "unlink") /\ PlaceOf(p, "done")
      BY <1>0
    <3>. HIDE DEF LegacySteps, Unbound, Bound, Leaving, Seen
    <3>. QED
      BY <2>1, <3>2, <3>3, <3>4, LegacyChecks
  <2>2. CASE Checks(p, "abandon", lock = File(p, FALSE) /\ Reads(lock, 1), "unlink", "done")
    <3>1. p \in alive /\ pc[p] = "abandon"
      BY <2>2 DEF Checks, Goes, Step
    <3>2. (lock = File(p, FALSE) /\ Reads(lock, 1)) => LegacyFits(p, "unlink")
      BY <1>a, <1>b, <3>1 DEF LegacyFits
    <3>3. ~(lock = File(p, FALSE) /\ Reads(lock, 1)) => LegacyFits(p, "done")
      BY <1>a, <1>b, <3>1 DEF LegacyFits
    <3>4. PlaceOf(p, "unlink") /\ PlaceOf(p, "done")
      BY <1>0
    <3>. HIDE DEF LegacySteps, Unbound, Bound, Leaving, Seen
    <3>. QED
      BY <2>2, <3>2, <3>3, <3>4, LegacyChecks
  <2>3. CASE /\ Step(p, "unlink", "done") /\ lock' = NoFile
             /\ UNCHANGED <<claim, claimant, authorities, pointer, alive, prior, read, overlapped>>
    <3>1. p \in alive /\ pc[p] = "unlink" /\ pc' = [pc EXCEPT ![p] = "done"] /\ PlaceOf(p, "done")
      BY <1>0, <2>3 DEF Step
    <3>2. lock \in {File(p, FALSE), File(p, TRUE)}
      BY <1>a, <3>1 DEF LegacyFits
    <3>3. LegacyFits(p, "done")'
      BY DEF LegacyFits
    <3>. HIDE DEF LegacySteps, Unbound, Bound, Leaving, Seen
    <3>4. NooneElse(p)
      BY <3>1, <3>2, NotHeld
    <3>. QED
      BY <2>3, <3>1, <3>3, <3>4, LegacyWrites
  <2>. QED
    BY <1>5, <2>1, <2>2, <2>3 DEF ReleaseLegacy
<1>. QED
  BY <1>1, <1>2, <1>3, <1>4, <1>5

LEMMA RecoveryStep ==
    ASSUME WriterAssumption, TypeInv, Kept, NEW p \in Recoverers, Recover(p), ~overlapped'
    PROVE  Kept'
<1>. USE DEF WriterAssumption
<1>0. \A s \in RecoverySteps : PlaceOf(p, s)
  BY DEF PlaceOf
<1>a. p \in alive => RecoveryFits(p, pc[p])
  BY DEF Kept, RecoveriesHold
<1>b. UnderWay(p) => \A q \in Recoverers \ {p} : ~UnderWay(q)
  BY DEF Kept, OneRecovery
<1>c. lock = NoFile => \A q \in Legacy \cap alive : pc[q] \in Early
  BY NotHeld, NoFile \notin Legacy DEF NooneElse, Incarnations
<1>1. CASE BeginRecovery(p)
  <2>1. PICK s \in {"restore", "done"} : pc' = [pc EXCEPT ![p] = s]
    BY <1>1 DEF BeginRecovery, Goes, Step
  <2>2. \A q \in Recoverers \ {p} : ~UnderWay(q)
    BY <1>1 DEF BeginRecovery
  <2>3. RecoveryFits(p, s)' /\ PlaceOf(p, s) /\ Recovers(p) /\ lock' = lock
    BY <1>0, <1>1 DEF BeginRecovery, RecoveryFits, RecoverySteps, locks
  <2>. QED
    BY <2>1, <2>2, <2>3, RecoveryMoves
<1>2. CASE RestoreLock(p)
  <2>1. pc' = [pc EXCEPT ![p] = "read"] /\ UnderWay(p)
    BY <1>2 DEF RestoreLock, Step, UnderWay
  <2>2. RecoveryFits(p, "read")' /\ PlaceOf(p, "read") /\ Recovers(p)
    BY <1>0, <1>2 DEF RestoreLock, RecoveryFits, RecoverySteps
  <2>3. lock' = lock \/ \A q \in Legacy \cap alive : pc[q] \in Early
    BY <1>c, <1>2 DEF RestoreLock
  <2>. QED
    BY <1>b, <2>1, <2>2, <2>3, RecoveryMoves
<1>3. CASE PreliminaryRead(p)
  <2>1. PICK s \in {"pair", "done"} :
          /\ pc' = [pc EXCEPT ![p] = s]
          /\ s = "pair" => read'[p] # NoFile /\ read'[p].owner \notin alive
    <3>. DEFINE f == IF claim = NoFile THEN lock ELSE claim
                links == IF claim # NoFile /\ lock # NoFile THEN 2 ELSE 1
                ok == Reads(f, links) /\ OwnerIsDead(f)
    <3>1. pc' = [pc EXCEPT ![p] = IF ok THEN "pair" ELSE "done"] /\ read' = [read EXCEPT ![p] = IF ok THEN f ELSE @]
      BY <1>3 DEF PreliminaryRead, Goes, Step
    <3>2. ok => f # NoFile /\ f.owner \notin alive
      BY DEF Reads, OwnerIsDead
    <3>3. p \in DOMAIN read
      BY DEF TypeInv, DataTyped
    <3>. HIDE DEF f, ok
    <3>. QED
      BY <3>1, <3>2, <3>3
  <2>2. UnderWay(p) /\ Recovers(p) /\ lock' = lock
    BY <1>3 DEF PreliminaryRead, Goes, Step, UnderWay, locks
  <2>3. RecoveryFits(p, s)' /\ PlaceOf(p, s)
    BY <1>0, <2>1, <2>2 DEF RecoveryFits, RecoverySteps, Recovers
  <2>. QED
    BY <1>b, <2>1, <2>2, <2>3, RecoveryMoves
\* The steps between the preliminary read and the check of the state keep the
\* file that was read.
<1>4. CASE ReadPair(p) \/ RemoveClaim(p, "unclaim", "link") \/ LinkClaim(p)
  <2>1. PICK s \in {"link", "unclaim", "claimed", "done"} : pc' = [pc EXCEPT ![p] = s]
    BY <1>4 DEF ReadPair, RemoveClaim, LinkClaim, Goes, Step
  <2>2. p \in alive /\ pc[p] \in {"pair", "unclaim", "link"} /\ Recovers(p) /\ lock' = lock /\ read' = read
    BY <1>4 DEF ReadPair, RemoveClaim, LinkClaim, Goes, Step, locks
  <2>3. RecoveryFits(p, s)' /\ PlaceOf(p, s)
    BY <1>0, <1>a, <2>2 DEF RecoveryFits, RecoverySteps, Recovers
  <2>. QED
    BY <1>b, <2>1, <2>2, <2>3, RecoveryMoves DEF UnderWay
<1>5. CASE Claimed(p, "claimed", 2, "state")
  <2>1. PICK s \in {"state", "done"} :
          pc' = [pc EXCEPT ![p] = s] /\ (s = "state" => claim = read[p] /\ Reads(claim, 2))
    BY <1>5 DEF Claimed, Goes, Step
  <2>2. p \in alive /\ pc[p] = "claimed" /\ Recovers(p) /\ lock' = lock /\ read' = read
    BY <1>5 DEF Claimed, Goes, Step, locks
  <2>3. s = "state" => lock = read[p]
    BY <2>1, TwoLinks
  <2>4. RecoveryFits(p, s)' /\ PlaceOf(p, s)
    BY <1>0, <1>a, <2>2, <2>3 DEF RecoveryFits, RecoverySteps, Recovers
  <2>. QED
    BY <1>b, <2>1, <2>2, <2>4, RecoveryMoves DEF UnderWay
<1>6. CASE CheckState(p)
  <2>1. PICK s \in {"remove", "done"} : pc' = [pc EXCEPT ![p] = s]
    BY <1>6 DEF CheckState, Goes, Step
  <2>2. p \in alive /\ pc[p] = "state" /\ Recovers(p) /\ lock' = lock /\ read' = read
    BY <1>6 DEF CheckState, Goes, Step, locks
  <2>3. RecoveryFits(p, s)' /\ PlaceOf(p, s)
    BY <1>0, <1>a, <2>2 DEF RecoveryFits, RecoverySteps, Recovers
  <2>. QED
    BY <1>b, <2>1, <2>2, <2>3, RecoveryMoves DEF UnderWay
\* The lock that is removed is the dead writer's, so no live writer has it.
<1>7. CASE RemoveLock(p)
  <2>1. PICK s \in {"final", "done"} : pc' = [pc EXCEPT ![p] = s]
    BY <1>7 DEF RemoveLock, Goes, Step
  <2>2. p \in alive /\ pc[p] = "remove" /\ Recovers(p)
    BY <1>7 DEF RemoveLock, Goes, Step
  <2>3. RecoveryFits(p, s)' /\ PlaceOf(p, s)
    BY <1>0 DEF RecoveryFits, RecoverySteps
  <2>4. lock.owner \notin alive /\ lock # NoFile
    BY <1>a, <2>2 DEF RecoveryFits
  <2>5. ASSUME NEW q \in Legacy \cap alive PROVE pc[q] \in Early
    <3>1. lock \notin {File(q, FALSE), File(q, TRUE)}
      BY <2>4 DEF File
    <3>2. LegacyFits(q, pc[q]) /\ pc[q] \in LegacySteps
      BY DEF Kept, LegacyHold, TypeInv, PlacesTyped, PlaceOf, Incarnations
    <3>. QED
      BY <3>1, <3>2 DEF LegacyFits, LegacySteps, Unbound, Bound, Leaving, Early
  <2>. QED
    BY <1>b, <2>1, <2>2, <2>3, <2>5, RecoveryMoves DEF UnderWay
<1>8. CASE Claimed(p, "final", 1, "finish") \/ RemoveClaim(p, "finish", "done")
  <2>1. PICK s \in {"finish", "done"} : pc' = [pc EXCEPT ![p] = s]
    BY <1>8 DEF Claimed, RemoveClaim, Goes, Step
  <2>2. p \in alive /\ pc[p] \in {"final", "finish"} /\ Recovers(p) /\ lock' = lock
    BY <1>8 DEF Claimed, RemoveClaim, Goes, Step, locks
  <2>3. RecoveryFits(p, s)' /\ PlaceOf(p, s)
    BY <1>0 DEF RecoveryFits, RecoverySteps
  <2>. QED
    BY <1>b, <2>1, <2>2, <2>3, RecoveryMoves DEF UnderWay
<1>. QED
  BY <1>1, <1>2, <1>3, <1>4, <1>5, <1>6, <1>7, <1>8 DEF Recover

\* An ingest authority or a watcher takes a step of the handshake.
LEMMA AuthorityMoves ==
    ASSUME WriterAssumption, TypeInv, Kept, NEW p \in Ingest \cup Watchers, NEW s, PlaceOf(p, s), Handshake,
           pc' = [pc EXCEPT ![p] = s], AuthoritiesHold',
           s \in {"rewatch", "ingesting", "serving"} =>
             s = pc[p] \/ \A q \in Legacy \cap alive : pc[q] \notin Seen,
           pointer' = pointer \/ \A q \in Legacy \cap alive : pc[q] \notin {"rename"} \cup Bound
    PROVE  Kept'
<1>. USE DEF WriterAssumption
<1>0. /\ p \in Incarnations /\ pc'[p] = s /\ \A q \in Incarnations \ {p} : pc'[q] = pc[q]
      /\ lock' = lock /\ alive' = alive /\ prior' = prior /\ read' = read
  BY PlaceMoves DEF TypeInv, Incarnations, Handshake, locks
<1>1. \A q \in Legacy \cup Recoverers : pc'[q] = pc[q]
  BY <1>0 DEF Incarnations
<1>2. LegacyHold'
  <2>. SUFFICES ASSUME NEW q \in Legacy, q \in alive PROVE LegacyFits(q, pc[q])'
    BY <1>0 DEF LegacyHold
  <2>1. LegacyFits(q, pc[q]) /\ pc'[q] = pc[q]
    BY <1>1 DEF Kept, LegacyHold
  <2>2. pc[q] \in Seen => /\ \A i \in Ingest \cap alive : pc'[i] \notin {"rewatch", "ingesting"}
                          /\ \A w \in Watchers \cap alive : pc'[w] # "serving"
    BY <1>0, <2>1 DEF LegacyFits, Incarnations
  <2>3. pc[q] \in {"rename"} \cup Bound => pointer' = prior'[q]
    BY <1>0, <2>1 DEF LegacyFits
  <2>. QED
    BY <1>0, <2>1, <2>2, <2>3 DEF LegacyFits, File
<1>3. RecoveriesHold'
  BY <1>0, <1>1 DEF Kept, RecoveriesHold, RecoveryFits
<1>4. OneRecovery'
  BY <1>0, <1>1 DEF Kept, OneRecovery, UnderWay
<1>. QED
  BY <1>2, <1>3, <1>4 DEF Kept

LEMMA IngestStep ==
    ASSUME WriterAssumption, TypeInv, Kept, NEW p \in Ingest, IngestSteps(p), Handshake
    PROVE  Kept'
<1>. USE DEF WriterAssumption
<1>0. \A s \in IngestPlaces : PlaceOf(p, s)
  BY DEF PlaceOf
<1>a. p \in alive /\ p # NoFile
  BY DEF IngestSteps, Goes, Step, Incarnations
<1>b. IngestFits(p, pc[p])
  BY <1>a DEF Kept, AuthoritiesHold
\* Every live legacy writer beyond its creation has a lock.
<1>c. NoLegacy => \A q \in Legacy \cap alive : pc[q] \notin Seen
  <2>1. NoLegacy => NooneElse(NoFile)
    BY NotHeld DEF NoLegacy
  <2>. QED
    BY <2>1 DEF NooneElse, Early, Seen, Bound, Incarnations
<1>d. pc[p] \in {"rewatch", "ingesting"} =>
        \A q \in Legacy \cap alive : pc[q] \notin Seen \cup {"rename"} \cup Bound
  BY <1>a DEF Kept, LegacyHold, LegacyFits, Seen
\* A watcher that serves has a lock.
<1>e. NoWatcher => \A w \in Watchers \cap alive : pc[w] # "serving"
  BY DEF NoWatcher, Kept, AuthoritiesHold, WatcherFits, Incarnations
<1>1. PICK s \in IngestPlaces :
        /\ pc' = [pc EXCEPT ![p] = s]
        /\ s \in {"recheck", "rewatch", "ingesting", "unlink"} => ingestLock' = p
        /\ s = "rewatch" => pc[p] = "recheck" /\ NoLegacy
        /\ s = "ingesting" => pc[p] = "rewatch" /\ NoWatcher
        /\ ingestLock' = ingestLock \/ ingestLock \in {NoFile, p}
        /\ watcherLock' = watcherLock
        /\ pointer' = pointer \/ pc[p] = "ingesting"
  <2>1. CASE Goes(p, "idle", NoWatcher /\ NoLegacy /\ ingestLock = NoFile, "create", "done") /\ UNCHANGED <<authorities, pointer>>
    BY <2>1 DEF Goes, Step, authorities, IngestPlaces
  <2>2. CASE /\ Goes(p, "create", ingestLock = NoFile, "recheck", "done")
             /\ ingestLock' = (IF ingestLock = NoFile THEN p ELSE ingestLock)
             /\ UNCHANGED <<watcherLock, journals, pointer>>
    BY <2>2 DEF Goes, Step, IngestPlaces
  <2>3. CASE Goes(p, "recheck", NoLegacy, "rewatch", "unlink") /\ UNCHANGED <<authorities, pointer>>
    BY <1>b, <2>3 DEF Goes, Step, authorities, IngestPlaces, IngestFits
  <2>4. CASE Goes(p, "rewatch", NoWatcher, "ingesting", "unlink") /\ UNCHANGED <<authorities, pointer>>
    BY <1>b, <2>4 DEF Goes, Step, authorities, IngestPlaces, IngestFits
  <2>5. CASE Step(p, "ingesting", "unlink") /\ pointer' \in {pointer, Tombstone} /\ UNCHANGED authorities
    BY <1>b, <2>5 DEF Goes, Step, authorities, IngestPlaces, IngestFits
  <2>6. CASE Step(p, "unlink", "done") /\ ingestLock' = NoFile /\ UNCHANGED <<watcherLock, journals, pointer>>
    BY <1>b, <2>6 DEF Goes, Step, IngestPlaces, IngestFits
  <2>. QED
    BY <2>1, <2>2, <2>3, <2>4, <2>5, <2>6 DEF IngestSteps
<1>2. alive' = alive /\ pc'[p] = s /\ \A q \in Incarnations \ {p} : pc'[q] = pc[q]
  BY <1>0, <1>1, PlaceMoves DEF TypeInv, Incarnations, Handshake
<1>3. \A w \in Watchers : pc'[w] = pc[w]
  BY <1>2 DEF Incarnations
<1>4. ASSUME NEW i \in Ingest, i \in alive PROVE IngestFits(i, pc[i])'
  <2>1. CASE i = p
    BY <2>1, <1>1, <1>2, <1>3, <1>e DEF IngestFits
  <2>2. CASE i # p
    <3>1. IngestFits(i, pc[i]) /\ pc'[i] = pc[i] /\ i # NoFile
      BY <2>2, <1>2, <1>4 DEF Kept, AuthoritiesHold, Incarnations
    <3>. QED
      BY <2>2, <3>1, <1>1, <1>2, <1>3 DEF IngestFits
  <2>. QED
    BY <2>1, <2>2
<1>5. AuthoritiesHold'
  BY <1>1, <1>2, <1>3, <1>4 DEF Kept, AuthoritiesHold, WatcherFits
<1>. QED
  BY <1>0, <1>1, <1>5, <1>c, <1>d, AuthorityMoves DEF IngestPlaces

LEMMA WatcherStep ==
    ASSUME WriterAssumption, TypeInv, Kept, NEW p \in Watchers, WatcherSteps(p), Handshake
    PROVE  Kept'
<1>. USE DEF WriterAssumption
<1>0. \A s \in WatcherPlaces : PlaceOf(p, s)
  BY DEF PlaceOf
<1>a. p \in alive /\ p # NoFile
  BY DEF WatcherSteps, Goes, Step, Incarnations
<1>b. WatcherFits(p, pc[p])
  BY <1>a DEF Kept, AuthoritiesHold
<1>c. NoLegacy => \A q \in Legacy \cap alive : pc[q] \notin Seen
  <2>1. NoLegacy => NooneElse(NoFile)
    BY NotHeld DEF NoLegacy
  <2>. QED
    BY <2>1 DEF NooneElse, Early, Seen, Bound, Incarnations
\* An ingest authority that has acquired has a lock.
<1>d. ingestLock = NoFile => \A i \in Ingest \cap alive : pc[i] # "ingesting"
  BY DEF Kept, AuthoritiesHold, IngestFits, Incarnations
<1>1. PICK s \in WatcherPlaces :
        /\ pc' = [pc EXCEPT ![p] = s]
        /\ s \in {"recheck", "serving", "unlink"} => watcherLock' = p
        /\ s = "serving" => s = pc[p] \/ (NoLegacy /\ ingestLock = NoFile)
        /\ watcherLock' = watcherLock \/ watcherLock \in {NoFile, p}
        /\ ingestLock' = ingestLock /\ pointer' = pointer
  <2>. DEFINE free == NoLegacy /\ ingestLock = NoFile
  <2>1. CASE Goes(p, "idle", free /\ watcherLock = NoFile, "create", "done") /\ UNCHANGED <<authorities, pointer>>
    BY <2>1 DEF Goes, Step, authorities, WatcherPlaces
  <2>2. CASE /\ Goes(p, "create", watcherLock = NoFile, "recheck", "done")
             /\ watcherLock' = (IF watcherLock = NoFile THEN p ELSE watcherLock)
             /\ UNCHANGED <<ingestLock, journals, pointer>>
    BY <2>2 DEF Goes, Step, WatcherPlaces
  <2>3. CASE Goes(p, "recheck", free, "serving", "unlink") /\ UNCHANGED <<authorities, pointer>>
    BY <1>b, <2>3 DEF Goes, Step, authorities, WatcherPlaces, WatcherFits
  <2>4. CASE /\ Step(p, "serving", "serving") /\ ~journals /\ journals' = TRUE
             /\ UNCHANGED <<ingestLock, watcherLock, pointer>>
    BY <1>b, <2>4 DEF Step, WatcherPlaces, WatcherFits
  <2>5. CASE Step(p, "unlink", "done") /\ watcherLock' = NoFile /\ UNCHANGED <<ingestLock, journals, pointer>>
    BY <1>b, <2>5 DEF Step, WatcherPlaces, WatcherFits
  <2>. QED
    BY <2>1, <2>2, <2>3, <2>4, <2>5 DEF WatcherSteps
<1>2. alive' = alive /\ pc'[p] = s /\ \A q \in Incarnations \ {p} : pc'[q] = pc[q]
  BY <1>0, <1>1, PlaceMoves DEF TypeInv, Incarnations, Handshake
<1>3. ASSUME NEW w \in Watchers, w \in alive PROVE WatcherFits(w, pc[w])'
  <2>1. CASE w = p
    BY <2>1, <1>1, <1>2 DEF WatcherFits
  <2>2. CASE w # p
    <3>1. WatcherFits(w, pc[w]) /\ pc'[w] = pc[w] /\ w # NoFile
      BY <2>2, <1>2, <1>3 DEF Kept, AuthoritiesHold, Incarnations
    <3>. QED
      BY <2>2, <3>1, <1>1 DEF WatcherFits
  <2>. QED
    BY <2>1, <2>2
<1>4. ASSUME NEW i \in Ingest, i \in alive PROVE IngestFits(i, pc[i])'
  <2>1. IngestFits(i, pc[i]) /\ pc'[i] = pc[i]
    BY <1>2, <1>4 DEF Kept, AuthoritiesHold, Incarnations
  <2>2. ASSUME NEW w \in Watchers \cap alive, pc[i] = "ingesting" PROVE pc'[w] # "serving"
    <3>1. pc[w] # "serving"
      BY <2>1, <2>2 DEF IngestFits
    <3>2. CASE w = p
      BY <1>1, <1>2, <1>4, <1>d, <2>2, <3>1, <3>2
    <3>3. CASE w # p
      BY <1>2, <3>1, <3>3 DEF Incarnations
    <3>. QED
      BY <3>2, <3>3
  <2>. QED
    BY <1>1, <1>2, <2>1, <2>2 DEF IngestFits
<1>5. AuthoritiesHold'
  BY <1>2, <1>3, <1>4 DEF AuthoritiesHold
<1>. QED
  BY <1>0, <1>1, <1>5, <1>c, AuthorityMoves DEF WatcherPlaces

\* A process that dies takes nothing with it that another relies on.
LEMMA CrashStep ==
    ASSUME WriterAssumption, TypeInv, Kept, NEW p \in Incarnations, Crash(p)
    PROVE  Kept'
<1>0. /\ pc' = [pc EXCEPT ![p] = "done"] /\ alive' = alive \ {p}
      /\ lock' = lock /\ ingestLock' = ingestLock /\ watcherLock' = watcherLock /\ pointer' = pointer
      /\ prior' = prior /\ read' = read
  BY DEF Crash, locks, authorities
<1>1. \A q \in Incarnations \ {p} : pc'[q] = pc[q]
  BY <1>0 DEF TypeInv, PlacesTyped
<1>2. \A q \in alive' : q \in alive /\ pc'[q] = pc[q]
  BY <1>0, <1>1 DEF TypeInv, DataTyped
<1>3. LegacyHold'
  BY <1>0, <1>2 DEF Kept, LegacyHold, LegacyFits, File
<1>4. RecoveriesHold'
  BY <1>0, <1>2 DEF Kept, RecoveriesHold, RecoveryFits
<1>5. AuthoritiesHold'
  BY <1>0, <1>2 DEF Kept, AuthoritiesHold, IngestFits, WatcherFits
<1>6. OneRecovery'
  BY <1>2 DEF Kept, OneRecovery, UnderWay
<1>. QED
  BY <1>3, <1>4, <1>5, <1>6 DEF Kept

LEMMA TypeStep == ASSUME WriterAssumption PROVE TypeInv /\ [Next]_vars => TypeInv'
<1>. SUFFICES ASSUME TypeInv, [Next]_vars PROVE TypeInv'
  OBVIOUS
<1>. USE WriterAssumption DEF WriterAssumption
<1>1. ASSUME NEW p \in Incarnations, NEW s, PlaceOf(p, s), pc' = [pc EXCEPT ![p] = s] PROVE PlacesTyped'
  BY <1>1, PlaceMoves DEF TypeInv
<1>2. ASSUME NEW p \in Legacy, AcquireLegacy(p) \/ Recheck(p) \/ Bind(p) \/ Commit(p) \/ ReleaseLegacy(p)
      PROVE  TypeInv'
  <2>1. PICK s \in LegacySteps : pc' = [pc EXCEPT ![p] = s]
    <3>1. ASSUME AcquireLegacy(p) PROVE \E s \in LegacySteps : pc' = [pc EXCEPT ![p] = s]
      BY <3>1 DEF AcquireLegacy, Checks, Goes, Step, LegacySteps, Unbound, Bound, Leaving
    <3>2. ASSUME Recheck(p) PROVE \E s \in LegacySteps : pc' = [pc EXCEPT ![p] = s]
      BY <3>2 DEF Recheck, Checks, Goes, Step, LegacySteps, Unbound, Bound, Leaving
    <3>3. ASSUME Bind(p) PROVE \E s \in LegacySteps : pc' = [pc EXCEPT ![p] = s]
      BY <3>3 DEF Bind, Checks, Goes, Step, LegacySteps, Unbound, Bound, Leaving
    <3>4. ASSUME Commit(p) PROVE \E s \in LegacySteps : pc' = [pc EXCEPT ![p] = s]
      BY <3>4 DEF Commit, Checks, Goes, Step, LegacySteps, Unbound, Bound, Leaving
    <3>5. ASSUME ReleaseLegacy(p) PROVE \E s \in LegacySteps : pc' = [pc EXCEPT ![p] = s]
      BY <3>5 DEF ReleaseLegacy, Checks, Goes, Step, LegacySteps, Unbound, Bound, Leaving
    <3>. QED
      BY <1>2, <3>1, <3>2, <3>3, <3>4, <3>5
  <2>2. PlacesTyped'
    BY <2>1, <1>1 DEF PlaceOf, Incarnations
  <2>3. /\ lock' = lock \/ lock' = NoFile \/ \E b \in BOOLEAN : lock' = File(p, b)
        /\ pointer' = pointer \/ pointer' = p
        /\ prior' = prior \/ prior' = [prior EXCEPT ![p] = pointer]
        /\ UNCHANGED <<claim, authorities, alive, read, overlapped>>
    <3>1. CASE AcquireLegacy(p)
      BY <3>1 DEF AcquireLegacy, Checks, locks
    <3>2. CASE Recheck(p)
      BY <3>2 DEF Recheck, Checks, locks
    <3>3. CASE Bind(p)
      BY <3>3 DEF Bind, Checks, locks
    <3>4. CASE Commit(p)
      BY <3>4 DEF Commit, Checks, locks
    <3>5. CASE ReleaseLegacy(p)
      BY <3>5 DEF ReleaseLegacy, Checks, locks
    <3>. QED
      BY <1>2, <3>1, <3>2, <3>3, <3>4, <3>5
  <2>4. DataTyped'
    BY <2>3 DEF TypeInv, DataTyped, Pointers, LockFiles, File, authorities
  <2>. QED
    BY <2>2, <2>4 DEF TypeInv
<1>3. ASSUME NEW p \in Recoverers, Recover(p) PROVE TypeInv'
  <2>1. PICK s \in RecoverySteps : pc' = [pc EXCEPT ![p] = s]
    BY <1>3 DEF Recover, BeginRecovery, RestoreLock, PreliminaryRead, ReadPair, RemoveClaim, LinkClaim, Claimed,
                CheckState, RemoveLock, Goes, Step, RecoverySteps
  <2>2. PlacesTyped'
    BY <2>1, <1>1 DEF PlaceOf, Incarnations
  <2>3. /\ lock' \in {lock, claim, NoFile} /\ claim' \in {lock, claim, NoFile}
        /\ read' = read \/ \E f \in {lock, claim, read[p]} : read' = [read EXCEPT ![p] = f]
        /\ overlapped' \in BOOLEAN
        /\ UNCHANGED <<authorities, alive, pointer, prior>>
    BY <1>3 DEF Recover, BeginRecovery, RestoreLock, PreliminaryRead, ReadPair, RemoveClaim, LinkClaim, Claimed,
                CheckState, RemoveLock, Recovers, locks, TypeInv, DataTyped
  <2>4. DataTyped'
    BY <2>3 DEF TypeInv, DataTyped, authorities
  <2>. QED
    BY <2>2, <2>4 DEF TypeInv
<1>4. ASSUME NEW p \in Ingest, IngestSteps(p), Handshake PROVE TypeInv'
  <2>1. PICK s \in IngestPlaces : pc' = [pc EXCEPT ![p] = s]
    BY <1>4 DEF IngestSteps, Goes, Step, IngestPlaces
  <2>2. PlacesTyped'
    BY <2>1, <1>1 DEF PlaceOf, Incarnations
  <2>3. /\ ingestLock' \in {ingestLock, p, NoFile} /\ pointer' \in {pointer, Tombstone}
        /\ UNCHANGED <<watcherLock, journals>>
    BY <1>4 DEF IngestSteps, authorities
  <2>4. DataTyped'
    BY <1>4, <2>3 DEF TypeInv, DataTyped, Pointers, Handshake, locks
  <2>. QED
    BY <2>2, <2>4 DEF TypeInv
<1>5. ASSUME NEW p \in Watchers, WatcherSteps(p), Handshake PROVE TypeInv'
  <2>1. PICK s \in WatcherPlaces : pc' = [pc EXCEPT ![p] = s]
    BY <1>5 DEF WatcherSteps, Goes, Step, WatcherPlaces
  <2>2. PlacesTyped'
    BY <2>1, <1>1 DEF PlaceOf, Incarnations
  <2>3. /\ watcherLock' \in {watcherLock, p, NoFile} /\ journals' \in {journals, TRUE}
        /\ UNCHANGED <<ingestLock, pointer>>
    BY <1>5 DEF WatcherSteps, authorities
  <2>4. DataTyped'
    BY <1>5, <2>3 DEF TypeInv, DataTyped, Pointers, Handshake, locks
  <2>. QED
    BY <2>2, <2>4 DEF TypeInv
<1>6. ASSUME NEW p \in Incarnations, Crash(p) PROVE TypeInv'
  <2>1. PlacesTyped'
    BY <1>1, <1>6 DEF Crash, PlaceOf, LegacySteps, RecoverySteps, IngestPlaces, WatcherPlaces
  <2>2. DataTyped'
    BY <1>6 DEF Crash, TypeInv, DataTyped, locks, authorities
  <2>. QED
    BY <2>1, <2>2 DEF TypeInv
<1>7. CASE UNCHANGED vars
  BY <1>7 DEF vars, locks, authorities, TypeInv, PlacesTyped, DataTyped
<1>. QED
  BY <1>2, <1>3, <1>4, <1>5, <1>6, <1>7 DEF Next

LEMMA WriterInvariant == ASSUME WriterAssumption PROVE Spec => []WriterInv
<1>1. Init => WriterInv
  <2>. SUFFICES ASSUME Init PROVE WriterInv
    OBVIOUS
  <2>1. PlacesTyped
    BY DEF Init, PlacesTyped, PlaceOf, LegacySteps, RecoverySteps, IngestPlaces, WatcherPlaces
  <2>2. DataTyped
    BY DEF Init, DataTyped, Pointers, WriterAssumption
  <2>3. LegacyHold
    BY DEF Init, LegacyHold, LegacyFits, Unbound, Bound, Leaving, Seen, Incarnations
  <2>4. RecoveriesHold
    BY DEF Init, RecoveriesHold, RecoveryFits, Incarnations
  <2>5. AuthoritiesHold
    BY DEF Init, AuthoritiesHold, IngestFits, WatcherFits, Incarnations
  <2>6. OneRecovery
    BY DEF Init, OneRecovery, UnderWay, Incarnations
  <2>. QED
    BY <2>1, <2>2, <2>3, <2>4, <2>5, <2>6 DEF WriterInv, TypeInv, Kept
<1>2. WriterInv /\ [Next]_vars => WriterInv'
  <2>. SUFFICES ASSUME WriterInv, [Next]_vars PROVE WriterInv'
    OBVIOUS
  <2>1. TypeInv'
    BY TypeStep DEF WriterInv
  <2>2. ASSUME ~overlapped' PROVE Kept'
    \* Nothing clears the history of overlapping recoveries.
    <3>1. ~overlapped
      BY <2>2 DEF Next, vars, AcquireLegacy, Recheck, Bind, Commit, ReleaseLegacy, Checks, Recover, BeginRecovery,
             RestoreLock, PreliminaryRead, ReadPair, RemoveClaim, LinkClaim, Claimed, CheckState, RemoveLock,
             Handshake, Crash
    <3>2. TypeInv /\ Kept
      BY <3>1 DEF WriterInv
    <3>3. CASE UNCHANGED vars
      BY <3>2, <3>3 DEF vars, locks, authorities, Kept, LegacyHold, LegacyFits, RecoveriesHold, RecoveryFits,
                        AuthoritiesHold, IngestFits, WatcherFits, OneRecovery, UnderWay, File
    <3>. QED
      BY <2>2, <3>2, <3>3, LegacyStep, RecoveryStep, IngestStep, WatcherStep, CrashStep DEF Next
  <2>. QED
    BY <2>1, <2>2 DEF WriterInv
<1>. QED
  BY <1>1, <1>2, PTL DEF Spec

\* One process writes the state at a time, across acquireRetrievalWriter, the
\* ingest authority and the watcher, their crashes and the recovery of a dead
\* writer's lock; a legacy writer has its lock for as long as it is in charge, and
\* the pointer it replaces is the one it started from.
THEOREM OneWriterAtATime == ASSUME WriterAssumption PROVE Spec => []OneWriter
<1>1. ASSUME WriterInv PROVE OneWriter
  <2>. SUFFICES ASSUME ~overlapped PROVE OneWriter
    BY DEF OneWriter
  <2>. USE WriterAssumption DEF WriterAssumption
  <2>0. TypeInv /\ Kept
    BY <1>1 DEF WriterInv
  <2>1. ASSUME NEW p \in Legacy, InCharge(p)
        PROVE  /\ p \in alive /\ pc[p] \in {"held", "bind", "rename"} \cup Bound /\ LegacyFits(p, pc[p])
    BY <2>0, <2>1 DEF InCharge, TypeInv, PlacesTyped, PlaceOf, LegacySteps, Incarnations, Kept,
                      LegacyHold, Unbound, Bound, Leaving
  <2>2. ASSUME NEW p \in Ingest \cup Watchers, InCharge(p)
        PROVE  /\ p \in alive
               /\ p \in Ingest => pc[p] = "ingesting" /\ ingestLock = p
               /\ p \in Watchers => pc[p] = "serving" /\ watcherLock = p
    BY <2>0, <2>2 DEF InCharge, TypeInv, PlacesTyped, PlaceOf, IngestPlaces, WatcherPlaces, Incarnations, Kept,
                      AuthoritiesHold, IngestFits, WatcherFits
  <2>3. ASSUME NEW p \in Recoverers PROVE ~InCharge(p)
    BY <2>0 DEF InCharge, TypeInv, PlacesTyped, PlaceOf, RecoverySteps, Incarnations
  <2>4. ASSUME NEW p \in Legacy, NEW q \in Ingest \cup Watchers, InCharge(p), InCharge(q) PROVE FALSE
    BY <2>1, <2>2, <2>4 DEF LegacyFits, Seen
  <2>5. ASSUME NEW p \in Incarnations, NEW q \in Incarnations, InCharge(p), InCharge(q) PROVE p = q
    <3>1. CASE p \in Legacy /\ q \in Legacy
      BY <2>1, <2>5, <3>1 DEF LegacyFits, Unbound, File
    <3>2. CASE p \in Ingest \cup Watchers /\ q \in Ingest \cup Watchers
      <4>1. ASSUME NEW i \in Ingest, NEW w \in Watchers, InCharge(i), InCharge(w) PROVE FALSE
        BY <2>0, <2>2, <4>1 DEF Kept, AuthoritiesHold, IngestFits
      <4>. QED
        BY <2>2, <2>5, <3>2, <4>1
    <3>. QED
      BY <2>3, <2>4, <2>5, <3>1, <3>2 DEF Incarnations
  <2>6. ASSUME NEW p \in Legacy, InCharge(p)
        PROVE  /\ lock = File(p, pc[p] \in {"reread", "commit", "confirm", "publish"})
               /\ pc[p] \in {"rename", "reread", "commit", "confirm", "publish"} => pointer = prior[p]
    <3>1. CASE pc[p] \in Bound
      <4>1. (pc[p] \in {"reread", "commit", "confirm", "publish"}) = TRUE
        BY <3>1 DEF Bound
      <4>. QED
        BY <2>1, <2>6, <3>1, <4>1 DEF LegacyFits, File
    <3>2. CASE pc[p] \notin Bound
      <4>1. (pc[p] \in {"reread", "commit", "confirm", "publish"}) = FALSE
        BY <3>2 DEF Bound
      <4>. QED
        BY <2>1, <2>6, <3>2, <4>1 DEF LegacyFits, File, Unbound
    <3>. QED
      BY <3>1, <3>2
  <2>. QED
    BY <2>5, <2>6 DEF OneWriter
<1>. QED
  BY <1>1, WriterInvariant, PTL
=================================================================================
