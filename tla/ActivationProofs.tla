---------------------------- MODULE ActivationProofs ----------------------------
(***************************************************************************)
(* A transition of the ingest authority happens as a whole or not at all,  *)
(* for any owners and recoveries.                                          *)
(***************************************************************************)
EXTENDS IngestActivation, TLAPS

FileStates ==
  [root : Owners \cup {None}, witness : {"none", "activating", "active"},
   legacy : {"none", "legacy", "tombstone"}, active : Owners \cup {None},
   status : Owners \cup {None}]

\* The stages of an owner that has its lock, and those in which it may use it.
Bound == Writing \cup {"finalize", "release"}
Locked == Bound \cup {"recheck", "remove"}
OwnerSteps == Locked \cup {"idle", "create", "done"}
RecoverySteps == {"idle", "relink", "unclaim", "claim", "clean", "complete", "check", "unlock",
                  "finish", "done"}

AuthorityTypes ==
  /\ lock \in Locks \cup {None} /\ claim \in Locks \cup {None}
  /\ files \in FileStates /\ snapshot \in [Owners -> FileStates]
  /\ alive \subseteq Incarnations
  /\ DOMAIN pc = Incarnations
  /\ \A o \in Owners : pc[o] \in OwnerSteps
  /\ \A r \in Recoveries : pc[r] \in RecoverySteps
  /\ found \in [Recoveries -> Locks \cup {None}]
  /\ retired \subseteq Owners \cup {"none", "legacy"}
  /\ refused \in BOOLEAN /\ crossed \in BOOLEAN

\* A first activation, file by file, and the one file of any other transition.
Rooted(o) == [snapshot[o] EXCEPT !.root = o]
Activating(o) == [Rooted(o) EXCEPT !.witness = "activating"]
Tombstoned(o) == [Activating(o) EXCEPT !.legacy = "tombstone"]
Pointed(o) == [Tombstoned(o) EXCEPT !.active = o]
Activated(o) == [Pointed(o) EXCEPT !.witness = "active"]
Replaced(o) == [snapshot[o] EXCEPT !.active = o]
Blocked(o) == [snapshot[o] EXCEPT !.status = o]

Begun(o) == {Rooted(o), Activating(o), Tombstoned(o), Pointed(o)}

Settled == View(files) # "refused"

\* The files are where the transition a lock is bound to can have left them.
Fits(l) ==
  /\ Prior(l.owner) # "refused"
  /\ l.intent = "preflight" => Settled /\ (crossed \/ files = snapshot[l.owner])
  /\ l.intent = "blocked" => files \in {snapshot[l.owner], Blocked(l.owner)}
  /\ l.intent = "activation" /\ First(l.owner) =>
       files \in {snapshot[l.owner], Activated(l.owner)} \cup Begun(l.owner)
  /\ l.intent = "activation" /\ ~First(l.owner) => files \in {snapshot[l.owner], Replaced(l.owner)}

FilesHold ==
  /\ lock = None => Settled
  /\ \A l \in {lock, claim} : l # None => Fits(l)
  /\ claim # None /\ lock \notin {None, claim} => crossed

\* Where the owner of the lock is, and what it has found or done.
AtStep(o) ==
  /\ pc[o] \in {"recheck", "held"} => lock.intent = "preflight"
  /\ pc[o] \in {"held", "status", "root"} => files = snapshot[o]
  /\ pc[o] = "status" => lock.intent = "blocked"
  /\ pc[o] \in {"root", "activating", "tombstone", "pointer", "active"} => lock.intent = "activation"
  /\ pc[o] \in {"root", "activating", "tombstone", "active"} => First(o)
  /\ pc[o] = "activating" => files = Rooted(o)
  /\ pc[o] = "tombstone" => files = Activating(o)
  /\ pc[o] = "pointer" => files = IF First(o) THEN Tombstoned(o) ELSE snapshot[o]
  /\ pc[o] = "active" => files = Pointed(o)
  /\ pc[o] = "remove" => Settled

OwnerHolds(o) ==
  /\ lock # None /\ lock.owner = o /\ AtStep(o)
  /\ pc[o] \in Bound => claim = None
  /\ pc[o] \in Bound \ {"release"} => temp = "none"

OwnersHold ==
  /\ \A p \in Incarnations \ alive : pc[p] = "done"
  /\ claim # None => claim.owner \notin alive
  /\ lock # None => pc[lock.owner] \in Locked \cup {"done"}
  /\ \A o \in Owners : pc[o] = "create" => Prior(o) # "refused"
  /\ \A o \in Owners : pc[o] \in Locked => OwnerHolds(o)

\* A recovery goes by the lock of a dead owner and its second link.
RecoveryHolds(r) ==
  /\ found[r] # None /\ found[r].owner \notin alive
  /\ pc[r] # "claim" => claim = found[r]
  /\ pc[r] = "claim" => claim = None
  /\ pc[r] \in {"claim", "clean", "complete", "check", "unlock"} => lock = found[r]
  /\ pc[r] = "unclaim" => lock = claim \/ crossed
  /\ pc[r] = "complete" => temp = "none"
  /\ pc[r] \in {"check", "unlock"} => Settled

Busy == RecoverySteps \ {"idle", "done"}

RecoveriesHold ==
  /\ \A r \in Recoveries : pc[r] \in Busy => RecoveryHolds(r)
  /\ \A q, r \in Recoveries : pc[q] \in Busy /\ pc[r] \in Busy => q = r

\* An owner whose generation may still become the authority.
Before == {"idle", "create", "recheck", "held", "root", "activating", "tombstone", "pointer", "status"}
MayLand(o) == \/ pc[o] \in Before
              \/ \E l \in {lock, claim} : l # None /\ l.owner = o /\ files.active # o

RetiredHolds ==
  /\ retired \cap {"none", "legacy"} # {} => files.root # None
  /\ files.active \notin retired
  /\ \A o \in Owners : MayLand(o) => o \notin retired /\ files.active # o

RefusedHolds == refused => temp = "torn" \/ crossed

AuthorityInv ==
  /\ AuthorityTypes /\ FilesHold /\ OwnersHold
  /\ RecoveriesHold /\ RetiredHolds /\ RefusedHolds

-------------------------------------------------------------------------------
\* What a reader gets at each point of a transition.
LEMMA FirstViews ==
    ASSUME ActivationAssumption, AuthorityTypes, NEW o \in Owners, First(o)
    PROVE  /\ snapshot[o].root = None /\ snapshot[o].active = None
           /\ \A f \in Begun(o) : View(f) = "refused" /\ f.root = o
           /\ View(Activated(o)) = o /\ Activated(o).root = o
  <1>1. snapshot[o] \in FileStates
    BY DEF AuthorityTypes
  <1>2. o \notin {None, "none", "legacy", "refused"}
    BY DEF ActivationAssumption
  <1>3. snapshot[o].witness = "none" /\ snapshot[o].root = None /\ snapshot[o].active = None
    BY <1>1 DEF ActivationAssumption, First, Prior, View, FileStates
  <1>. QED
    BY <1>1, <1>2, <1>3 DEF FileStates, View, Begun, Rooted, Activating, Tombstoned, Pointed,
                            Activated

\* A replacement is one file, and a reader gets the one authority or the other.
LEMMA LaterViews ==
    ASSUME ActivationAssumption, AuthorityTypes, NEW o \in Owners, ~First(o), Prior(o) # "refused"
    PROVE  /\ Prior(o) = snapshot[o].active /\ Prior(o) \in Owners /\ snapshot[o].root # None
           /\ View(Replaced(o)) = o /\ Replaced(o).root # None
  <1>1. snapshot[o] \in FileStates
    BY DEF AuthorityTypes
  <1>2. o \notin {None, "none", "legacy", "refused"}
    BY DEF ActivationAssumption
  <1>3. /\ snapshot[o].witness = "active" /\ snapshot[o].root # None
        /\ snapshot[o].legacy = "tombstone" /\ snapshot[o].active # None
        /\ Prior(o) = snapshot[o].active
    BY <1>1 DEF First, Prior, View, FileStates
  <1>. QED
    BY <1>1, <1>2, <1>3 DEF FileStates, View, Replaced

\* A blocked attempt changes nothing a reader gets.
LEMMA BlockedView ==
    ASSUME AuthorityTypes, NEW o \in Owners
    PROVE  /\ View(Blocked(o)) = Prior(o) /\ Blocked(o).status = o
           /\ Blocked(o).active = snapshot[o].active /\ Blocked(o).root = snapshot[o].root
  <1>1. snapshot[o] \in FileStates
    BY DEF AuthorityTypes
  <1>. QED  BY <1>1 DEF FileStates, View, Blocked, Prior

\* The only files a reader refuses are those of a first activation under way.
LEMMA RefusedViews ==
    ASSUME ActivationAssumption, AuthorityTypes, NEW l \in Locks, Fits(l), ~Settled
    PROVE  l.intent = "activation" /\ First(l.owner) /\ files \in Begun(l.owner)
  <1>1. l.owner \in Owners /\ l.intent \in {"preflight", "activation", "blocked"}
    BY DEF Locks, Intents
  <1>2. l.owner # "refused"
    BY <1>1 DEF ActivationAssumption
  <1>3. files # snapshot[l.owner]
    BY DEF Fits, Settled, Prior
  <1>4. l.intent # "blocked"
    BY <1>1, <1>3, BlockedView DEF Fits, Settled
  <1>5. l.intent = "activation"
    BY <1>1, <1>4 DEF Fits
  <1>6. First(l.owner)
    BY <1>1, <1>2, <1>3, <1>5, LaterViews DEF Fits, Settled
  <1>. QED  BY <1>1, <1>2, <1>3, <1>5, <1>6, FirstViews DEF Fits, Settled

\* The files stay, and so does what is known of them.
LEMMA FitsKept ==
    ASSUME NEW l, Fits(l), files' = files, snapshot'[l.owner] = snapshot[l.owner],
           crossed => crossed'
    PROVE  Fits(l)'
  BY DEF Fits, Settled, Prior, First, View, Begun, Rooted, Activating, Tombstoned, Pointed,
         Activated, Replaced, Blocked

-------------------------------------------------------------------------------
\* A process goes on to another stage.
LEMMA OwnerMoves ==
    ASSUME ActivationAssumption, AuthorityTypes, NEW o \in Owners,
           NEW from, NEW to \in OwnerSteps, Step(o, from, to)
    PROVE  /\ o \in alive /\ pc[o] = from /\ pc'[o] = to /\ DOMAIN pc' = Incarnations
           /\ \A q \in Incarnations \ {o} : pc'[q] = pc[q]
           /\ \A r \in Recoveries : pc'[r] = pc[r]
           /\ \A x \in Owners : pc'[x] \in OwnerSteps
           /\ \A r \in Recoveries : pc'[r] \in RecoverySteps
  <1>1. o \in Incarnations /\ \A r \in Recoveries : r # o /\ r \in Incarnations
    BY DEF ActivationAssumption, Incarnations
  <1>2. Owners \subseteq Incarnations
    BY DEF Incarnations
  <1>. QED  BY <1>1, <1>2 DEF AuthorityTypes, Step

LEMMA RecoveryMoves ==
    ASSUME ActivationAssumption, AuthorityTypes, NEW r \in Recoveries,
           NEW from, NEW to \in RecoverySteps, Step(r, from, to)
    PROVE  /\ r \in alive /\ pc[r] = from /\ pc'[r] = to /\ DOMAIN pc' = Incarnations
           /\ \A q \in Incarnations \ {r} : pc'[q] = pc[q]
           /\ \A x \in Owners : pc'[x] = pc[x]
           /\ \A x \in Owners : pc'[x] \in OwnerSteps
           /\ \A q \in Recoveries : pc'[q] \in RecoverySteps
  <1>1. r \in Incarnations /\ \A x \in Owners : r # x /\ x \in Incarnations
    BY DEF ActivationAssumption, Incarnations
  <1>2. Recoveries \subseteq Incarnations
    BY DEF Incarnations
  <1>. QED  BY <1>1, <1>2 DEF AuthorityTypes, Step

\* An action of an owner is a step of it; which ones, and from where.
OwnerActs(o) ==
  \/ Preflight(o) \/ BindIntent(o) \/ Activate(o) \/ RecordBlocked(o) \/ Finalize(o)
  \/ Release(o) \/ RemoveLock(o) \/ Fail(o)

RecoveryActs(r) == BeginRecovery(r) \/ TakeOver(r) \/ Clean(r) \/ Complete(r) \/ Conclude(r)

\* What an owner may change at all.
LEMMA OwnerTypes ==
    ASSUME AuthorityTypes, NEW o \in Owners, OwnerActs(o)
    PROVE  /\ \E from, to \in OwnerSteps : Step(o, from, to)
           /\ claim' = claim /\ alive' = alive /\ found' = found /\ refused' = refused
           /\ \A x \in Owners \ {o} : snapshot'[x] = snapshot[x]
           /\ pc[o] # "idle" => snapshot' = snapshot
           /\ (crossed => crossed') /\ (pc[o] # "create" => crossed' = crossed)
           /\ snapshot' \in [Owners -> FileStates] /\ crossed' \in BOOLEAN
  <1>1. \E from, to \in OwnerSteps : Step(o, from, to)
    BY DEF OwnerActs, Preflight, BindIntent, Activate, RecordBlocked, Finalize, Release,
           RemoveLock, Fail, Publish, Goes, OwnerSteps, Locked, Bound, Writing
  <1>2. claim' = claim /\ alive' = alive /\ found' = found /\ refused' = refused
    BY DEF OwnerActs, Preflight, BindIntent, Activate, RecordBlocked, Finalize, Release,
           RemoveLock, Fail, Publish, guards, history
  <1>3. CASE Preflight(o)
    <2>1. /\ \A x \in Owners \ {o} : snapshot'[x] = snapshot[x]
          /\ snapshot' \in [Owners -> FileStates]
      BY <1>3 DEF Preflight, AuthorityTypes
    <2>2. pc[o] # "idle" => snapshot' = snapshot
      BY <1>3 DEF Preflight, Goes, Step
    <2>3. (crossed => crossed') /\ (pc[o] # "create" => crossed' = crossed)
      BY <1>3 DEF Preflight, Goes, Step, AuthorityTypes
    <2>4. crossed' \in BOOLEAN
      BY <1>3 DEF Preflight, AuthorityTypes
    <2>. QED  BY <1>1, <1>2, <2>1, <2>2, <2>3, <2>4
  <1>4. CASE ~Preflight(o)
    <2>1. snapshot' = snapshot /\ crossed' = crossed
      BY <1>4 DEF OwnerActs, BindIntent, Activate, RecordBlocked, Finalize, Release,
                  RemoveLock, Fail, Publish, history
    <2>. QED  BY <1>1, <1>2, <2>1 DEF AuthorityTypes
  <1>. QED  BY <1>3, <1>4

\* What an owner does to the files and to its lock.
LEMMA OwnerWrites ==
    ASSUME AuthorityTypes, NEW o \in Owners, OwnerActs(o)
    PROVE  /\ lock' \in {lock, None} \/ \E i \in Intents : lock' = Lock(o, i)
           /\ files' # files => Holds(o) /\ lock' = lock /\ snapshot' = snapshot
           /\ files' \in FileStates
           /\ retired' = IF files' # files /\ ~RecordBlocked(o) THEN retired \cup {Prior(o)} ELSE retired
  <1>1. CASE Preflight(o) \/ BindIntent(o) \/ Finalize(o) \/ Release(o) \/ RemoveLock(o) \/ Fail(o)
    <2>1. files' = files /\ retired' = retired
      BY <1>1 DEF Preflight, BindIntent, Finalize, Release, RemoveLock, Fail, history
    <2>2. lock' \in {lock, None} \/ \E i \in Intents : lock' = Lock(o, i)
      BY <1>1 DEF Preflight, BindIntent, Finalize, Release, RemoveLock, Fail, guards, Intents
    <2>. QED  BY <2>1, <2>2 DEF AuthorityTypes
  <1>2. CASE Activate(o) \/ RecordBlocked(o)
    <2>1. lock' = lock /\ snapshot' = snapshot
      BY <1>2 DEF Activate, RecordBlocked, Publish, guards
    <2>2. files' # files => Holds(o)
      BY <1>2 DEF Activate, RecordBlocked, Publish, Unchanged
    <2>3. files' \in FileStates
      BY <1>2 DEF Activate, RecordBlocked, Publish, AuthorityTypes, FileStates
    <2>4. retired' = IF files' # files /\ ~RecordBlocked(o) THEN retired \cup {Prior(o)} ELSE retired
      BY <1>2 DEF Activate, RecordBlocked
    <2>. QED  BY <2>1, <2>2, <2>3, <2>4
  <1>. QED  BY <1>1, <1>2 DEF OwnerActs

\* What a recovery may change at all.
LEMMA RecoveryTypes ==
    ASSUME AuthorityTypes, NEW r \in Recoveries, RecoveryActs(r)
    PROVE  /\ \E from, to \in RecoverySteps : Step(r, from, to)
           /\ alive' = alive /\ snapshot' = snapshot /\ retired' = retired /\ crossed' = crossed
           /\ \A q \in Recoveries \ {r} : found'[q] = found[q]
           /\ pc[r] # "idle" => found' = found
           /\ pc[r] # "complete" => files' = files
           /\ pc[r] # "clean" => temp' = temp
           /\ lock' \in {lock, None, claim} /\ claim' \in {lock, None, claim}
           /\ found' \in [Recoveries -> Locks \cup {None}]
           /\ refused' \in BOOLEAN
  <1>1. \E from, to \in RecoverySteps : Step(r, from, to)
    BY DEF RecoveryActs, BeginRecovery, TakeOver, Clean, Complete, Conclude, Goes, RecoverySteps
  <1>2. alive' = alive /\ snapshot' = snapshot /\ retired' = retired /\ crossed' = crossed
    BY DEF RecoveryActs, BeginRecovery, TakeOver, Clean, Complete, Conclude, Recovers
  <1>3. CASE BeginRecovery(r)
    <2>1. pc[r] = "idle" /\ UNCHANGED <<lock, claim, files, temp>>
      BY <1>3 DEF BeginRecovery, Goes, Step, guards
    <2>2. found' = [found EXCEPT ![r] = IF claim # None THEN claim ELSE lock]
      BY <1>3 DEF BeginRecovery
    <2>3. refused' \in BOOLEAN
      BY <1>3 DEF BeginRecovery, Refuses, AuthorityTypes
    <2>. QED  BY <1>1, <1>2, <2>1, <2>2, <2>3 DEF AuthorityTypes
  <1>4. CASE TakeOver(r)
    <2>1. UNCHANGED <<files, temp, found>>
      BY <1>4 DEF TakeOver
    <2>2. lock' \in {lock, None, claim} /\ claim' \in {lock, None, claim}
      BY <1>4 DEF TakeOver
    <2>3. refused' \in BOOLEAN
      BY <1>4 DEF TakeOver, Refuses, AuthorityTypes
    <2>. QED  BY <1>1, <1>2, <2>1, <2>2, <2>3 DEF AuthorityTypes
  <1>5. CASE Clean(r) \/ Complete(r)
    <2>1. pc[r] \in {"clean", "complete"} /\ UNCHANGED <<lock, claim, found>>
      BY <1>5 DEF Clean, Complete, Goes, Step, guards
    <2>2. (pc[r] # "complete" => files' = files) /\ (pc[r] # "clean" => temp' = temp)
      BY <1>5 DEF Clean, Complete, Goes, Step
    <2>3. refused' \in BOOLEAN
      BY <1>5 DEF Clean, Complete, Refuses, AuthorityTypes
    <2>. QED  BY <1>1, <1>2, <2>1, <2>2, <2>3 DEF AuthorityTypes
  <1>6. CASE Conclude(r)
    <2>1. UNCHANGED <<files, temp, found>>
      BY <1>6 DEF Conclude
    <2>2. lock' \in {lock, None, claim} /\ claim' \in {lock, None, claim}
      BY <1>6 DEF Conclude, guards
    <2>3. refused' \in BOOLEAN
      BY <1>6 DEF Conclude, Refuses, AuthorityTypes
    <2>. QED  BY <1>1, <1>2, <2>1, <2>2, <2>3 DEF AuthorityTypes
  <1>. QED  BY <1>3, <1>4, <1>5, <1>6 DEF RecoveryActs

\* What a death changes, the temporary aside.
LEMMA CrashTypes ==
    ASSUME AuthorityTypes, NEW p \in Incarnations, Crash(p)
    PROVE  /\ alive' = alive \ {p} /\ DOMAIN pc' = Incarnations /\ pc'[p] = "done"
           /\ \A q \in Incarnations \ {p} : pc'[q] = pc[q]
           /\ UNCHANGED <<lock, claim, files, snapshot, found, retired, refused, crossed>>
           /\ \A o \in Owners : pc'[o] \in {pc[o], "done"}
           /\ \A r \in Recoveries : pc'[r] \in {pc[r], "done"}
  <1>1. Owners \subseteq Incarnations /\ Recoveries \subseteq Incarnations
    BY DEF Incarnations
  <1>. QED  BY <1>1 DEF AuthorityTypes, Crash, guards, history

\* A lock that was just written.
LEMMA LockTyped ==
    ASSUME ActivationAssumption, NEW o \in Owners, NEW i \in Intents
    PROVE  /\ Lock(o, i) \in Locks /\ Lock(o, i) # None
           /\ Lock(o, i).owner = o /\ Lock(o, i).intent = i
  <1>1. Lock(o, i) \in Locks
    BY DEF Lock, Locks
  <1>. QED  BY <1>1 DEF ActivationAssumption, Lock

LEMMA Views ==
    ASSUME NEW f \in FileStates
    PROVE  View(f) \in Owners \cup {"none", "legacy", "refused"}
  BY DEF View, FileStates

LEMMA AuthorityTypeStep ==
    ASSUME ActivationAssumption, AuthorityInv, Next
    PROVE  AuthorityTypes'
  <1>. AuthorityTypes
    BY DEF AuthorityInv
  <1>1. CASE \E o \in Owners : OwnerActs(o)
    <2>1. PICK o \in Owners : OwnerActs(o)
      BY <1>1
    <2>2. PICK from \in OwnerSteps, to \in OwnerSteps : Step(o, from, to)
      BY <2>1, OwnerTypes
    <2>3. /\ DOMAIN pc' = Incarnations /\ \A x \in Owners : pc'[x] \in OwnerSteps
          /\ \A r \in Recoveries : pc'[r] \in RecoverySteps
      BY <2>2, OwnerMoves
    <2>4. /\ claim' = claim /\ alive' = alive /\ found' = found /\ refused' = refused
          /\ snapshot' \in [Owners -> FileStates] /\ crossed' \in BOOLEAN
      BY <2>1, OwnerTypes
    <2>5. lock' \in Locks \cup {None} /\ files' \in FileStates
      BY <2>1, OwnerWrites, LockTyped DEF AuthorityTypes
    <2>6. retired' \subseteq Owners \cup {"none", "legacy"}
      <3>1. files' # files => Prior(o) # "refused"
        BY <2>1, OwnerWrites DEF AuthorityInv, FilesHold, Fits, Holds
      <3>2. Prior(o) \in Owners \cup {"none", "legacy", "refused"}
        BY Views DEF Prior, AuthorityTypes
      <3>. QED  BY <2>1, <3>1, <3>2, OwnerWrites DEF AuthorityTypes
    <2>. QED  BY <2>3, <2>4, <2>5, <2>6 DEF AuthorityTypes
  <1>2. CASE \E r \in Recoveries : RecoveryActs(r)
    <2>1. PICK r \in Recoveries : RecoveryActs(r)
      BY <1>2
    <2>2. PICK from \in RecoverySteps, to \in RecoverySteps : Step(r, from, to)
      BY <2>1, RecoveryTypes
    <2>3. /\ DOMAIN pc' = Incarnations /\ \A x \in Owners : pc'[x] \in OwnerSteps
          /\ \A q \in Recoveries : pc'[q] \in RecoverySteps
      BY <2>2, RecoveryMoves
    <2>4. files' \in FileStates
      <3>1. CASE Complete(r)
        <4>1. found[r] # None
          BY <3>1 DEF AuthorityInv, RecoveriesHold, RecoveryHolds, Busy, RecoverySteps, Complete,
                      Goes, Step
        <4>2. found[r].owner \in Owners
          BY <4>1 DEF AuthorityTypes, Locks
        <4>. QED
          BY <3>1, <4>2 DEF Complete, AuthorityTypes, FileStates, Missing
      <3>2. CASE ~Complete(r)
        BY <2>1, <3>2 DEF RecoveryActs, BeginRecovery, TakeOver, Clean, Conclude, AuthorityTypes
      <3>. QED  BY <3>1, <3>2
    <2>. QED  BY <2>1, <2>3, <2>4, RecoveryTypes DEF AuthorityTypes
  <1>3. CASE \E p \in Incarnations : Crash(p)
    <2>1. PICK p \in Incarnations : Crash(p)
      BY <1>3
    <2>2. "done" \in OwnerSteps \cap RecoverySteps
      BY DEF OwnerSteps, RecoverySteps
    <2>3. /\ \A o \in Owners : pc'[o] \in OwnerSteps
          /\ \A r \in Recoveries : pc'[r] \in RecoverySteps
      BY <2>1, <2>2, CrashTypes DEF AuthorityTypes
    <2>. QED  BY <2>1, <2>3, CrashTypes DEF AuthorityTypes
  <1>. QED  BY <1>1, <1>2, <1>3 DEF Next, OwnerActs, RecoveryActs

-------------------------------------------------------------------------------
\* Nobody else goes by the lock while an owner has it, or while there is none.
LEMMA OwnersAlone ==
    ASSUME ActivationAssumption, AuthorityInv, NEW o \in Owners, OwnerActs(o), NEW to \in OwnerSteps,
           \E from \in OwnerSteps : Step(o, from, to),
           lock = None \/ lock.owner = o,
           to \in Locked => OwnerHolds(o)',
           lock' # None => lock'.owner = o /\ to \in Locked \cup {"done"},
           to = "create" => Prior(o)' # "refused"
    PROVE  OwnersHold'
  <1>. AuthorityTypes /\ OwnersHold
    BY DEF AuthorityInv
  <1>1. /\ o \in alive /\ pc'[o] = to /\ \A q \in Incarnations \ {o} : pc'[q] = pc[q]
    BY OwnerMoves
  <1>2. /\ alive' = alive /\ claim' = claim
        /\ \A x \in Owners \ {o} : snapshot'[x] = snapshot[x]
    BY OwnerTypes
  <1>3. Owners \subseteq Incarnations
    BY DEF Incarnations
  <1>4. \A x \in Owners \ {o} : pc'[x] \notin Locked
    BY <1>1, <1>3 DEF OwnersHold, OwnerHolds
  <1>5. \A x \in Owners \ {o} : pc'[x] = "create" => Prior(x)' # "refused"
    BY <1>1, <1>2, <1>3 DEF OwnersHold, Prior
  <1>6. \A p \in Incarnations \ alive' : pc'[p] = "done"
    BY <1>1, <1>2 DEF OwnersHold
  <1>7. claim' # None => claim'.owner \notin alive'
    BY <1>2 DEF OwnersHold
  <1>. QED  BY <1>1, <1>4, <1>5, <1>6, <1>7 DEF OwnersHold

\* An owner that finds a lock of somebody else's goes away.
LEMMA OwnersOther ==
    ASSUME ActivationAssumption, AuthorityInv, NEW o \in Owners, OwnerActs(o),
           \E from \in OwnerSteps : Step(o, from, "done"),
           lock = None \/ lock.owner # o, UNCHANGED <<lock, files, temp>>
    PROVE  OwnersHold'
  <1>. AuthorityTypes /\ OwnersHold
    BY DEF AuthorityInv
  <1>0. "done" \in OwnerSteps /\ "done" \notin Locked \cup {"create"}
    BY DEF OwnerSteps, Locked, Bound, Writing
  <1>1. /\ o \in alive /\ pc'[o] = "done" /\ \A q \in Incarnations \ {o} : pc'[q] = pc[q]
    BY <1>0, OwnerMoves
  <1>2. /\ alive' = alive /\ claim' = claim
        /\ \A x \in Owners \ {o} : snapshot'[x] = snapshot[x]
    BY OwnerTypes
  <1>3. Owners \subseteq Incarnations
    BY DEF Incarnations
  <1>4. ASSUME NEW x \in Owners, pc'[x] \in Locked
        PROVE  OwnerHolds(x)'
    <2>1. x # o /\ OwnerHolds(x) /\ pc'[x] = pc[x]
      BY <1>0, <1>1, <1>3, <1>4 DEF OwnersHold
    <2>. QED
      BY <1>2, <2>1 DEF OwnerHolds, AtStep, First, Prior, Rooted, Activating, Tombstoned, Pointed,
                        Settled
  <1>5. \A x \in Owners : pc'[x] = "create" => Prior(x)' # "refused"
    BY <1>0, <1>1, <1>2, <1>3 DEF OwnersHold, Prior
  <1>6. \A p \in Incarnations \ alive' : pc'[p] = "done"
    BY <1>1, <1>2 DEF OwnersHold
  <1>7. claim' # None => claim'.owner \notin alive'
    BY <1>2 DEF OwnersHold
  <1>8. lock' # None => pc'[lock'.owner] \in Locked \cup {"done"}
    BY <1>1, <1>3 DEF OwnersHold, AuthorityTypes, Locks
  <1>. QED  BY <1>4, <1>5, <1>6, <1>7, <1>8 DEF OwnersHold

\* A preflight looks, locks and looks again.
LEMMA OwnersPreflight ==
    ASSUME ActivationAssumption, AuthorityInv, NEW o \in Owners, Preflight(o)
    PROVE  OwnersHold'
  <1>. AuthorityTypes /\ OwnersHold /\ OwnerActs(o)
    BY DEF AuthorityInv, OwnerActs
  <1>0. /\ {"create", "done", "recheck", "held", "remove"} \subseteq OwnerSteps
        /\ {"recheck", "held", "remove"} \subseteq Locked /\ "idle" \in OwnerSteps
        /\ "create" \notin Locked /\ "done" \notin Locked /\ "idle" \notin Locked
        /\ "recheck" \notin Bound /\ "remove" \notin Bound
    BY DEF OwnerSteps, Locked, Bound, Writing
  <1>1. CASE pc[o] = "idle"
    <2>1. /\ Goes(o, "idle", lock = None /\ claim = None /\ View(files) # "refused" /\ temp = "none",
                   "create", "done")
          /\ snapshot' = [snapshot EXCEPT ![o] = files] /\ UNCHANGED <<lock, files, temp>>
      BY <1>1 DEF Preflight, Goes, Step, guards
    <2>2. CASE lock = None /\ claim = None /\ View(files) # "refused" /\ temp = "none"
      <3>1. Prior(o)' # "refused" /\ lock' = None
        BY <2>1, <2>2 DEF Prior, AuthorityTypes
      <3>2. Step(o, "idle", "create")
        BY <2>1, <2>2 DEF Goes
      <3>. QED  BY <1>0, <2>2, <3>1, <3>2, OwnersAlone
    <2>3. CASE ~(lock = None /\ claim = None /\ View(files) # "refused" /\ temp = "none")
      <3>1. Step(o, "idle", "done")
        BY <2>1, <2>3 DEF Goes
      <3>2. lock = None \/ lock.owner # o
        BY <1>0, <1>1 DEF OwnersHold
      <3>. QED  BY <1>0, <2>1, <3>1, <3>2, OwnersOther
    <2>. QED  BY <2>2, <2>3
  <1>2. CASE pc[o] = "create"
    <2>1. /\ Goes(o, "create", lock = None, "recheck", "done") /\ UNCHANGED <<files, temp, claim>>
          /\ lock' = IF lock = None THEN Lock(o, "preflight") ELSE lock
      BY <1>2 DEF Preflight, Goes, Step
    <2>2. CASE lock = None
      <3>1. Step(o, "create", "recheck") /\ lock' = Lock(o, "preflight")
        BY <2>1, <2>2 DEF Goes
      <3>2. lock' # None /\ lock'.owner = o /\ lock'.intent = "preflight"
        BY <3>1, LockTyped DEF Intents
      <3>3. pc'[o] = "recheck"
        BY <1>0, <3>1, OwnerMoves
      <3>4. OwnerHolds(o)'
        BY <1>0, <3>2, <3>3 DEF OwnerHolds, AtStep
      <3>. QED  BY <1>0, <2>2, <3>1, <3>2, <3>4, OwnersAlone
    <2>3. CASE lock # None
      <3>1. Step(o, "create", "done") /\ lock' = lock
        BY <2>1, <2>3 DEF Goes
      <3>2. lock.owner # o
        BY <1>0, <1>2, <2>3 DEF OwnersHold
      <3>. QED  BY <1>0, <2>1, <3>1, <3>2, OwnersOther
    <2>. QED  BY <2>2, <2>3
  <1>3. CASE pc[o] = "recheck"
    <2>1. /\ Goes(o, "recheck", claim = None /\ files = snapshot[o] /\ temp = "none", "held", "remove")
          /\ UNCHANGED <<lock, claim, files, temp, snapshot>>
      BY <1>3 DEF Preflight, Goes, Step, guards
    <2>2. lock # None /\ lock.owner = o /\ lock.intent = "preflight"
      BY <1>0, <1>3 DEF OwnersHold, OwnerHolds, AtStep
    <2>3. Settled
      BY <2>2 DEF AuthorityInv, FilesHold, Fits
    <2>4. CASE claim = None /\ files = snapshot[o] /\ temp = "none"
      <3>1. Step(o, "recheck", "held")
        BY <2>1, <2>4 DEF Goes
      <3>2. pc'[o] = "held"
        BY <1>0, <3>1, OwnerMoves
      <3>3. OwnerHolds(o)'
        BY <2>1, <2>2, <2>4, <3>2 DEF OwnerHolds, AtStep
      <3>. QED  BY <1>0, <2>1, <2>2, <3>1, <3>3, OwnersAlone
    <2>5. CASE ~(claim = None /\ files = snapshot[o] /\ temp = "none")
      <3>1. Step(o, "recheck", "remove")
        BY <2>1, <2>5 DEF Goes
      <3>2. pc'[o] = "remove"
        BY <1>0, <3>1, OwnerMoves
      <3>3. OwnerHolds(o)'
        BY <1>0, <2>1, <2>2, <2>3, <3>2 DEF OwnerHolds, AtStep, Settled
      <3>. QED  BY <1>0, <2>1, <2>2, <3>1, <3>3, OwnersAlone
    <2>. QED  BY <2>4, <2>5
  <1>. QED  BY <1>1, <1>2, <1>3 DEF Preflight, Goes, Step

\* An owner that gives up still has its lock.
LEMMA OwnersRelease ==
    ASSUME ActivationAssumption, AuthorityInv, NEW o \in Owners, OwnerActs(o), NEW from \in Bound,
           Step(o, from, "release"), lock' = lock
    PROVE  OwnersHold'
  <1>. AuthorityTypes /\ OwnersHold
    BY DEF AuthorityInv
  <1>0. "release" \in OwnerSteps /\ "release" \in Locked /\ from \in OwnerSteps /\ from \in Locked
    BY DEF OwnerSteps, Locked, Bound
  <1>1. pc[o] = from /\ pc'[o] = "release" /\ claim' = claim
    BY <1>0, OwnerMoves, OwnerTypes
  <1>2. lock # None /\ lock.owner = o /\ claim = None
    BY <1>0, <1>1 DEF OwnersHold, OwnerHolds
  <1>3. OwnerHolds(o)'
    BY <1>1, <1>2 DEF OwnerHolds, AtStep
  <1>. QED  BY <1>0, <1>2, <1>3, OwnersAlone

\* A bound lock is of the transition whose first step is next.
LEMMA OwnersBind ==
    ASSUME ActivationAssumption, AuthorityInv, NEW o \in Owners, BindIntent(o)
    PROVE  OwnersHold'
  <1>. AuthorityTypes /\ OwnersHold /\ OwnerActs(o)
    BY DEF AuthorityInv, OwnerActs
  <1>0. /\ {"held", "status", "root", "pointer"} \subseteq OwnerSteps
        /\ {"held", "status", "root", "pointer"} \subseteq Locked
        /\ {"held", "status", "root", "pointer"} \subseteq Bound
    BY DEF OwnerSteps, Locked, Bound, Writing
  <1>1. PICK i \in {"activation", "blocked"} :
           /\ Goes(o, "held", Unchanged(o),
                   IF i = "blocked" THEN "status" ELSE IF First(o) THEN "root" ELSE "pointer", "release")
           /\ lock' = IF Unchanged(o) THEN Lock(o, i) ELSE lock
    BY DEF BindIntent
  <1>2. UNCHANGED <<files, snapshot, temp, claim>>
    BY DEF BindIntent
  <1>3. CASE Unchanged(o)
    <2>1. PICK to \in {"status", "root", "pointer"} :
             /\ Step(o, "held", to)
             /\ to = IF i = "blocked" THEN "status" ELSE IF First(o) THEN "root" ELSE "pointer"
      BY <1>1, <1>3 DEF Goes
    <2>2. lock' # None /\ lock'.owner = o /\ lock'.intent = i
      BY <1>1, <1>3, LockTyped DEF Intents
    <2>3. pc'[o] = to
      BY <1>0, <2>1, OwnerMoves
    <2>4. files = snapshot[o] /\ claim = None /\ temp = "none" /\ lock # None /\ lock.owner = o
      BY <1>3 DEF Unchanged, Holds
    <2>5. First(o)' = First(o)
      BY <1>2 DEF First, Prior
    <2>. HIDE DEF First
    <2>6. OwnerHolds(o)'
      BY <1>1, <1>2, <2>1, <2>2, <2>3, <2>4, <2>5 DEF OwnerHolds, AtStep
    <2>. QED  BY <1>0, <2>1, <2>2, <2>4, <2>6, OwnersAlone
  <1>4. CASE ~Unchanged(o)
    <2>1. Step(o, "held", "release") /\ lock' = lock
      BY <1>1, <1>4 DEF Goes
    <2>. QED  BY <1>0, <2>1, OwnersRelease
  <1>. QED  BY <1>3, <1>4

\* A file is written, and the next one is due.
LEMMA OwnersPublish ==
    ASSUME ActivationAssumption, AuthorityInv, NEW o \in Owners, Activate(o) \/ RecordBlocked(o)
    PROVE  OwnersHold'
  <1>. AuthorityTypes /\ OwnersHold /\ OwnerActs(o)
    BY DEF AuthorityInv, OwnerActs
  <1>0. /\ Writing \cup {"finalize"} \subseteq OwnerSteps /\ Writing \cup {"finalize"} \subseteq Locked
        /\ Writing \cup {"finalize"} \subseteq Bound
    BY DEF OwnerSteps, Locked, Bound
  <1>1. UNCHANGED <<lock, claim, temp, snapshot>>
    BY DEF Activate, RecordBlocked, Publish, guards
  <1>2. CASE \E from \in Writing : Step(o, from, "release")
    BY <1>0, <1>1, <1>2, OwnersRelease
  <1>3. CASE ~(\E from \in Writing : Step(o, from, "release"))
    <2>1. PICK from \in {"root", "activating", "tombstone", "pointer", "active", "status"},
               to \in {"activating", "tombstone", "pointer", "active", "finalize"} :
             /\ Step(o, from, to)
             /\ to = "activating" => from = "root" /\ files' = [files EXCEPT !.root = o]
             /\ to = "tombstone" => from = "activating" /\ files' = [files EXCEPT !.witness = "activating"]
             /\ to = "pointer" => from = "tombstone" /\ files' = [files EXCEPT !.legacy = "tombstone"]
             /\ to = "active" => from = "pointer" /\ First(o) /\ files' = [files EXCEPT !.active = o]
      BY <1>3 DEF Activate, RecordBlocked, Publish, Goes, Writing
    <2>2. from \in Writing /\ to \in Writing \cup {"finalize"} /\ to # "held"
      BY DEF Writing
    <2>3. pc[o] = from /\ pc'[o] = to
      BY <1>0, <2>1, <2>2, OwnerMoves
    <2>4. /\ lock # None /\ lock.owner = o /\ claim = None /\ temp = "none" /\ AtStep(o)
      BY <1>0, <2>2, <2>3 DEF OwnersHold, OwnerHolds, Writing
    <2>5. First(o)' = First(o)
      BY <1>1 DEF First, Prior
    <2>6. to = "activating" => files' = Rooted(o)'
      BY <1>1, <2>1, <2>3, <2>4 DEF AtStep, Rooted
    <2>7. to = "tombstone" => files' = Activating(o)'
      BY <1>1, <2>1, <2>3, <2>4 DEF AtStep, Rooted, Activating
    <2>8. to = "pointer" => files' = Tombstoned(o)' /\ First(o)
      BY <1>1, <2>1, <2>3, <2>4 DEF AtStep, Rooted, Activating, Tombstoned
    <2>9. to = "active" => files' = Pointed(o)'
      BY <1>1, <2>1, <2>3, <2>4 DEF AtStep, Rooted, Activating, Tombstoned, Pointed
    <2>10. AtStep(o)'
      BY <1>1, <2>1, <2>3, <2>4, <2>5, <2>6, <2>7, <2>8, <2>9 DEF AtStep
    <2>11. OwnerHolds(o)'
      BY <1>1, <2>4, <2>10 DEF OwnerHolds
    <2>. QED  BY <1>0, <1>1, <2>1, <2>2, <2>4, <2>11, OwnersAlone
  <1>. QED  BY <1>2, <1>3

\* An owner that is done, or failed, gives its lock back.
LEMMA OwnersEnd ==
    ASSUME ActivationAssumption, AuthorityInv, NEW o \in Owners,
           Finalize(o) \/ Release(o) \/ RemoveLock(o) \/ Fail(o)
    PROVE  OwnersHold'
  <1>. AuthorityTypes /\ OwnersHold /\ OwnerActs(o)
    BY DEF AuthorityInv, OwnerActs
  <1>0. /\ {"done", "remove", "finalize", "release"} \cup Writing \subseteq OwnerSteps
        /\ {"remove", "finalize", "release"} \cup Writing \subseteq Locked
        /\ {"finalize", "release"} \cup Writing \subseteq Bound /\ "done" \notin Locked
        /\ "remove" \notin Bound
    BY DEF OwnerSteps, Locked, Bound, Writing
  <1>1. CASE \E from \in Bound : Step(o, from, "release")
    <2>1. lock' = lock
      BY <1>1 DEF Finalize, Release, RemoveLock, Fail, guards, Goes, Step, Bound, Writing
    <2>. QED  BY <1>1, <2>1, OwnersRelease
  <1>2. CASE RemoveLock(o)
    <2>1. Step(o, "remove", "done") /\ pc[o] = "remove"
      BY <1>2 DEF RemoveLock, Step
    <2>2. lock # None /\ lock.owner = o
      BY <1>0, <2>1 DEF OwnersHold, OwnerHolds
    <2>3. lock' = None
      BY <1>2, <2>2 DEF RemoveLock
    <2>. QED  BY <1>0, <2>1, <2>2, <2>3, OwnersAlone
  <1>3. ASSUME Step(o, "finalize", "remove") \/ Step(o, "release", "remove"),
               UNCHANGED <<lock, claim, files, temp, snapshot>>, Settled
        PROVE  OwnersHold'
    <2>1. pc'[o] = "remove" /\ pc[o] \in Bound
      BY <1>0, <1>3, OwnerMoves
    <2>2. lock # None /\ lock.owner = o
      BY <2>1 DEF OwnersHold, OwnerHolds, Locked
    <2>3. OwnerHolds(o)'
      BY <1>0, <1>3, <2>1, <2>2 DEF OwnerHolds, AtStep, Settled
    <2>. QED  BY <1>0, <1>3, <2>2, <2>3, OwnersAlone
  <1>4. CASE Finalize(o)
    <2>1. UNCHANGED <<lock, claim, files, temp, snapshot>> /\ pc[o] = "finalize"
      BY <1>4 DEF Finalize, guards, Goes, Step
    <2>2. lock # None /\ lock.owner = o
      BY <1>0, <2>1 DEF OwnersHold, OwnerHolds
    <2>3. Prior(o) # "refused" /\ o # "refused"
      BY <2>2 DEF ActivationAssumption, AuthorityInv, FilesHold, Fits
    <2>4. CASE Reached(o, lock.intent)
      <3>1. Settled
        BY <2>3, <2>4 DEF Reached, Settled
      <3>. QED
        BY <1>0, <1>1, <1>3, <1>4, <2>1, <3>1 DEF Finalize, Goes
    <2>5. CASE ~Reached(o, lock.intent)
      BY <1>0, <1>1, <1>4, <2>5 DEF Finalize, Goes
    <2>. QED  BY <2>4, <2>5
  <1>5. CASE Release(o)
    <2>1. UNCHANGED <<lock, claim, files, temp, snapshot>> /\ pc[o] = "release"
      BY <1>5 DEF Release, guards, Goes, Step
    <2>2. lock # None /\ lock.owner = o /\ claim = None
      BY <1>0, <2>1 DEF OwnersHold, OwnerHolds
    <2>3. Prior(o) # "refused"
      BY <2>2 DEF AuthorityInv, FilesHold, Fits
    <2>4. CASE Step(o, "release", "remove") /\ Unchanged(o)
      <3>1. Settled
        BY <2>3, <2>4 DEF Unchanged, Settled, Prior
      <3>. QED  BY <1>3, <2>1, <2>4, <3>1
    <2>5. CASE Step(o, "release", "done")
      BY <1>0, <2>1, <2>2, <2>5, OwnersAlone
    <2>. QED  BY <1>5, <2>4, <2>5 DEF Release, Goes
  <1>6. CASE Fail(o)
    <2>1. \E from \in Writing \cup {"finalize"} : Step(o, from, "release")
      BY <1>6 DEF Fail
    <2>. QED  BY <1>0, <1>1, <2>1
  <1>. QED  BY <1>2, <1>4, <1>5, <1>6

-------------------------------------------------------------------------------
\* What is known of the files about another lock.
LEMMA FitsOthers ==
    ASSUME ActivationAssumption, AuthorityInv, NEW o \in Owners, OwnerActs(o), files' = files,
           NEW l \in {lock, claim}, l # None
    PROVE  Fits(l)'
  <1>. AuthorityTypes /\ OwnersHold
    BY DEF AuthorityInv
  <1>1. PICK from \in OwnerSteps : \E to \in OwnerSteps : Step(o, from, to)
    BY OwnerTypes
  <1>2. o \in alive /\ l.owner \in Owners
    BY <1>1, OwnerMoves DEF AuthorityTypes, Locks
  <1>3. snapshot'[l.owner] = snapshot[l.owner]
    <2>1. CASE l.owner = o
      <3>1. l = lock
        BY <1>2, <2>1 DEF OwnersHold
      <3>2. pc[o] # "idle"
        BY <2>1, <3>1 DEF OwnersHold, Locked, Bound, Writing
      <3>. QED  BY <3>2, OwnerTypes
    <2>2. CASE l.owner # o
      BY <1>2, <2>2, OwnerTypes
    <2>. QED  BY <2>1, <2>2
  <1>4. Fits(l)
    BY DEF AuthorityInv, FilesHold
  <1>. QED  BY <1>3, <1>4, FitsKept, OwnerTypes

\* An owner that leaves the files leaves them fitting the lock it binds.
LEMMA FilesOwner ==
    ASSUME ActivationAssumption, AuthorityInv, NEW o \in Owners, OwnerActs(o), files' = files
    PROVE  FilesHold'
  <1>. AuthorityTypes /\ OwnersHold /\ FilesHold
    BY DEF AuthorityInv
  <1>1. claim' = claim /\ (crossed => crossed')
    BY OwnerTypes
  <1>2. Settled' = Settled
    BY DEF Settled
  <1>3. claim' # None => Fits(claim)'
    BY <1>1, FitsOthers
  <1>4. CASE lock' = lock
    BY <1>1, <1>2, <1>4, FitsOthers DEF FilesHold
  <1>5. CASE lock' # lock
    <2>1. \/ pc[o] = "create" /\ lock = None /\ lock' = Lock(o, "preflight") /\ snapshot' = snapshot
             /\ (crossed' <=> crossed \/ claim # None \/ files # snapshot[o])
          \/ pc[o] = "held" /\ Unchanged(o) /\ snapshot' = snapshot
             /\ \E i \in {"activation", "blocked"} : lock' = Lock(o, i)
          \/ pc[o] = "remove" /\ lock' = None
      BY <1>5 DEF OwnerActs, Preflight, BindIntent, Activate, RecordBlocked, Finalize, Release,
                  RemoveLock, Fail, Publish, Goes, Step, guards, AuthorityTypes
    <2>2. CASE /\ pc[o] = "create" /\ lock = None /\ lock' = Lock(o, "preflight") /\ snapshot' = snapshot
               /\ (crossed' <=> crossed \/ claim # None \/ files # snapshot[o])
      <3>1. Settled /\ Prior(o) # "refused"
        BY <2>2 DEF FilesHold, OwnersHold
      <3>. PICK l : l = lock'
        OBVIOUS
      <3>2. l # None /\ l.owner = o /\ l.intent = "preflight"
        BY <2>2, LockTyped DEF Intents
      <3>3. Fits(l)'
        BY <1>2, <2>2, <3>1, <3>2 DEF Fits, Prior
      <3>. QED  BY <1>1, <1>3, <2>2, <3>2, <3>3 DEF FilesHold
    <2>3. CASE /\ pc[o] = "held" /\ Unchanged(o) /\ snapshot' = snapshot
               /\ \E i \in {"activation", "blocked"} : lock' = Lock(o, i)
      <3>1. claim = None /\ lock # None /\ lock.owner = o /\ files = snapshot[o]
        BY <2>3 DEF Unchanged, Holds
      <3>2. Prior(o) # "refused"
        BY <3>1 DEF FilesHold, Fits
      <3>. PICK l : l = lock'
        OBVIOUS
      <3>3. l # None /\ l.owner = o /\ l.intent \in {"activation", "blocked"}
        BY <2>3, LockTyped DEF Intents
      <3>4. Fits(l)'
        BY <2>3, <3>1, <3>2, <3>3 DEF Fits, Prior, First
      <3>. QED  BY <1>1, <3>1, <3>3, <3>4 DEF FilesHold
    <2>4. CASE pc[o] = "remove" /\ lock' = None
      <3>1. Settled
        BY <2>4 DEF OwnersHold, OwnerHolds, AtStep, Locked
      <3>. QED  BY <1>1, <1>2, <1>3, <2>4, <3>1 DEF FilesHold
    <2>. QED  BY <2>1, <2>2, <2>3, <2>4
  <1>. QED  BY <1>4, <1>5

\* An owner that writes a file takes the transition one state further.
LEMMA FilesPublished ==
    ASSUME ActivationAssumption, AuthorityInv, NEW o \in Owners,
           Activate(o) \/ RecordBlocked(o), files' # files
    PROVE  /\ FilesHold' /\ claim = None /\ temp' = temp /\ lock # None /\ lock.owner = o
           /\ \/ /\ First(o) /\ files'.root # None /\ lock.intent = "activation"
                 /\ files'.active = IF pc[o] = "pointer" THEN o ELSE files.active
              \/ /\ ~First(o) /\ files = snapshot[o] /\ lock.intent = "activation" /\ pc[o] = "pointer"
                 /\ files'.active = o /\ files'.root = files.root
              \/ RecordBlocked(o) /\ files'.active = files.active /\ files'.root = files.root
           /\ pc[o] = "active" => files.active = o
           /\ pc[o] # "active" => pc[o] \in Before
  <1>. AuthorityTypes /\ OwnersHold /\ FilesHold /\ OwnerActs(o)
    BY DEF AuthorityInv, OwnerActs
  <1>1. UNCHANGED <<lock, claim, temp, snapshot>>
    BY DEF Activate, RecordBlocked, Publish, guards
  <1>2. pc[o] \in {"root", "activating", "tombstone", "pointer", "active", "status"}
    BY DEF Activate, RecordBlocked, Publish, Goes, Step
  <1>3. pc[o] \in Locked /\ pc[o] \in Bound
    BY <1>2 DEF Locked, Bound, Writing
  <1>4. lock # None /\ lock.owner = o /\ claim = None /\ AtStep(o)
    BY <1>3 DEF OwnersHold, OwnerHolds
  <1>5. Prior(o) # "refused"
    BY <1>4 DEF FilesHold, Fits
  <1>6. First(o)' = First(o) /\ Prior(o)' = Prior(o)
    BY <1>1 DEF First, Prior
  <1>7. snapshot[o] \in FileStates /\ files \in FileStates /\ o # None
    BY DEF ActivationAssumption, AuthorityTypes
  <1>8. CASE pc[o] = "status"
    <2>1. lock.intent = "blocked" /\ files = snapshot[o]
      BY <1>4, <1>8 DEF AtStep
    <2>2. RecordBlocked(o) /\ files' = [files EXCEPT !.status = o]
      BY <1>8 DEF Activate, RecordBlocked, Publish, Goes, Step
    <2>3. files' = Blocked(o)'
      BY <1>1, <2>1, <2>2 DEF Blocked
    <2>4. files'.active = files.active /\ files'.root = files.root
      BY <1>7, <2>2 DEF FileStates
    <2>5. Fits(lock)'
      BY <1>1, <1>4, <1>5, <1>6, <2>1, <2>3 DEF Fits
    <2>. QED  BY <1>1, <1>4, <1>8, <2>2, <2>4, <2>5 DEF FilesHold, Before
  <1>9. CASE pc[o] = "pointer" /\ ~First(o)
    <2>1. lock.intent = "activation" /\ files = snapshot[o]
      BY <1>4, <1>9 DEF AtStep
    <2>2. files' = [files EXCEPT !.active = o]
      BY <1>9 DEF Activate, RecordBlocked, Publish, Goes, Step
    <2>3. files' = Replaced(o)'
      BY <1>1, <2>1, <2>2 DEF Replaced
    <2>4. files'.active = o /\ files'.root = files.root
      BY <1>7, <2>2 DEF FileStates
    <2>5. Fits(lock)'
      BY <1>1, <1>4, <1>5, <1>6, <1>9, <2>1, <2>3 DEF Fits
    <2>. QED  BY <1>1, <1>4, <1>9, <2>1, <2>4, <2>5 DEF FilesHold, Before
  <1>10. CASE pc[o] # "status" /\ ~(pc[o] = "pointer" /\ ~First(o))
    <2>1. lock.intent = "activation" /\ First(o)
      BY <1>2, <1>4, <1>10 DEF AtStep
    <2>2. \/ pc[o] = "root" /\ files' = [files EXCEPT !.root = o]
          \/ pc[o] = "activating" /\ files' = [files EXCEPT !.witness = "activating"]
          \/ pc[o] = "tombstone" /\ files' = [files EXCEPT !.legacy = "tombstone"]
          \/ pc[o] = "pointer" /\ files' = [files EXCEPT !.active = o]
          \/ pc[o] = "active" /\ files' = [files EXCEPT !.witness = "active"]
      BY <1>10 DEF Activate, RecordBlocked, Publish, Goes, Step
    <2>3. /\ pc[o] = "root" => files = snapshot[o]
          /\ pc[o] = "activating" => files = Rooted(o)
          /\ pc[o] = "tombstone" => files = Activating(o)
          /\ pc[o] = "pointer" => files = Tombstoned(o)
          /\ pc[o] = "active" => files = Pointed(o)
      BY <1>4, <2>1 DEF AtStep
    <2>4. files' \in {Activated(o)'} \cup Begun(o)'
      BY <1>1, <2>2, <2>3 DEF Begun, Rooted, Activating, Tombstoned, Pointed, Activated
    <2>5. Fits(lock)'
      BY <1>1, <1>4, <1>5, <1>6, <2>1, <2>4 DEF Fits
    <2>6. files'.root # None /\ files'.active = IF pc[o] = "pointer" THEN o ELSE files.active
      <3>1. pc[o] # "root" => files.root = o
        BY <1>10, <1>2, <2>1, <2>3, FirstViews DEF Begun
      <3>2. files'.root = (IF pc[o] = "root" THEN o ELSE files.root)
        BY <1>7, <2>2 DEF FileStates
      <3>3. files'.active = IF pc[o] = "pointer" THEN o ELSE files.active
        BY <1>7, <2>2 DEF FileStates
      <3>. QED  BY <1>7, <3>1, <3>2, <3>3
    <2>7. pc[o] = "active" => files.active = o
      BY <1>7, <2>3 DEF FileStates, Rooted, Activating, Tombstoned, Pointed
    <2>. QED  BY <1>1, <1>2, <1>4, <1>10, <2>1, <2>5, <2>6, <2>7 DEF FilesHold, Before
  <1>. QED  BY <1>8, <1>9, <1>10

\* A recovery that is under way has nothing to do with the lock of a live owner.
LEMMA RecoveriesOwner ==
    ASSUME ActivationAssumption, AuthorityInv, NEW o \in Owners, OwnerActs(o)
    PROVE  RecoveriesHold'
  <1>. AuthorityTypes /\ RecoveriesHold /\ OwnersHold
    BY DEF AuthorityInv
  <1>1. PICK from \in OwnerSteps : \E to \in OwnerSteps : Step(o, from, to)
    BY OwnerTypes
  <1>2. o \in alive /\ \A r \in Recoveries : pc'[r] = pc[r]
    BY <1>1, OwnerMoves
  <1>3. claim' = claim /\ alive' = alive /\ found' = found /\ (crossed => crossed')
    BY OwnerTypes
  <1>4. ASSUME NEW r \in Recoveries, pc'[r] \in Busy
        PROVE  RecoveryHolds(r)'
    <2>1. RecoveryHolds(r) /\ pc[r] \in Busy
      BY <1>2, <1>4 DEF RecoveriesHold
    <2>2. CASE lock = None \/ lock.owner = o
      <3>1. found[r] # lock
        BY <1>2, <2>1, <2>2 DEF RecoveryHolds
      <3>2. pc[r] \notin {"claim", "clean", "complete", "check", "unlock"}
        BY <2>1, <3>1 DEF RecoveryHolds
      <3>3. pc[r] = "unclaim" => crossed
        BY <2>1, <3>1 DEF RecoveryHolds
      <3>. QED  BY <1>2, <1>3, <2>1, <3>2, <3>3 DEF RecoveryHolds
    <2>3. CASE lock # None /\ lock.owner # o
      <3>1. pc[o] \notin Locked
        BY <2>3 DEF OwnersHold, OwnerHolds
      <3>2. UNCHANGED <<lock, files, temp>>
        BY <2>3, <3>1 DEF OwnerActs, Preflight, BindIntent, Activate, RecordBlocked, Finalize,
             Release, RemoveLock, Fail, Publish, Goes, Step, guards, Locked, Bound, Writing
      <3>. QED  BY <1>2, <1>3, <2>1, <3>2 DEF RecoveryHolds, Settled
    <2>. QED  BY <2>2, <2>3
  <1>5. \A q, r \in Recoveries : pc'[q] \in Busy /\ pc'[r] \in Busy => q = r
    BY <1>2 DEF RecoveriesHold
  <1>. QED  BY <1>4, <1>5 DEF RecoveriesHold

\* An owner retires an authority only when it writes a file of its transition.
LEMMA RetiredOwner ==
    ASSUME ActivationAssumption, AuthorityInv, NEW o \in Owners, OwnerActs(o)
    PROVE  RetiredHolds'
  <1>. AuthorityTypes /\ RetiredHolds /\ OwnersHold
    BY DEF AuthorityInv
  <1>1. PICK from \in OwnerSteps, to \in OwnerSteps : Step(o, from, to)
    BY OwnerTypes
  <1>2. pc[o] = from /\ pc'[o] = to /\ \A x \in Owners \ {o} : pc'[x] = pc[x]
    BY <1>1, OwnerMoves DEF Incarnations
  <1>3. claim' = claim
    BY OwnerTypes
  <1>4. CASE files' = files
    <2>1. retired' = retired
      BY <1>4, OwnerWrites
    <2>2. to \in Before => from \in Before
      BY <1>1, <1>2, <1>4 DEF OwnerActs, Preflight, BindIntent, Activate, RecordBlocked, Finalize,
             Release, RemoveLock, Fail, Publish, Goes, Step, Before
    <2>3. lock' \in {lock, None} \/ (from \in Before /\ \E i \in Intents : lock' = Lock(o, i))
      BY <1>2 DEF OwnerActs, Preflight, BindIntent, Activate, RecordBlocked, Finalize,
             Release, RemoveLock, Fail, Publish, Goes, Step, Before, Intents, guards
    <2>4. ASSUME NEW x \in Owners, MayLand(x)'
          PROVE  MayLand(x)
      <3>1. CASE pc'[x] \in Before
        BY <1>2, <2>2, <3>1 DEF MayLand
      <3>2. CASE \E l \in {lock', claim'} : l # None /\ l.owner = x /\ files.active # x
        BY <1>2, <1>3, <2>3, <3>2, LockTyped DEF MayLand
      <3>. QED  BY <1>4, <2>4, <3>1, <3>2 DEF MayLand
    <2>. QED  BY <1>4, <2>1, <2>4 DEF RetiredHolds
  <1>5. CASE files' # files
    <2>1. Activate(o) \/ RecordBlocked(o)
      BY <1>5 DEF OwnerActs, Preflight, BindIntent, Finalize, Release, RemoveLock, Fail
    <2>2. /\ lock # None /\ lock.owner = o /\ claim = None
          /\ \/ /\ First(o) /\ files'.root # None
                /\ files'.active = IF pc[o] = "pointer" THEN o ELSE files.active
             \/ /\ ~First(o) /\ files = snapshot[o] /\ pc[o] = "pointer"
                /\ files'.active = o /\ files'.root = files.root
             \/ RecordBlocked(o) /\ files'.active = files.active /\ files'.root = files.root
          /\ pc[o] = "active" => files.active = o
          /\ pc[o] # "active" => pc[o] \in Before
      BY <1>5, <2>1, FilesPublished
    <2>3. lock' = lock /\ retired' = IF ~RecordBlocked(o) THEN retired \cup {Prior(o)} ELSE retired
      BY <1>5, OwnerWrites
    <2>4. Prior(o) # "refused" /\ o \notin {None, "none", "legacy", "refused"}
      BY <2>2 DEF ActivationAssumption, AuthorityInv, FilesHold, Fits
    <2>5. MayLand(o) \/ files.active = o
      BY <2>2 DEF MayLand
    <2>6. \A x \in Owners \ {o} : MayLand(x)' => MayLand(x) /\ x # files.active
      <3>1. ASSUME NEW x \in Owners \ {o}, MayLand(x)'
            PROVE  MayLand(x)
        BY <1>2, <1>3, <2>2, <2>3, <3>1 DEF MayLand
      <3>. QED  BY <3>1 DEF RetiredHolds
    <2>7. files'.active \in {o, files.active}
      BY <2>2
    <2>11. o \in DOMAIN pc
      BY DEF AuthorityTypes, Incarnations
    <2>8. CASE RecordBlocked(o)
      <3>1. files'.active = files.active /\ files'.root = files.root /\ retired' = retired
        BY <2>2, <2>3, <2>8 DEF RecordBlocked, Publish, Goes, Step
      <3>2. MayLand(o)
        BY <2>2, <2>8 DEF MayLand, RecordBlocked, Publish, Goes, Step
      <3>. QED  BY <2>6, <3>1, <3>2 DEF RetiredHolds
    <2>9. CASE ~RecordBlocked(o) /\ First(o)
      <3>1. Prior(o) \in {"none", "legacy"} /\ retired' = retired \cup {Prior(o)}
        BY <2>3, <2>9 DEF First
      <3>2. files'.root # None
        BY <2>2, <2>9
      <3>3. files'.active = IF pc[o] = "pointer" THEN o ELSE files.active
        BY <2>2, <2>9
      <3>4. files.active \notin {"none", "legacy"}
        BY DEF ActivationAssumption, AuthorityTypes, FileStates
      <3>5. \A x \in Owners : x \notin {"none", "legacy"}
        BY DEF ActivationAssumption
      <3>6. pc[o] = "pointer" => MayLand(o)
        BY DEF MayLand, Before
      <3>7. files'.active \notin retired'
        BY <2>4, <3>1, <3>3, <3>4, <3>6 DEF RetiredHolds
      <3>8. MayLand(o)' => MayLand(o) /\ files'.active # o
        <4>1. pc[o] = "pointer" => pc'[o] \notin Before
          BY <2>1, <2>9, <2>11 DEF Activate, Publish, Goes, Step, Before
        <4>2. pc[o] = "active" => pc'[o] \notin Before
          BY <2>1, <2>9, <2>11 DEF Activate, Publish, Goes, Step, Before
        <4>. QED  BY <2>2, <3>3, <4>1, <4>2 DEF MayLand, RetiredHolds
      <3>. QED  BY <2>6, <3>1, <3>2, <3>3, <3>5, <3>7, <3>8 DEF RetiredHolds
    <2>10. CASE ~RecordBlocked(o) /\ ~First(o)
      <3>1. /\ files = snapshot[o] /\ pc[o] = "pointer"
            /\ files'.active = o /\ files'.root = files.root
        BY <2>2, <2>10
      <3>2. Prior(o) = files.active /\ Prior(o) \in Owners /\ retired' = retired \cup {Prior(o)}
        BY <2>3, <2>4, <2>10, <3>1, LaterViews
      <3>3. o \notin retired /\ files.active # o
        BY <3>1 DEF RetiredHolds, MayLand, Before
      <3>4. \A x \in Owners : x \notin {"none", "legacy"}
        BY DEF ActivationAssumption
      <3>5. ~MayLand(o)'
        <4>1. pc'[o] \notin Before
          BY <2>1, <2>10, <2>11, <3>1 DEF Activate, Publish, Goes, Step, Before
        <4>. QED  BY <3>1, <4>1 DEF MayLand
      <3>. QED  BY <2>6, <3>1, <3>2, <3>3, <3>4, <3>5 DEF RetiredHolds
    <2>. QED  BY <2>8, <2>9, <2>10
  <1>. QED  BY <1>4, <1>5

\* Only recoveries refuse.
LEMMA RefusedOwner ==
    ASSUME AuthorityInv, NEW o \in Owners, OwnerActs(o)
    PROVE  RefusedHolds'
  <1>. AuthorityTypes /\ RefusedHolds /\ OwnersHold
    BY DEF AuthorityInv
  <1>1. refused' = refused /\ (crossed => crossed')
    BY OwnerTypes
  <1>2. temp' = temp \/ temp = "none"
    <2>1. CASE Fail(o)
      <3>1. PICK step \in Writing \cup {"finalize"} : Step(o, step, "release")
        BY <2>1 DEF Fail
      <3>2. pc[o] \in Bound \ {"release"} /\ pc[o] \in Locked
        BY <3>1 DEF Step, Bound, Locked, Writing
      <3>. QED  BY <3>2 DEF OwnersHold, OwnerHolds
    <2>2. CASE ~Fail(o)
      BY <2>2 DEF OwnerActs, Preflight, BindIntent, Activate, RecordBlocked, Finalize, Release,
                  RemoveLock, Publish
    <2>. QED  BY <2>1, <2>2
  <1>. QED  BY <1>1, <1>2 DEF RefusedHolds

-------------------------------------------------------------------------------
\* The steps of a recovery, as far as they concern the lock and its second link.
LEMMA RecoverySteps1 ==
    ASSUME ActivationAssumption, AuthorityInv, NEW r \in Recoveries, RecoveryActs(r)
    PROVE  /\ pc[r] \in Busy \cup {"idle"}
           /\ \A q \in Recoveries \ {r} : pc'[q] = pc[q] /\ pc[q] \notin Busy
           /\ pc[r] \in Busy => RecoveryHolds(r)
  <1>. AuthorityTypes /\ RecoveriesHold /\ OwnersHold
    BY DEF AuthorityInv
  <1>1. PICK from \in RecoverySteps, to \in RecoverySteps : Step(r, from, to)
    BY RecoveryTypes
  <1>2. pc[r] = from /\ \A q \in Recoveries \ {r} : pc'[q] = pc[q]
    BY <1>1, RecoveryMoves DEF Incarnations
  <1>3. pc[r] \in Busy \cup {"idle"}
    BY DEF RecoveryActs, BeginRecovery, TakeOver, Clean, Complete, Conclude, Goes, Step, Busy,
           RecoverySteps
  <1>4. CASE pc[r] = "idle"
    <2>1. \A q \in Recoveries : ~UnderWay(q)
      BY <1>4 DEF RecoveryActs, BeginRecovery, TakeOver, Clean, Complete, Conclude, Goes, Step
    <2>2. \A q \in Recoveries : pc[q] \notin Busy
      BY <2>1 DEF UnderWay, Busy, OwnersHold, Incarnations
    <2>. QED  BY <1>2, <1>3, <1>4, <2>2 DEF Busy
  <1>5. CASE pc[r] \in Busy
    BY <1>2, <1>5 DEF RecoveriesHold
  <1>. QED  BY <1>3, <1>4, <1>5

\* The lock a recovery finds.
LEMMA BeginCase ==
    ASSUME AuthorityInv, NEW r \in Recoveries, RecoveryActs(r), pc[r] = "idle"
    PROVE  /\ UNCHANGED <<lock, claim, files, temp>>
           /\ found'[r] # None /\ found'[r].owner \notin alive
           /\ \/ claim # None /\ lock \in {None, claim} /\ pc'[r] = "relink" /\ found'[r] = claim
                 /\ refused' = refused
              \/ claim = None /\ pc'[r] = "claim" /\ found'[r] = lock /\ refused' = refused
              \/ claim # None /\ lock \notin {None, claim} /\ pc'[r] = "done"
  <1>. AuthorityTypes
    BY DEF AuthorityInv
  <1>1. BeginRecovery(r)
    BY DEF RecoveryActs, BeginRecovery, TakeOver, Clean, Complete, Conclude, Goes, Step
  <1>. DEFINE f == IF claim # None THEN claim ELSE lock
  <1>2. found'[r] = f /\ f # None /\ f.owner \notin alive
    BY <1>1 DEF BeginRecovery, Stale, AuthorityTypes
  <1>3. UNCHANGED <<lock, claim, files, temp>>
    BY <1>1 DEF BeginRecovery, guards
  <1>4. r \in DOMAIN pc
    BY DEF AuthorityTypes, Incarnations
  <1>5. pc'[r] = IF claim = None \/ lock \in {None, claim}
                 THEN (IF claim = None THEN "claim" ELSE "relink") ELSE "done"
    BY <1>1, <1>4 DEF BeginRecovery, Goes, Step
  <1>6. claim = None \/ lock \in {None, claim} => refused' = refused
    BY <1>1 DEF BeginRecovery, Refuses, AuthorityTypes
  <1>. QED  BY <1>2, <1>3, <1>5, <1>6

\* The second link it takes over or makes.
LEMMA TakeOverCase ==
    ASSUME ActivationAssumption, AuthorityInv, NEW r \in Recoveries, RecoveryActs(r),
           pc[r] \in {"relink", "unclaim", "claim"}
    PROVE  /\ UNCHANGED <<files, temp, found>> /\ RecoveryHolds(r)
           /\ \/ /\ pc[r] = "relink" /\ pc'[r] = "unclaim" /\ claim' = claim /\ refused' = refused
                 /\ lock' = IF lock = None THEN claim ELSE lock
              \/ /\ pc[r] = "unclaim" /\ lock = claim /\ lock' = lock /\ claim' = None
                 /\ pc'[r] = "claim" /\ refused' = refused
              \/ /\ pc[r] = "unclaim" /\ lock # claim /\ lock' = lock /\ claim' = claim
                 /\ pc'[r] = "done"
              \/ /\ pc[r] = "claim" /\ lock' = lock /\ claim' = lock /\ pc'[r] = "clean"
                 /\ refused' = refused
  <1>. AuthorityTypes
    BY DEF AuthorityInv
  <1>1. TakeOver(r)
    BY DEF RecoveryActs, BeginRecovery, TakeOver, Clean, Complete, Conclude, Goes, Step
  <1>2. RecoveryHolds(r)
    BY RecoverySteps1 DEF Busy, RecoverySteps
  <1>3. r \in DOMAIN pc
    BY DEF AuthorityTypes, Incarnations
  <1>4. UNCHANGED <<files, temp, found>>
    BY <1>1 DEF TakeOver
  <1>5. CASE pc[r] = "relink"
    BY <1>1, <1>2, <1>3, <1>4, <1>5 DEF TakeOver, Goes, Step
  <1>6. CASE pc[r] = "unclaim"
    <2>1. /\ pc'[r] = (IF Paired(r) THEN "claim" ELSE "done") /\ lock' = lock
          /\ claim' = IF Paired(r) THEN None ELSE claim
      BY <1>1, <1>3, <1>6 DEF TakeOver, Goes, Step
    <2>2. Paired(r) <=> lock = claim
      BY <1>2, <1>6 DEF Paired, RecoveryHolds
    <2>3. Paired(r) => refused' = refused
      BY <1>1, <1>6 DEF TakeOver, Goes, Step, Refuses, AuthorityTypes
    <2>. QED  BY <1>2, <1>4, <1>6, <2>1, <2>2, <2>3
  <1>7. CASE pc[r] = "claim"
    <2>1. claim = None /\ lock # None
      BY <1>2, <1>7 DEF RecoveryHolds
    <2>2. pc'[r] = "clean" /\ claim' = lock /\ lock' = lock
      BY <1>1, <1>3, <1>7, <2>1 DEF TakeOver, Goes, Step
    <2>3. refused' = refused
      BY <1>1, <1>7, <2>1 DEF TakeOver, Goes, Step, Refuses, AuthorityTypes
    <2>. QED  BY <1>2, <1>4, <1>7, <2>2, <2>3
  <1>. QED  BY <1>5, <1>6, <1>7

\* In both the found lock is still there, and its owner is dead.
LEMMA CleanCase ==
    ASSUME ActivationAssumption, AuthorityInv, NEW r \in Recoveries, RecoveryActs(r), pc[r] = "clean"
    PROVE  /\ UNCHANGED <<lock, claim, files, found>> /\ RecoveryHolds(r)
           /\ lock = found[r] /\ claim = found[r]
           /\ \/ temp # "torn" /\ temp' = "none" /\ pc'[r] = "complete" /\ refused' = refused
              \/ temp = "torn" /\ temp' = "torn" /\ pc'[r] = "done"
  <1>. AuthorityTypes
    BY DEF AuthorityInv
  <1>1. Clean(r)
    BY DEF RecoveryActs, BeginRecovery, TakeOver, Clean, Complete, Conclude, Goes, Step
  <1>2. RecoveryHolds(r)
    BY RecoverySteps1 DEF Busy, RecoverySteps
  <1>3. lock = found[r] /\ claim = found[r] /\ Paired(r)
    BY <1>2 DEF RecoveryHolds, Paired
  <1>4. r \in DOMAIN pc
    BY DEF AuthorityTypes, Incarnations
  <1>5. UNCHANGED <<lock, claim, files, found>>
    BY <1>1 DEF Clean, guards
  <1>6. /\ pc'[r] = IF temp # "torn" THEN "complete" ELSE "done"
        /\ temp' = IF temp = "torn" THEN temp ELSE "none"
    BY <1>1, <1>3, <1>4 DEF Clean, Goes, Step
  <1>7. temp # "torn" => refused' = refused
    BY <1>1, <1>3 DEF Clean, Refuses, AuthorityTypes
  <1>. QED  BY <1>2, <1>3, <1>5, <1>6, <1>7

\* The next file of a first activation, or nothing.
LEMMA CompleteCase ==
    ASSUME ActivationAssumption, AuthorityInv, NEW r \in Recoveries, RecoveryActs(r), pc[r] = "complete"
    PROVE  /\ UNCHANGED <<lock, claim, temp, found>> /\ RecoveryHolds(r)
           /\ lock = found[r] /\ claim = found[r] /\ temp = "none" /\ refused' = refused
           /\ \/ files' = files /\ pc'[r] = "check" /\ Settled
              \/ /\ pc'[r] = "complete" /\ lock.intent = "activation" /\ First(lock.owner)
                 /\ files'.root = files.root
                 /\ \/ files = Rooted(lock.owner) /\ files' = Activating(lock.owner)
                       /\ files'.active = files.active
                    \/ files = Activating(lock.owner) /\ files' = Tombstoned(lock.owner)
                       /\ files'.active = files.active
                    \/ files = Tombstoned(lock.owner) /\ files' = Pointed(lock.owner)
                       /\ files'.active = lock.owner /\ files.active = None
                    \/ files = Pointed(lock.owner) /\ files' = Activated(lock.owner)
                       /\ files'.active = files.active
  <1>. AuthorityTypes
    BY DEF AuthorityInv
  <1>1. Complete(r)
    BY DEF RecoveryActs, BeginRecovery, TakeOver, Clean, Complete, Conclude, Goes, Step
  <1>2. RecoveryHolds(r)
    BY RecoverySteps1 DEF Busy, RecoverySteps
  <1>3. lock = found[r] /\ claim = found[r] /\ Paired(r) /\ temp = "none" /\ found[r] # None
    BY <1>2 DEF RecoveryHolds, Paired
  <1>4. r \in DOMAIN pc
    BY DEF AuthorityTypes, Incarnations
  <1>5. UNCHANGED <<lock, claim, temp, found>>
    BY <1>1 DEF Complete, guards
  <1>6. lock \in Locks /\ lock.owner \in Owners /\ Fits(lock)
    BY <1>3 DEF AuthorityTypes, Locks, AuthorityInv, FilesHold
  <1>. DEFINE o == lock.owner
  <1>7. CASE RollsForward(r)
    <2>1. lock.intent = "activation" /\ First(o) /\ files.root # None
      BY <1>3, <1>7 DEF RollsForward
    <2>2. /\ snapshot[o].root = None /\ \A f \in Begun(o) : f.root = o
          /\ View(Activated(o)) = o /\ Activated(o).root = o
      BY <1>6, <2>1, FirstViews
    <2>3. files \in Begun(o) \cup {Activated(o)}
      BY <1>6, <2>1, <2>2 DEF Fits
    <2>4. /\ snapshot[o] \in FileStates /\ snapshot[o].witness = "none"
          /\ snapshot[o].legacy # "tombstone" /\ snapshot[o].active = None
      BY <1>6, <2>1 DEF ActivationAssumption, AuthorityTypes, First, Prior, View, FileStates
    <2>5. files.root = o /\ files.active \in {None, o}
      BY <1>6, <2>2, <2>3, <2>4 DEF Begun, Rooted, Activating, Tombstoned, Pointed, Activated,
                                    FileStates
    <2>6. /\ pc'[r] = (IF Missing(files) = "nothing" THEN "check" ELSE "complete")
          /\ files' = CASE Missing(files) = "nothing" -> files
                        [] Missing(files) = "tombstone" -> [files EXCEPT !.legacy = "tombstone"]
                        [] Missing(files) = "pointer" -> [files EXCEPT !.active = o]
                        [] OTHER -> [files EXCEPT !.witness = Missing(files)]
      BY <1>1, <1>3, <1>4, <1>7, <2>5 DEF Complete, Goes, Step
    <2>7. refused' = refused
      BY <1>1, <1>3, <1>7, <2>5 DEF Complete, Refuses, AuthorityTypes
    <2>8. o # None /\ o # "refused"
      BY <1>6 DEF ActivationAssumption
    <2>9. CASE files = Activated(o)
      <3>1. files.witness = "active"
        BY <2>4, <2>9 DEF Rooted, Activating, Tombstoned, Pointed, Activated, FileStates
      <3>2. Missing(files) = "nothing"
        BY <3>1 DEF Missing
      <3>. QED  BY <1>2, <1>3, <1>5, <2>2, <2>6, <2>7, <2>8, <2>9, <3>2 DEF Settled
    <2>10. CASE files = Rooted(o)
      <3>1. files.witness = "none"
        BY <2>4, <2>10 DEF Rooted, FileStates
      <3>2. files' = Activating(o)
        BY <2>6, <2>10, <3>1 DEF Missing, Activating
      <3>3. files'.active = files.active /\ files'.root = files.root
        BY <2>4, <2>10, <3>2 DEF Rooted, Activating, FileStates
      <3>4. pc'[r] = "complete"
        BY <2>6, <3>1 DEF Missing
      <3>. QED  BY <1>2, <1>3, <1>5, <2>1, <2>7, <2>10, <3>2, <3>3, <3>4
    <2>11. CASE files = Activating(o)
      <3>1. files.witness = "activating" /\ files.legacy # "tombstone"
        BY <2>4, <2>11 DEF Rooted, Activating, FileStates
      <3>2. files' = Tombstoned(o)
        <4>1. Missing(files) = "tombstone"
          BY <3>1 DEF Missing
        <4>. QED  BY <2>6, <2>11, <4>1 DEF Tombstoned
      <3>3. files'.active = files.active /\ files'.root = files.root
        BY <2>4, <2>11, <3>2 DEF Rooted, Activating, Tombstoned, FileStates
      <3>4. pc'[r] = "complete"
        BY <2>6, <3>1 DEF Missing
      <3>. QED  BY <1>2, <1>3, <1>5, <2>1, <2>7, <2>11, <3>2, <3>3, <3>4
    <2>12. CASE files = Tombstoned(o)
      <3>1. files.witness = "activating" /\ files.legacy = "tombstone" /\ files.active = None
        BY <2>4, <2>12 DEF Rooted, Activating, Tombstoned, FileStates
      <3>2. files' = Pointed(o)
        <4>1. Missing(files) = "pointer"
          BY <3>1 DEF Missing
        <4>. QED  BY <2>6, <2>12, <4>1 DEF Pointed
      <3>3. files'.active = o /\ files'.root = files.root
        BY <2>4, <2>12, <3>2 DEF Rooted, Activating, Tombstoned, Pointed, FileStates
      <3>4. pc'[r] = "complete"
        BY <2>6, <3>1 DEF Missing
      <3>. QED  BY <1>2, <1>3, <1>5, <2>1, <2>7, <2>12, <3>1, <3>2, <3>3, <3>4
    <2>13. CASE files = Pointed(o)
      <3>1. files.witness = "activating" /\ files.legacy = "tombstone" /\ files.active = o
        BY <2>4, <2>13 DEF Rooted, Activating, Tombstoned, Pointed, FileStates
      <3>2. files' = Activated(o)
        BY <2>6, <2>8, <2>13, <3>1 DEF Missing, Activated
      <3>3. files'.active = files.active /\ files'.root = files.root
        BY <2>4, <2>13, <3>2 DEF Rooted, Activating, Tombstoned, Pointed, Activated, FileStates
      <3>4. pc'[r] = "complete"
        BY <2>6, <2>8, <3>1 DEF Missing
      <3>. QED  BY <1>2, <1>3, <1>5, <2>1, <2>7, <2>13, <3>2, <3>3, <3>4
    <2>. QED  BY <2>3, <2>9, <2>10, <2>11, <2>12, <2>13 DEF Begun
  <1>8. CASE ~RollsForward(r)
    <2>1. files' = files /\ pc'[r] = "check"
      BY <1>1, <1>3, <1>4, <1>8 DEF Complete, Goes, Step
    <2>2. refused' = refused
      BY <1>1, <1>3, <1>8 DEF Complete, Refuses, AuthorityTypes
    <2>3. Settled
      <3>1. SUFFICES ASSUME ~Settled PROVE FALSE
        OBVIOUS
      <3>2. lock.intent = "activation" /\ First(o) /\ files \in Begun(o)
        BY <1>6, <3>1, RefusedViews
      <3>3. files.root # None
        BY <1>6, <3>2, FirstViews DEF ActivationAssumption
      <3>. QED  BY <1>3, <1>8, <3>2, <3>3 DEF RollsForward
    <2>. QED  BY <1>2, <1>3, <1>5, <2>1, <2>2, <2>3
  <1>. QED  BY <1>7, <1>8

\* What recovery finds is the prior authority or what the lock was bound to.
LEMMA ConcludeCase ==
    ASSUME ActivationAssumption, AuthorityInv, NEW r \in Recoveries, RecoveryActs(r),
           pc[r] \in {"check", "unlock", "finish"}
    PROVE  /\ UNCHANGED <<files, temp, found>> /\ RecoveryHolds(r)
           /\ \/ /\ pc[r] = "check" /\ lock' = lock /\ claim' = claim /\ lock = found[r] /\ claim = lock
                 /\ Settled /\ \/ pc'[r] = "unlock" /\ refused' = refused
                               \/ pc'[r] = "done" /\ crossed
              \/ /\ pc[r] = "unlock" /\ lock = found[r] /\ claim = lock /\ Settled
                 /\ pc'[r] = "finish" /\ lock' = None /\ claim' = claim /\ refused' = refused
              \/ /\ pc[r] = "finish" /\ pc'[r] = "done" /\ lock' = lock /\ claim' = None
                 /\ claim = found[r] /\ refused' = refused
  <1>. AuthorityTypes
    BY DEF AuthorityInv
  <1>1. Conclude(r)
    BY DEF RecoveryActs, BeginRecovery, TakeOver, Clean, Complete, Conclude, Goes, Step
  <1>2. RecoveryHolds(r)
    BY RecoverySteps1 DEF Busy, RecoverySteps
  <1>3. r \in DOMAIN pc
    BY DEF AuthorityTypes, Incarnations
  <1>4. UNCHANGED <<files, temp, found>>
    BY <1>1 DEF Conclude
  <1>5. CASE pc[r] = "check"
    <2>1. lock = found[r] /\ claim = found[r] /\ Paired(r) /\ Settled
      BY <1>2, <1>5 DEF RecoveryHolds, Paired
    <2>2. /\ pc'[r] = (IF Recoverable(r) THEN "unlock" ELSE "done")
          /\ UNCHANGED <<lock, claim>>
      BY <1>1, <1>3, <1>5, <2>1 DEF Conclude, Goes, Step, guards
    <2>3. Recoverable(r) => refused' = refused
      BY <1>1, <1>5, <2>1 DEF Conclude, Goes, Step, Refuses, AuthorityTypes
    <2>4. Recoverable(r) \/ crossed
      <3>. DEFINE o == lock.owner
      <3>1. lock \in Locks /\ o \in Owners /\ Fits(lock)
        BY <1>2, <2>1 DEF RecoveryHolds, AuthorityTypes, Locks, AuthorityInv, FilesHold
      <3>2. SUFFICES ASSUME files # snapshot[o], ~crossed
                     PROVE  lock.intent # "preflight" /\ Reached(o, lock.intent)
        BY <2>1 DEF Recoverable
      <3>3. lock.intent \in {"activation", "blocked"}
        BY <3>1, <3>2 DEF Fits, Locks, Intents
      <3>4. CASE lock.intent = "blocked"
        <4>1. files = Blocked(o)
          BY <3>1, <3>2, <3>4 DEF Fits
        <4>. QED  BY <3>1, <3>4, <4>1, BlockedView DEF Reached
      <3>5. CASE lock.intent = "activation" /\ First(o)
        <4>1. files \in Begun(o) \cup {Activated(o)}
          BY <3>1, <3>2, <3>5 DEF Fits
        <4>2. View(files) = o
          BY <2>1, <3>1, <3>5, <4>1, FirstViews DEF Settled
        <4>. QED  BY <3>5, <4>2 DEF Reached
      <3>6. CASE lock.intent = "activation" /\ ~First(o)
        <4>1. files = Replaced(o) /\ Prior(o) # "refused"
          BY <3>1, <3>2, <3>6 DEF Fits
        <4>2. View(files) = o
          BY <3>1, <3>6, <4>1, LaterViews
        <4>. QED  BY <3>6, <4>2 DEF Reached
      <3>. QED  BY <3>3, <3>4, <3>5, <3>6
    <2>. QED  BY <1>2, <1>4, <1>5, <2>1, <2>2, <2>3, <2>4
  <1>6. CASE pc[r] = "unlock"
    <2>1. lock = found[r] /\ claim = found[r] /\ Settled
      BY <1>2, <1>6 DEF RecoveryHolds
    <2>2. pc'[r] = "finish" /\ lock' = None /\ claim' = claim /\ refused' = refused
      BY <1>1, <1>3, <1>6 DEF Conclude, Goes, Step
    <2>. QED  BY <1>2, <1>4, <1>6, <2>1, <2>2
  <1>7. CASE pc[r] = "finish"
    <2>1. claim = found[r]
      BY <1>2, <1>7 DEF RecoveryHolds
    <2>2. pc'[r] = "done" /\ claim' = None /\ lock' = lock
      BY <1>1, <1>3, <1>7, <2>1 DEF Conclude, Goes, Step
    <2>3. refused' = refused
      BY <1>1, <1>7, <2>1 DEF Conclude, Goes, Step, Refuses, AuthorityTypes
    <2>. QED  BY <1>2, <1>4, <1>7, <2>1, <2>2, <2>3
  <1>. QED  BY <1>5, <1>6, <1>7

\* The stages of a recovery, one after another.
LEMMA RecoveryStages ==
    ASSUME ActivationAssumption, AuthorityInv, NEW r \in Recoveries, RecoveryActs(r)
    PROVE  pc[r] \in {"idle"} \cup {"relink", "unclaim", "claim"} \cup {"clean", "complete"}
                     \cup {"check", "unlock", "finish"}
  BY RecoverySteps1 DEF Busy, RecoverySteps

\* A recovery keeps each part of the invariant.
LEMMA FilesRecovery ==
    ASSUME ActivationAssumption, AuthorityInv, NEW r \in Recoveries, RecoveryActs(r)
    PROVE  FilesHold'
  <1>. AuthorityTypes /\ FilesHold
    BY DEF AuthorityInv
  <1>1. snapshot' = snapshot /\ crossed' = crossed
    BY RecoveryTypes
  <1>2. CASE files' = files
    <2>1. \A l \in {lock, claim} : l # None => Fits(l)'
      <3>1. ASSUME NEW l \in {lock, claim}, l # None
            PROVE  Fits(l)'
        BY <1>1, <1>2, <3>1, FitsKept DEF FilesHold
      <3>. QED  BY <3>1
    <2>2. Settled' = Settled
      BY <1>2 DEF Settled
    <2>3. lock' \in {lock, None, claim} /\ claim' \in {lock, None, claim}
      BY RecoveryTypes
    <2>4. lock' = None => Settled
      BY BeginCase, TakeOverCase, CleanCase, CompleteCase, ConcludeCase, RecoveryStages
         DEF FilesHold
    <2>5. claim' # None /\ lock' \notin {None, claim'} => crossed
      BY BeginCase, TakeOverCase, CleanCase, CompleteCase, ConcludeCase, RecoveryStages
         DEF FilesHold
    <2>. QED  BY <1>1, <2>1, <2>2, <2>3, <2>4, <2>5 DEF FilesHold
  <1>3. CASE files' # files
    <2>1. pc[r] = "complete"
      BY <1>3, RecoveryTypes
    <2>2. /\ UNCHANGED <<lock, claim>> /\ claim = lock /\ RecoveryHolds(r) /\ lock = found[r]
          /\ lock.intent = "activation" /\ First(lock.owner)
          /\ files' \in {Activated(lock.owner)} \cup Begun(lock.owner)
      BY <1>3, <2>1, CompleteCase DEF Begun
    <2>3. Prior(lock.owner) # "refused" /\ lock # None
      BY <2>2 DEF FilesHold, Fits, RecoveryHolds
    <2>4. ASSUME NEW l, l = lock
          PROVE  Fits(l)'
      <3>1. First(l.owner)' = First(l.owner) /\ Prior(l.owner)' = Prior(l.owner)
        BY <1>1 DEF First, Prior
      <3>2. First(l.owner)' /\ Prior(l.owner)' # "refused"
        BY <2>2, <2>3, <2>4, <3>1
      <3>3. files' \in {Activated(l.owner)'} \cup Begun(l.owner)'
        BY <1>1, <2>2, <2>4 DEF Begun, Rooted, Activating, Tombstoned, Pointed, Activated
      <3>4. l.intent = "activation"
        BY <2>2, <2>4
      <3>. QED  BY <3>2, <3>3, <3>4 DEF Fits
    <2>. QED  BY <2>2, <2>3, <2>4 DEF FilesHold
  <1>. QED  BY <1>2, <1>3

LEMMA OwnersRecovery ==
    ASSUME ActivationAssumption, AuthorityInv, NEW r \in Recoveries, RecoveryActs(r)
    PROVE  OwnersHold'
  <1>. AuthorityTypes /\ OwnersHold
    BY DEF AuthorityInv
  <1>1. snapshot' = snapshot /\ alive' = alive
    BY RecoveryTypes
  <1>2. PICK from \in RecoverySteps, to \in RecoverySteps : Step(r, from, to)
    BY RecoveryTypes
  <1>3. /\ \A x \in Owners : pc'[x] = pc[x]
        /\ \A q \in Incarnations \ {r} : pc'[q] = pc[q]
        /\ r \in alive
    BY <1>2, RecoveryMoves
  <1>4. \A p \in Incarnations \ alive' : pc'[p] = "done"
    BY <1>1, <1>3 DEF OwnersHold
  <1>5. \A x \in Owners : pc'[x] = "create" => Prior(x)' # "refused"
    BY <1>1, <1>3 DEF OwnersHold, Prior
  <1>6. \/ UNCHANGED <<lock, files, temp>> /\ claim' \in {claim, None}
        \/ /\ lock = None \/ lock.owner \notin alive
           /\ lock' = None \/ lock'.owner \notin alive
           /\ claim' = None \/ claim'.owner \notin alive
    BY BeginCase, TakeOverCase, CleanCase, CompleteCase, ConcludeCase, RecoveryStages
       DEF OwnersHold, RecoveryHolds
  <1>7. CASE UNCHANGED <<lock, files, temp>> /\ claim' \in {claim, None}
    <2>1. ASSUME NEW x \in Owners, pc'[x] \in Locked
          PROVE  OwnerHolds(x)'
      <3>1. OwnerHolds(x) /\ pc'[x] = pc[x]
        BY <1>3, <2>1 DEF OwnersHold
      <3>. QED
        BY <1>1, <1>7, <3>1 DEF OwnerHolds, AtStep, First, Prior, Rooted, Activating, Tombstoned,
                                Pointed, Settled
    <2>2. lock' # None => pc'[lock'.owner] \in Locked \cup {"done"}
      BY <1>3, <1>7 DEF OwnersHold, AuthorityTypes, Locks
    <2>. QED  BY <1>1, <1>4, <1>5, <1>7, <2>1, <2>2 DEF OwnersHold
  <1>8. CASE /\ lock = None \/ lock.owner \notin alive
             /\ lock' = None \/ lock'.owner \notin alive
             /\ claim' = None \/ claim'.owner \notin alive
    <2>1. \A x \in Owners : pc[x] \in Locked => x \in alive
      BY DEF OwnersHold, Incarnations, Locked, Bound, Writing
    <2>2. \A x \in Owners : pc'[x] \notin Locked
      BY <1>3, <1>8, <2>1 DEF OwnersHold, OwnerHolds
    <2>3. lock' # None => lock'.owner \in Owners
      <3>1. lock' \in Locks \cup {None}
        BY RecoveryTypes DEF AuthorityTypes
      <3>. QED  BY <3>1 DEF Locks
    <2>4. lock' # None => pc'[lock'.owner] = "done"
      BY <1>1, <1>4, <1>8, <2>3 DEF Incarnations
    <2>. QED  BY <1>1, <1>4, <1>5, <1>8, <2>2, <2>4 DEF OwnersHold
  <1>. QED  BY <1>6, <1>7, <1>8

LEMMA RecoveriesRecovery ==
    ASSUME ActivationAssumption, AuthorityInv, NEW r \in Recoveries, RecoveryActs(r)
    PROVE  RecoveriesHold'
  <1>. AuthorityTypes /\ RecoveriesHold /\ FilesHold
    BY DEF AuthorityInv
  <1>1. alive' = alive /\ crossed' = crossed
    BY RecoveryTypes
  <1>2. /\ \A q \in Recoveries \ {r} : pc'[q] \notin Busy
        /\ pc[r] \in Busy => RecoveryHolds(r)
    BY RecoverySteps1
  <1>3. Settled' = Settled \/ pc[r] = "complete"
    BY RecoveryTypes DEF Settled
  <1>4. ASSUME pc'[r] \in Busy
        PROVE  RecoveryHolds(r)'
    <2>1. CASE pc[r] = "idle"
      BY <1>1, <1>4, <2>1, BeginCase DEF RecoveryHolds, FilesHold, Busy
    <2>2. CASE pc[r] \in {"relink", "unclaim", "claim"}
      BY <1>1, <1>4, <2>2, TakeOverCase DEF RecoveryHolds, FilesHold, Busy
    <2>3. CASE pc[r] = "clean"
      BY <1>1, <1>4, <2>3, CleanCase DEF RecoveryHolds, Busy
    <2>4. CASE pc[r] = "complete"
      BY <1>1, <1>4, <2>4, CompleteCase DEF RecoveryHolds, Busy, Settled
    <2>5. CASE pc[r] \in {"check", "unlock", "finish"}
      BY <1>1, <1>3, <1>4, <2>5, ConcludeCase DEF RecoveryHolds, Busy
    <2>. QED  BY <2>1, <2>2, <2>3, <2>4, <2>5, RecoveryStages
  <1>. QED  BY <1>2, <1>4 DEF RecoveriesHold

LEMMA RetiredRecovery ==
    ASSUME ActivationAssumption, AuthorityInv, NEW r \in Recoveries, RecoveryActs(r)
    PROVE  RetiredHolds'
  <1>. AuthorityTypes /\ RetiredHolds
    BY DEF AuthorityInv
  <1>1. retired' = retired
    BY RecoveryTypes
  <1>2. \A x \in Owners : pc'[x] = pc[x]
    BY RecoveryTypes, RecoveryMoves
  <1>3. lock' \in {lock, None, claim} /\ claim' \in {lock, None, claim}
    BY RecoveryTypes
  <1>4. CASE files'.active = files.active /\ files'.root = files.root
    <2>1. \A x \in Owners : MayLand(x)' => MayLand(x)
      BY <1>2, <1>3, <1>4 DEF MayLand
    <2>. QED  BY <1>1, <1>4, <2>1 DEF RetiredHolds
  <1>5. CASE ~(files'.active = files.active /\ files'.root = files.root)
    <2>1. /\ pc[r] = "complete" /\ lock # None /\ UNCHANGED <<lock, claim>> /\ claim = lock
          /\ files'.root = files.root /\ files'.active = lock.owner /\ files.active = None
      BY <1>5, RecoveryTypes, CompleteCase DEF RecoveryHolds
    <2>2. lock.owner \in Owners /\ lock.owner # None
      BY <2>1 DEF ActivationAssumption, AuthorityTypes, Locks
    <2>3. MayLand(lock.owner)
      BY <2>1, <2>2 DEF MayLand
    <2>4. lock.owner \notin retired
      BY <2>2, <2>3 DEF RetiredHolds
    <2>5. pc[lock.owner] \notin Before
      <3>1. lock.owner \notin alive
        BY <2>1, CompleteCase DEF RecoveryHolds
      <3>. QED  BY <2>2, <3>1 DEF AuthorityInv, OwnersHold, Incarnations, Before
    <2>6. ASSUME NEW x \in Owners, MayLand(x)'
          PROVE  MayLand(x) /\ x # lock.owner
      BY <1>2, <2>1, <2>5, <2>6 DEF MayLand
    <2>. QED  BY <1>1, <2>1, <2>4, <2>6 DEF RetiredHolds
  <1>. QED  BY <1>4, <1>5

LEMMA RefusedRecovery ==
    ASSUME ActivationAssumption, AuthorityInv, NEW r \in Recoveries, RecoveryActs(r)
    PROVE  RefusedHolds'
  <1>. AuthorityTypes /\ RefusedHolds /\ FilesHold
    BY DEF AuthorityInv
  <1>1. crossed' = crossed
    BY RecoveryTypes
  <1>2. CASE pc[r] = "clean"
    BY <1>1, <1>2, CleanCase DEF RefusedHolds
  <1>3. CASE pc[r] # "clean"
    <2>1. temp' = temp
      BY <1>3, RecoveryTypes
    <2>2. refused' = refused \/ crossed
      BY <1>3, BeginCase, TakeOverCase, CompleteCase, ConcludeCase, RecoveryStages
         DEF FilesHold, RecoveryHolds
    <2>. QED  BY <1>1, <2>1, <2>2 DEF RefusedHolds
  <1>. QED  BY <1>2, <1>3

\* A death.
LEMMA CrashStep ==
    ASSUME ActivationAssumption, AuthorityInv, NEW p \in Incarnations, Crash(p)
    PROVE  FilesHold' /\ OwnersHold' /\ RecoveriesHold' /\ RetiredHolds' /\ RefusedHolds'
  <1>. AuthorityTypes /\ FilesHold /\ OwnersHold /\ RecoveriesHold /\ RetiredHolds /\ RefusedHolds
    BY DEF AuthorityInv
  <1>1. /\ alive' = alive \ {p} /\ DOMAIN pc' = Incarnations /\ pc'[p] = "done"
        /\ \A q \in Incarnations \ {p} : pc'[q] = pc[q]
        /\ UNCHANGED <<lock, claim, files, snapshot, found, retired, refused, crossed>>
        /\ \A o \in Owners : pc'[o] \in {pc[o], "done"}
        /\ \A r \in Recoveries : pc'[r] \in {pc[r], "done"}
    BY CrashTypes
  <1>2. Owners \subseteq Incarnations /\ Recoveries \subseteq Incarnations
    BY DEF Incarnations
  <1>3. \/ temp' = temp
        \/ temp = "none" /\ p \in Recoveries /\ lock = found[p] /\ RecoveryHolds(p)
        \/ temp = "none" /\ p \in Owners /\ lock # None /\ lock.owner = p
    <2>1. CASE p \in Owners /\ pc[p] \in Writing
      <3>1. pc[p] \in Locked /\ pc[p] \in Bound \ {"release"}
        BY <2>1 DEF Locked, Bound, Writing
      <3>. QED  BY <2>1, <3>1 DEF OwnersHold, OwnerHolds
    <2>2. CASE p \notin Owners /\ pc[p] = "complete"
      <3>1. p \in Recoveries /\ pc[p] \in Busy
        BY <2>2 DEF Incarnations, Busy, RecoverySteps
      <3>. QED  BY <2>2, <3>1 DEF RecoveriesHold, RecoveryHolds
    <2>3. CASE ~(p \in Owners /\ pc[p] \in Writing) /\ ~(p \notin Owners /\ pc[p] = "complete")
      <3>1. temp' = temp
        BY <2>3 DEF Crash, Writing, Replacing
      <3>. QED  BY <3>1
    <2>. QED  BY <2>1, <2>2, <2>3
  <1>4. FilesHold'
    <2>1. ASSUME NEW l \in {lock, claim}, l # None
          PROVE  Fits(l)'
      BY <1>1, <2>1, FitsKept DEF FilesHold
    <2>2. Settled' = Settled
      BY <1>1 DEF Settled
    <2>. QED  BY <1>1, <2>1, <2>2 DEF FilesHold
  <1>5. OwnersHold'
    <2>0. "done" \notin Locked \cup {"create"}
      BY DEF Locked, Bound, Writing
    <2>1. ASSUME NEW x \in Owners, pc'[x] \in Locked
          PROVE  OwnerHolds(x)'
      <3>1. x # p /\ OwnerHolds(x) /\ pc'[x] = pc[x] /\ pc[x] \in Locked
        BY <1>1, <1>2, <2>0, <2>1 DEF OwnersHold
      <3>2. x \in alive
        BY <1>2, <2>0, <3>1 DEF OwnersHold
      <3>3. temp' = temp
        BY <1>3, <3>1, <3>2 DEF OwnerHolds, RecoveryHolds
      <3>. QED
        BY <1>1, <3>1, <3>3 DEF OwnerHolds, AtStep, First, Prior, Rooted, Activating, Tombstoned,
                                Pointed, Settled
    <2>2. \A x \in Owners : pc'[x] = "create" => Prior(x)' # "refused"
      BY <1>1, <2>0 DEF OwnersHold, Prior
    <2>3. \A q \in Incarnations \ alive' : pc'[q] = "done"
      BY <1>1 DEF OwnersHold
    <2>4. lock' # None => pc'[lock'.owner] \in Locked \cup {"done"}
      BY <1>1 DEF OwnersHold, AuthorityTypes, Locks
    <2>. QED  BY <1>1, <2>1, <2>2, <2>3, <2>4 DEF OwnersHold
  <1>6. RecoveriesHold'
    <2>0. "done" \notin Busy
      BY DEF Busy
    <2>1. ASSUME NEW r \in Recoveries, pc'[r] \in Busy
          PROVE  RecoveryHolds(r)'
      <3>1. r # p /\ RecoveryHolds(r) /\ pc'[r] = pc[r] /\ pc[r] \in Busy
        BY <1>1, <1>2, <2>0, <2>1 DEF RecoveriesHold
      <3>2. pc[r] = "complete" => temp' = temp
        <4>1. p \in Recoveries => pc[p] \notin Busy
          BY <3>1 DEF RecoveriesHold
        <4>2. p \in alive
          BY DEF Crash, UnderWay
        <4>3. CASE temp' = temp
          BY <4>3
        <4>4. CASE p \in Recoveries /\ temp' # temp
          <5>1. pc[p] \notin {"complete"} \cup Busy
            BY <4>1, <4>4 DEF Busy, RecoverySteps
          <5>. QED  BY <4>4, <5>1 DEF ActivationAssumption, Crash
        <4>5. CASE p \in Owners /\ lock # None /\ lock.owner = p
          BY <3>1, <4>2, <4>5 DEF RecoveryHolds
        <4>. QED  BY <1>3, <4>3, <4>4, <4>5
      <3>. QED  BY <1>1, <3>1, <3>2 DEF RecoveryHolds, Settled
    <2>2. \A q, r \in Recoveries : pc'[q] \in Busy /\ pc'[r] \in Busy => q = r
      BY <1>1, <2>0 DEF RecoveriesHold
    <2>. QED  BY <2>1, <2>2 DEF RecoveriesHold
  <1>7. RetiredHolds'
    <2>1. \A x \in Owners : MayLand(x)' => MayLand(x)
      BY <1>1 DEF MayLand, Before
    <2>. QED  BY <1>1, <2>1 DEF RetiredHolds
  <1>8. RefusedHolds'
    BY <1>1, <1>3 DEF RefusedHolds
  <1>. QED  BY <1>4, <1>5, <1>6, <1>7, <1>8

-------------------------------------------------------------------------------
\* The invariant holds at first, and every step of a process keeps it.
LEMMA AuthorityInit == ASSUME ActivationAssumption PROVE Init => AuthorityInv
<1>. SUFFICES ASSUME Init PROVE AuthorityInv
  OBVIOUS
<1>1. /\ lock = None /\ claim = None /\ temp = "none" /\ alive = Incarnations
      /\ pc = [p \in Incarnations |-> "idle"] /\ snapshot = [o \in Owners |-> NoFiles]
      /\ found = [r \in Recoveries |-> None]
      /\ retired = {} /\ refused = FALSE /\ crossed = FALSE
  BY DEF Init
<1>2. Owners \subseteq Incarnations /\ Recoveries \subseteq Incarnations
  BY DEF Incarnations
<1>3. PICK legacy \in {"none", "legacy"} : files = [NoFiles EXCEPT !.legacy = legacy]
  BY DEF Init
<1>4. /\ files \in FileStates /\ NoFiles \in FileStates /\ files.active = None
      /\ View(files) = legacy
  BY <1>3 DEF ActivationAssumption, NoFiles, FileStates, View
<1>5. AuthorityTypes
  BY <1>1, <1>2, <1>4 DEF AuthorityTypes, OwnerSteps, RecoverySteps
<1>6. FilesHold
  BY <1>1, <1>3, <1>4 DEF FilesHold, Settled
<1>7. OwnersHold
  BY <1>1, <1>2 DEF OwnersHold, Locked, Bound, Writing
<1>8. RecoveriesHold
  BY <1>1, <1>2 DEF RecoveriesHold, Busy
<1>9. RetiredHolds
  BY <1>1, <1>4 DEF ActivationAssumption, RetiredHolds
<1>10. RefusedHolds
  BY <1>1, Zenon DEF RefusedHolds
<1>. QED  BY <1>5, <1>6, <1>7, <1>8, <1>9, <1>10 DEF AuthorityInv

LEMMA AuthorityStep ==
    ASSUME ActivationAssumption
    PROVE  AuthorityInv /\ [Next]_vars => AuthorityInv'
<1>. SUFFICES ASSUME AuthorityInv, [Next]_vars PROVE AuthorityInv'
  OBVIOUS
<1>1. ASSUME NEW o \in Owners, OwnerActs(o)
      PROVE  AuthorityInv'
  <2>1. AuthorityTypes'
    BY <1>1, AuthorityTypeStep DEF Next, OwnerActs
  <2>2. FilesHold'
    <3>1. CASE files' = files
      BY <1>1, <3>1, FilesOwner
    <3>2. CASE files' # files
      <4>1. Activate(o) \/ RecordBlocked(o)
        BY <1>1, <3>2 DEF OwnerActs, Preflight, BindIntent, Finalize, Release, RemoveLock, Fail
      <4>. QED  BY <3>2, <4>1, FilesPublished
    <3>. QED  BY <3>1, <3>2
  <2>3. OwnersHold'
    BY <1>1, OwnersPreflight, OwnersBind, OwnersPublish, OwnersEnd DEF OwnerActs
  <2>. QED
    BY <1>1, <2>1, <2>2, <2>3, RecoveriesOwner, RetiredOwner, RefusedOwner DEF AuthorityInv
<1>2. ASSUME NEW r \in Recoveries, RecoveryActs(r)
      PROVE  AuthorityInv'
  <2>1. AuthorityTypes'
    BY <1>2, AuthorityTypeStep DEF Next, RecoveryActs
  <2>. QED
    BY <1>2, <2>1, FilesRecovery, OwnersRecovery, RecoveriesRecovery, RetiredRecovery,
       RefusedRecovery DEF AuthorityInv
<1>3. ASSUME NEW p \in Incarnations, Crash(p)
      PROVE  AuthorityInv'
  <2>1. AuthorityTypes'
    BY <1>3, AuthorityTypeStep DEF Next
  <2>. QED  BY <1>3, <2>1, CrashStep DEF AuthorityInv
<1>4. CASE UNCHANGED vars
  <2>. /\ AuthorityTypes /\ FilesHold /\ OwnersHold /\ RecoveriesHold /\ RetiredHolds /\ RefusedHolds
    BY DEF AuthorityInv
  <2>1. /\ UNCHANGED <<lock, claim, files, temp, pc, alive, snapshot, found, retired, refused>>
        /\ crossed' = crossed
    BY <1>4 DEF vars, guards, history
  <2>2. AuthorityTypes'
    BY <2>1 DEF AuthorityTypes
  <2>3. FilesHold'
    <3>1. ASSUME NEW l \in {lock, claim}, l # None
          PROVE  Fits(l)'
      BY <2>1, <3>1, FitsKept DEF FilesHold
    <3>2. Settled' = Settled
      BY <2>1 DEF Settled
    <3>. QED  BY <2>1, <3>1, <3>2 DEF FilesHold
  <2>4. OwnersHold'
    BY <2>1 DEF OwnersHold, OwnerHolds, AtStep, First, Prior, Rooted, Activating, Tombstoned,
                Pointed, Settled
  <2>5. RecoveriesHold'
    BY <2>1 DEF RecoveriesHold, RecoveryHolds, Settled
  <2>6. RetiredHolds'
    BY <2>1 DEF RetiredHolds, MayLand
  <2>7. RefusedHolds'
    BY <2>1 DEF RefusedHolds
  <2>. QED  BY <2>2, <2>3, <2>4, <2>5, <2>6, <2>7 DEF AuthorityInv
<1>. QED  BY <1>1, <1>2, <1>3, <1>4 DEF Next, OwnerActs, RecoveryActs

\* A reader of a directory without guards gets an authority, no reader gets one that was
\* replaced, and recovery refuses nothing but what the property lists.
THEOREM TransitionsAlwaysComplete ==
    ASSUME ActivationAssumption
    PROVE  Spec => []TransitionsComplete
<1>1. AuthorityInv => TransitionsComplete
  <2>. SUFFICES ASSUME AuthorityInv PROVE TransitionsComplete
    OBVIOUS
  <2>. AuthorityTypes /\ FilesHold /\ RetiredHolds /\ RefusedHolds
    BY DEF AuthorityInv
  <2>1. lock = None => View(files) # "refused"
    BY DEF FilesHold, Settled
  <2>2. View(files) \notin retired
    <3>1. files \in FileStates /\ retired \subseteq Owners \cup {"none", "legacy"}
      BY DEF AuthorityTypes
    <3>2. CASE View(files) \in {"none", "legacy"}
      <4>1. files.root = None
        BY <3>1, <3>2 DEF ActivationAssumption, View, FileStates
      <4>. QED  BY <3>2, <4>1 DEF RetiredHolds
    <3>3. CASE View(files) \in Owners
      <4>1. View(files) = files.active
        BY <3>1, <3>3 DEF ActivationAssumption, View, FileStates
      <4>. QED  BY <4>1 DEF RetiredHolds
    <3>4. CASE View(files) = "refused"
      BY <3>1, <3>4 DEF ActivationAssumption
    <3>. QED  BY <3>1, <3>2, <3>3, <3>4, Views
  <2>3. refused => temp = "torn" \/ crossed
    BY DEF RefusedHolds
  <2>. QED  BY <2>1, <2>2, <2>3 DEF TransitionsComplete
<1>2. Init => AuthorityInv
  BY AuthorityInit
<1>3. AuthorityInv /\ [Next]_vars => AuthorityInv'
  BY AuthorityStep
<1>. QED  BY <1>1, <1>2, <1>3, PTL DEF Spec
=================================================================================
