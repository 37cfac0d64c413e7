------------------------------ MODULE PartsProofs ------------------------------
(***************************************************************************)
(* The vault lease excludes a second writer, for any processes and hosts,  *)
(* unless two takeovers of a stale lease overlap.  What the Graphiti       *)
(* ledger publishes is whole and what it purged stays absent, for any      *)
(* jobs, scopes, workers and number of episodes.  And the properties of    *)
(* the parts that MCParts composes are theorems of the composition.        *)
(***************************************************************************)
EXTENDS MCParts, TLAPS

-------------------------------------------------------------------------------
(* The vault lease *)

\* A process that has the handle, or has yet to remove its file, owns the file.
OwnsFile(p) ==
    /\ lease # NoLease
    /\ lease.owner = p
    /\ pc[p] # "remove" => lease.id = held[p]

\* A process that takes over has read the file that is still there, and it is a
\* dead process's.
TakesDeadLease(p) ==
    /\ lease # NoLease
    /\ lease.owner \notin alive
    /\ lease.id = seen[p]

\* What keeps the lease exclusive while takeovers do not overlap.
Exclusion ==
    /\ \A p \in Processes :
           /\ p \notin alive => held[p] = 0 /\ pc[p] = "idle"
           /\ held[p] # 0 => pc[p] \in {"idle", "write"}
    /\ ~overlap =>
        /\ \A p \in Processes : held[p] # 0 \/ pc[p] = "remove" => OwnsFile(p)
        /\ \A p \in Processes : pc[p] = "move" => TakesDeadLease(p)
        /\ \A p, q \in Processes : pc[p] = "move" /\ pc[q] = "move" => p = q

\* The inductive invariant.
LeaseInv == TypeOK /\ Exclusion

\* Another turn of the acquisition loop.
LEMMA RetryTyped ==
    ASSUME TypeOK, NEW p \in Processes, attempt[p] < Tries, Retry(p)
    PROVE  /\ attempt' \in [Processes -> 0 .. Tries]
           /\ \/ pc' = [pc EXCEPT ![p] = "create"] /\ attempt'[p] < Tries
              \/ pc' = [pc EXCEPT ![p] = "idle"]
           /\ \A q \in Processes \ {p} : attempt'[q] = attempt[q]
  <1>1. attempt' = [attempt EXCEPT ![p] = attempt[p] + 1] /\ attempt[p] + 1 \in 0 .. Tries
    BY DEF TypeOK, Tries, Retry
  <1>. QED
    BY <1>1 DEF TypeOK, Retry, Goto

\* A lease that has just been created.
LEMMA CreatedTyped ==
    ASSUME TypeOK, NEW p \in Processes, Create(p), lease = NoLease
    PROVE  /\ created' \in LeaseIds /\ created' \in 0 .. MaxLeases
           /\ lease' \in Lease /\ lease' # NoLease
           /\ lease'.owner = p /\ lease'.id = created'
  <1>1. /\ created < MaxLeases /\ created' = created + 1
        /\ lease' = [owner |-> p, id |-> created', written |-> FALSE]
    BY DEF Create
  <1>2. created' \in LeaseIds /\ created' \in 0 .. MaxLeases
    BY <1>1, LeaseAssumption DEF TypeOK, LeaseIds
  <1>3. lease' \in Lease
    BY <1>1, <1>2 DEF Lease
  <1>. QED
    BY <1>1, <1>2, <1>3, LeaseAssumption DEF Lease, LeaseIds

LEMMA TypeStep == TypeOK /\ [Next]_vars => TypeOK'
<1>. SUFFICES ASSUME TypeOK, [Next]_vars PROVE TypeOK'
  OBVIOUS
<1>1. CASE UNCHANGED vars
  BY <1>1 DEF vars, TypeOK
<1>2. ASSUME NEW p \in Processes, Acquire(p) PROVE TypeOK'
  BY <1>2 DEF Acquire, TypeOK, Tries, Goto
<1>3. ASSUME NEW p \in Processes, Create(p) PROVE TypeOK'
  <2>1. CASE lease = NoLease
    <3>1. created' \in LeaseIds /\ created' \in 0 .. MaxLeases /\ lease' \in Lease
      BY <1>3, <2>1, CreatedTyped
    <3>2. held' \in [Processes -> 0 .. MaxLeases]
      BY <1>3, <2>1, <3>1 DEF Create, TypeOK
    <3>3. pc' = [pc EXCEPT ![p] = "write"]
      BY <1>3, <2>1 DEF Create, Goto
    <3>4. UNCHANGED <<quarantine, cleaned, alive, attempt, seen, overlap>>
      BY <1>3 DEF Create
    <3>. QED
      BY <3>1, <3>2, <3>3, <3>4 DEF TypeOK
  <2>2. CASE lease # NoLease
    BY <1>3, <2>2 DEF Create, TypeOK, At, Goto
  <2>. QED
    BY <2>1, <2>2
<1>4. ASSUME NEW p \in Processes, WriteLease(p) PROVE TypeOK'
  <2>1. lease' \in Lease \cup {NoLease}
    BY <1>4 DEF WriteLease, TypeOK, Lease
  <2>. QED
    BY <1>4, <2>1 DEF WriteLease, TypeOK, Goto
<1>5. ASSUME NEW p \in Processes, ReadPrior(p) PROVE TypeOK'
  <2>1. CASE /\ lease # NoLease
             /\ seen' = [seen EXCEPT ![p] = lease.id]
             /\ overlap' = (overlap \/ \E q \in alive \ {p} : pc[q] = "move")
             /\ Goto(p, "move")
    <3>1. lease.id \in LeaseIds /\ lease.id \in 0 .. MaxLeases
      BY <2>1 DEF TypeOK, Lease, LeaseIds
    <3>. QED
      BY <1>5, <2>1, <3>1 DEF ReadPrior, TypeOK, At, Goto
  <2>2. CASE Goto(p, "idle") /\ UNCHANGED <<seen, overlap>>
    BY <1>5, <2>2 DEF ReadPrior, TypeOK, Goto
  <2>. QED
    BY <1>5, <2>1, <2>2 DEF ReadPrior
<1>6. ASSUME NEW p \in Processes, Quarantine(p) PROVE TypeOK'
  <2>1. CASE lease = NoLease
    BY <1>6, <2>1, RetryTyped DEF Quarantine, TypeOK, At
  <2>2. CASE lease # NoLease
    <3>1. lease.id \in 0 .. MaxLeases
      BY <2>2 DEF TypeOK, Lease, LeaseIds
    <3>. QED
      BY <1>6, <2>2, <3>1 DEF Quarantine, TypeOK, At, Goto
  <2>. QED
    BY <2>1, <2>2
<1>7. ASSUME NEW p \in Processes, WriteCleanupReceipt(p) PROVE TypeOK'
  BY <1>7, RetryTyped DEF WriteCleanupReceipt, TypeOK, At
<1>8. ASSUME NEW p \in Processes, Release(p) PROVE TypeOK'
  BY <1>8, LeaseAssumption DEF Release, TypeOK, Goto
<1>9. ASSUME NEW p \in Processes, RemoveLease(p) PROVE TypeOK'
  BY <1>9 DEF RemoveLease, TypeOK, Goto
<1>10. ASSUME NEW p \in Processes, Crash(p) PROVE TypeOK'
  BY <1>10, LeaseAssumption DEF Crash, TypeOK, Goto
<1>. QED
  BY <1>1, <1>2, <1>3, <1>4, <1>5, <1>6, <1>7, <1>8, <1>9, <1>10 DEF Next

LEMMA ExclusionStep == LeaseInv /\ [Next]_vars => Exclusion'
<1>. SUFFICES ASSUME TypeOK, Exclusion, [Next]_vars PROVE Exclusion'
  BY DEF LeaseInv
<1>. USE DEF Exclusion, OwnsFile, TakesDeadLease
<1>t. /\ pc \in [Processes -> {"idle", "create", "write", "read", "move", "receipt", "remove"}]
      /\ held \in [Processes -> 0 .. MaxLeases]
      /\ seen \in [Processes -> 0 .. MaxLeases]
      /\ lease # NoLease => lease \in Lease
      /\ created \in 0 .. MaxLeases
      /\ overlap \in BOOLEAN
  BY DEF TypeOK
<1>1. CASE UNCHANGED vars
  BY <1>1 DEF vars
<1>2. ASSUME NEW p \in Processes, Acquire(p) PROVE Exclusion'
  BY <1>2, <1>t DEF Acquire, At, Goto
<1>3. ASSUME NEW p \in Processes, Create(p) PROVE Exclusion'
  <2>1. CASE lease = NoLease
    <3>1. /\ created' # 0 /\ created' \in 0 .. MaxLeases
          /\ lease' # NoLease /\ lease'.owner = p /\ lease'.id = created'
      BY <1>3, <2>1, CreatedTyped DEF LeaseIds
    <3>2. /\ held' = [held EXCEPT ![p] = created'] /\ pc' = [pc EXCEPT ![p] = "write"]
          /\ p \in alive /\ UNCHANGED <<alive, seen, overlap>>
      BY <1>3, <2>1 DEF Create, At, Goto
    <3>3. ~overlap => \A q \in Processes : pc[q] # "move" /\ pc[q] # "remove" /\ held[q] = 0
      BY <2>1
    <3>. QED
      BY <3>1, <3>2, <3>3, <1>t
  <2>2. CASE lease # NoLease
    BY <1>3, <2>2, <1>t DEF Create, At, Goto
  <2>. QED
    BY <2>1, <2>2
<1>4. ASSUME NEW p \in Processes, WriteLease(p) PROVE Exclusion'
  <2>1. /\ lease' = NoLease <=> lease = NoLease
        /\ lease' # NoLease => lease'.owner = lease.owner /\ lease'.id = lease.id
    <3>1. CASE UNCHANGED lease
      BY <3>1
    <3>2. CASE lease # NoLease /\ lease' = [lease EXCEPT !.written = TRUE]
      <4>1. lease' \in Lease /\ lease'.owner = lease.owner /\ lease'.id = lease.id
        BY <3>2, <1>t DEF Lease
      <4>. QED
        BY <3>2, <4>1, LeaseAssumption DEF Lease, LeaseIds
    <3>. QED
      BY <1>4, <3>1, <3>2 DEF WriteLease
  <2>2. /\ p \in alive /\ pc[p] = "write" /\ pc' = [pc EXCEPT ![p] = "idle"]
        /\ UNCHANGED <<alive, held, seen, overlap>>
    BY <1>4 DEF WriteLease, At, Goto
  <2>. QED
    BY <2>1, <2>2, <1>t
<1>5. ASSUME NEW p \in Processes, ReadPrior(p) PROVE Exclusion'
  <2>1. p \in alive /\ pc[p] = "read" /\ UNCHANGED <<lease, alive, held>>
    BY <1>5 DEF ReadPrior, At
  <2>2. CASE /\ lease # NoLease /\ lease.owner \notin alive
             /\ seen' = [seen EXCEPT ![p] = lease.id]
             /\ overlap' = (overlap \/ \E q \in alive \ {p} : pc[q] = "move")
             /\ pc' = [pc EXCEPT ![p] = "move"]
    BY <2>1, <2>2, <1>t
  <2>3. CASE pc' = [pc EXCEPT ![p] = "idle"] /\ UNCHANGED <<seen, overlap>>
    BY <2>1, <2>3, <1>t
  <2>. QED
    BY <1>5, <2>2, <2>3 DEF ReadPrior, KnownDead, Goto
<1>6. ASSUME NEW p \in Processes, Quarantine(p) PROVE Exclusion'
  <2>1. p \in alive /\ pc[p] = "move" /\ UNCHANGED <<alive, held, seen, overlap>>
    BY <1>6 DEF Quarantine, At
  <2>2. lease = NoLease => overlap
    BY <2>1
  <2>3. CASE overlap
    BY <2>1, <2>3, <1>6, <1>t DEF Quarantine, Retry, Goto
  <2>4. CASE ~overlap
    <3>1. lease' = NoLease /\ pc' = [pc EXCEPT ![p] = "receipt"]
      BY <1>6, <2>2, <2>4 DEF Quarantine, Goto
    <3>2. \A q \in Processes : held[q] = 0 /\ pc[q] # "remove"
      BY <2>1, <2>4
    <3>. QED
      BY <2>1, <2>4, <3>1, <3>2, <1>t
  <2>. QED
    BY <2>3, <2>4, <1>t
<1>7. ASSUME NEW p \in Processes, WriteCleanupReceipt(p) PROVE Exclusion'
  <2>1. p \in alive /\ pc[p] = "receipt" /\ UNCHANGED <<lease, alive, held, seen, overlap>>
    BY <1>7 DEF WriteCleanupReceipt, At
  <2>2. pc' = [pc EXCEPT ![p] = "create"] \/ pc' = [pc EXCEPT ![p] = "idle"]
    BY <1>7 DEF WriteCleanupReceipt, Retry, Goto
  <2>. QED
    BY <2>1, <2>2, <1>t
<1>8. ASSUME NEW p \in Processes, Release(p) PROVE Exclusion'
  BY <1>8, <1>t DEF Release, At, Goto
<1>9. ASSUME NEW p \in Processes, RemoveLease(p) PROVE Exclusion'
  BY <1>9, <1>t DEF RemoveLease, At, Goto
<1>10. ASSUME NEW p \in Processes, Crash(p) PROVE Exclusion'
  BY <1>10, <1>t DEF Crash, Goto
<1>. QED
  BY <1>1, <1>2, <1>3, <1>4, <1>5, <1>6, <1>7, <1>8, <1>9, <1>10 DEF Next

LEMMA LeaseInvariant == Spec => []LeaseInv
<1>1. Init => LeaseInv
  <2>. SUFFICES ASSUME Init PROVE TypeOK /\ Exclusion
    BY DEF LeaseInv
  <2>1. TypeOK
    <3>1. 0 \in 0 .. MaxLeases /\ 0 \in 0 .. Tries /\ 0 < Tries
      BY LeaseAssumption DEF Tries
    <3>. QED
      BY <3>1 DEF Init, TypeOK
  <2>2. Exclusion
    BY DEF Init, Exclusion
  <2>. QED
    BY <2>1, <2>2
<1>2. LeaseInv /\ [Next]_vars => LeaseInv'
  BY TypeStep, ExclusionStep DEF LeaseInv
<1>. QED
  BY <1>1, <1>2, PTL DEF Spec

\* The lease file, the handles and the bookkeeping of every takeover keep their
\* types, and the acquisition loop its bound.
THEOREM LeaseTypeCorrect == Spec => []TypeOK
BY LeaseInvariant, PTL DEF LeaseInv

\* At most one process holds the lease while no two takeovers overlapped.
THEOREM LeaseExclusive == Spec => []ExclusiveUnlessTakeoversOverlap
<1>1. LeaseInv => ExclusiveUnlessTakeoversOverlap
  BY DEF LeaseInv, Exclusion, OwnsFile, ExclusiveUnlessTakeoversOverlap, Holds
<1>. QED
  BY <1>1, LeaseInvariant, PTL

\* The name of a quarantined lease: what the receipt of a takeover points at.
THEOREM QuarantineFaithful == Spec => []QuarantineNamesItsLease
<1>. DEFINE Filed == ~overlap => \A p \in Processes : pc[p] = "receipt" => quarantine[seen[p]] = seen[p]
            FiledInv == QuarantineNamesItsLease /\ Filed
<1>1. Init => FiledInv
  BY LeaseAssumption DEF Init, QuarantineNamesItsLease
<1>2. LeaseInv /\ FiledInv /\ [Next]_vars => FiledInv'
  <2>. SUFFICES ASSUME LeaseInv, FiledInv, [Next]_vars PROVE FiledInv'
    OBVIOUS
  <2>t. /\ pc \in [Processes -> {"idle", "create", "write", "read", "move", "receipt", "remove"}]
        /\ quarantine \in [LeaseIds -> 0 .. MaxLeases]
        /\ cleaned \in SUBSET LeaseIds
        /\ seen \in [Processes -> 0 .. MaxLeases]
        /\ \A p \in Processes : pc[p] \in {"move", "receipt"} => seen[p] \in LeaseIds
    BY DEF LeaseInv, TypeOK
  <2>. USE DEF QuarantineNamesItsLease
  <2>1. CASE UNCHANGED vars
    BY <2>1 DEF vars
  <2>2. ASSUME NEW p \in Processes,
               Acquire(p) \/ Create(p) \/ WriteLease(p) \/ Release(p) \/ RemoveLease(p) \/ Crash(p)
        PROVE  FiledInv'
    <3>1. /\ UNCHANGED <<quarantine, cleaned, seen, overlap>>
          /\ \E to \in {"idle", "create", "write", "read", "remove"} : pc' = [pc EXCEPT ![p] = to]
      BY <2>2 DEF Acquire, Create, WriteLease, Release, RemoveLease, Crash, Goto
    <3>. QED
      BY <3>1, <2>t
  <2>3. ASSUME NEW p \in Processes, ReadPrior(p) PROVE FiledInv'
    <3>0. ~overlap' => ~overlap
      BY <2>3 DEF ReadPrior
    <3>1. /\ UNCHANGED <<quarantine, cleaned>>
          /\ pc' = [pc EXCEPT ![p] = "move"] \/ pc' = [pc EXCEPT ![p] = "idle"]
          /\ \A q \in Processes \ {p} : seen'[q] = seen[q]
      BY <2>3, <2>t DEF ReadPrior, Goto
    <3>. QED
      BY <3>0, <3>1, <2>t
  <2>4. ASSUME NEW p \in Processes, Quarantine(p) PROVE FiledInv'
    <3>1. pc[p] = "move" /\ UNCHANGED <<cleaned, seen, overlap>>
      BY <2>4 DEF Quarantine, At
    <3>2. CASE overlap
      BY <3>1, <3>2
    <3>3. CASE ~overlap
      <4>1. lease # NoLease /\ lease.id = seen[p]
        BY <3>1, <3>3 DEF LeaseInv, Exclusion, TakesDeadLease
      <4>2. quarantine' = [quarantine EXCEPT ![seen[p]] = seen[p]]
            /\ pc' = [pc EXCEPT ![p] = "receipt"]
        BY <2>4, <4>1 DEF Quarantine, Goto
      <4>. QED
        BY <3>1, <3>3, <4>2, <2>t
    <3>. QED
      BY <3>2, <3>3
  <2>5. ASSUME NEW p \in Processes, WriteCleanupReceipt(p) PROVE FiledInv'
    <3>1. /\ pc[p] = "receipt" /\ cleaned' = cleaned \cup {seen[p]}
          /\ UNCHANGED <<quarantine, seen, overlap>>
          /\ pc' = [pc EXCEPT ![p] = "create"] \/ pc' = [pc EXCEPT ![p] = "idle"]
      BY <2>5 DEF WriteCleanupReceipt, At, Retry, Goto
    <3>. QED
      BY <3>1, <2>t
  <2>. QED
    BY <2>1, <2>2, <2>3, <2>4, <2>5 DEF Next
<1>. QED
  BY <1>1, <1>2, LeaseInvariant, PTL DEF Spec

-------------------------------------------------------------------------------
(* The Graphiti ledger *)

WorkerSteps == {"idle", "claim", "initialize", "add", "adding", "added", "matching"}
Filling == {"initialize", "add", "adding", "added", "matching"}
Calls == LedgerJobs \X (1 .. Episodes)

\* The variables have their types.
LedgerTypes ==
  /\ state \in [LedgerJobs -> Ledger!States] /\ fenced \subseteq LedgerJobs
  /\ token \in [LedgerJobs -> Workers \cup {NoWorker}] /\ expired \in [LedgerJobs -> BOOLEAN]
  /\ current \in [Ledger!Scopes -> LedgerJobs \cup {NoLedgerJob}]
  /\ graph \in [LedgerJobs -> SUBSET (1 .. Episodes)]
  /\ workerStep \in [Workers -> WorkerSteps]
  /\ work \in [Workers -> LedgerJobs \cup {NoLedgerJob}]
  /\ mapped \in [Workers -> 0 .. Episodes]
  /\ late \in [Workers -> SUBSET Calls] /\ claimed \in [Workers -> SUBSET LedgerJobs]
  /\ purge \in [step : {"idle", "delete", "verify", "mark"}, job : LedgerJobs \cup {NoLedgerJob}]

\* What a worker has in hand: a job its process has claimed, whose graph holds the
\* episodes it has verified, with one more under way at most.
InHand(w) ==
  /\ workerStep[w] # "idle" => work[w] \in LedgerJobs
  /\ workerStep[w] \in Filling => work[w] \in claimed[w]
                                   /\ 1 .. mapped[w] \subseteq graph[work[w]]
  /\ workerStep[w] \in {"idle", "claim"} => mapped[w] = 0
  /\ workerStep[w] \in {"adding", "added", "matching"} => mapped[w] < Episodes
  /\ \A call \in late[w] : call[1] \in claimed[w]

\* What a row implies about the graph and about the processes that may write to it.
RowHolds(j) ==
  /\ state[j] \notin Ledger!Fenced => j \notin fenced
  /\ state[j] \in {"none", "queued"} => Ledger!WriterStopped(j)
  /\ state[j] \in {"observed", "published"} => graph[j] = 1 .. Episodes
  /\ state[j] = "purged" => graph[j] = {} /\ Ledger!WriterStopped(j)

OnePublished ==
  \A j, k \in LedgerJobs :
    state[j] = "published" /\ state[k] = "published" /\ j # k => ScopeOf[j] # ScopeOf[k]

\* A purge under way is of a job that nobody writes and that stays unreadable.
PurgeHolds ==
  purge.step # "idle" =>
    /\ purge.job \in LedgerJobs /\ state[purge.job] \in {"quarantined", "revoked"}
    /\ Ledger!WriterStopped(purge.job)
    /\ purge.step = "mark" => graph[purge.job] = {}

\* The inductive invariant.
LedgerInv ==
  /\ LedgerTypes
  /\ \A w \in Workers : InHand(w)
  /\ \A j \in LedgerJobs : RowHolds(j)
  /\ OnePublished
  /\ PurgeHolds

\* A worker that is done with its job.
LEMMA IdleTyped ==
    ASSUME LedgerTypes, NEW w \in Workers, Ledger!Idle(w)
    PROVE  /\ workerStep' \in [Workers -> WorkerSteps]
           /\ work' \in [Workers -> LedgerJobs \cup {NoLedgerJob}]
           /\ mapped' \in [Workers -> 0 .. Episodes]
  BY PartsAssumption
     DEF Ledger!LedgerAssumption, LedgerTypes, Ledger!Idle, Ledger!Goto, WorkerSteps

LEMMA LedgerTypeStep == LedgerInv /\ [Ledger!Next]_Ledger!vars => LedgerTypes'
<1>. SUFFICES ASSUME LedgerTypes, \A w \in Workers : InHand(w), [Ledger!Next]_Ledger!vars
     PROVE  LedgerTypes'
  BY DEF LedgerInv
<1>. USE DEF LedgerTypes
<1>1. ASSUME NEW w \in Workers, NEW s \in Ledger!Scopes, Ledger!Enqueue(w, s) PROVE LedgerTypes'
  BY <1>1 DEF Ledger!Enqueue, Ledger!Goto, Ledger!Enter, Ledger!States, WorkerSteps
<1>2. ASSUME NEW w \in Workers, Ledger!Claim(w) PROVE LedgerTypes'
  <2>1. work[w] \in LedgerJobs /\ w \in Workers
    BY <1>2 DEF Ledger!Claim, InHand
  <2>2. CASE state[work[w]] = "queued"
    <3>1. /\ state' = [state EXCEPT ![work[w]] = "running"] /\ fenced' \subseteq LedgerJobs
          /\ workerStep' = [workerStep EXCEPT ![w] = "initialize"]
          /\ expired' = [expired EXCEPT ![work[w]] = FALSE]
          /\ token' = [token EXCEPT ![work[w]] = w]
          /\ claimed' = [claimed EXCEPT ![w] = claimed[w] \cup {work[w]}]
          /\ UNCHANGED <<work, mapped, late, current, graph, purge>>
      BY <1>2, <2>2 DEF Ledger!Claim, Ledger!Goto, Ledger!Enter
    <3>2. claimed' \in [Workers -> SUBSET LedgerJobs]
      BY <2>1, <3>1
    <3>. QED
      BY <3>1, <3>2 DEF Ledger!States, WorkerSteps
  <2>3. CASE state[work[w]] # "queued"
    BY <1>2, <2>3, IdleTyped DEF Ledger!Claim, Ledger!ledger
  <2>. QED
    BY <2>2, <2>3
<1>3. ASSUME NEW w \in Workers, Ledger!Initialized(w) PROVE LedgerTypes'
  BY <1>3 DEF Ledger!Initialized, Ledger!Checked, Ledger!Goto, Ledger!ledger, WorkerSteps
<1>4. ASSUME NEW w \in Workers, Ledger!Add(w) PROVE LedgerTypes'
  BY <1>4 DEF Ledger!Add, Ledger!Checked, Ledger!Goto, Ledger!ledger, WorkerSteps
<1>5. ASSUME NEW w \in Workers, Ledger!Added(w) PROVE LedgerTypes'
  <2>1. work[w] \in LedgerJobs /\ mapped[w] + 1 \in 1 .. Episodes
    BY <1>5, PartsAssumption DEF Ledger!Added, InHand, Ledger!LedgerAssumption
  <2>2. graph' \in [LedgerJobs -> SUBSET (1 .. Episodes)]
    BY <1>5, <2>1 DEF Ledger!Added
  <2>. QED
    BY <1>5, <2>2 DEF Ledger!Added, Ledger!Goto, Ledger!ledger, WorkerSteps
<1>6. ASSUME NEW w \in Workers, Ledger!Match(w) PROVE LedgerTypes'
  BY <1>6 DEF Ledger!Match, Ledger!Checked, Ledger!Goto, Ledger!ledger, WorkerSteps
<1>7. ASSUME NEW w \in Workers, Ledger!Matched(w) PROVE LedgerTypes'
  <2>1. mapped[w] + 1 \in 0 .. Episodes
    BY <1>7, PartsAssumption DEF Ledger!Matched, Ledger!Checked, InHand, Ledger!LedgerAssumption
  <2>2. mapped' \in [Workers -> 0 .. Episodes]
    BY <1>7, <2>1 DEF Ledger!Matched
  <2>. QED
    BY <1>7, <2>2 DEF Ledger!Matched, Ledger!Checked, Ledger!Goto, Ledger!ledger, WorkerSteps
<1>8. ASSUME NEW w \in Workers, Ledger!Observe(w) PROVE LedgerTypes'
  BY <1>8, IdleTyped DEF Ledger!Observe, Ledger!Enter, Ledger!States
<1>9. ASSUME NEW w \in Workers, Ledger!Fail(w) PROVE LedgerTypes'
  <2>1. state' \in [LedgerJobs -> Ledger!States] /\ fenced' \subseteq LedgerJobs
    BY <1>9 DEF Ledger!Fail, Ledger!Quarantine, Ledger!Enter, Ledger!States
  <2>2. CASE late' = late
    BY <1>9, <2>1, <2>2, IdleTyped DEF Ledger!Fail
  <2>3. CASE workerStep[w] = "adding" /\ late' = [late EXCEPT ![w] = @ \cup {<<work[w], mapped[w] + 1>>}]
    <3>1. <<work[w], mapped[w] + 1>> \in Calls
      BY <2>3, PartsAssumption DEF InHand, Ledger!LedgerAssumption, Calls
    <3>2. late' \in [Workers -> SUBSET Calls]
      BY <2>3, <3>1
    <3>. QED
      BY <1>9, <2>1, <3>2, IdleTyped DEF Ledger!Fail
  <2>. QED
    BY <1>9, <2>2, <2>3 DEF Ledger!Fail
<1>10. ASSUME NEW w \in Workers, Ledger!LateAdd(w) PROVE LedgerTypes'
  <2>1. PICK call \in late[w] : /\ graph' = [graph EXCEPT ![call[1]] = @ \cup {call[2]}]
                               /\ late' = [late EXCEPT ![w] = @ \ {call}]
    BY <1>10 DEF Ledger!LateAdd
  <2>2. call[1] \in LedgerJobs /\ call[2] \in 1 .. Episodes
    BY DEF Calls
  <2>3. graph' \in [LedgerJobs -> SUBSET (1 .. Episodes)] /\ late' \in [Workers -> SUBSET Calls]
    BY <2>1, <2>2
  <2>. QED
    BY <1>10, <2>3 DEF Ledger!LateAdd, Ledger!ledger
<1>11. ASSUME NEW w \in Workers, Ledger!End(w) PROVE LedgerTypes'
  BY <1>11, IdleTyped DEF Ledger!End, Ledger!ledger
<1>12. ASSUME NEW j \in LedgerJobs, Ledger!Publish(j) PROVE LedgerTypes'
  BY <1>12 DEF Ledger!Publish, Ledger!Enter, Ledger!worker, Ledger!States, WorkerSteps
<1>13. ASSUME NEW j \in LedgerJobs, Ledger!BeginPurge(j) PROVE LedgerTypes'
  BY <1>13 DEF Ledger!BeginPurge, Ledger!PurgeUnchanged, Ledger!worker, WorkerSteps
<1>14. ASSUME NEW j \in LedgerJobs, Ledger!ExpireLease(j) PROVE LedgerTypes'
  BY <1>14 DEF Ledger!ExpireLease, Ledger!worker, WorkerSteps
<1>15. ASSUME NEW corpus, Ledger!Revoke(corpus) PROVE LedgerTypes'
  BY <1>15 DEF Ledger!Revoke, Ledger!Enter, Ledger!worker, Ledger!States, WorkerSteps
<1>16. ASSUME Ledger!QuarantineExpired PROVE LedgerTypes'
  BY <1>16 DEF Ledger!QuarantineExpired, Ledger!Enter, Ledger!worker, Ledger!States, WorkerSteps
<1>17. ASSUME Ledger!DeleteGraph PROVE LedgerTypes'
  BY <1>17 DEF Ledger!DeleteGraph, Ledger!PurgeUnchanged, Ledger!worker, WorkerSteps
<1>18. ASSUME Ledger!FindAbsent PROVE LedgerTypes'
  BY <1>18 DEF Ledger!FindAbsent, Ledger!EndPurge, Ledger!PurgeUnchanged, Ledger!worker,
               WorkerSteps
<1>19. ASSUME Ledger!MarkPurged PROVE LedgerTypes'
  BY <1>19 DEF Ledger!MarkPurged, Ledger!EndPurge, Ledger!Enter, Ledger!worker, Ledger!States,
               WorkerSteps
<1>20. ASSUME NEW s \in Ledger!Scopes, Ledger!ChangeSource(s) PROVE LedgerTypes'
  BY <1>20 DEF Ledger!ChangeSource, Ledger!ledger, Ledger!worker, WorkerSteps
<1>21. CASE UNCHANGED Ledger!vars
  BY <1>21 DEF Ledger!vars, Ledger!ledger, Ledger!worker
<1>. QED
  BY <1>1, <1>2, <1>3, <1>4, <1>5, <1>6, <1>7, <1>8, <1>9, <1>10, <1>11, <1>12, <1>13, <1>14,
     <1>15,
     <1>16, <1>17, <1>18, <1>19, <1>20, <1>21 DEF Ledger!Next

\* Steps that leave the rows, the claims, the graphs and the purge alone.
LEMMA RowsKept ==
    ASSUME LedgerInv, UNCHANGED <<state, fenced, claimed, graph, purge>>
    PROVE  (\A j \in LedgerJobs : RowHolds(j))' /\ OnePublished' /\ PurgeHolds'
  BY DEF LedgerInv, RowHolds, OnePublished, PurgeHolds, Ledger!WriterStopped

\* Steps that leave the workers and the graphs alone.
LEMMA HandsKept ==
    ASSUME LedgerInv, UNCHANGED <<Ledger!worker, graph>>
    PROVE  (\A w \in Workers : InHand(w))'
  BY DEF LedgerInv, InHand, Ledger!worker

LEMMA LedgerRestStep ==
    ASSUME LedgerInv, LedgerTypes', [Ledger!Next]_Ledger!vars
    PROVE  /\ (\A w \in Workers : InHand(w))' /\ (\A j \in LedgerJobs : RowHolds(j))'
           /\ OnePublished' /\ PurgeHolds'
<1>. DEFINE Rest == /\ (\A w \in Workers : InHand(w)) /\ (\A j \in LedgerJobs : RowHolds(j))
                    /\ OnePublished /\ PurgeHolds
<1>0. LedgerTypes /\ Rest
  BY DEF LedgerInv
<1>1. ASSUME NEW w \in Workers, NEW s \in Ledger!Scopes, Ledger!Enqueue(w, s) PROVE Rest'
  <2>1. ASSUME NEW v \in Workers PROVE InHand(v)'
    BY <1>0, <1>1, PartsAssumption DEF Ledger!Enqueue, Ledger!Goto, Ledger!Enter, LedgerTypes,
                                       InHand, Filling, WorkerSteps, Ledger!LedgerAssumption
  <2>2. ASSUME NEW k \in LedgerJobs PROVE RowHolds(k)'
    BY <1>0, <1>1 DEF Ledger!Enqueue, Ledger!Goto, Ledger!Enter, LedgerTypes, RowHolds,
                      Ledger!Fenced, Ledger!WriterStopped
  <2>3. OnePublished'
    BY <1>0, <1>1 DEF Ledger!Enqueue, Ledger!Goto, Ledger!Enter, LedgerTypes, OnePublished
  <2>4. PurgeHolds'
    BY <1>0, <1>1 DEF Ledger!Enqueue, Ledger!Goto, Ledger!Enter, LedgerTypes, PurgeHolds,
                      Ledger!WriterStopped
  <2>. QED
    BY <2>1, <2>2, <2>3, <2>4
<1>2. ASSUME NEW w \in Workers, Ledger!Claim(w) PROVE Rest'
  <2>1. ASSUME NEW v \in Workers PROVE InHand(v)'
    BY <1>0, <1>2, PartsAssumption DEF Ledger!Claim, Ledger!Goto, Ledger!Idle, Ledger!Enter,
                                       Ledger!ledger, LedgerTypes, InHand, Filling, WorkerSteps,
                                       Ledger!LedgerAssumption
  <2>2. ASSUME NEW k \in LedgerJobs PROVE RowHolds(k)'
    <3>1. CASE state[work[w]] = "queued"
      <4>1. work[w] \in LedgerJobs /\ RowHolds(k)
        BY <1>0, <1>2 DEF Ledger!Claim, InHand
      <4>2. /\ state' = [state EXCEPT ![work[w]] = "running"]
            /\ fenced' = fenced \cup {j \in LedgerJobs : state'[j] \in Ledger!Fenced}
            /\ claimed' = [claimed EXCEPT ![w] = claimed[w] \cup {work[w]}] /\ graph' = graph
        BY <1>2, <3>1 DEF Ledger!Claim, Ledger!Enter
      <4>3. k # work[w] => \A v \in Workers : k \in claimed'[v] => k \in claimed[v]
        BY <1>0, <4>2 DEF LedgerTypes
      <4>4. k = work[w] => state'[k] = "running" /\ k \notin fenced'
        BY <1>0, <3>1, <4>1, <4>2 DEF LedgerTypes, RowHolds, Ledger!Fenced
      <4>. QED
        BY <1>0, <4>1, <4>2, <4>3, <4>4 DEF LedgerTypes, RowHolds, Ledger!Fenced,
                                            Ledger!WriterStopped
    <3>2. CASE state[work[w]] # "queued"
      BY <1>0, <1>2, <3>2 DEF Ledger!Claim, Ledger!ledger, RowHolds, Ledger!WriterStopped
    <3>. QED
      BY <3>1, <3>2
  <2>3. OnePublished'
    BY <1>0, <1>2 DEF Ledger!Claim, Ledger!Goto, Ledger!Idle, Ledger!Enter, Ledger!ledger,
                      LedgerTypes, OnePublished
  <2>4. PurgeHolds'
    <3>1. CASE state[work[w]] = "queued"
      <4>1. work[w] \in LedgerJobs
        BY <1>0, <1>2 DEF Ledger!Claim, InHand
      <4>2. /\ state' = [state EXCEPT ![work[w]] = "running"] /\ graph' = graph /\ purge' = purge
            /\ claimed' = [claimed EXCEPT ![w] = claimed[w] \cup {work[w]}]
        BY <1>2, <3>1 DEF Ledger!Claim, Ledger!Enter
      <4>3. ASSUME purge.step # "idle"
            PROVE  /\ state'[purge.job] = state[purge.job]
                   /\ \A v \in Workers : purge.job \in claimed'[v] => purge.job \in claimed[v]
        BY <1>0, <3>1, <4>1, <4>2, <4>3 DEF LedgerTypes, PurgeHolds
      <4>. QED
        BY <1>0, <1>2, <4>2, <4>3 DEF Ledger!Claim, PurgeHolds, Ledger!WriterStopped
    <3>2. CASE state[work[w]] # "queued"
      BY <1>0, <1>2, <3>2 DEF Ledger!Claim, Ledger!ledger, PurgeHolds, Ledger!WriterStopped
    <3>. QED
      BY <3>1, <3>2
  <2>. QED
    BY <2>1, <2>2, <2>3, <2>4
<1>3. ASSUME NEW w \in Workers, Ledger!Initialized(w) PROVE Rest'
  <2>1. ASSUME NEW v \in Workers PROVE InHand(v)'
    BY <1>0, <1>3, PartsAssumption DEF Ledger!Initialized, Ledger!Checked, Ledger!Goto,
                                       Ledger!ledger, LedgerTypes, InHand, Filling, WorkerSteps,
                                       Ledger!LedgerAssumption
  <2>2. UNCHANGED <<state, fenced, claimed, graph, purge>>
    BY <1>3 DEF Ledger!Initialized, Ledger!Checked, Ledger!ledger
  <2>. QED
    BY <2>1, <2>2, RowsKept
<1>4. ASSUME NEW w \in Workers, Ledger!Add(w) PROVE Rest'
  <2>1. ASSUME NEW v \in Workers PROVE InHand(v)'
    BY <1>0, <1>4, PartsAssumption DEF Ledger!Add, Ledger!Checked, Ledger!Goto, Ledger!ledger,
                                       LedgerTypes, InHand, Filling, WorkerSteps,
                                       Ledger!LedgerAssumption
  <2>2. UNCHANGED <<state, fenced, claimed, graph, purge>>
    BY <1>4 DEF Ledger!Add, Ledger!Checked, Ledger!ledger
  <2>. QED
    BY <2>1, <2>2, RowsKept
<1>5. ASSUME NEW w \in Workers, Ledger!Added(w) PROVE Rest'
  <2>1. ASSUME NEW v \in Workers PROVE InHand(v)'
    BY <1>0, <1>5, PartsAssumption DEF Ledger!Added, Ledger!Goto, Ledger!ledger, LedgerTypes,
                                       InHand, Filling, WorkerSteps, Ledger!LedgerAssumption
  <2>2. ASSUME NEW k \in LedgerJobs PROVE RowHolds(k)'
    <3>1. /\ work[w] \in claimed[w] /\ work[w] \in LedgerJobs /\ mapped[w] + 1 \in 1 .. Episodes
      BY <1>0, <1>5, PartsAssumption DEF Ledger!Added, InHand, Filling, LedgerTypes,
                                         Ledger!LedgerAssumption
    <3>2. graph'[k] = IF k = work[w] THEN graph[k] \cup {mapped[w] + 1} ELSE graph[k]
      BY <1>0, <1>5 DEF Ledger!Added, LedgerTypes
    <3>. QED
      BY <1>0, <1>5, <3>1, <3>2 DEF Ledger!Added, Ledger!ledger, RowHolds, Ledger!WriterStopped
  <2>3. OnePublished'
    BY <1>0, <1>5 DEF Ledger!Added, Ledger!Goto, Ledger!ledger, LedgerTypes, OnePublished
  <2>4. PurgeHolds'
    <3>1. work[w] \in claimed[w]
      BY <1>0, <1>5 DEF Ledger!Added, InHand, Filling
    <3>2. \A k \in LedgerJobs : Ledger!WriterStopped(k) => graph'[k] = graph[k]
      BY <1>0, <1>5, <3>1 DEF Ledger!Added, LedgerTypes, Ledger!WriterStopped
    <3>. QED
      BY <1>0, <1>5, <3>2 DEF Ledger!Added, Ledger!ledger, PurgeHolds, Ledger!WriterStopped
  <2>. QED
    BY <2>1, <2>2, <2>3, <2>4
<1>6. ASSUME NEW w \in Workers, Ledger!Match(w) PROVE Rest'
  <2>1. ASSUME NEW v \in Workers PROVE InHand(v)'
    BY <1>0, <1>6, PartsAssumption DEF Ledger!Match, Ledger!Checked, Ledger!Goto, Ledger!ledger,
                                       LedgerTypes, InHand, Filling, WorkerSteps,
                                       Ledger!LedgerAssumption
  <2>2. UNCHANGED <<state, fenced, claimed, graph, purge>>
    BY <1>6 DEF Ledger!Match, Ledger!Checked, Ledger!ledger
  <2>. QED
    BY <2>1, <2>2, RowsKept
<1>7. ASSUME NEW w \in Workers, Ledger!Matched(w) PROVE Rest'
  <2>1. ASSUME NEW v \in Workers PROVE InHand(v)'
    <3>1. /\ mapped'[w] = mapped[w] + 1 /\ mapped[w] + 1 \in graph[work[w]] /\ mapped[w] \in Nat
          /\ 1 .. mapped[w] \subseteq graph[work[w]]
           /\ work[w] \in claimed[w] /\ work[w] \in LedgerJobs
          /\ workerStep'[w] = "add"
      BY <1>0, <1>7, PartsAssumption DEF Ledger!Matched, Ledger!Checked, Ledger!Goto, LedgerTypes,
                                         InHand, Filling, Ledger!LedgerAssumption
    <3>2. 1 .. mapped'[w] \subseteq graph[work[w]]
      BY <3>1
    <3>3. UNCHANGED <<graph, work, late, claimed>>
      BY <1>7 DEF Ledger!Matched, Ledger!Checked
    <3>4. CASE v = w
      BY <1>0, <3>1, <3>2, <3>3, <3>4 DEF InHand
    <3>5. CASE v # w
      BY <1>0, <1>7, <3>5 DEF Ledger!Matched, Ledger!Checked, Ledger!Goto, LedgerTypes, InHand
    <3>. QED
      BY <3>4, <3>5
  <2>2. UNCHANGED <<state, fenced, claimed, graph, purge>>
    BY <1>7 DEF Ledger!Matched, Ledger!Checked, Ledger!ledger
  <2>. QED
    BY <2>1, <2>2, RowsKept
<1>8. ASSUME NEW w \in Workers, Ledger!Observe(w) PROVE Rest'
  <2>1. ASSUME NEW v \in Workers PROVE InHand(v)'
    BY <1>0, <1>8, PartsAssumption DEF Ledger!Observe, Ledger!Idle, Ledger!Goto, Ledger!Enter,
                                       LedgerTypes, InHand, Filling, WorkerSteps,
                                       Ledger!LedgerAssumption
  <2>2. ASSUME NEW k \in LedgerJobs PROVE RowHolds(k)'
    <3>1. /\ state[work[w]] = "running" /\ work[w] \in LedgerJobs
          /\ graph[work[w]] = 1 .. Episodes
          /\ state' = [state EXCEPT ![work[w]] = "observed"] /\ UNCHANGED <<graph, claimed>>
          /\ fenced' = fenced \cup {j \in LedgerJobs : state'[j] \in Ledger!Fenced}
      BY <1>0, <1>8 DEF Ledger!Observe, Ledger!Enter, Ledger!Check, Ledger!Lease, InHand, Filling,
                        LedgerTypes
    <3>. QED
      BY <1>0, <3>1 DEF LedgerTypes, RowHolds, Ledger!Fenced, Ledger!WriterStopped
  <2>3. OnePublished'
    BY <1>0, <1>8 DEF Ledger!Observe, Ledger!Idle, Ledger!Goto, Ledger!Enter, LedgerTypes,
                      OnePublished
  <2>4. PurgeHolds'
    BY <1>0, <1>8 DEF Ledger!Observe, Ledger!Enter, Ledger!Check, Ledger!Lease, LedgerTypes,
                      PurgeHolds, Ledger!WriterStopped
  <2>. QED
    BY <2>1, <2>2, <2>3, <2>4
<1>9. ASSUME NEW w \in Workers, Ledger!Fail(w) PROVE Rest'
  <2>1. ASSUME NEW v \in Workers PROVE InHand(v)'
    BY <1>0, <1>9, PartsAssumption DEF Ledger!Fail, Ledger!Quarantine, Ledger!Idle, Ledger!Goto,
                                       Ledger!Enter, LedgerTypes, InHand, Filling, WorkerSteps,
                                       Ledger!LedgerAssumption
  <2>2. ASSUME NEW k \in LedgerJobs PROVE RowHolds(k)'
    BY <1>0, <1>9 DEF Ledger!Fail, Ledger!Quarantine, Ledger!Idle, Ledger!Goto, Ledger!Enter,
                      LedgerTypes, RowHolds, Ledger!Fenced, Ledger!WriterStopped
  <2>3. OnePublished'
    BY <1>0, <1>9 DEF Ledger!Fail, Ledger!Quarantine, Ledger!Idle, Ledger!Goto, Ledger!Enter,
                      LedgerTypes, OnePublished
  <2>4. PurgeHolds'
    BY <1>0, <1>9 DEF Ledger!Fail, Ledger!Quarantine, Ledger!Idle, Ledger!Goto, Ledger!Enter,
                      LedgerTypes, PurgeHolds, Ledger!WriterStopped
  <2>. QED
    BY <2>1, <2>2, <2>3, <2>4
<1>10. ASSUME NEW w \in Workers, Ledger!LateAdd(w) PROVE Rest'
  <2>1. ASSUME NEW v \in Workers PROVE InHand(v)'
    BY <1>0, <1>10, PartsAssumption DEF Ledger!LateAdd, Ledger!ledger, LedgerTypes, InHand,
                                        Filling, WorkerSteps, Ledger!LedgerAssumption
  <2>2. ASSUME NEW k \in LedgerJobs PROVE RowHolds(k)'
    <3>1. PICK call \in late[w] : graph' = [graph EXCEPT ![call[1]] = @ \cup {call[2]}]
      BY <1>10 DEF Ledger!LateAdd
    <3>2. call[1] \in claimed[w] /\ call[2] \in 1 .. Episodes
      BY <1>0 DEF InHand, LedgerTypes, Calls
    <3>3. graph'[k] = IF k = call[1] THEN graph[k] \cup {call[2]} ELSE graph[k]
      BY <1>0, <3>1 DEF LedgerTypes
    <3>4. k = call[1] => state[k] \notin {"none", "queued", "purged"}
      BY <1>0, <3>2 DEF RowHolds, Ledger!WriterStopped
    <3>5. UNCHANGED <<state, fenced, claimed>>
      BY <1>10 DEF Ledger!LateAdd, Ledger!ledger
    <3>6. state[k] \in {"observed", "published"} => graph'[k] = 1 .. Episodes
      BY <1>0, <3>2, <3>3 DEF RowHolds
    <3>. QED
      BY <1>0, <3>3, <3>4, <3>5, <3>6 DEF RowHolds, Ledger!WriterStopped
  <2>3. OnePublished'
    BY <1>0, <1>10 DEF Ledger!LateAdd, Ledger!ledger, LedgerTypes, OnePublished
  <2>4. PurgeHolds'
    <3>1. \A k \in LedgerJobs : Ledger!WriterStopped(k) => graph'[k] = graph[k]
      BY <1>0, <1>10 DEF Ledger!LateAdd, InHand, LedgerTypes, Ledger!WriterStopped
    <3>. QED
      BY <1>0, <1>10, <3>1 DEF Ledger!LateAdd, Ledger!ledger, PurgeHolds, Ledger!WriterStopped
  <2>. QED
    BY <2>1, <2>2, <2>3, <2>4
<1>11. ASSUME NEW w \in Workers, Ledger!End(w) PROVE Rest'
  <2>1. ASSUME NEW v \in Workers PROVE InHand(v)'
    BY <1>0, <1>11, PartsAssumption DEF Ledger!End, Ledger!Idle, Ledger!Goto, Ledger!ledger,
                                        LedgerTypes, InHand, Filling, WorkerSteps,
                                        Ledger!LedgerAssumption
  <2>2. ASSUME NEW k \in LedgerJobs PROVE RowHolds(k)'
    BY <1>0, <1>11 DEF Ledger!End, Ledger!Idle, Ledger!Goto, Ledger!ledger, LedgerTypes, RowHolds,
                       Ledger!Fenced, Ledger!WriterStopped
  <2>3. OnePublished'
    BY <1>0, <1>11 DEF Ledger!End, Ledger!Idle, Ledger!Goto, Ledger!ledger, LedgerTypes,
                       OnePublished
  <2>4. PurgeHolds'
    BY <1>0, <1>11 DEF Ledger!End, Ledger!Idle, Ledger!Goto, Ledger!ledger, LedgerTypes,
                       PurgeHolds, Ledger!WriterStopped
  <2>. QED
    BY <2>1, <2>2, <2>3, <2>4
<1>12. ASSUME NEW i \in LedgerJobs, Ledger!Publish(i) PROVE Rest'
  <2>1. (\A v \in Workers : InHand(v))'
    BY <1>12, HandsKept DEF Ledger!Publish
  <2>2. ASSUME NEW k \in LedgerJobs PROVE RowHolds(k)'
    BY <1>0, <1>12 DEF Ledger!Publish, Ledger!Enter, Ledger!worker, LedgerTypes, RowHolds,
                       Ledger!Fenced, Ledger!WriterStopped
  <2>3. OnePublished'
    BY <1>0, <1>12 DEF Ledger!Publish, Ledger!Enter, Ledger!Revoked, LedgerTypes, OnePublished
  <2>4. PurgeHolds'
    BY <1>0, <1>12 DEF Ledger!Publish, Ledger!Enter, Ledger!worker, LedgerTypes, PurgeHolds,
                       Ledger!WriterStopped
  <2>. QED
    BY <2>1, <2>2, <2>3, <2>4
<1>13. ASSUME NEW i \in LedgerJobs, Ledger!BeginPurge(i) PROVE Rest'
  <2>1. (\A v \in Workers : InHand(v))'
    BY <1>13, HandsKept DEF Ledger!BeginPurge, Ledger!PurgeUnchanged
  <2>2. ASSUME NEW k \in LedgerJobs PROVE RowHolds(k)'
    BY <1>0, <1>13 DEF Ledger!BeginPurge, Ledger!PurgeUnchanged, Ledger!worker, LedgerTypes,
                       RowHolds, Ledger!Fenced, Ledger!WriterStopped
  <2>3. OnePublished'
    BY <1>0, <1>13 DEF Ledger!BeginPurge, Ledger!PurgeUnchanged, Ledger!worker, LedgerTypes,
                       OnePublished
  <2>4. PurgeHolds'
    BY <1>0, <1>13 DEF Ledger!BeginPurge, Ledger!PurgeUnchanged, Ledger!worker, LedgerTypes,
                       PurgeHolds, Ledger!WriterStopped
  <2>. QED
    BY <2>1, <2>2, <2>3, <2>4
<1>14. ASSUME NEW i \in LedgerJobs, Ledger!ExpireLease(i) PROVE Rest'
  BY <1>14, RowsKept, HandsKept DEF Ledger!ExpireLease, Ledger!worker
<1>15. ASSUME NEW corpus, Ledger!Revoke(corpus) PROVE Rest'
  <2>1. (\A v \in Workers : InHand(v))'
    BY <1>15, HandsKept DEF Ledger!Revoke
  <2>2. ASSUME NEW k \in LedgerJobs PROVE RowHolds(k)'
    BY <1>0, <1>15 DEF Ledger!Revoke, Ledger!Enter, Ledger!worker, LedgerTypes, RowHolds,
                       Ledger!Fenced, Ledger!WriterStopped
  <2>3. OnePublished'
    BY <1>0, <1>15 DEF Ledger!Revoke, Ledger!Enter, Ledger!worker, LedgerTypes, OnePublished
  <2>4. PurgeHolds'
    BY <1>0, <1>15 DEF Ledger!Revoke, Ledger!Enter, Ledger!worker, LedgerTypes, PurgeHolds,
                       Ledger!WriterStopped
  <2>. QED
    BY <2>1, <2>2, <2>3, <2>4
<1>16. ASSUME Ledger!QuarantineExpired PROVE Rest'
  <2>1. (\A v \in Workers : InHand(v))'
    BY <1>16, HandsKept DEF Ledger!QuarantineExpired
  <2>2. ASSUME NEW k \in LedgerJobs PROVE RowHolds(k)'
    BY <1>0, <1>16 DEF Ledger!QuarantineExpired, Ledger!Enter, Ledger!worker, LedgerTypes,
                       RowHolds, Ledger!Fenced, Ledger!WriterStopped
  <2>3. OnePublished'
    BY <1>0, <1>16 DEF Ledger!QuarantineExpired, Ledger!Enter, Ledger!worker, LedgerTypes,
                       OnePublished
  <2>4. PurgeHolds'
    BY <1>0, <1>16 DEF Ledger!QuarantineExpired, Ledger!Enter, Ledger!worker, LedgerTypes,
                       PurgeHolds, Ledger!WriterStopped
  <2>. QED
    BY <2>1, <2>2, <2>3, <2>4
<1>17. ASSUME Ledger!DeleteGraph PROVE Rest'
  <2>1. ASSUME NEW v \in Workers PROVE InHand(v)'
    <3>1. purge.job \notin claimed[v] /\ graph' = [graph EXCEPT ![purge.job] = {}]
      BY <1>0, <1>17 DEF Ledger!DeleteGraph, PurgeHolds, Ledger!WriterStopped
    <3>2. \A k \in claimed[v] : graph'[k] = graph[k]
      BY <1>0, <3>1 DEF LedgerTypes
    <3>3. UNCHANGED Ledger!worker
      BY <1>17 DEF Ledger!DeleteGraph, Ledger!PurgeUnchanged
    <3>. QED
      BY <1>0, <3>2, <3>3 DEF Ledger!worker, InHand
  <2>2. ASSUME NEW k \in LedgerJobs PROVE RowHolds(k)'
    <3>1. /\ graph' = [graph EXCEPT ![purge.job] = {}]
          /\ state[purge.job] \in {"quarantined", "revoked"}
           /\ UNCHANGED <<state, fenced, claimed>>
      BY <1>0, <1>17 DEF Ledger!DeleteGraph, Ledger!PurgeUnchanged, Ledger!worker, PurgeHolds
    <3>2. k # purge.job => graph'[k] = graph[k]
      BY <1>0, <3>1 DEF LedgerTypes
    <3>. QED
      BY <1>0, <3>1, <3>2 DEF RowHolds, Ledger!WriterStopped
  <2>3. OnePublished'
    BY <1>0, <1>17 DEF Ledger!DeleteGraph, Ledger!PurgeUnchanged, Ledger!worker, LedgerTypes,
                       OnePublished
  <2>4. PurgeHolds'
    BY <1>0, <1>17 DEF Ledger!DeleteGraph, Ledger!PurgeUnchanged, Ledger!worker, LedgerTypes,
                       PurgeHolds, Ledger!WriterStopped
  <2>. QED
    BY <2>1, <2>2, <2>3, <2>4
<1>18. ASSUME Ledger!FindAbsent PROVE Rest'
  <2>1. (\A v \in Workers : InHand(v))'
    BY <1>18, HandsKept DEF Ledger!FindAbsent, Ledger!PurgeUnchanged
  <2>2. ASSUME NEW k \in LedgerJobs PROVE RowHolds(k)'
    BY <1>0, <1>18 DEF Ledger!FindAbsent, Ledger!EndPurge, Ledger!PurgeUnchanged, Ledger!worker,
                       LedgerTypes, RowHolds, Ledger!Fenced, Ledger!WriterStopped
  <2>3. OnePublished'
    BY <1>0, <1>18 DEF Ledger!FindAbsent, Ledger!EndPurge, Ledger!PurgeUnchanged, Ledger!worker,
                       LedgerTypes, OnePublished
  <2>4. PurgeHolds'
    BY <1>0, <1>18 DEF Ledger!FindAbsent, Ledger!EndPurge, Ledger!PurgeUnchanged, Ledger!worker,
                       LedgerTypes, PurgeHolds, Ledger!WriterStopped
  <2>. QED
    BY <2>1, <2>2, <2>3, <2>4
<1>19. ASSUME Ledger!MarkPurged PROVE Rest'
  <2>1. (\A v \in Workers : InHand(v))'
    BY <1>19, HandsKept DEF Ledger!MarkPurged
  <2>2. ASSUME NEW k \in LedgerJobs PROVE RowHolds(k)'
    <3>1. /\ purge.job \in LedgerJobs /\ state[purge.job] \in {"quarantined", "revoked"}
          /\ Ledger!WriterStopped(purge.job) /\ graph[purge.job] = {}
      BY <1>0, <1>19 DEF Ledger!MarkPurged, PurgeHolds
    <3>2. /\ state' = [state EXCEPT ![purge.job] = "purged"]
          /\ fenced' = fenced \cup {j \in LedgerJobs : state'[j] \in Ledger!Fenced}
           /\ UNCHANGED <<graph, claimed>>
      BY <1>19, <3>1 DEF Ledger!MarkPurged, Ledger!Enter, Ledger!worker
    <3>. QED
      BY <1>0, <3>1, <3>2 DEF LedgerTypes, RowHolds, Ledger!Fenced, Ledger!WriterStopped
  <2>3. OnePublished'
    BY <1>0, <1>19 DEF Ledger!MarkPurged, Ledger!EndPurge, Ledger!Enter, Ledger!worker,
                       LedgerTypes, OnePublished
  <2>4. PurgeHolds'
    BY <1>0, <1>19 DEF Ledger!MarkPurged, Ledger!EndPurge, Ledger!Enter, Ledger!worker,
                       LedgerTypes, PurgeHolds, Ledger!WriterStopped
  <2>. QED
    BY <2>1, <2>2, <2>3, <2>4
<1>20. ASSUME NEW s \in Ledger!Scopes, Ledger!ChangeSource(s) PROVE Rest'
  BY <1>20, RowsKept, HandsKept DEF Ledger!ChangeSource, Ledger!ledger, Ledger!worker
<1>21. CASE UNCHANGED Ledger!vars
  BY <1>21, RowsKept, HandsKept DEF Ledger!vars, Ledger!ledger, Ledger!worker
<1>. QED
  BY <1>1, <1>2, <1>3, <1>4, <1>5, <1>6, <1>7, <1>8, <1>9, <1>10, <1>11, <1>12, <1>13, <1>14,
     <1>15,
     <1>16, <1>17, <1>18, <1>19, <1>20, <1>21 DEF Ledger!Next

\* The invariant holds in every state of every instance.
LEMMA LedgerInvariant == Ledger!Spec => []LedgerInv
<1>1. Ledger!Init => LedgerInv
  <2>. SUFFICES ASSUME Ledger!Init PROVE LedgerInv
    OBVIOUS
  <2>1. LedgerTypes
    BY PartsAssumption DEF Ledger!LedgerAssumption, Ledger!Init, LedgerTypes, Ledger!States,
                           WorkerSteps
  <2>. QED
    BY <2>1, PartsAssumption DEF Ledger!LedgerAssumption, Ledger!Init, LedgerInv, InHand, Filling,
                                 RowHolds, Ledger!Fenced, Ledger!WriterStopped, OnePublished,
                                 PurgeHolds
<1>2. LedgerInv /\ [Ledger!Next]_Ledger!vars => LedgerInv'
  <2>. SUFFICES ASSUME LedgerInv, [Ledger!Next]_Ledger!vars PROVE LedgerInv'
    OBVIOUS
  <2>1. LedgerTypes'
    BY LedgerTypeStep
  <2>. QED
    BY <2>1, LedgerRestStep DEF LedgerInv
<1>. QED
  BY <1>1, <1>2, PTL DEF Ledger!Spec

\* What can be or become readable is whole and was never fenced, and a scope has one
\* published generation.
THEOREM PublishedAlwaysWhole == Ledger!Spec => []Ledger!PublishedIsWhole
<1>1. LedgerInv => Ledger!PublishedIsWhole
  BY DEF LedgerInv, RowHolds, Ledger!Fenced, OnePublished, Ledger!PublishedIsWhole
<1>. QED
  BY <1>1, LedgerInvariant, PTL

\* The graph of a purged job stays empty, whatever calls were under way when its
\* worker was fenced.
THEOREM PurgedAlwaysAbsent == Ledger!Spec => []Ledger!PurgedStaysAbsent
<1>1. LedgerInv => Ledger!PurgedStaysAbsent
  <2>. SUFFICES ASSUME LedgerInv, NEW j \in LedgerJobs, state[j] = "purged", NEW w \in Workers
       PROVE  /\ graph[j] = {} /\ ~(workerStep[w] = "adding" /\ work[w] = j)
              /\ \A e \in 1 .. Episodes : <<j, e>> \notin late[w]
    BY DEF Ledger!PurgedStaysAbsent, LedgerInv, RowHolds
  <2>1. graph[j] = {} /\ j \notin claimed[w] /\ InHand(w)
    BY DEF LedgerInv, RowHolds, Ledger!WriterStopped
  <2>2. ASSUME NEW e \in 1 .. Episodes, <<j, e>> \in late[w] PROVE FALSE
    <3>1. <<j, e>>[1] = j /\ <<j, e>>[1] \in claimed[w]
      BY <2>1, <2>2 DEF InHand
    <3>. QED
      BY <2>1, <3>1
  <2>. QED
    BY <2>1, <2>2 DEF InHand, Filling
<1>. QED
  BY <1>1, LedgerInvariant, PTL

-------------------------------------------------------------------------------
(* The publication of a generation *)

\* The steps of a publication before its guard, the steps of either that work under
\* it, and the rest.
Preparing == {"prepare", "immutable", "stage", "guard"}
Guarded == {"unstage", "temp", "authTemp", "authority", "unlinkAuthTemp", "replace", "finalize",
            "unguard", "recoverUnstage", "recoverTarget", "recoverAuthTemp", "recoverAuthority",
            "recoverUnlinkAuthTemp", "recoverFixed", "recoverTemp"}
HostSteps == Preparing \cup Guarded \cup {"down", "idle", "refused", "recoverGuard"}

Numbers == 0 .. MaxAttempts
Files == [to : Numbers, old : Numbers, whole : BOOLEAN]
Reads ==
  [at : {"idle", "pointer", "again", "answer"}, guarded : BOOLEAN, born : Numbers, value : Numbers]

\* The variables have their types.
PublicationTypes ==
  /\ immutable \subseteq Numbers /\ prepared \subseteq Numbers /\ complete \subseteq Numbers
  /\ stage \in Files /\ guard \in Files /\ temp \in Files /\ authTemp \in Files
  /\ fixed \in Numbers /\ authority \in Numbers /\ active \in Numbers
  /\ step \in HostSteps /\ publishing \in Numbers /\ attempts \in Numbers
  /\ reader \in [Readers -> Reads]

\* A guard or its stage, whole: a way from an activated generation to a newer one.
Leads(f) ==
  /\ f.whole /\ f.to \in prepared \cap immutable /\ f.old < f.to /\ f.to <= attempts
  /\ f.old \in complete \cup {Pub!None}
  /\ f.old # Pub!None => authority # Pub!None /\ f.old \in immutable

\* What the files say to each other, whoever is at work.
FilesHold ==
  /\ fixed <= attempts /\ active \in complete \cup {Pub!None}
  /\ guard = Pub!NoFile =>
       /\ active = fixed /\ (authority = Pub!None <=> fixed = Pub!None)
       /\ fixed # Pub!None => fixed \in immutable
       /\ temp = Pub!NoFile /\ authTemp = Pub!NoFile
       /\ stage # Pub!NoFile /\ stage.whole => Leads(stage) /\ stage.old = fixed
  /\ guard # Pub!NoFile =>
       /\ Leads(guard) /\ (stage # Pub!NoFile => stage = guard)
       /\ fixed \in {guard.old, guard.to}
       /\ active \in {guard.old, guard.to} /\ (active = guard.to => fixed = guard.to)
       /\ fixed = guard.to => authority # Pub!None /\ temp = Pub!NoFile /\ authTemp = Pub!NoFile
       /\ temp.whole => temp = Pub!File(guard.to, Pub!None)
       /\ authTemp.whole => authTemp.to = guard.to
       /\ authTemp # Pub!NoFile => guard.old = Pub!None

\* What the step the host is about to take may rely on.
Ready ==
  /\ step \in Preparing =>
       /\ guard = Pub!NoFile /\ fixed < publishing /\ publishing <= attempts
       /\ step # "guard" => stage = Pub!NoFile
       /\ step # "prepare" => publishing \in prepared
       /\ step \in {"stage", "guard"} => publishing \in immutable
       /\ step = "guard" => stage = Pub!File(publishing, fixed)
  /\ step = "recoverGuard" => guard = Pub!NoFile /\ stage.whole
  /\ step \in Guarded =>
       /\ guard # Pub!NoFile /\ publishing = guard.to
       /\ step \notin {"unstage", "recoverUnstage"} => stage = Pub!NoFile
       /\ step \in {"unstage", "temp", "recoverTemp"} => temp = Pub!NoFile /\ authTemp = Pub!NoFile
       /\ step \in {"unstage", "temp", "authTemp", "authority", "replace", "recoverTemp"} =>
            fixed = guard.old
       /\ step \in {"authTemp", "authority", "recoverAuthTemp", "recoverAuthority"} =>
            authority = Pub!None
       /\ step \in {"authTemp", "authority", "unlinkAuthTemp", "replace"} =>
            temp = Pub!File(publishing, Pub!None)
       /\ step \in {"authTemp", "recoverAuthTemp"} => authTemp = Pub!NoFile
       /\ step \in {"authority", "recoverAuthority"} => authTemp.whole
       /\ step \in {"unlinkAuthTemp", "replace", "recoverUnlinkAuthTemp", "recoverFixed",
                   "recoverTemp"} =>
            authority # Pub!None
       /\ step \in {"unlinkAuthTemp"} => fixed = guard.old
       /\ step \in {"replace", "recoverFixed"} => authTemp = Pub!NoFile
       /\ step \in {"finalize", "unguard"} => fixed = publishing
       /\ step = "unguard" => active = publishing

\* What a reader has seen so far.
Seen(r) ==
  LET x == reader[r]
  IN /\ x.at # "idle" => x.born <= Pub!Current
     /\ x.at \in {"pointer", "again"} /\ x.guarded =>
          x.value \in complete \cup {Pub!None} /\ x.value = x.born
     /\ x.at = "again" /\ ~x.guarded =>
          /\ x.born <= x.value
          /\ \/ x.value \in complete \cup {Pub!None} /\ x.value <= Pub!Current
             \/ guard # Pub!NoFile /\ x.value = guard.to /\ fixed = guard.to
     /\ x.at = "answer" =>
          x.value \in complete \cup {Pub!None} /\ x.born <= x.value /\ x.value <= Pub!Current

\* The inductive invariant.
PublicationInv ==
  PublicationTypes /\ FilesHold /\ Ready /\ (\A r \in Readers : Seen(r)) /\ Pub!RecoveryFinishes

LEMMA PublicationTypeStep == PublicationTypes /\ [Pub!Next]_Pub!vars => PublicationTypes'
<1>. SUFFICES ASSUME PublicationTypes, [Pub!Next]_Pub!vars PROVE PublicationTypes'
  OBVIOUS
<1>. USE PartsAssumption DEF Pub!PublicationAssumption, PublicationTypes, Numbers, Pub!None,
       Pub!Continue, Pub!outer, Pub!authorities, Pub!journal, Pub!bounds, Files, Pub!File,
       Pub!NoFile, HostSteps, Preparing, Guarded
<1>1. ASSUME Pub!Begin PROVE PublicationTypes'
  BY <1>1 DEF Pub!Begin, Pub!Clean
<1>2. ASSUME Pub!Prepare PROVE PublicationTypes'
  BY <1>2 DEF Pub!Prepare
<1>3. ASSUME Pub!WriteImmutable PROVE PublicationTypes'
  BY <1>3 DEF Pub!WriteImmutable
<1>4. ASSUME Pub!WriteStage PROVE PublicationTypes'
  BY <1>4 DEF Pub!WriteStage
<1>5. ASSUME Pub!LinkGuard PROVE PublicationTypes'
  BY <1>5 DEF Pub!LinkGuard
<1>6. ASSUME Pub!Unstage PROVE PublicationTypes'
  BY <1>6 DEF Pub!Unstage
<1>7. ASSUME Pub!WriteTemp PROVE PublicationTypes'
  BY <1>7 DEF Pub!WriteTemp
<1>8. ASSUME Pub!WriteAuthTemp PROVE PublicationTypes'
  BY <1>8 DEF Pub!WriteAuthTemp
<1>9. ASSUME Pub!LinkAuthority PROVE PublicationTypes'
  BY <1>9 DEF Pub!LinkAuthority
<1>10. ASSUME Pub!UnlinkAuthTemp PROVE PublicationTypes'
  BY <1>10 DEF Pub!UnlinkAuthTemp
<1>11. ASSUME Pub!Replace PROVE PublicationTypes'
  BY <1>11 DEF Pub!Replace
<1>12. ASSUME Pub!Finalize PROVE PublicationTypes'
  BY <1>12 DEF Pub!Finalize
<1>13. ASSUME Pub!Unguard PROVE PublicationTypes'
  BY <1>13 DEF Pub!Unguard
<1>14. ASSUME Pub!Recover PROVE PublicationTypes'
  BY <1>14 DEF Pub!Recover, Pub!Torn, Pub!Refuse
<1>15. ASSUME Pub!RecoverGuard PROVE PublicationTypes'
  BY <1>15 DEF Pub!RecoverGuard
<1>16. ASSUME Pub!RecoverTarget PROVE PublicationTypes'
  BY <1>16 DEF Pub!RecoverTarget, Pub!Torn, Pub!Refuse
<1>17. ASSUME Pub!RecoverFixed PROVE PublicationTypes'
  BY <1>17 DEF Pub!RecoverFixed, Pub!Torn, Pub!TakesUpTemp
<1>18. ASSUME Pub!StepFails PROVE PublicationTypes'
  BY <1>18 DEF Pub!StepFails
<1>19. ASSUME Pub!Stop PROVE PublicationTypes'
  BY <1>19 DEF Pub!Stop
<1>20. ASSUME Pub!Crash PROVE PublicationTypes'
  BY <1>20 DEF Pub!Crash
<1>21. ASSUME Pub!CrashWriting PROVE PublicationTypes'
  <2>1. Pub!Half \in Files
    BY DEF Pub!Half, Files
  <2>. QED
    BY <1>21, <2>1 DEF Pub!CrashWriting
<1>22. ASSUME NEW r \in Readers, Pub!ReadGuard(r) PROVE PublicationTypes'
  BY <1>22 DEF Pub!ReadGuard, Reads, Pub!Current, Pub!NoRead
<1>23. ASSUME NEW r \in Readers, Pub!ReadPointer(r) PROVE PublicationTypes'
  <2>1. reader[r] \in Reads /\ fixed \in Numbers
    OBVIOUS
  <2>2. reader' = [reader EXCEPT ![r] = [reader[r] EXCEPT
              !.at = "again",
              !.value = IF reader[r].guarded THEN reader[r].value ELSE fixed]]
    BY <1>23 DEF Pub!ReadPointer
  <2>3. reader' \in [Readers -> Reads]
    BY <2>1, <2>2 DEF Reads
  <2>. QED
    BY <1>23, <2>3 DEF Pub!ReadPointer
<1>24. ASSUME NEW r \in Readers, Pub!ReadAgain(r) PROVE PublicationTypes'
  BY <1>24 DEF Pub!ReadAgain, Reads, Pub!Current, Pub!NoRead
<1>25. ASSUME NEW r \in Readers, Pub!Answer(r) PROVE PublicationTypes'
  BY <1>25 DEF Pub!Answer, Reads, Pub!Current, Pub!NoRead
<1>26. CASE UNCHANGED Pub!vars
  BY <1>26 DEF Pub!vars
<1>. QED
  BY <1>1, <1>2, <1>3, <1>4, <1>5, <1>6, <1>7, <1>8, <1>9, <1>10, <1>11, <1>12, <1>13, <1>14,
     <1>15, <1>16, <1>17, <1>18, <1>19, <1>20, <1>21, <1>22, <1>23, <1>24, <1>25, <1>26 DEF Pub!Next

LEMMA PublicationHostStep ==
    ASSUME PublicationInv, PublicationTypes', [Pub!Next]_Pub!vars
    PROVE  FilesHold' /\ Ready' /\ Pub!RecoveryFinishes'
<1>. USE PartsAssumption DEF Pub!PublicationAssumption, PublicationInv, PublicationTypes, Numbers,
                             Pub!None,
       Pub!Continue, Pub!outer, Pub!authorities, Pub!journal, Pub!bounds, FilesHold, Ready, Leads,
       Files, Pub!File, Pub!NoFile,
       Preparing, Guarded
<1>1. ASSUME Pub!Begin PROVE FilesHold' /\ Ready' /\ Pub!RecoveryFinishes'
  <2>1. FilesHold'
    BY <1>1 DEF Pub!Begin, Pub!Clean
  <2>2. Ready'
    BY <1>1 DEF Pub!Begin, Pub!Clean
  <2>3. Pub!RecoveryFinishes'
    BY <1>1 DEF Pub!Begin, Pub!Clean, Pub!RecoveryFinishes, Pub!Torn
  <2>. QED
    BY <2>1, <2>2, <2>3
<1>2. ASSUME Pub!Prepare PROVE FilesHold' /\ Ready' /\ Pub!RecoveryFinishes'
  <2>1. FilesHold'
    BY <1>2 DEF Pub!Prepare
  <2>2. Ready'
    BY <1>2 DEF Pub!Prepare
  <2>3. Pub!RecoveryFinishes'
    BY <1>2 DEF Pub!Prepare, Pub!RecoveryFinishes, Pub!Torn
  <2>. QED
    BY <2>1, <2>2, <2>3
<1>3. ASSUME Pub!WriteImmutable PROVE FilesHold' /\ Ready' /\ Pub!RecoveryFinishes'
  <2>1. FilesHold'
    BY <1>3 DEF Pub!WriteImmutable
  <2>2. Ready'
    BY <1>3 DEF Pub!WriteImmutable
  <2>3. Pub!RecoveryFinishes'
    BY <1>3 DEF Pub!WriteImmutable, Pub!RecoveryFinishes, Pub!Torn
  <2>. QED
    BY <2>1, <2>2, <2>3
<1>4. ASSUME Pub!WriteStage PROVE FilesHold' /\ Ready' /\ Pub!RecoveryFinishes'
  <2>1. FilesHold'
    BY <1>4 DEF Pub!WriteStage
  <2>2. Ready'
    BY <1>4 DEF Pub!WriteStage
  <2>3. Pub!RecoveryFinishes'
    BY <1>4 DEF Pub!WriteStage, Pub!RecoveryFinishes, Pub!Torn
  <2>. QED
    BY <2>1, <2>2, <2>3
<1>5. ASSUME Pub!LinkGuard PROVE FilesHold' /\ Ready' /\ Pub!RecoveryFinishes'
  <2>1. FilesHold'
    BY <1>5 DEF Pub!LinkGuard
  <2>2. Ready'
    BY <1>5 DEF Pub!LinkGuard
  <2>3. Pub!RecoveryFinishes'
    BY <1>5 DEF Pub!LinkGuard, Pub!RecoveryFinishes, Pub!Torn
  <2>. QED
    BY <2>1, <2>2, <2>3
<1>6. ASSUME Pub!Unstage PROVE FilesHold' /\ Ready' /\ Pub!RecoveryFinishes'
  <2>1. FilesHold'
    BY <1>6 DEF Pub!Unstage
  <2>2. Ready'
    BY <1>6 DEF Pub!Unstage
  <2>3. Pub!RecoveryFinishes'
    BY <1>6 DEF Pub!Unstage, Pub!RecoveryFinishes, Pub!Torn
  <2>. QED
    BY <2>1, <2>2, <2>3
<1>7. ASSUME Pub!WriteTemp PROVE FilesHold' /\ Ready' /\ Pub!RecoveryFinishes'
  <2>1. FilesHold'
    <3>1. /\ guard # Pub!NoFile /\ fixed = guard.old /\ temp' = Pub!File(guard.to, Pub!None)
          /\ UNCHANGED <<immutable, stage, guard, fixed, Pub!authorities, Pub!journal, attempts>>
      BY <1>7 DEF Pub!WriteTemp
    <3>. QED
      BY <3>1
  <2>2. Ready'
    BY <1>7 DEF Pub!WriteTemp
  <2>3. Pub!RecoveryFinishes'
    BY <1>7 DEF Pub!WriteTemp, Pub!RecoveryFinishes, Pub!Torn
  <2>. QED
    BY <2>1, <2>2, <2>3
<1>8. ASSUME Pub!WriteAuthTemp PROVE FilesHold' /\ Ready' /\ Pub!RecoveryFinishes'
  <2>1. FilesHold'
    BY <1>8 DEF Pub!WriteAuthTemp
  <2>2. Ready'
    BY <1>8 DEF Pub!WriteAuthTemp
  <2>3. Pub!RecoveryFinishes'
    BY <1>8 DEF Pub!WriteAuthTemp, Pub!RecoveryFinishes, Pub!Torn
  <2>. QED
    BY <2>1, <2>2, <2>3
<1>9. ASSUME Pub!LinkAuthority PROVE FilesHold' /\ Ready' /\ Pub!RecoveryFinishes'
  <2>1. FilesHold'
    BY <1>9 DEF Pub!LinkAuthority
  <2>2. Ready'
    BY <1>9 DEF Pub!LinkAuthority
  <2>3. Pub!RecoveryFinishes'
    BY <1>9 DEF Pub!LinkAuthority, Pub!RecoveryFinishes, Pub!Torn
  <2>. QED
    BY <2>1, <2>2, <2>3
<1>10. ASSUME Pub!UnlinkAuthTemp PROVE FilesHold' /\ Ready' /\ Pub!RecoveryFinishes'
  <2>1. FilesHold'
    BY <1>10 DEF Pub!UnlinkAuthTemp
  <2>2. Ready'
    BY <1>10 DEF Pub!UnlinkAuthTemp
  <2>3. Pub!RecoveryFinishes'
    BY <1>10 DEF Pub!UnlinkAuthTemp, Pub!RecoveryFinishes, Pub!Torn
  <2>. QED
    BY <2>1, <2>2, <2>3
<1>11. ASSUME Pub!Replace PROVE FilesHold' /\ Ready' /\ Pub!RecoveryFinishes'
  <2>1. FilesHold'
    BY <1>11 DEF Pub!Replace
  <2>2. Ready'
    BY <1>11 DEF Pub!Replace
  <2>3. Pub!RecoveryFinishes'
    BY <1>11 DEF Pub!Replace, Pub!RecoveryFinishes, Pub!Torn
  <2>. QED
    BY <2>1, <2>2, <2>3
<1>12. ASSUME Pub!Finalize PROVE FilesHold' /\ Ready' /\ Pub!RecoveryFinishes'
  <2>1. FilesHold'
    BY <1>12 DEF Pub!Finalize
  <2>2. Ready'
    BY <1>12 DEF Pub!Finalize
  <2>3. Pub!RecoveryFinishes'
    BY <1>12 DEF Pub!Finalize, Pub!RecoveryFinishes, Pub!Torn
  <2>. QED
    BY <2>1, <2>2, <2>3
<1>13. ASSUME Pub!Unguard PROVE FilesHold' /\ Ready' /\ Pub!RecoveryFinishes'
  <2>1. FilesHold'
    BY <1>13 DEF Pub!Unguard
  <2>2. Ready'
    BY <1>13 DEF Pub!Unguard
  <2>3. Pub!RecoveryFinishes'
    BY <1>13 DEF Pub!Unguard, Pub!RecoveryFinishes, Pub!Torn
  <2>. QED
    BY <2>1, <2>2, <2>3
<1>14. ASSUME Pub!Recover PROVE FilesHold' /\ Ready' /\ Pub!RecoveryFinishes'
  <2>1. FilesHold'
    BY <1>14 DEF Pub!Recover, Pub!Torn, Pub!Refuse
  <2>2. Ready'
    BY <1>14 DEF Pub!Recover, Pub!Torn, Pub!Refuse
  <2>3. Pub!RecoveryFinishes'
    BY <1>14 DEF Pub!Recover, Pub!Torn, Pub!Refuse, Pub!RecoveryFinishes
  <2>. QED
    BY <2>1, <2>2, <2>3
<1>15. ASSUME Pub!RecoverGuard PROVE FilesHold' /\ Ready' /\ Pub!RecoveryFinishes'
  <2>1. FilesHold'
    BY <1>15 DEF Pub!RecoverGuard
  <2>2. Ready'
    BY <1>15 DEF Pub!RecoverGuard
  <2>3. Pub!RecoveryFinishes'
    BY <1>15 DEF Pub!RecoverGuard, Pub!RecoveryFinishes, Pub!Torn
  <2>. QED
    BY <2>1, <2>2, <2>3
<1>16. ASSUME Pub!RecoverTarget PROVE FilesHold' /\ Ready' /\ Pub!RecoveryFinishes'
  <2>1. FilesHold'
    BY <1>16 DEF Pub!RecoverTarget, Pub!Torn, Pub!Refuse
  <2>2. Ready'
    BY <1>16 DEF Pub!RecoverTarget, Pub!Torn, Pub!Refuse
  <2>3. Pub!RecoveryFinishes'
    BY <1>16 DEF Pub!RecoverTarget, Pub!Torn, Pub!Refuse, Pub!RecoveryFinishes
  <2>. QED
    BY <2>1, <2>2, <2>3
<1>17. ASSUME Pub!RecoverFixed PROVE FilesHold' /\ Ready' /\ Pub!RecoveryFinishes'
  <2>1. FilesHold'
    BY <1>17 DEF Pub!RecoverFixed, Pub!Torn, Pub!TakesUpTemp
  <2>2. Ready'
    BY <1>17 DEF Pub!RecoverFixed, Pub!Torn, Pub!TakesUpTemp
  <2>3. Pub!RecoveryFinishes'
    BY <1>17 DEF Pub!RecoverFixed, Pub!Torn, Pub!TakesUpTemp, Pub!RecoveryFinishes
  <2>. QED
    BY <2>1, <2>2, <2>3
<1>18. ASSUME Pub!StepFails PROVE FilesHold' /\ Ready' /\ Pub!RecoveryFinishes'
  <2>1. FilesHold'
    BY <1>18 DEF Pub!StepFails
  <2>2. Ready'
    BY <1>18 DEF Pub!StepFails
  <2>3. Pub!RecoveryFinishes'
    BY <1>18 DEF Pub!StepFails, Pub!RecoveryFinishes, Pub!Torn
  <2>. QED
    BY <2>1, <2>2, <2>3
<1>19. ASSUME Pub!Stop PROVE FilesHold' /\ Ready' /\ Pub!RecoveryFinishes'
  <2>1. FilesHold'
    BY <1>19 DEF Pub!Stop
  <2>2. Ready'
    BY <1>19 DEF Pub!Stop
  <2>3. Pub!RecoveryFinishes'
    BY <1>19 DEF Pub!Stop, Pub!RecoveryFinishes, Pub!Torn
  <2>. QED
    BY <2>1, <2>2, <2>3
<1>20. ASSUME Pub!Crash PROVE FilesHold' /\ Ready' /\ Pub!RecoveryFinishes'
  <2>1. FilesHold'
    BY <1>20 DEF Pub!Crash
  <2>2. Ready'
    BY <1>20 DEF Pub!Crash
  <2>3. Pub!RecoveryFinishes'
    BY <1>20 DEF Pub!Crash, Pub!RecoveryFinishes, Pub!Torn
  <2>. QED
    BY <2>1, <2>2, <2>3
<1>21. ASSUME Pub!CrashWriting PROVE FilesHold' /\ Ready' /\ Pub!RecoveryFinishes'
  <2>1. FilesHold'
    BY <1>21 DEF Pub!CrashWriting, Pub!Half
  <2>2. Ready'
    BY <1>21 DEF Pub!CrashWriting, Pub!Half
  <2>3. Pub!RecoveryFinishes'
    BY <1>21 DEF Pub!CrashWriting, Pub!Half, Pub!RecoveryFinishes, Pub!Torn
  <2>. QED
    BY <2>1, <2>2, <2>3
<1>22. ASSUME UNCHANGED <<Pub!outer, Pub!authorities, Pub!journal, step, publishing, attempts>>
       PROVE FilesHold' /\ Ready' /\ Pub!RecoveryFinishes'
  BY <1>22 DEF Pub!RecoveryFinishes, Pub!Torn
<1>. QED
  BY <1>1, <1>2, <1>3, <1>4, <1>5, <1>6, <1>7, <1>8, <1>9, <1>10, <1>11, <1>12, <1>13, <1>14,
     <1>15, <1>16, <1>17, <1>18, <1>19, <1>20, <1>21, <1>22 DEF Pub!Next, Pub!vars, Pub!ReadGuard,
                                                                Pub!ReadPointer, Pub!ReadAgain,
                                                                Pub!Answer

\* What the steps of the host do to what readers have seen.
LEMMA PublicationSeenStep ==
    ASSUME PublicationInv, PublicationTypes', FilesHold', [Pub!Next]_Pub!vars
    PROVE  (\A r \in Readers : Seen(r))'
<1>. USE PartsAssumption DEF Pub!PublicationAssumption, PublicationInv, PublicationTypes, Numbers,
                             Pub!None
<1>1. ASSUME NEW r \in Readers, Pub!ReadGuard(r) PROVE (\A q \in Readers : Seen(q))'
  <2>. SUFFICES ASSUME NEW q \in Readers PROVE Seen(q)'
    OBVIOUS
  <2>1. CASE q = r
    BY <1>1, <2>1 DEF Pub!ReadGuard, Pub!outer, Pub!authorities, Pub!journal, Seen, Pub!Current,
                      FilesHold, Leads, Files, Pub!NoFile
  <2>2. CASE q # r
    BY <1>1, <2>2 DEF Pub!ReadGuard, Pub!outer, Pub!authorities, Pub!journal, Seen, Pub!Current
  <2>. QED
    BY <2>1, <2>2
<1>2. ASSUME NEW r \in Readers, Pub!ReadPointer(r) PROVE (\A q \in Readers : Seen(q))'
  <2>. SUFFICES ASSUME NEW q \in Readers PROVE Seen(q)'
    OBVIOUS
  <2>1. CASE q = r
    <3>1. /\ reader[r] \in Reads /\ reader[r].at = "pointer"
          /\ reader'[r] = [reader[r] EXCEPT
              !.at = "again",
              !.value = IF reader[r].guarded THEN reader[r].value ELSE fixed]
      BY <1>2 DEF Pub!ReadPointer
    <3>2. /\ reader'[r].at = "again" /\ reader'[r].guarded = reader[r].guarded
          /\ reader'[r].born = reader[r].born
          /\ reader'[r].value = IF reader[r].guarded THEN reader[r].value ELSE fixed
      BY <3>1 DEF Reads
    <3>3. /\ Pub!Current <= fixed
          /\ guard = Pub!NoFile => fixed \in complete \cup {Pub!None} /\ fixed <= Pub!Current
      BY DEF Pub!Current, FilesHold, Leads, Files
    <3>4. guard # Pub!NoFile =>
            fixed = guard.to \/ (fixed \in complete \cup {Pub!None} /\ fixed <= Pub!Current)
      BY DEF Pub!Current, FilesHold, Leads, Files
    <3>5. UNCHANGED <<guard, fixed, complete>>
      BY <1>2 DEF Pub!ReadPointer, Pub!outer, Pub!journal
    <3>. QED
      BY <2>1, <3>1, <3>2, <3>3, <3>4, <3>5 DEF Seen, Pub!Current, Files, Reads
  <2>2. CASE q # r
    BY <1>2, <2>2 DEF Pub!ReadPointer, Pub!outer, Pub!authorities, Pub!journal, Seen, Pub!Current
  <2>. QED
    BY <2>1, <2>2
<1>3. ASSUME NEW r \in Readers, Pub!ReadAgain(r) PROVE (\A q \in Readers : Seen(q))'
  <2>. SUFFICES ASSUME NEW q \in Readers PROVE Seen(q)'
    OBVIOUS
  <2>1. CASE q = r
    <3>1. CASE Pub!GuardStands(r)
      <4>1. /\ reader[r].at = "again" /\ reader[r] \in Reads
            /\ reader'[r] = [reader[r] EXCEPT !.at = "answer"]
        BY <1>3, <3>1 DEF Pub!ReadAgain
      <4>2. /\ reader'[r].at = "answer" /\ reader'[r].born = reader[r].born
            /\ reader'[r].value = reader[r].value
        BY <4>1 DEF Reads
      <4>3. UNCHANGED <<guard, fixed, complete>>
        BY <1>3 DEF Pub!ReadAgain, Pub!outer, Pub!journal
      <4>. QED
        BY <2>1, <3>1, <4>1, <4>2, <4>3 DEF Pub!GuardStands, Seen, Pub!Current, Reads
    <3>2. CASE ~Pub!GuardStands(r)
      BY <1>3, <2>1, <3>2 DEF Pub!ReadAgain, Pub!NoRead, Seen
    <3>. QED
      BY <3>1, <3>2
  <2>2. CASE q # r
    BY <1>3, <2>2 DEF Pub!ReadAgain, Pub!outer, Pub!authorities, Pub!journal, Seen, Pub!Current
  <2>. QED
    BY <2>1, <2>2
<1>4. ASSUME NEW r \in Readers, Pub!Answer(r) PROVE (\A q \in Readers : Seen(q))'
  BY <1>4 DEF Pub!Answer, Pub!outer, Pub!authorities, Pub!journal, Seen, Pub!Current, Pub!NoRead
<1>5. ASSUME UNCHANGED reader, complete \subseteq complete', Pub!Current <= Pub!Current',
             \/ UNCHANGED <<guard, fixed>>
             \/ guard = Pub!NoFile
             \/ guard' = guard /\ fixed = guard.old
             \/ /\ guard' = Pub!NoFile
                /\ fixed = guard.to => guard.to \in complete' /\ Pub!Current' = guard.to
      PROVE (\A q \in Readers : Seen(q))'
  <2>. SUFFICES ASSUME NEW q \in Readers PROVE Seen(q)'
    OBVIOUS
  <2>1. reader[q] \in Reads /\ Seen(q) /\ Pub!Current \in Nat /\ Pub!Current' \in Nat
    BY DEF Pub!Current, Files
  <2>2. ASSUME reader[q].value \in complete \cup {Pub!None}, reader[q].value <= Pub!Current
        PROVE  reader[q].value \in complete' \cup {Pub!None} /\ reader[q].value <= Pub!Current'
    BY <1>5, <2>1, <2>2 DEF Reads
  <2>3. reader[q].at # "idle" => reader[q].born <= Pub!Current'
    BY <1>5, <2>1 DEF Seen, Reads
  <2>4. ASSUME guard # Pub!NoFile, reader[q].value = guard.to, fixed = guard.to
        PROVE  \/ guard' # Pub!NoFile /\ reader[q].value = guard'.to /\ fixed' = guard'.to
               \/ reader[q].value \in complete' /\ reader[q].value <= Pub!Current'
    BY <1>5, <2>4, <2>1 DEF FilesHold, Leads, Files
  <2>. QED
    BY <1>5, <2>1, <2>2, <2>3, <2>4 DEF Seen
<1>6. ASSUME Pub!LinkGuard PROVE (\A q \in Readers : Seen(q))'
  BY <1>5, <1>6 DEF Pub!LinkGuard, Pub!Continue, Pub!journal, Pub!Current, Ready, Preparing,
                    Pub!File, Pub!NoFile
<1>7. ASSUME Pub!Replace PROVE (\A q \in Readers : Seen(q))'
  BY <1>5, <1>7 DEF Pub!Replace, Pub!Continue, Pub!journal, Pub!Current, Ready, Guarded, Files
<1>8. ASSUME Pub!Finalize PROVE (\A q \in Readers : Seen(q))'
  BY <1>5, <1>8 DEF Pub!Finalize, Pub!Continue, Pub!outer, Pub!Current, Files
<1>9. ASSUME Pub!Unguard PROVE (\A q \in Readers : Seen(q))'
  BY <1>5, <1>9 DEF Pub!Unguard, Pub!Continue, Pub!journal, Pub!Current, FilesHold, Leads, Ready,
                    Guarded, Files
<1>10. ASSUME Pub!RecoverGuard PROVE (\A q \in Readers : Seen(q))'
  BY <1>5, <1>10 DEF Pub!RecoverGuard, Pub!journal, Pub!bounds, Pub!Current, FilesHold, Ready,
                     Guarded, Files, Pub!NoFile
<1>11. ASSUME UNCHANGED <<guard, fixed, complete, reader>> PROVE (\A q \in Readers : Seen(q))'
  BY <1>11 DEF Seen, Pub!Current
<1>12. \/ Pub!Begin \/ Pub!Prepare \/ Pub!WriteImmutable \/ Pub!WriteStage \/ Pub!Unstage
       \/ Pub!WriteTemp \/ Pub!WriteAuthTemp
       \/ Pub!LinkAuthority \/ Pub!UnlinkAuthTemp \/ Pub!Recover \/ Pub!RecoverTarget
       \/ Pub!RecoverFixed
       \/ Pub!StepFails
       \/ Pub!Stop \/ Pub!Crash \/ Pub!CrashWriting \/ UNCHANGED Pub!vars
       => UNCHANGED <<guard, fixed, complete, reader>>
  BY DEF Pub!Begin, Pub!Prepare, Pub!WriteImmutable, Pub!WriteStage, Pub!Unstage, Pub!WriteTemp,
         Pub!WriteAuthTemp, Pub!LinkAuthority,
         Pub!UnlinkAuthTemp, Pub!Recover, Pub!RecoverTarget, Pub!RecoverFixed, Pub!StepFails,
         Pub!Stop, Pub!Crash, Pub!CrashWriting, Pub!vars,
         Pub!Continue, Pub!Refuse, Pub!outer, Pub!authorities, Pub!journal, Pub!bounds
<1>. QED
  BY <1>1, <1>2, <1>3, <1>4, <1>6, <1>7, <1>8, <1>9, <1>10, <1>11, <1>12 DEF Pub!Next

\* The invariant holds in every state of every instance.
LEMMA PublicationInvariant == Pub!Spec => []PublicationInv
<1>1. Pub!Init => PublicationInv
  <2>. SUFFICES ASSUME Pub!Init PROVE PublicationInv
    OBVIOUS
  <2>1. PublicationTypes
    BY PartsAssumption DEF Pub!PublicationAssumption, Pub!Init, PublicationTypes, Numbers, Files,
                           HostSteps, Reads, Pub!NoRead, Pub!NoFile, Pub!None
  <2>2. FilesHold /\ Ready /\ Pub!RecoveryFinishes
    BY DEF Pub!Init, FilesHold, Ready, Preparing, Guarded, Pub!RecoveryFinishes, Pub!NoFile,
           Pub!None
  <2>3. \A r \in Readers : Seen(r)
    BY DEF Pub!Init, Seen, Pub!NoRead
  <2>. QED
    BY <2>1, <2>2, <2>3 DEF PublicationInv
<1>2. PublicationInv /\ [Pub!Next]_Pub!vars => PublicationInv'
  <2>. SUFFICES ASSUME PublicationInv, [Pub!Next]_Pub!vars PROVE PublicationInv'
    OBVIOUS
  <2>1. PublicationTypes'
    BY PublicationTypeStep, PartsAssumption DEF PublicationInv
  <2>2. FilesHold' /\ Ready' /\ Pub!RecoveryFinishes'
    BY <2>1, PublicationHostStep, PartsAssumption
  <2>3. (\A r \in Readers : Seen(r))'
    BY <2>1, <2>2, PublicationSeenStep, PartsAssumption
  <2>. QED
    BY <2>1, <2>2, <2>3 DEF PublicationInv
<1>. QED
  BY <1>1, <1>2, PTL DEF Pub!Spec

\* Readers get activated generations only, and never an older one than was current
\* when they began.
THEOREM ReadersAlwaysSeeActivated == Pub!Spec => []Pub!ReadersSeeActivated
<1>1. PublicationInv => Pub!ReadersSeeActivated
  BY DEF PublicationInv, Seen, Pub!ReadersSeeActivated
<1>. QED
  BY <1>1, PublicationInvariant, PartsAssumption, PTL

\* Guard, pointer, authority and journal agree at every point.
THEOREM StoresAlwaysAgree == Pub!Spec => []Pub!StoresAgree
<1>1. PublicationInv => Pub!StoresAgree
  BY DEF PublicationInv, FilesHold, Leads, Pub!StoresAgree
<1>. QED
  BY <1>1, PublicationInvariant, PartsAssumption, PTL

\* Only the listed files keep a start from finishing what was cut short.
THEOREM RecoveryAlwaysFinishes == Pub!Spec => []Pub!RecoveryFinishes
<1>1. PublicationInv => Pub!RecoveryFinishes
  BY DEF PublicationInv
<1>. QED
  BY <1>1, PublicationInvariant, PartsAssumption, PTL

-------------------------------------------------------------------------------
(* The composition *)

partsVars ==
  <<part, vars, hostVars, publicationVars, writerVars, ingestVars, ledgerVars, schedulerVars>>

\* A behaviour of the parts is, to the publication, one of its own or no step at all.
LEMMA PublicationPart == PartsSpec => Pub!Spec
<1>1. PartsInit => Pub!Init
  BY DEF PartsInit
<1>2. [PartsNext]_partsVars => [Pub!Next]_Pub!vars
  <2>1. UNCHANGED publicationVars => UNCHANGED Pub!vars
    BY DEF Pub!vars, Pub!outer, Pub!authorities, Pub!journal,
           Pub!bounds, publicationVars
  <2>. QED
    BY <2>1 DEF PartsNext, Only, partsVars
<1>. QED
  BY <1>1, <1>2, PTL DEF PartsSpec, Pub!Spec, partsVars

\* A reader of the pointer gets a complete generation, never an older one than was
\* current when it began.
THEOREM PartsReaders == PartsSpec => []ReadersSeeActivated
<1>1. Pub!Spec => []Pub!ReadersSeeActivated
  BY ReadersAlwaysSeeActivated
<1>2. Pub!ReadersSeeActivated => ReadersSeeActivated
  BY DEF ReadersSeeActivated
<1>. QED
  BY <1>1, <1>2, PublicationPart, PTL

\* Guard, pointer, authority and journal agree at every point of a publication.
THEOREM PartsStores == PartsSpec => []StoresAgree
<1>1. Pub!Spec => []Pub!StoresAgree
  BY StoresAlwaysAgree
<1>2. Pub!StoresAgree => StoresAgree
  BY DEF StoresAgree
<1>. QED
  BY <1>1, <1>2, PublicationPart, PTL

\* A publication that was cut short is finished by the next start, but for the files
\* the property lists.
THEOREM PartsRecovery == PartsSpec => []RecoveryFinishes
<1>1. Pub!Spec => []Pub!RecoveryFinishes
  BY RecoveryAlwaysFinishes
<1>2. Pub!RecoveryFinishes => RecoveryFinishes
  BY DEF RecoveryFinishes
<1>. QED
  BY <1>1, <1>2, PublicationPart, PTL

\* The same of the writers of the retrieval state.
LEMMA WritersPart == PartsSpec => Writers!Spec
<1>1. PartsInit => Writers!Init
  BY DEF PartsInit
<1>2. [PartsNext]_partsVars => [Writers!Next]_Writers!vars
  <2>1. UNCHANGED writerVars => UNCHANGED Writers!vars
    BY DEF Writers!vars, Writers!locks, Writers!authorities, writerVars
  <2>. QED
    BY <2>1 DEF PartsNext, Only, partsVars
<1>. QED
  BY <1>1, <1>2, PTL DEF PartsSpec, Writers!Spec, partsVars

\* One legacy, ingest or watcher process writes the retrieval state at a time, unless
\* recoveries overlap.
THEOREM PartsWriters == PartsSpec => []OneWriter
<1>1. Writers!Spec => []Writers!OneWriter
  BY PartsAssumption, Writers!OneWriterAtATime
<1>2. Writers!OneWriter => OneWriter
  BY DEF OneWriter
<1>. QED
  BY <1>1, <1>2, WritersPart, PTL

\* The same of the Graphiti ledger.
LEMMA LedgerPart == PartsSpec => Ledger!Spec
<1>1. PartsInit => Ledger!Init
  BY DEF PartsInit
<1>2. [PartsNext]_partsVars => [Ledger!Next]_Ledger!vars
  <2>1. UNCHANGED ledgerVars => UNCHANGED Ledger!vars
    BY DEF Ledger!vars, Ledger!ledger, Ledger!worker, ledgerVars
  <2>. QED
    BY <2>1 DEF PartsNext, Only, partsVars
<1>. QED
  BY <1>1, <1>2, PTL DEF PartsSpec, Ledger!Spec, partsVars

\* Only a whole graph, never quarantined or revoked, is published, one per scope.
THEOREM PartsPublished == PartsSpec => []PublishedIsWhole
<1>1. Ledger!Spec => []Ledger!PublishedIsWhole
  BY PublishedAlwaysWhole
<1>2. Ledger!PublishedIsWhole => PublishedIsWhole
  BY DEF PublishedIsWhole
<1>. QED
  BY <1>1, <1>2, LedgerPart, PTL

\* Nothing writes to the graph of a purged job.
THEOREM PartsPurged == PartsSpec => []PurgedStaysAbsent
<1>1. Ledger!Spec => []Ledger!PurgedStaysAbsent
  BY PurgedAlwaysAbsent
<1>2. Ledger!PurgedStaysAbsent => PurgedStaysAbsent
  BY DEF PurgedStaysAbsent
<1>. QED
  BY <1>1, <1>2, LedgerPart, PTL

\* The same of the scheduler of searches.
LEMMA SchedulerPart == PartsSpec => Pool!Spec
<1>1. PartsInit => Pool!Init
  BY DEF PartsInit
<1>2. [PartsNext]_partsVars => [Pool!Next]_Pool!vars
  <2>1. UNCHANGED schedulerVars => UNCHANGED Pool!vars
    BY DEF Pool!vars, schedulerVars
  <2>. QED
    BY <2>1 DEF PartsNext, Only, partsVars
<1>. QED
  BY <1>1, <1>2, PTL DEF PartsSpec, Pool!Spec, partsVars

\* No slot stays free while a search could have it, and waiting sessions and
\* credentials take turns.
THEOREM PartsWaiters == PartsSpec => []WaitersAreServed
<1>1. Pool!Spec => []Pool!WaitersAreServed
  BY PartsAssumption, Pool!WaitersAlwaysServed
<1>2. Pool!WaitersAreServed => WaitersAreServed
  BY DEF WaitersAreServed
<1>. QED
  BY <1>1, <1>2, SchedulerPart, PTL

\* The same of the ingest authority.
LEMMA ActivationPart == PartsSpec => Activation!Spec
<1>1. PartsInit => Activation!Init
  BY DEF PartsInit
<1>2. [PartsNext]_partsVars => [Activation!Next]_Activation!vars
  <2>1. UNCHANGED ingestVars => UNCHANGED Activation!vars
    BY DEF Activation!vars, Activation!guards, Activation!history, ingestVars
  <2>. QED
    BY <2>1 DEF PartsNext, Only, partsVars
<1>. QED
  BY <1>1, <1>2, PTL DEF PartsSpec, Activation!Spec, partsVars

\* A transition of the ingest authority happens as a whole or not at all.
THEOREM PartsTransitions == PartsSpec => []TransitionsComplete
<1>1. Activation!Spec => []Activation!TransitionsComplete
  BY PartsAssumption, Activation!TransitionsAlwaysComplete
<1>2. Activation!TransitionsComplete => TransitionsComplete
  BY DEF TransitionsComplete
<1>. QED
  BY <1>1, <1>2, ActivationPart, PTL

\* The same of the loop of a running host.
LEMMA HostPart == PartsSpec => Host!Spec
<1>1. PartsInit => Host!Init
  BY DEF PartsInit
<1>2. [PartsNext]_partsVars => [Host!Next]_Host!vars
  <2>1. UNCHANGED hostVars => UNCHANGED Host!vars
    BY DEF Host!vars, Host!left, Host!timers, Host!queue, Host!retryState, Host!history, hostVars
  <2>. QED
    BY <2>1 DEF PartsNext, Only, partsVars
<1>. QED
  BY <1>1, <1>2, PTL DEF PartsSpec, Host!Spec, partsVars

\* The host's variables have their types, and a stopping host has no timer armed.
THEOREM PartsHostTypes == PartsSpec => []HostTypeOK
<1>1. Host!Spec => []Host!HostTypeOK
  BY PartsAssumption, Host!HostTypeCorrect
<1>2. Host!HostTypeOK => HostTypeOK
  BY DEF HostTypeOK
<1>. QED
  BY <1>1, <1>2, HostPart, PTL

\* A failed reconciliation the journal holds stays armed for its retry.
THEOREM PartsRetries == PartsSpec => []FailureIsRetried
<1>1. Host!Spec => []Host!FailureIsRetried
  BY PartsAssumption, Host!FailureAlwaysRetried
<1>2. Host!FailureIsRetried => FailureIsRetried
  BY DEF FailureIsRetried
<1>. QED
  BY <1>1, <1>2, HostPart, PTL

\* What a delivered hint was about is committed or will be scanned.
THEOREM PartsHints == PartsSpec => []HintsReachAScan
<1>1. Host!Spec => []Host!HintsReachAScan
  BY PartsAssumption, Host!HintsAlwaysReachAScan
<1>2. Host!HintsReachAScan => HintsReachAScan
  BY DEF HintsReachAScan
<1>. QED
  BY <1>1, <1>2, HostPart, PTL

\* Coverage is evidence about the published generation.
THEOREM PartsCoverage == PartsSpec => []CoverageIsOfTheGeneration
<1>1. Host!Spec => []Host!CoverageIsOfTheGeneration
  BY PartsAssumption, Host!CoverageAlwaysOfTheGeneration
<1>2. Host!CoverageIsOfTheGeneration => CoverageIsOfTheGeneration
  BY DEF CoverageIsOfTheGeneration
<1>. QED
  BY <1>1, <1>2, HostPart, PTL

\* A search and a fresh status answer with content the vault had meanwhile.
THEOREM PartsAnswers == PartsSpec => []AnswersAreCurrent
<1>1. Host!Spec => []Host!AnswersAreCurrent
  BY PartsAssumption, Host!AnswersAlwaysCurrent
<1>2. Host!AnswersAreCurrent => AnswersAreCurrent
  BY DEF AnswersAreCurrent
<1>. QED
  BY <1>1, <1>2, HostPart, PTL
================================================================================
