------------------------------- MODULE VaultLease -------------------------------
(***************************************************************************)
(* The single-writer lease of a vault (acquireVaultLease,                  *)
(* releaseVaultLease in src/navigation-effects/node/executor.ts): a file   *)
(* created exclusively, and the takeover of the file a dead process left.  *)
(*                                                                         *)
(* A process is one incarnation: once crashed it stays dead, and another   *)
(* member of Processes stands for its restart.  Each file operation is one *)
(* step; a lease is the number of the creation that made it, which stands  *)
(* for its bytes and their digest (pid, host and acquiredAt differ).       *)
(***************************************************************************)
EXTENDS Naturals, FiniteSets

CONSTANTS
    Processes,   \* process incarnations with an executor of this vault
    HostOf,      \* hostname() of each process
    NoLease,     \* vault.lease does not exist
    MaxLeases    \* bound: how often the file is created

ASSUME LeaseAssumption ==
    /\ MaxLeases \in Nat
    /\ NoLease \notin [owner : Processes, id : 1 .. MaxLeases, written : BOOLEAN]

LeaseIds == 1 .. MaxLeases
Lease == [owner : Processes, id : LeaseIds, written : BOOLEAN]
Tries == 2   \* for (attempt = 0; attempt < 2; ...)

VARIABLES
    lease,       \* the file vault.lease
    created,     \* how many leases have been created
    quarantine,  \* recovery/stale-lease-<digest>.json: the lease filed under each digest
    cleaned,     \* digests with a stale-lease receipt
    alive,       \* processes that have not crashed
    held,        \* leaseHandle: the lease each process created, or 0
    pc,          \* next file operation of each process
    attempt,     \* loop counter of the acquisition in progress
    seen,        \* the stale lease each process read
    overlap      \* history: two takeovers were under way at once

vars == <<lease, created, quarantine, cleaned, alive, held, pc, attempt, seen, overlap>>

Init ==
    /\ lease = NoLease
    /\ created = 0
    /\ quarantine = [d \in LeaseIds |-> 0]
    /\ cleaned = {}
    /\ alive = Processes
    /\ held = [p \in Processes |-> 0]
    /\ pc = [p \in Processes |-> "idle"]
    /\ attempt = [p \in Processes |-> 0]
    /\ seen = [p \in Processes |-> 0]
    /\ overlap = FALSE

At(p, step) == p \in alive /\ pc[p] = step
Goto(p, step) == pc' = [pc EXCEPT ![p] = step]

\* acquireVaultLease returns at once when the handle is already open.
Acquire(p) ==
    /\ At(p, "idle") /\ held[p] = 0
    /\ attempt' = [attempt EXCEPT ![p] = 0]
    /\ Goto(p, "create")
    /\ UNCHANGED <<lease, created, quarantine, cleaned, alive, held, seen, overlap>>

\* open(leasePath, "wx")
Create(p) ==
    /\ At(p, "create")
    /\ \/ /\ lease = NoLease
          /\ created < MaxLeases
          /\ created' = created + 1
          /\ lease' = [owner |-> p, id |-> created', written |-> FALSE]
          /\ held' = [held EXCEPT ![p] = created']
          /\ Goto(p, "write")
       \/ /\ lease # NoLease
          /\ Goto(p, "read")
          /\ UNCHANGED <<lease, created, held>>
    /\ UNCHANGED <<quarantine, cleaned, alive, attempt, seen, overlap>>

\* writeFile and sync; the bytes follow the open file wherever it was moved.
\* When they fail the acquisition throws, but the handle stays open.
WriteLease(p) ==
    /\ At(p, "write")
    /\ \/ /\ lease # NoLease
          /\ lease.id = held[p]
          /\ lease' = [lease EXCEPT !.written = TRUE]
       \/ UNCHANGED lease
    /\ Goto(p, "idle")
    /\ UNCHANGED <<created, quarantine, cleaned, alive, held, attempt, seen, overlap>>

\* Mutant of KnownDead: the pid of the lease is not looked up.
MutantKnownDead(p, o) == HostOf[o] = HostOf[p]

\* A process on another host is never known to be dead.
KnownDead(p, o) == HostOf[o] = HostOf[p] /\ o \notin alive

\* VAULT_LEASE_CORRUPT if the file is gone or empty; VAULT_LEASE_HELD if its
\* process may be alive, which a reused pid also says of a dead one.
ReadPrior(p) ==
    /\ At(p, "read")
    /\ \/ /\ lease # NoLease /\ lease.written /\ KnownDead(p, lease.owner)
          /\ seen' = [seen EXCEPT ![p] = lease.id]
          /\ overlap' = (overlap \/ \E q \in alive \ {p} : pc[q] = "move")
          /\ Goto(p, "move")
       \/ /\ Goto(p, "idle")
          /\ UNCHANGED <<seen, overlap>>
    /\ UNCHANGED <<lease, created, quarantine, cleaned, alive, held, attempt>>

\* Mutant of Retry: the loop runs once more than it may.
MutantRetry(p) ==
    /\ attempt' = [attempt EXCEPT ![p] = @ + 1]
    /\ Goto(p, IF attempt'[p] <= Tries THEN "create" ELSE "idle")

Retry(p) ==
    /\ attempt' = [attempt EXCEPT ![p] = @ + 1]
    /\ Goto(p, IF attempt'[p] < Tries THEN "create" ELSE "idle")

\* Mutant of Quarantine: the stale file is deleted instead of renamed.
MutantQuarantine(p) ==
    /\ At(p, "move") /\ lease # NoLease
    /\ lease' = NoLease
    /\ Goto(p, "receipt")
    /\ UNCHANGED <<created, quarantine, cleaned, alive, held, attempt, seen, overlap>>

\* rename(leasePath, quarantine): moves whatever file is there now to the name
\* of the lease that was read.
Quarantine(p) ==
    /\ At(p, "move")
    /\ \/ /\ lease = NoLease    \* ENOENT
          /\ Retry(p)
          /\ UNCHANGED <<lease, quarantine>>
       \/ /\ lease # NoLease
          /\ quarantine' = [quarantine EXCEPT ![seen[p]] = lease.id]
          /\ lease' = NoLease
          /\ Goto(p, "receipt")
          /\ UNCHANGED attempt
    /\ UNCHANGED <<created, cleaned, alive, held, seen, overlap>>

WriteCleanupReceipt(p) ==
    /\ At(p, "receipt")
    /\ cleaned' = cleaned \cup {seen[p]}
    /\ Retry(p)
    /\ UNCHANGED <<lease, created, quarantine, alive, held, seen, overlap>>

\* releaseVaultLease closes and forgets the handle, then removes the file.
Release(p) ==
    /\ At(p, "idle") /\ held[p] # 0
    /\ held' = [held EXCEPT ![p] = 0]
    /\ Goto(p, "remove")
    /\ UNCHANGED <<lease, created, quarantine, cleaned, alive, attempt, seen, overlap>>

RemoveLease(p) ==
    /\ At(p, "remove")
    /\ lease' = NoLease
    /\ Goto(p, "idle")
    /\ UNCHANGED <<created, quarantine, cleaned, alive, held, attempt, seen, overlap>>

Crash(p) ==
    /\ p \in alive
    /\ alive' = alive \ {p}
    /\ held' = [held EXCEPT ![p] = 0]
    /\ Goto(p, "idle")
    /\ UNCHANGED <<lease, created, quarantine, cleaned, attempt, seen, overlap>>

Next ==
    \E p \in Processes :
        \/ Acquire(p) \/ Create(p) \/ WriteLease(p) \/ ReadPrior(p) \/ Quarantine(p)
        \/ WriteCleanupReceipt(p) \/ Release(p) \/ RemoveLease(p) \/ Crash(p)

Spec == Init /\ [][Next]_vars

-------------------------------------------------------------------------------
\* The process may write to the vault: its acquisition has returned.
Holds(p) == At(p, "idle") /\ held[p] # 0

\* The state variables have the types the code gives them; the acquisition loop
\* gives up after two attempts.
TypeOK ==
    /\ lease \in Lease \cup {NoLease}
    /\ created \in 0 .. MaxLeases
    /\ quarantine \in [LeaseIds -> 0 .. MaxLeases]
    /\ cleaned \in SUBSET LeaseIds
    /\ alive \in SUBSET Processes
    /\ held \in [Processes -> 0 .. MaxLeases]
    /\ pc \in [Processes -> {"idle", "create", "write", "read", "move", "receipt", "remove"}]
    /\ attempt \in [Processes -> 0 .. Tries]
    /\ seen \in [Processes -> 0 .. MaxLeases]
    /\ \A p \in Processes :
           /\ pc[p] \in {"create", "read", "move", "receipt"} => attempt[p] < Tries
           /\ pc[p] \in {"move", "receipt"} => seen[p] \in LeaseIds
    /\ overlap \in BOOLEAN

\* One process writes at a time, whatever crashes, as long as no two processes
\* ever took over a stale lease at once.
ExclusiveUnlessTakeoversOverlap ==
    ~overlap => \A p, q \in Processes : Holds(p) /\ Holds(q) => p = q

\* Without overlapping takeovers a quarantined lease is filed under its own
\* digest, and a stale-lease receipt always has its quarantined lease.
QuarantineNamesItsLease ==
    ~overlap => /\ \A d \in LeaseIds : quarantine[d] \in {0, d}
                /\ \A d \in cleaned : quarantine[d] = d

\* The lease makes the executor the single writer of the vault.
SingleWriter == \A p, q \in Processes : Holds(p) /\ Holds(q) => p = q
================================================================================
