------------------------------ MODULE GraphitiLedger ------------------------------
(***************************************************************************)
(* The managed Graphiti adapter: a ledger of projection jobs, the workers  *)
(* that fill one graph per job under a lease, and the host's publication,  *)
(* revocation, expiry and purge.  A job stands for its binding and its     *)
(* manifest, from which its id is computed; every ledger method is one     *)
(* SQLite transaction and one action, and so is what a worker does between *)
(* two awaits of its backend.                                              *)
(*                                                                         *)
(* A backend call that timed out may still take effect while its process   *)
(* lives (late).  writer_stopped is the host's evidence that the processes *)
(* that claimed a job have ended; a worker that ends is replaced by a new  *)
(* process.  Times are abstract: a lease expires at any moment.            *)
(***************************************************************************)
EXTENDS Naturals, FiniteSets

CONSTANTS
  Jobs, ScopeOf, CorpusOf,
  Episodes,        \* number of episodes of every manifest
  Workers,
  Capacity,        \* of the queue
  MaxChanges,      \* bound: changes of the authorized source, its first appearance included
  NoJob, NoWorker

\* What the theorems assume of the constants.
LedgerAssumption ==
  /\ Episodes \in Nat
  /\ NoJob \notin Jobs /\ NoWorker \notin Workers

VARIABLES
  state, token, expired,   \* of each job: the ledger's row
  current,         \* of each scope, the job the authorized source calls for now
  changes,
  graph,           \* of each job, the episodes its graph holds
  pc, work, mapped,   \* of each worker: where it is, its job, episodes it has verified
  late,            \* of each worker, calls that timed out and may still take effect
  claimed,         \* of each worker, jobs its process has claimed
  purge,           \* the host's purge: its step and job
  fenced           \* history: jobs once quarantined, revoked or purged

ledger == <<state, token, expired, fenced>>
worker == <<pc, work, mapped, late, claimed>>
vars == <<ledger, worker, current, changes, graph, purge>>

Scopes == {ScopeOf[j] : j \in Jobs}
States == {"none", "queued", "running", "observed", "published", "quarantined", "revoked", "purged"}
Fenced == {"quarantined", "revoked", "purged"}

Init ==
  /\ state = [j \in Jobs |-> "none"] /\ token = [j \in Jobs |-> NoWorker]
  /\ expired = [j \in Jobs |-> FALSE] /\ fenced = {}
  /\ current = [s \in Scopes |-> NoJob] /\ changes = 0
  /\ graph = [j \in Jobs |-> {}]
  /\ pc = [w \in Workers |-> "idle"] /\ work = [w \in Workers |-> NoJob]
  /\ mapped = [w \in Workers |-> 0] /\ late = [w \in Workers |-> {}]
  /\ claimed = [w \in Workers |-> {}]
  /\ purge = [step |-> "idle", job |-> NoJob]

-------------------------------------------------------------------------------
(* The ledger's rows.                                                      *)
Enter(s) == /\ state' = s
            /\ fenced' = fenced \cup {j \in Jobs : s[j] \in Fenced}

Authorized(j) == current[ScopeOf[j]] = j

\* Mutant of Lease: the state of the job is not looked at.
MutantLease(w, j) == token[j] = w /\ ~expired[j]
Lease(w, j) == state[j] = "running" /\ token[j] = w /\ ~expired[j]

Held == {j \in Jobs : state[j] \in {"queued", "running", "observed", "quarantined"}}

Goto(w, step) == pc' = [pc EXCEPT ![w] = step]
Idle(w) == /\ Goto(w, "idle") /\ work' = [work EXCEPT ![w] = NoJob]
           /\ mapped' = [mapped EXCEPT ![w] = 0]

-------------------------------------------------------------------------------
(* A worker.                                                               *)
Enqueue(w, s) ==
  LET j == current[s]
  IN /\ pc[w] = "idle" /\ j # NoJob
     /\ \/ state[j] # "none" /\ UNCHANGED <<state, fenced>>
        \/ state[j] = "none" /\ Cardinality(Held) < Capacity
           /\ Enter([state EXCEPT ![j] = "queued"])
     /\ Goto(w, "claim") /\ work' = [work EXCEPT ![w] = j]
     /\ UNCHANGED <<token, expired, mapped, late, claimed, current, changes, graph, purge>>

Claim(w) ==
  LET j == work[w]
  IN /\ pc[w] = "claim"
     /\ IF state[j] = "queued"
        THEN /\ Enter([state EXCEPT ![j] = "running"])
             /\ token' = [token EXCEPT ![j] = w] /\ expired' = [expired EXCEPT ![j] = FALSE]
             /\ claimed' = [claimed EXCEPT ![w] = @ \cup {j}]
             /\ Goto(w, "initialize") /\ UNCHANGED <<work, mapped>>
        ELSE Idle(w) /\ UNCHANGED <<ledger, claimed>>
     /\ UNCHANGED <<late, current, changes, graph, purge>>

\* check(): the source still calls for this job, and the lease could be renewed.
Check(w) == Authorized(work[w]) /\ Lease(w, work[w])

Checked(w, step, next) ==
  /\ pc[w] = step /\ Check(w) /\ Goto(w, next)
  /\ UNCHANGED <<ledger, work, late, claimed, current, changes, graph, purge>>

Initialized(w) == Checked(w, "initialize", "add") /\ UNCHANGED mapped
Add(w) == mapped[w] < Episodes /\ Checked(w, "add", "adding") /\ UNCHANGED mapped

\* The backend's add takes effect and returns.
Added(w) ==
  /\ pc[w] = "adding" /\ Goto(w, "added")
  /\ graph' = [graph EXCEPT ![work[w]] = @ \cup {mapped[w] + 1}]
  /\ UNCHANGED <<ledger, work, mapped, late, claimed, current, changes, purge>>

Match(w) == Checked(w, "added", "matching") /\ UNCHANGED mapped

Matched(w) ==
  /\ Checked(w, "matching", "add") /\ mapped[w] + 1 \in graph[work[w]]
  /\ mapped' = [mapped EXCEPT ![w] = @ + 1]

\* Also what an exception, a timeout or a cancellation ends with.
Quarantine(w) ==
  LET j == work[w]
  IN IF state[j] = "running" /\ token[j] = w
     THEN Enter([state EXCEPT ![j] = "quarantined"]) ELSE UNCHANGED <<state, fenced>>

Observe(w) ==
  LET j == work[w]
  IN /\ pc[w] = "add" /\ mapped[w] = Episodes /\ Check(w)
     /\ Enter([state EXCEPT ![j] = "observed"])
     /\ token' = [token EXCEPT ![j] = NoWorker] /\ expired' = [expired EXCEPT ![j] = FALSE]
     /\ Idle(w)
     /\ UNCHANGED <<late, claimed, current, changes, graph, purge>>

\* A check refuses, or the backend raises; an add that raises may still land.
Fail(w) ==
  /\ pc[w] \in {"initialize", "add", "adding", "added", "matching"}
  /\ Quarantine(w) /\ Idle(w)
  /\ \/ late' = late
     \/ pc[w] = "adding" /\ late' = [late EXCEPT ![w] = @ \cup {<<work[w], mapped[w] + 1>>}]
  /\ UNCHANGED <<token, expired, claimed, current, changes, graph, purge>>

LateAdd(w) ==
  \E call \in late[w] :
    /\ graph' = [graph EXCEPT ![call[1]] = @ \cup {call[2]}]
    /\ late' = [late EXCEPT ![w] = @ \ {call}]
    /\ UNCHANGED <<ledger, pc, work, mapped, claimed, current, changes, purge>>

\* The process ends, and with it what it had in flight.
End(w) ==
  /\ Idle(w) /\ late' = [late EXCEPT ![w] = {}] /\ claimed' = [claimed EXCEPT ![w] = {}]
  /\ UNCHANGED <<ledger, current, changes, graph, purge>>

-------------------------------------------------------------------------------
(* The host.                                                               *)
\* Mutant of Revoked: the old generation stays published.
MutantRevoked(j) == {}
Revoked(j) == {k \in Jobs : state[k] = "published" /\ ScopeOf[k] = ScopeOf[j]}

Publish(j) ==
  /\ Authorized(j) /\ state[j] = "observed"
  /\ Enter([k \in Jobs |-> IF k = j THEN "published"
                           ELSE IF k \in Revoked(j) THEN "revoked" ELSE state[k]])
  /\ UNCHANGED <<token, expired, worker, current, changes, graph, purge>>

Revoke(corpus) ==
  /\ \E j \in Jobs : CorpusOf[j] = corpus /\ state[j] \notin {"none", "revoked", "purged"}
  /\ Enter([j \in Jobs |-> IF CorpusOf[j] = corpus /\ state[j] \notin {"none", "purged"}
                           THEN "revoked" ELSE state[j]])
  /\ UNCHANGED <<token, expired, worker, current, changes, graph, purge>>

QuarantineExpired ==
  /\ \E j \in Jobs : state[j] = "running" /\ expired[j]
  /\ Enter([j \in Jobs |-> IF state[j] = "running" /\ expired[j] THEN "quarantined" ELSE state[j]])
  /\ UNCHANGED <<token, expired, worker, current, changes, graph, purge>>

\* Mutant of WriterStopped: a job without a running lease has no writer.
MutantWriterStopped(j) == state[j] # "running"
WriterStopped(j) == \A w \in Workers : j \notin claimed[w]

PurgeUnchanged == UNCHANGED <<token, expired, worker, current, changes>>

BeginPurge(j) ==
  /\ purge.step = "idle" /\ state[j] \in {"quarantined", "revoked"} /\ WriterStopped(j)
  /\ purge' = [step |-> "delete", job |-> j]
  /\ PurgeUnchanged /\ UNCHANGED <<state, fenced, graph>>

DeleteGraph ==
  /\ purge.step = "delete"
  /\ graph' = [graph EXCEPT ![purge.job] = {}] /\ purge' = [purge EXCEPT !.step = "verify"]
  /\ PurgeUnchanged /\ UNCHANGED <<state, fenced>>

EndPurge == purge' = [step |-> "idle", job |-> NoJob]

FindAbsent ==
  /\ purge.step = "verify"
  /\ IF WriterStopped(purge.job) /\ graph[purge.job] = {} THEN purge' = [purge EXCEPT !.step = "mark"] ELSE EndPurge
  /\ PurgeUnchanged /\ UNCHANGED <<state, fenced, graph>>

MarkPurged ==
  LET ok == WriterStopped(purge.job) /\ state[purge.job] \in {"quarantined", "revoked"}
  IN /\ purge.step = "mark" /\ EndPurge
     /\ Enter(IF ok THEN [state EXCEPT ![purge.job] = "purged"] ELSE state)
     /\ token' = [token EXCEPT ![purge.job] = IF ok THEN NoWorker ELSE @]
     /\ UNCHANGED <<expired, worker, current, changes, graph>>

-------------------------------------------------------------------------------
ExpireLease(j) ==
  /\ state[j] = "running" /\ ~expired[j] /\ expired' = [expired EXCEPT ![j] = TRUE]
  /\ UNCHANGED <<state, token, fenced, worker, current, changes, graph, purge>>

\* The source, its policy or the configuration change; the authority may be gone.
ChangeSource(s) ==
  /\ changes < MaxChanges /\ changes' = changes + 1
  /\ \E j \in {k \in Jobs : ScopeOf[k] = s} \cup {NoJob} : current' = [current EXCEPT ![s] = j]
  /\ UNCHANGED <<ledger, worker, graph, purge>>

Next ==
  \/ \E w \in Workers :
       \/ \E s \in Scopes : Enqueue(w, s)
       \/ Claim(w) \/ Initialized(w) \/ Add(w) \/ Added(w) \/ Match(w) \/ Matched(w)
       \/ Observe(w) \/ Fail(w) \/ LateAdd(w) \/ End(w)
  \/ \E j \in Jobs : Publish(j) \/ BeginPurge(j) \/ ExpireLease(j)
  \/ \E corpus \in {CorpusOf[j] : j \in Jobs} : Revoke(corpus)
  \/ QuarantineExpired \/ DeleteGraph \/ FindAbsent \/ MarkPurged
  \/ \E s \in Scopes : ChangeSource(s)

Spec == Init /\ [][Next]_vars

-------------------------------------------------------------------------------
\* What can be or become readable is whole, was never quarantined or revoked, also
\* when its worker was late, and is the only published generation of its scope.
PublishedIsWhole ==
  \A j \in Jobs : state[j] \in {"observed", "published"} =>
    /\ graph[j] = 1..Episodes
    /\ j \notin fenced
    /\ state[j] = "published" =>
         \A k \in Jobs \ {j} : state[k] = "published" => ScopeOf[k] # ScopeOf[j]

\* The graph of a purged job is empty and stays so: no call of a worker that timed
\* out, or that did not notice it was fenced, writes to it afterwards.
PurgedStaysAbsent ==
  \A j \in Jobs : state[j] = "purged" =>
    /\ graph[j] = {}
    /\ \A w \in Workers : ~(pc[w] = "adding" /\ work[w] = j) /\ \A e \in 1..Episodes : <<j, e>> \notin late[w]
===============================================================================
