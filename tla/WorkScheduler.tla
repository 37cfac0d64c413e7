------------------------------ MODULE WorkScheduler ------------------------------
(***************************************************************************)
(* ServiceWorkScheduler: the searches of a service, and the queries of the *)
(* Graphiti broker, wait for one of Slots slots.  Slots are given in two   *)
(* levels of round robin: credentials take turns, and within a credential  *)
(* its sessions do.  A session holds at most one slot and a credential at  *)
(* most CapOf of it; a slot stays taken until its holder releases it.      *)
(*                                                                         *)
(* Every method runs without an await, so each is one action, and the pump *)
(* it ends with is part of it.  valid() of a request turns false once and  *)
(* for good (stale), and nobody is told.  The limits are constants; the    *)
(* concurrency a credential asks with is always the same.                  *)
(***************************************************************************)
EXTENDS Naturals, FiniteSets, Sequences, SequencesExt

CONSTANTS
  Credentials, Sessions,
  Jobs,            \* requests, each made at most once
  PlaceOf,         \* the credential and session of a request
  CapOf,           \* slots a credential may hold
  Slots, QueueCap, CredentialCap, SessionCap

VARIABLES
  queue,           \* waiting requests, in the order they came
  credentials,     \* whose turn it is
  sessions,        \* of each credential, whose turn it is
  running,         \* requests that hold a slot
  settled,         \* requests that were refused, rejected or have released
  stale,           \* requests whose valid() is false
  stopped,
  passes           \* history: since a place could run, how often each credential and
                   \* each session of its own credential was chosen

vars == <<queue, credentials, sessions, running, settled, stale, stopped, passes>>

Places == Credentials \X Sessions

\* What the theorems about the scheduler assume.
SchedulerAssumption == PlaceOf \in [Jobs -> Places] /\ CapOf \in [Credentials -> Nat]

NoPasses == [credential |-> [c \in Credentials |-> 0], session |-> [x \in Sessions |-> 0]]

Init ==
  /\ queue = <<>> /\ credentials = <<>> /\ sessions = [c \in Credentials |-> <<>>]
  /\ running = {} /\ settled = {} /\ stale = {} /\ stopped = FALSE
  /\ passes = [p \in Places |-> NoPasses]

-------------------------------------------------------------------------------
(* A method works on the scheduler's state as a record.                    *)
Scheduler ==
  [queue |-> queue, credentials |-> credentials, sessions |-> sessions,
   running |-> running, settled |-> settled, stale |-> stale, stopped |-> stopped,
   passes |-> passes]

Waiting(s, p) == {j \in ToSet(s.queue) : PlaceOf[j] = p}
Holds(s, c) == {j \in s.running : PlaceOf[j][1] = c}
Active(s, p) == \E j \in s.running : PlaceOf[j] = p
UnderCap(s, c) == Cardinality(Holds(s, c)) < CapOf[c]

\* A place that would be given a slot if its turn came, and whose credential has
\* no dead request in the queue that could use the turn up.
CouldRun(s, p) ==
  /\ Waiting(s, p) # {} /\ ~Active(s, p) /\ UnderCap(s, p[1])
  /\ \A x \in Sessions : Waiting(s, <<p[1], x>>) \cap s.stale = {}

\* A place that cannot run starts to count anew.
Recount(s) ==
  [s EXCEPT !.passes = [p \in Places |-> IF CouldRun(s, p) THEN @[p] ELSE NoPasses]]

RemoveJob(s, j) ==
  LET c == PlaceOf[j][1]
      x == PlaceOf[j][2]
      left == [s EXCEPT !.queue = RemoveFirst(@, j), !.settled = @ \cup {j}]
  IN Recount([left EXCEPT
       !.sessions[c] = IF Waiting(left, <<c, x>>) = {} THEN RemoveFirst(@, x) ELSE @,
       !.credentials = IF \A y \in Sessions : Waiting(left, <<c, y>>) = {}
                       THEN RemoveFirst(@, c) ELSE @])

\* The loops go over a copy of the queue: after n entries, what is left of s.
Removed(s, js) ==
  LET left[n \in 0 .. Len(s.queue)] ==
        IF n = 0 THEN s
        ELSE IF s.queue[n] \in js THEN RemoveJob(left[n - 1], s.queue[n]) ELSE left[n - 1]
  IN left
RemoveAll(s, js) == Removed(s, js)[Len(s.queue)]

\* Mutant of After: the list does not move on.
MutantAfter(list, n) == list

\* The list after its first n entries have had their turn.
After(list, n) == SubSeq(list, n + 1, Len(list)) \o SubSeq(list, 1, n)

OpenSessions(s, c) == {k \in DOMAIN s.sessions[c] : ~Active(s, <<c, s.sessions[c][k]>>)}
Selectable(s) ==
  {i \in DOMAIN s.credentials :
     UnderCap(s, s.credentials[i]) /\ OpenSessions(s, s.credentials[i]) # {}}
First(indices) == CHOOSE i \in indices : \A k \in indices : i <= k

\* History: the places that could run all the while saw this one chosen.
CountPass(before, after, place) ==
  [after EXCEPT !.passes =
     [p \in Places |->
        IF CouldRun(before, p) /\ CouldRun(after, p)
        THEN [credential |-> [before.passes[p].credential EXCEPT ![place[1]] = @ + 1],
              session |-> IF place[1] # p[1] THEN before.passes[p].session
                          ELSE [before.passes[p].session EXCEPT ![place[2]] = @ + 1]]
        ELSE NoPasses]]

\* One round of the loop: the next selectable place takes its turn, and the turn is
\* used up also when the request it finds there is no longer valid.
PumpOnce(s) ==
  IF Cardinality(s.running) < Slots /\ Selectable(s) # {}
  THEN LET i == First(Selectable(s))
           c == s.credentials[i]
           k == First(OpenSessions(s, c))
           place == <<c, s.sessions[c][k]>>
           turned == [s EXCEPT !.credentials = After(@, i), !.sessions[c] = After(@, k)]
           job == s.queue[First({n \in DOMAIN s.queue : PlaceOf[s.queue[n]] = place})]
           rest == RemoveJob(turned, job)
       IN IF job \in s.stale THEN rest
          ELSE CountPass(s, [rest EXCEPT !.running = @ \cup {job}, !.settled = @ \ {job}], place)
  ELSE s

\* Every round that does anything takes a request out of the queue.
Rounds(s) ==
  LET after[n \in 0 .. Len(s.queue)] == IF n = 0 THEN s ELSE PumpOnce(after[n - 1])
  IN after
Pump(s) == IF s.stopped THEN s ELSE Rounds(s)[Len(s.queue)]

Become(s) ==
  /\ queue' = s.queue /\ credentials' = s.credentials /\ sessions' = s.sessions
  /\ running' = s.running /\ settled' = s.settled /\ stale' = s.stale /\ stopped' = s.stopped
  /\ passes' = Recount(s).passes

-------------------------------------------------------------------------------
WaitingOf(c) == UNION {Waiting(Scheduler, <<c, x>>) : x \in Sessions}

Refused(j) ==
  \/ stopped \/ j \in stale
  \/ Len(queue) >= QueueCap
  \/ Cardinality(WaitingOf(PlaceOf[j][1])) >= CredentialCap
  \/ Cardinality(Waiting(Scheduler, PlaceOf[j])) >= SessionCap

AddTo(list, x) == IF x \in ToSet(list) THEN list ELSE Append(list, x)

Enqueue(s, j) ==
  LET c == PlaceOf[j][1]
  IN [s EXCEPT !.queue = Append(@, j), !.credentials = AddTo(@, c),
               !.sessions[c] = AddTo(@, PlaceOf[j][2])]

Acquire(j) ==
  /\ j \notin ToSet(queue) \cup running \cup settled
  /\ Become(IF Refused(j) THEN [Scheduler EXCEPT !.settled = @ \cup {j}]
            ELSE Pump(Enqueue(Scheduler, j)))

\* Mutant of Release: nobody is given the slot.
MutantRelease(j) ==
  /\ j \in running
  /\ Become([Scheduler EXCEPT !.running = @ \ {j}, !.settled = @ \cup {j}])
Release(j) ==
  /\ j \in running
  /\ Become(Pump([Scheduler EXCEPT !.running = @ \ {j}, !.settled = @ \cup {j}]))

\* The caller's signal aborts, or the request has waited waitMs.
Withdraw(j) == j \in ToSet(queue) /\ Become(Pump(RemoveJob(Scheduler, j)))

CancelSession(p) ==
  Waiting(Scheduler, p) # {} /\ Become(Pump(RemoveAll(Scheduler, Waiting(Scheduler, p))))

\* The interval that rejects requests whose valid() turned false.
Sweep == ~stopped /\ Become(Pump(RemoveAll(Scheduler, stale)))

Close == Become(RemoveAll([Scheduler EXCEPT !.stopped = TRUE], Jobs))

\* The authority behind a request changes, before it has its slot.
Expire(j) == j \notin running \cup settled \cup stale /\ Become([Scheduler EXCEPT !.stale = @ \cup {j}])

Next ==
  \/ \E j \in Jobs : Acquire(j) \/ Release(j) \/ Withdraw(j) \/ Expire(j)
  \/ \E p \in Places : CancelSession(p)
  \/ Sweep
  \/ Close

Spec == Init /\ [][Next]_vars

-------------------------------------------------------------------------------
\* Work is conserved and turns are fair.  No slot is free while the pump would find
\* a request to give it to; and while a place could run, no other session of its
\* credential is chosen twice, and no other credential more than once between two
\* turns of its own, whatever comes, goes, expires or is released meanwhile.
SlotsAreUsed == ~stopped /\ Cardinality(running) < Slots => Selectable(Scheduler) = {}
TurnsAreFair ==
  \A p \in Places :
    /\ \A x \in Sessions : passes[p].session[x] <= 1
    /\ \A d \in Credentials \ {p[1]} :
         passes[p].credential[d] <= 1 + passes[p].credential[p[1]]
WaitersAreServed == SlotsAreUsed /\ TurnsAreFair
===============================================================================
