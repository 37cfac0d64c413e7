---------------------------- MODULE SchedulerProofs ----------------------------
(***************************************************************************)
(* The scheduler of searches conserves work and takes turns fairly, for    *)
(* any requests, credentials, sessions, caps and limits, whatever arrives, *)
(* expires, is cancelled or released meanwhile.                            *)
(***************************************************************************)
EXTENDS WorkScheduler, TLAPS, FiniteSetTheorems, NaturalsInduction, SequenceTheorems,
        WellFoundedInduction

-------------------------------------------------------------------------------
(* Lists without repetition *)

\* No entry of a list occurs twice; a comes before b in it.
Distinct(list) == \A i, k \in DOMAIN list : list[i] = list[k] => i = k
Before(list, a, b) == \E i, k \in DOMAIN list : i < k /\ list[i] = a /\ list[k] = b

\* The first of the indices.
LEMMA FirstIn ==
    ASSUME NEW T, T \subseteq Nat, T # {}
    PROVE  First(T) \in T /\ \A k \in T : First(T) <= k
<1>1. IsWellFoundedOn(OpToRel(<, Nat), Nat)
  BY NatLessThanWellFounded
<1>2. PICK x \in T : \A y \in T : ~ (<<y, x>> \in OpToRel(<, Nat))
  BY <1>1, WFMin
<1>3. \A y \in T : <<y, x>> \in OpToRel(<, Nat) <=> y < x
  BY DEF OpToRel
<1>4. \A y \in T : ~ (y < x)
  BY <1>2, <1>3, Zenon
<1>5. \E i \in T : \A k \in T : i <= k
  BY <1>4
<1>. QED
  BY <1>5 DEF First

\* A list without its n-th entry.
LEMMA WithoutOne ==
    ASSUME NEW S, NEW list \in Seq(S), NEW n \in 1 .. Len(list)
    PROVE  /\ RemoveAt(list, n) \in Seq(S) /\ Len(RemoveAt(list, n)) = Len(list) - 1
           /\ \A k \in 1 .. Len(list) - 1 :
                RemoveAt(list, n)[k] = IF k < n THEN list[k] ELSE list[k + 1]
<1>. DEFINE front == SubSeq(list, 1, n - 1)
            back == SubSeq(list, n + 1, Len(list))
<1>1. front \in Seq(S) /\ Len(front) = n - 1 /\ \A k \in 1 .. n - 1 : front[k] = list[k]
  OBVIOUS
<1>2. /\ back \in Seq(S) /\ Len(back) = Len(list) - n
      /\ \A k \in 1 .. Len(list) - n : back[k] = list[k + n]
  OBVIOUS
<1>3. RemoveAt(list, n) = front \o back
  BY DEF RemoveAt
<1>4. Len(list) \in Nat
  OBVIOUS
<1>. HIDE DEF front, back
<1>5. /\ front \o back \in Seq(S) /\ Len(front \o back) = Len(front) + Len(back)
      /\ \A k \in 1 .. Len(front) + Len(back) :
           (front \o back)[k] = IF k <= Len(front) THEN front[k] ELSE back[k - Len(front)]
  BY <1>1, <1>2, ConcatProperties
<1>6. Len(front) + Len(back) = Len(list) - 1
  BY <1>1, <1>2, <1>4
<1>7. ASSUME NEW k \in 1 .. Len(list) - 1
      PROVE  (front \o back)[k] = IF k < n THEN list[k] ELSE list[k + 1]
  <2>1. CASE k < n
    <3>1. k <= Len(front) /\ k \in 1 .. n - 1
      BY <2>1, <1>1, <1>4
    <3>. QED
      BY <3>1, <2>1, <1>1, <1>5, <1>6
  <2>2. CASE ~ (k < n)
    <3>1. /\ ~ (k <= Len(front)) /\ k - Len(front) \in 1 .. Len(list) - n
          /\ (k - Len(front)) + n = k + 1
      BY <2>2, <1>1, <1>4
    <3>2. (front \o back)[k] = back[k - Len(front)]
      BY <3>1, <1>5, <1>6
    <3>. QED
      BY <3>1, <3>2, <2>2, <1>2
  <2>. QED
    BY <2>1, <2>2
<1>. QED
  BY <1>3, <1>5, <1>6, <1>7

\* A list without an entry that occurs once.
LEMMA ListWithout ==
    ASSUME NEW S, NEW list \in Seq(S), Distinct(list), NEW x
    PROVE  /\ RemoveFirst(list, x) \in Seq(S) /\ Distinct(RemoveFirst(list, x))
           /\ ToSet(RemoveFirst(list, x)) = ToSet(list) \ {x}
           /\ x \in ToSet(list) => Len(RemoveFirst(list, x)) = Len(list) - 1
           /\ \A a, b : Before(RemoveFirst(list, x), a, b) => Before(list, a, b)
<1>1. CASE x \notin ToSet(list)
  <2>1. RemoveFirst(list, x) = list
    BY <1>1 DEF RemoveFirst, ToSet
  <2>. QED
    BY <1>1, <2>1
<1>2. CASE x \in ToSet(list)
  <2>1. PICK n \in 1 .. Len(list) : list[n] = x
    BY <1>2 DEF ToSet
  <2>2. {i \in 1 .. Len(list) : list[i] = x} = {n}
    BY <2>1 DEF Distinct
  <2>3. SelectInSeq(list, LAMBDA v : v = x) = n
    BY <2>2 DEF SelectInSeq, Min
  <2>4. RemoveFirst(list, x) = RemoveAt(list, n)
    BY <2>1, <2>3 DEF RemoveFirst
  <2>. DEFINE new == RemoveFirst(list, x)
  <2>6. /\ new \in Seq(S) /\ Len(new) = Len(list) - 1
        /\ \A k \in 1 .. Len(new) : new[k] = IF k < n THEN list[k] ELSE list[k + 1]
    BY <2>4, WithoutOne
  <2>. HIDE DEF new
  <2>7. Distinct(new)
    <3>1. DOMAIN new = 1 .. Len(new) /\ DOMAIN list = 1 .. Len(list) /\ Len(list) \in Nat
      BY <2>6
    <3>. DEFINE at(k) == IF k < n THEN k ELSE k + 1
    <3>2. \A k \in 1 .. Len(new) : at(k) \in 1 .. Len(list) /\ new[k] = list[at(k)]
      BY <2>6, <3>1
    <3>3. \A i, k \in 1 .. Len(new) : at(i) = at(k) => i = k
      BY <2>6, <3>1
    <3>. HIDE DEF at
    <3>. QED
      BY <3>1, <3>2, <3>3 DEF Distinct
  <2>8. ToSet(new) \subseteq ToSet(list) \ {x}
    BY <2>6, <2>1 DEF Distinct, ToSet
  <2>9. ASSUME NEW e \in ToSet(list) \ {x}
        PROVE  e \in ToSet(new)
    <3>1. PICK k \in 1 .. Len(list) : list[k] = e /\ k # n
      BY <2>9, <2>1 DEF ToSet
    <3>2. CASE k < n
      <4>1. k \in 1 .. Len(new) /\ new[k] = e
        BY <3>1, <3>2, <2>6, <2>1
      <4>. QED
        BY <4>1, <2>6 DEF ToSet
    <3>3. CASE k > n
      <4>1. k - 1 \in 1 .. Len(new) /\ new[k - 1] = e
        BY <3>1, <3>3, <2>6, <2>1
      <4>. QED
        BY <4>1, <2>6 DEF ToSet
    <3>. QED
      BY <3>1, <3>2, <3>3
  <2>10. \A a, b : Before(new, a, b) => Before(list, a, b)
    <3> SUFFICES ASSUME NEW a, NEW b, Before(new, a, b)
                 PROVE  Before(list, a, b)
      OBVIOUS
    <3>1. PICK i, k \in 1 .. Len(new) : i < k /\ new[i] = a /\ new[k] = b
      BY <2>6 DEF Before
    <3>. DEFINE at(m) == IF m < n THEN m ELSE m + 1
    <3>2. at(i) \in 1 .. Len(list) /\ at(k) \in 1 .. Len(list) /\ at(i) < at(k)
          /\ list[at(i)] = a /\ list[at(k)] = b
      BY <3>1, <2>6, <2>1
    <3>. HIDE DEF at
    <3>. QED
      BY <3>2 DEF Before
  <2>. QED
    BY <2>6, <2>7, <2>8, <2>9, <2>10 DEF new
<1>. QED
  BY <1>1, <1>2

\* The n entries that had their turn come after all others.
LEMMA ListAfter ==
    ASSUME NEW S, NEW list \in Seq(S), Distinct(list), NEW n \in 1 .. Len(list)
    PROVE  /\ After(list, n) \in Seq(S) /\ Distinct(After(list, n))
           /\ ToSet(After(list, n)) = ToSet(list)
           /\ \A a, b : \A k \in n + 1 .. Len(list) :
                list[k] = b /\ Before(After(list, n), a, b) => Before(list, a, b) /\ a # list[n]
<1>. DEFINE new == After(list, n)
<1>1. new = SubSeq(list, n + 1, Len(list)) \o SubSeq(list, 1, n)
  BY DEF After
<1>2. /\ new \in Seq(S) /\ Len(new) = Len(list)
      /\ \A k \in 1 .. Len(new) :
           new[k] = IF k <= Len(list) - n THEN list[k + n] ELSE list[k - (Len(list) - n)]
  BY <1>1
<1>. HIDE DEF new
<1>. DEFINE from(k) == IF k <= Len(list) - n THEN k + n ELSE k - (Len(list) - n)
<1>3. \A k \in 1 .. Len(new) : from(k) \in 1 .. Len(list) /\ new[k] = list[from(k)]
  BY <1>2
<1>4. \A i, k \in 1 .. Len(new) : from(i) = from(k) => i = k
  BY <1>2
<1>5. Distinct(new)
  <2>1. DOMAIN new = 1 .. Len(new)
    BY <1>2
  <2>. HIDE DEF from
  <2>2. \A i, k \in 1 .. Len(new) : new[i] = new[k] => from(i) = from(k)
    BY <1>3 DEF Distinct
  <2>. QED
    BY <2>1, <2>2, <1>4 DEF Distinct
<1>6. ToSet(new) \subseteq ToSet(list)
  <2>1. DOMAIN new = 1 .. Len(new)
    BY <1>2
  <2>. HIDE DEF from
  <2>. QED
    BY <2>1, <1>3 DEF ToSet
<1>7. ASSUME NEW m \in 1 .. Len(list)
      PROVE  \E k \in 1 .. Len(new) : new[k] = list[m]
  <2>1. CASE m > n
    <3>1. m - n \in 1 .. Len(new) /\ new[m - n] = list[m]
      BY <1>2, <2>1
    <3>. QED
      BY <3>1
  <2>2. CASE m <= n
    <3>1. Len(list) \in Nat /\ Len(new) = Len(list)
      BY <1>2
    <3>. DEFINE k == m + (Len(list) - n)
    <3>2. k \in 1 .. Len(list)
      BY <3>1, <2>2
    <3>3. ~ (k <= Len(list) - n) /\ k - (Len(list) - n) = m
      BY <3>1
    <3>. HIDE DEF k
    <3>4. new[k] = list[m]
      BY <3>1, <3>2, <3>3, <1>2
    <3>. QED
      BY <3>1, <3>2, <3>4
  <2>. QED
    BY <2>1, <2>2
<1>8. ToSet(list) \subseteq ToSet(new)
  BY <1>7, <1>2 DEF ToSet
<1>9. ASSUME NEW a, NEW b, NEW k \in n + 1 .. Len(list), list[k] = b, Before(new, a, b)
      PROVE  Before(list, a, b) /\ a # list[n]
  <2>1. PICK i, j \in 1 .. Len(new) : i < j /\ new[i] = a /\ new[j] = b
    <3>1. DOMAIN new = 1 .. Len(new)
      BY <1>2
    <3>. QED
      BY <3>1, <1>9 DEF Before
  <2>2. from(j) = k
    <3>. HIDE DEF from
    <3>. QED
      BY <2>1, <1>3, <1>9 DEF Distinct
  <2>3. from(i) < from(j) /\ from(i) > n
    BY <2>2, <2>1, <1>2
  <2>. HIDE DEF from
  <2>4. list[from(i)] = a /\ list[from(j)] = b /\ from(i) \in DOMAIN list /\ from(j) \in DOMAIN list
    BY <2>1, <1>3
  <2>. QED
    BY <2>3, <2>4 DEF Before, Distinct
<1>. QED
  BY <1>2, <1>5, <1>6, <1>8, <1>9 DEF new

\* A newcomer is last in the list: it comes before nobody.
LEMMA ListAdd ==
    ASSUME NEW S, NEW list \in Seq(S), Distinct(list), NEW x \in S
    PROVE  /\ AddTo(list, x) \in Seq(S) /\ Distinct(AddTo(list, x))
           /\ ToSet(AddTo(list, x)) = ToSet(list) \cup {x}
           /\ \A a, b : b \in ToSet(list) /\ Before(AddTo(list, x), a, b) => Before(list, a, b)
<1>1. CASE x \in ToSet(list)
  BY <1>1 DEF AddTo
<1>2. CASE x \notin ToSet(list)
  <2>. DEFINE new == Append(list, x)
  <2>1. AddTo(list, x) = new
    BY <1>2 DEF AddTo
  <2>2. /\ new \in Seq(S) /\ Len(new) = Len(list) + 1
        /\ \A k \in 1 .. Len(new) : new[k] = IF k <= Len(list) THEN list[k] ELSE x
    OBVIOUS
  <2>. HIDE DEF new
  <2>3. Distinct(new)
    BY <2>2, <1>2 DEF Distinct, ToSet
  <2>4. ToSet(new) \subseteq ToSet(list) \cup {x}
    BY <2>2 DEF ToSet
  <2>5. \A k \in 1 .. Len(list) : k \in DOMAIN new /\ new[k] = list[k]
    BY <2>2
  <2>6. Len(list) + 1 \in DOMAIN new /\ new[Len(list) + 1] = x
    BY <2>2
  <2>7. ToSet(list) \cup {x} \subseteq ToSet(new)
    BY <2>5, <2>6 DEF ToSet
  <2>8. ASSUME NEW a, NEW b, b \in ToSet(list), Before(new, a, b)
        PROVE  Before(list, a, b)
    <3>1. PICK i, k \in 1 .. Len(new) : i < k /\ new[i] = a /\ new[k] = b
      BY <2>8, <2>2 DEF Before
    <3>2. k # Len(list) + 1
      BY <3>1, <2>6, <2>8, <1>2
    <3>3. i \in 1 .. Len(list) /\ k \in 1 .. Len(list)
      BY <3>1, <3>2, <2>2
    <3>. QED
      BY <3>1, <3>3, <2>5 DEF Before
  <2>. QED
    BY <2>1, <2>2, <2>3, <2>4, <2>7, <2>8
<1>. QED
  BY <1>1, <1>2

-------------------------------------------------------------------------------
(* The invariant                                                           *)

Counts == [credential : [Credentials -> Nat], session : [Sessions -> Nat]]
States ==
  [queue : Seq(Jobs), credentials : Seq(Credentials), sessions : [Credentials -> Seq(Sessions)],
   running : SUBSET Jobs, settled : SUBSET Jobs, stale : SUBSET Jobs, stopped : BOOLEAN,
   passes : [Places -> Counts]]

\* The lists of turns have who waits, once each.
ListsHold(s) ==
  /\ Distinct(s.queue) /\ Distinct(s.credentials)
  /\ \A c \in Credentials :
       /\ Distinct(s.sessions[c])
       /\ c \in ToSet(s.credentials) <=> \E j \in ToSet(s.queue) : PlaceOf[j][1] = c
       /\ \A x \in Sessions : x \in ToSet(s.sessions[c]) <=> Waiting(s, <<c, x>>) # {}

\* A place was passed over by those behind it in the list only.
Even(s, p) ==
  /\ \A d \in Credentials \ {p[1]} :
       /\ s.passes[p].credential[d] <= 1 + s.passes[p].credential[p[1]]
       /\ Before(s.credentials, d, p[1]) =>
            s.passes[p].credential[d] <= s.passes[p].credential[p[1]]
  /\ \A y \in Sessions :
       /\ s.passes[p].session[y] <= 1
       /\ Before(s.sessions[p[1]], y, p[2]) => s.passes[p].session[y] = 0

TurnsHold(s) ==
  \A p \in Places : Even(s, p) /\ (s.passes[p] # NoPasses => CouldRun(s, p))

Shape(s) == s \in States /\ IsFiniteSet(s.running) /\ ListsHold(s)

\* What a place needs to run is read off the queue, the slots and the dead requests.
LEMMA SameRunnable ==
    ASSUME NEW s, NEW t, NEW p, s.queue = t.queue, s.running = t.running, s.stale = t.stale
    PROVE  CouldRun(s, p) <=> CouldRun(t, p)
BY DEF CouldRun, Waiting, Active, UnderCap, Holds

\* Fresh counts are counts.
LEMMA NoPassesTyped == NoPasses \in Counts
BY DEF NoPasses, Counts

\* A place that counts anew was not passed over.
LEMMA NoneIsEven ==
    ASSUME NEW s, NEW p \in Places, s.passes[p] = NoPasses
    PROVE  Even(s, p)
BY DEF Even, NoPasses, Places

\* What counting anew changes.
LEMMA RecountFields ==
    ASSUME NEW s \in States
    PROVE  /\ Recount(s) \in States
           /\ Recount(s).queue = s.queue /\ Recount(s).credentials = s.credentials
           /\ Recount(s).sessions = s.sessions /\ Recount(s).running = s.running
           /\ Recount(s).settled = s.settled /\ Recount(s).stale = s.stale
           /\ Recount(s).stopped = s.stopped
           /\ \A p \in Places :
                Recount(s).passes[p] = IF CouldRun(s, p) THEN s.passes[p] ELSE NoPasses
<1>1. [p \in Places |-> IF CouldRun(s, p) THEN s.passes[p] ELSE NoPasses] \in [Places -> Counts]
  BY NoPassesTyped DEF States
<1>. QED
  BY <1>1 DEF Recount, States

\* Counting anew keeps the lists, and makes the turns hold where they are even.
LEMMA RecountHolds ==
    ASSUME NEW s, Shape(s), \A p \in Places : CouldRun(s, p) => Even(s, p)
    PROVE  Shape(Recount(s)) /\ TurnsHold(Recount(s))
<1>. DEFINE t == Recount(s)
<1>1. s \in States /\ ListsHold(s)
  BY DEF Shape
<1>2. /\ t \in States
      /\ t.queue = s.queue /\ t.credentials = s.credentials /\ t.sessions = s.sessions
      /\ t.running = s.running /\ t.stale = s.stale
      /\ \A p \in Places : t.passes[p] = IF CouldRun(s, p) THEN s.passes[p] ELSE NoPasses
  BY <1>1, RecountFields
<1>. HIDE DEF t
<1>3. ListsHold(t)
  BY <1>1, <1>2 DEF ListsHold, Waiting
<1>4. ASSUME NEW p \in Places
      PROVE  Even(t, p) /\ (t.passes[p] # NoPasses => CouldRun(t, p))
  <2>1. CASE CouldRun(s, p)
    <3>1. Even(s, p) /\ t.passes[p] = s.passes[p]
      BY <2>1, <1>2
    <3>2. Even(t, p)
      BY <3>1, <1>2 DEF Even
    <3>. QED
      BY <2>1, <3>2, <1>2, SameRunnable
  <2>2. CASE ~ CouldRun(s, p)
    BY <2>2, <1>2, NoneIsEven
  <2>. QED
    BY <2>1, <2>2
<1>. QED
  BY <1>2, <1>3, <1>4 DEF Shape, TurnsHold, t

-------------------------------------------------------------------------------
(* A request leaves the queue                                              *)

\* What the removal of a request changes: it, and the turns of those who have no other.
LEMMA RemoveFields ==
    ASSUME SchedulerAssumption, NEW s, Shape(s), NEW j \in ToSet(s.queue)
    PROVE  LET r == RemoveJob(s, j)
           IN /\ Shape(r)
              /\ r.queue = RemoveFirst(s.queue, j) /\ Len(r.queue) = Len(s.queue) - 1
              /\ ToSet(r.queue) = ToSet(s.queue) \ {j}
              /\ r.running = s.running /\ r.stale = s.stale /\ r.stopped = s.stopped
              /\ r.settled = s.settled \cup {j}
              /\ \A a, b : Before(r.credentials, a, b) => Before(s.credentials, a, b)
              /\ \A c \in Credentials : \A a, b :
                   Before(r.sessions[c], a, b) => Before(s.sessions[c], a, b)
              /\ \A c \in Credentials : c # PlaceOf[j][1] => r.sessions[c] = s.sessions[c]
              /\ \A p \in Places :
                   r.passes[p] = IF CouldRun(r, p) THEN s.passes[p] ELSE NoPasses
<1>. DEFINE c == PlaceOf[j][1]
            x == PlaceOf[j][2]
            left == [s EXCEPT !.queue = RemoveFirst(@, j), !.settled = @ \cup {j}]
            out == [left EXCEPT
                      !.sessions[c] = IF Waiting(left, <<c, x>>) = {} THEN RemoveFirst(@, x) ELSE @,
                      !.credentials = IF \A y \in Sessions : Waiting(left, <<c, y>>) = {}
                                      THEN RemoveFirst(@, c) ELSE @]
            r == RemoveJob(s, j)
<1>1. s \in States /\ ListsHold(s)
  BY DEF Shape
<1>2. /\ j \in Jobs /\ PlaceOf[j] \in Places
      /\ c \in Credentials /\ x \in Sessions /\ PlaceOf[j] = <<c, x>>
  BY <1>1 DEF States, SchedulerAssumption, Places, ToSet
<1>3. /\ RemoveFirst(s.queue, j) \in Seq(Jobs) /\ Distinct(RemoveFirst(s.queue, j))
      /\ ToSet(RemoveFirst(s.queue, j)) = ToSet(s.queue) \ {j}
      /\ Len(RemoveFirst(s.queue, j)) = Len(s.queue) - 1
  <2>1. s.queue \in Seq(Jobs) /\ Distinct(s.queue)
    BY <1>1 DEF States, ListsHold
  <2>. QED
    BY <2>1, ListWithout
<1>4. /\ left \in States /\ left.queue = RemoveFirst(s.queue, j)
      /\ left.settled = s.settled \cup {j}
      /\ left.credentials = s.credentials /\ left.sessions = s.sessions /\ left.running = s.running
      /\ left.stale = s.stale /\ left.stopped = s.stopped /\ left.passes = s.passes
  BY <1>1, <1>2, <1>3 DEF States
<1>5. /\ RemoveFirst(s.sessions[c], x) \in Seq(Sessions) /\ Distinct(RemoveFirst(s.sessions[c], x))
      /\ ToSet(RemoveFirst(s.sessions[c], x)) = ToSet(s.sessions[c]) \ {x}
      /\ \A a, b : Before(RemoveFirst(s.sessions[c], x), a, b) => Before(s.sessions[c], a, b)
  <2>1. s.sessions[c] \in Seq(Sessions) /\ Distinct(s.sessions[c])
    BY <1>1, <1>2 DEF States, ListsHold
  <2>. QED
    BY <2>1, ListWithout
<1>6. /\ RemoveFirst(s.credentials, c) \in Seq(Credentials)
      /\ Distinct(RemoveFirst(s.credentials, c))
      /\ ToSet(RemoveFirst(s.credentials, c)) = ToSet(s.credentials) \ {c}
      /\ \A a, b : Before(RemoveFirst(s.credentials, c), a, b) => Before(s.credentials, a, b)
  <2>1. s.credentials \in Seq(Credentials) /\ Distinct(s.credentials)
    BY <1>1 DEF States, ListsHold
  <2>. QED
    BY <2>1, ListWithout
<1>. HIDE DEF left, c, x
<1>7. /\ out \in States /\ out.queue = left.queue /\ out.settled = left.settled
      /\ out.running = s.running /\ out.stale = s.stale /\ out.stopped = s.stopped
      /\ out.passes = s.passes
      /\ out.sessions = [s.sessions EXCEPT ![c] =
           IF Waiting(left, <<c, x>>) = {} THEN RemoveFirst(s.sessions[c], x) ELSE s.sessions[c]]
      /\ out.credentials = IF \A y \in Sessions : Waiting(left, <<c, y>>) = {}
                           THEN RemoveFirst(s.credentials, c) ELSE s.credentials
  BY <1>1, <1>2, <1>4, <1>5, <1>6 DEF States
<1>8. r = Recount(out)
  BY DEF RemoveJob, left, c, x
<1>. HIDE DEF out
<1>9. /\ r \in States /\ r.queue = left.queue /\ r.settled = left.settled
      /\ r.running = s.running /\ r.stale = s.stale /\ r.stopped = s.stopped
      /\ r.sessions = out.sessions /\ r.credentials = out.credentials
      /\ \A p \in Places : r.passes[p] = IF CouldRun(out, p) THEN s.passes[p] ELSE NoPasses
  BY <1>7, <1>8, RecountFields
<1>. HIDE DEF r
<1>10. \A p \in Places : CouldRun(out, p) <=> CouldRun(r, p)
  BY <1>7, <1>9, SameRunnable
<1>11. \A p \in Places : Waiting(r, p) = Waiting(s, p) \ {j} /\ Waiting(left, p) = Waiting(r, p)
  BY <1>3, <1>4, <1>9 DEF Waiting
<1>12. ASSUME NEW d \in Credentials
       PROVE  /\ Distinct(r.sessions[d])
              /\ \A a, b : Before(r.sessions[d], a, b) => Before(s.sessions[d], a, b)
              /\ d # c => r.sessions[d] = s.sessions[d]
              /\ \A y \in Sessions : y \in ToSet(r.sessions[d]) <=> Waiting(r, <<d, y>>) # {}
  <2>1. /\ Distinct(s.sessions[d])
        /\ \A y \in Sessions : y \in ToSet(s.sessions[d]) <=> Waiting(s, <<d, y>>) # {}
    BY <1>1 DEF ListsHold
  <2>2. d # c => r.sessions[d] = s.sessions[d]
    BY <1>7, <1>9
  <2>3. r.sessions[c] =
          IF Waiting(left, <<c, x>>) = {} THEN RemoveFirst(s.sessions[c], x) ELSE s.sessions[c]
    BY <1>1, <1>2, <1>7, <1>9 DEF States
  <2>4. ASSUME NEW y \in Sessions, <<d, y>> # <<c, x>>
        PROVE  Waiting(r, <<d, y>>) = Waiting(s, <<d, y>>)
    <3>1. j \notin Waiting(s, <<d, y>>)
      BY <2>4, <1>2 DEF Waiting
    <3>. QED
      BY <3>1, <1>11 DEF Places
  <2>5. /\ Waiting(left, <<c, x>>) = Waiting(r, <<c, x>>)
        /\ Waiting(r, <<c, x>>) \subseteq Waiting(s, <<c, x>>)
    BY <1>11, <1>2 DEF Places
  <2>6. CASE d # c
    BY <2>1, <2>2, <2>4, <2>6
  <2>7. CASE d = c
    <3>1. ASSUME NEW y \in Sessions
          PROVE  y \in ToSet(r.sessions[d]) <=> Waiting(r, <<d, y>>) # {}
      <4>1. CASE y = x
        BY <4>1, <2>1, <2>3, <2>5, <2>7, <1>5
      <4>2. CASE y # x
        BY <4>2, <2>1, <2>3, <2>4, <2>7, <1>5
      <4>. QED
        BY <4>1, <4>2
    <3>2. /\ Distinct(r.sessions[d])
          /\ \A a, b : Before(r.sessions[d], a, b) => Before(s.sessions[d], a, b)
      BY <2>1, <2>3, <2>7, <1>5
    <3>. QED
      BY <3>1, <3>2, <2>7
  <2>. QED
    BY <2>6, <2>7
<1>13. (\A y \in Sessions : Waiting(left, <<c, y>>) = {}) <=>
         ~ \E k \in ToSet(r.queue) : PlaceOf[k][1] = c
  <2>1. \A k \in ToSet(r.queue) : PlaceOf[k] \in Places
    BY <1>9 DEF States, SchedulerAssumption, ToSet
  <2>2. \A k \in ToSet(r.queue) :
          PlaceOf[k] = <<PlaceOf[k][1], PlaceOf[k][2]>> /\ PlaceOf[k][2] \in Sessions
    BY <2>1 DEF Places
  <2>3. \A y \in Sessions : Waiting(left, <<c, y>>) = {k \in ToSet(r.queue) : PlaceOf[k] = <<c, y>>}
    BY <1>9 DEF Waiting
  <2>. QED
    BY <2>2, <2>3
<1>14. ASSUME NEW d \in Credentials
       PROVE  d \in ToSet(r.credentials) <=> \E k \in ToSet(r.queue) : PlaceOf[k][1] = d
  <2>1. d \in ToSet(s.credentials) <=> \E k \in ToSet(s.queue) : PlaceOf[k][1] = d
    BY <1>1 DEF ListsHold
  <2>2. r.credentials = IF \A y \in Sessions : Waiting(left, <<c, y>>) = {}
                        THEN RemoveFirst(s.credentials, c) ELSE s.credentials
    BY <1>7, <1>9
  <2>3. ToSet(r.queue) = ToSet(s.queue) \ {j} /\ PlaceOf[j][1] = c
    BY <1>3, <1>4, <1>9 DEF c
  <2>4. CASE d = c
    BY <2>1, <2>2, <2>3, <2>4, <1>13, <1>6
  <2>5. CASE d # c
    BY <2>1, <2>2, <2>3, <2>5, <1>6
  <2>. QED
    BY <2>4, <2>5
<1>15. /\ Distinct(r.credentials)
       /\ \A a, b : Before(r.credentials, a, b) => Before(s.credentials, a, b)
  BY <1>1, <1>6, <1>7, <1>9 DEF ListsHold
<1>16. Distinct(r.queue) /\ r.queue = RemoveFirst(s.queue, j) /\ r.settled = s.settled \cup {j}
  BY <1>3, <1>4, <1>9
<1>17. Shape(r)
  BY <1>9, <1>12, <1>14, <1>15, <1>16 DEF Shape, ListsHold
<1>18. \A d \in Credentials : d # PlaceOf[j][1] => r.sessions[d] = s.sessions[d]
  BY <1>12 DEF c
<1>. QED
  BY <1>3, <1>9, <1>10, <1>12, <1>15, <1>16, <1>17, <1>18 DEF r

-------------------------------------------------------------------------------
(* A round of the pump                                                     *)

\* A round of the pump: the lists after their turn, and the job with its slot.
Turned(s, i, k) ==
  [s EXCEPT !.credentials = After(@, i), !.sessions[s.credentials[i]] = After(@, k)]
Given(s, j) == [s EXCEPT !.running = @ \cup {j}, !.settled = @ \ {j}]

\* A turn moves the credential and the session to the end of their lists.
LEMMA TurnedFields ==
    ASSUME NEW s, Shape(s), NEW i \in DOMAIN s.credentials,
           NEW k \in DOMAIN s.sessions[s.credentials[i]]
    PROVE  LET c == s.credentials[i]
               t == Turned(s, i, k)
           IN /\ Shape(t) /\ c \in Credentials /\ s.sessions[c][k] \in Sessions
              /\ t.queue = s.queue /\ t.running = s.running /\ t.settled = s.settled
              /\ t.stale = s.stale /\ t.stopped = s.stopped /\ t.passes = s.passes
              /\ t.credentials = After(s.credentials, i) /\ t.sessions[c] = After(s.sessions[c], k)
              /\ \A d \in Credentials : d # c => t.sessions[d] = s.sessions[d]
<1>. DEFINE c == s.credentials[i]
            t == Turned(s, i, k)
<1>1. s \in States /\ ListsHold(s)
  BY DEF Shape
<1>2. /\ s.credentials \in Seq(Credentials) /\ i \in 1 .. Len(s.credentials) /\ c \in Credentials
      /\ s.sessions[c] \in Seq(Sessions) /\ k \in 1 .. Len(s.sessions[c])
      /\ s.sessions[c][k] \in Sessions
  BY <1>1 DEF States
<1>3. /\ After(s.credentials, i) \in Seq(Credentials) /\ Distinct(After(s.credentials, i))
      /\ ToSet(After(s.credentials, i)) = ToSet(s.credentials)
  BY <1>1, <1>2, ListAfter DEF ListsHold
<1>4. /\ After(s.sessions[c], k) \in Seq(Sessions) /\ Distinct(After(s.sessions[c], k))
      /\ ToSet(After(s.sessions[c], k)) = ToSet(s.sessions[c])
  <2>1. Distinct(s.sessions[c])
    BY <1>1, <1>2 DEF ListsHold
  <2>. QED
    BY <1>2, <2>1, ListAfter
<1>. HIDE DEF c
<1>5. /\ t \in States
      /\ t.queue = s.queue /\ t.running = s.running /\ t.settled = s.settled
      /\ t.stale = s.stale /\ t.stopped = s.stopped /\ t.passes = s.passes
      /\ t.credentials = After(s.credentials, i)
      /\ t.sessions = [s.sessions EXCEPT ![c] = After(s.sessions[c], k)]
  BY <1>1, <1>2, <1>3, <1>4 DEF States, Turned, c
<1>. HIDE DEF t
<1>6. /\ t.sessions[c] = After(s.sessions[c], k)
      /\ \A d \in Credentials : d # c => t.sessions[d] = s.sessions[d]
  BY <1>1, <1>2, <1>5 DEF States
<1>7. \A p : Waiting(t, p) = Waiting(s, p)
  BY <1>5 DEF Waiting
<1>8. ASSUME NEW d \in Credentials
      PROVE  /\ Distinct(t.sessions[d])
             /\ ToSet(t.sessions[d]) = ToSet(s.sessions[d])
  BY <1>1, <1>4, <1>6 DEF ListsHold
<1>9. ListsHold(t)
  BY <1>1, <1>3, <1>5, <1>7, <1>8 DEF ListsHold
<1>. QED
  BY <1>2, <1>5, <1>6, <1>9 DEF Shape, c, t

\* The round takes the first credential and session that may run, and a job of theirs.
Takes(s, i, k, j) ==
  LET c == s.credentials[i]
      place == <<c, s.sessions[c][k]>>
      rest == RemoveJob(Turned(s, i, k), j)
  IN /\ PlaceOf[j] = place
     /\ \A m \in Selectable(s) : i <= m
     /\ \A m \in OpenSessions(s, c) : k <= m
     /\ PumpOnce(s) = IF j \in s.stale THEN rest ELSE CountPass(s, Given(rest, j), place)

\* A round finds a place and a request of it.
LEMMA RoundTaken ==
    ASSUME NEW s, Shape(s), Cardinality(s.running) < Slots, Selectable(s) # {}
    PROVE  \E i \in DOMAIN s.credentials : \E k \in DOMAIN s.sessions[s.credentials[i]] :
             \E j \in ToSet(s.queue) : Takes(s, i, k, j)
<1>. DEFINE i == First(Selectable(s))
            c == s.credentials[i]
            k == First(OpenSessions(s, c))
            place == <<c, s.sessions[c][k]>>
            Its == {n \in DOMAIN s.queue : PlaceOf[s.queue[n]] = place}
            j == s.queue[First(Its)]
<1>. HIDE DEF i, c, k, place, Its, j
<1>1. s \in States /\ ListsHold(s)
  BY DEF Shape
<1>2. Selectable(s) \subseteq Nat
  BY <1>1 DEF Selectable, States
<1>3. i \in Selectable(s) /\ \A m \in Selectable(s) : i <= m
  BY <1>2, FirstIn DEF i
<1>4. i \in DOMAIN s.credentials /\ OpenSessions(s, c) # {} /\ c \in Credentials
  BY <1>1, <1>3 DEF Selectable, States, c
<1>5. OpenSessions(s, c) \subseteq Nat
  BY <1>1, <1>4 DEF OpenSessions, States
<1>6. k \in OpenSessions(s, c) /\ \A m \in OpenSessions(s, c) : k <= m
  BY <1>4, <1>5, FirstIn DEF k
<1>7. /\ k \in DOMAIN s.sessions[c] /\ s.sessions[c][k] \in Sessions
      /\ s.sessions[c][k] \in ToSet(s.sessions[c])
  BY <1>1, <1>4, <1>6 DEF OpenSessions, States, ToSet
<1>8. Waiting(s, place) # {}
  BY <1>1, <1>4, <1>7 DEF ListsHold, place
<1>9. Its # {} /\ Its \subseteq Nat
  BY <1>1, <1>8 DEF Waiting, ToSet, States, Its
<1>10. First(Its) \in Its
  BY <1>9, FirstIn
<1>11. j \in ToSet(s.queue) /\ PlaceOf[j] = place
  BY <1>10 DEF ToSet, Its, j
<1>12. PumpOnce(s) = IF j \in s.stale THEN RemoveJob(Turned(s, i, k), j)
                     ELSE CountPass(s, Given(RemoveJob(Turned(s, i, k), j), j), place)
  BY DEF PumpOnce, Turned, Given, i, k, c, place, Its, j
<1>. QED
  BY <1>3, <1>4, <1>6, <1>7, <1>11, <1>12 DEF c, place, Takes

\* What counting a choice changes.
LEMMA CountedFields ==
    ASSUME NEW s \in States, NEW t \in States, NEW c \in Credentials, NEW x \in Sessions
    PROVE  LET u == CountPass(s, t, <<c, x>>)
           IN /\ u \in States
              /\ u.queue = t.queue /\ u.credentials = t.credentials /\ u.sessions = t.sessions
              /\ u.running = t.running /\ u.settled = t.settled /\ u.stale = t.stale
              /\ u.stopped = t.stopped
              /\ \A p \in Places :
                   IF CouldRun(s, p) /\ CouldRun(t, p)
                   THEN /\ u.passes[p].credential =
                             [s.passes[p].credential EXCEPT ![c] = s.passes[p].credential[c] + 1]
                        /\ u.passes[p].session =
                             IF c # p[1] THEN s.passes[p].session
                             ELSE [s.passes[p].session EXCEPT ![x] = s.passes[p].session[x] + 1]
                   ELSE u.passes[p] = NoPasses
<1>. DEFINE u == CountPass(s, t, <<c, x>>)
            counted(p) ==
              [credential |-> [s.passes[p].credential EXCEPT ![c] = s.passes[p].credential[c] + 1],
               session |-> IF c # p[1] THEN s.passes[p].session
                           ELSE [s.passes[p].session EXCEPT ![x] = s.passes[p].session[x] + 1]]
            new == [p \in Places |->
                      IF CouldRun(s, p) /\ CouldRun(t, p) THEN counted(p) ELSE NoPasses]
<1>1. ASSUME NEW p \in Places
      PROVE  counted(p) \in Counts
  <2>1. s.passes[p] \in Counts
    BY DEF States
  <2>. QED
    BY <2>1 DEF Counts
<1>2. u = [t EXCEPT !.passes = new]
  BY DEF CountPass
<1>3. new \in [Places -> Counts]
  <2>. HIDE DEF counted
  <2>. QED
    BY <1>1, NoPassesTyped
<1>4. \A p \in Places : new[p] = IF CouldRun(s, p) /\ CouldRun(t, p) THEN counted(p) ELSE NoPasses
  OBVIOUS
<1>. HIDE DEF new
<1>5. /\ u \in States /\ u.passes = new
      /\ u.queue = t.queue /\ u.credentials = t.credentials /\ u.sessions = t.sessions
      /\ u.running = t.running /\ u.settled = t.settled /\ u.stale = t.stale
      /\ u.stopped = t.stopped
  BY <1>2, <1>3 DEF States
<1>. HIDE DEF u
<1>6. ASSUME NEW p \in Places
      PROVE  IF CouldRun(s, p) /\ CouldRun(t, p)
             THEN /\ u.passes[p].credential =
                       [s.passes[p].credential EXCEPT ![c] = s.passes[p].credential[c] + 1]
                  /\ u.passes[p].session =
                       IF c # p[1] THEN s.passes[p].session
                       ELSE [s.passes[p].session EXCEPT ![x] = s.passes[p].session[x] + 1]
             ELSE u.passes[p] = NoPasses
  <2>1. u.passes[p] = IF CouldRun(s, p) /\ CouldRun(t, p) THEN counted(p) ELSE NoPasses
    BY <1>4, <1>5
  <2>2. /\ counted(p).credential =
             [s.passes[p].credential EXCEPT ![c] = s.passes[p].credential[c] + 1]
        /\ counted(p).session =
             IF c # p[1] THEN s.passes[p].session
             ELSE [s.passes[p].session EXCEPT ![x] = s.passes[p].session[x] + 1]
    OBVIOUS
  <2>. HIDE DEF counted
  <2>. QED
    BY <2>1, <2>2
<1>. QED
  BY <1>5, <1>6 DEF u

\* While a place could run, its credential and its session are not passed over.
LEMMA CouldRunListed ==
    ASSUME NEW s, Shape(s), NEW p \in Places, CouldRun(s, p)
    PROVE  /\ \E m \in Selectable(s) : s.credentials[m] = p[1]
           /\ \E n \in OpenSessions(s, p[1]) : s.sessions[p[1]][n] = p[2]
<1>1. /\ s \in States /\ ListsHold(s)
      /\ p = <<p[1], p[2]>> /\ p[1] \in Credentials /\ p[2] \in Sessions
  BY DEF Shape, Places
<1>2. Waiting(s, p) # {} /\ ~Active(s, p) /\ UnderCap(s, p[1])
  BY DEF CouldRun
<1>3. PICK j \in ToSet(s.queue) : PlaceOf[j] = p
  BY <1>2 DEF Waiting
<1>4. p[1] \in ToSet(s.credentials) /\ p[2] \in ToSet(s.sessions[p[1]])
  BY <1>1, <1>2, <1>3 DEF ListsHold
<1>5. PICK n \in DOMAIN s.sessions[p[1]] : s.sessions[p[1]][n] = p[2]
  BY <1>4 DEF ToSet
<1>6. n \in OpenSessions(s, p[1])
  BY <1>1, <1>2, <1>5 DEF OpenSessions
<1>7. PICK m \in DOMAIN s.credentials : s.credentials[m] = p[1]
  BY <1>4 DEF ToSet
<1>8. m \in Selectable(s)
  BY <1>2, <1>6, <1>7 DEF Selectable
<1>. QED
  BY <1>5, <1>6, <1>7, <1>8

\* What giving a slot changes.
LEMMA GivenFields ==
    ASSUME NEW s, Shape(s), NEW j \in Jobs
    PROVE  LET t == Given(s, j)
           IN /\ Shape(t)
              /\ t.queue = s.queue /\ t.credentials = s.credentials /\ t.sessions = s.sessions
              /\ t.running = s.running \cup {j} /\ t.stale = s.stale /\ t.stopped = s.stopped
<1>. DEFINE t == Given(s, j)
<1>1. s \in States /\ ListsHold(s)
  BY DEF Shape
<1>2. /\ t \in States
      /\ t.queue = s.queue /\ t.credentials = s.credentials /\ t.sessions = s.sessions
      /\ t.running = s.running \cup {j} /\ t.stale = s.stale /\ t.stopped = s.stopped
  BY <1>1 DEF Given, States
<1>. HIDE DEF t
<1>3. ListsHold(t)
  BY <1>1, <1>2 DEF ListsHold, Waiting
<1>4. IsFiniteSet(t.running)
  BY <1>2, FS_AddElement DEF Shape
<1>. QED
  BY <1>2, <1>3, <1>4 DEF Shape, t

\* A round that gives no slot leaves the turns even: only a credential with a dead
\* request was moved, and nothing is counted for its places.
LEMMA DeadRoundEven ==
    ASSUME SchedulerAssumption, NEW s, Shape(s), TurnsHold(s),
           NEW i \in DOMAIN s.credentials, NEW k \in DOMAIN s.sessions[s.credentials[i]],
           NEW j \in ToSet(s.queue), j \in s.stale,
           PlaceOf[j] = <<s.credentials[i], s.sessions[s.credentials[i]][k]>>,
           \A m \in Selectable(s) : i <= m
    PROVE  LET t == RemoveJob(Turned(s, i, k), j)
           IN Shape(t) /\ TurnsHold(t)
<1>. DEFINE c == s.credentials[i]
            u == Turned(s, i, k)
            t == RemoveJob(u, j)
<1>1. /\ Shape(u) /\ c \in Credentials /\ s.sessions[c][k] \in Sessions /\ u.queue = s.queue
      /\ u.passes = s.passes /\ u.credentials = After(s.credentials, i)
      /\ \A d \in Credentials : d # c => u.sessions[d] = s.sessions[d]
  BY TurnedFields
<1>. HIDE DEF u
<1>2. j \in ToSet(u.queue) /\ PlaceOf[j][1] = c
  BY <1>1
<1>. HIDE DEF c
<1>3. /\ Shape(t)
      /\ \A a, b : Before(t.credentials, a, b) => Before(u.credentials, a, b)
      /\ \A d \in Credentials : \A a, b : Before(t.sessions[d], a, b) => Before(u.sessions[d], a, b)
      /\ \A p \in Places : t.passes[p] = IF CouldRun(t, p) THEN u.passes[p] ELSE NoPasses
  <2>1. Shape(u) /\ j \in ToSet(u.queue)
    BY <1>1, <1>2
  <2>2. /\ Shape(t)
        /\ \A a, b : Before(t.credentials, a, b) => Before(u.credentials, a, b)
        /\ \A d \in Credentials : \A a, b : Before(t.sessions[d], a, b) => Before(u.sessions[d], a, b)
    BY <2>1, RemoveFields
  <2>3. \A p \in Places : t.passes[p] = IF CouldRun(t, p) THEN u.passes[p] ELSE NoPasses
    <3>1. \A p \in Places : RemoveJob(u, j).passes[p] =
            IF CouldRun(RemoveJob(u, j), p) THEN u.passes[p] ELSE NoPasses
      <4>. HIDE DEF t
      <4>. QED
        BY <2>1, RemoveFields
    <3>. QED
      BY <3>1
  <2>. QED
    BY <2>2, <2>3
<1>. HIDE DEF t
<1>4. s.credentials \in Seq(Credentials) /\ Distinct(s.credentials)
  BY DEF Shape, States, ListsHold
<1>5. ASSUME NEW p \in Places, CouldRun(t, p), s.passes[p] # NoPasses
      PROVE  Even(t, p)
  <2>1. Even(s, p) /\ CouldRun(s, p) /\ p[1] \in Credentials /\ p[2] \in Sessions
    BY <1>5 DEF TurnsHold, Places
  <2>2. j \in Waiting(s, <<c, s.sessions[c][k]>>)
    BY <1>1 DEF Waiting, c
  <2>3. p[1] # c
    BY <2>1, <2>2, <1>1 DEF CouldRun
  <2>4. PICK m \in Selectable(s) : s.credentials[m] = p[1]
    BY <2>1, CouldRunListed, Zenon
  <2>5. i <= m /\ m # i /\ i \in 1 .. Len(s.credentials) /\ m \in 1 .. Len(s.credentials)
    <3>1. m \in DOMAIN s.credentials
      BY DEF Selectable
    <3>. QED
      BY <3>1, <2>3, <2>4, <1>4 DEF c
  <2>6. m \in i + 1 .. Len(s.credentials)
    <3>1. Len(s.credentials) \in Nat
      BY <1>4
    <3>. QED
      BY <2>5, <3>1
  <2>7. \A a : Before(t.credentials, a, p[1]) => Before(s.credentials, a, p[1])
    <3>1. \A a, b : \A n \in i + 1 .. Len(s.credentials) :
            s.credentials[n] = b /\ Before(After(s.credentials, i), a, b) =>
              Before(s.credentials, a, b)
      BY <2>5, <1>4, ListAfter
    <3>. QED
      BY <3>1, <2>4, <2>6, <1>1, <1>3
  <2>8. \A a : Before(t.sessions[p[1]], a, p[2]) => Before(s.sessions[p[1]], a, p[2])
    BY <2>1, <2>3, <1>1, <1>3
  <2>9. t.passes[p] = s.passes[p]
    BY <1>1, <1>3, <1>5
  <2>. QED
    BY <2>1, <2>7, <2>8, <2>9 DEF Even
<1>6. ASSUME NEW p \in Places
      PROVE  Even(t, p) /\ (t.passes[p] # NoPasses => CouldRun(t, p))
  <2>1. CASE t.passes[p] = NoPasses
    BY <2>1, NoneIsEven
  <2>2. CASE t.passes[p] # NoPasses
    <3>1. CouldRun(t, p) /\ s.passes[p] # NoPasses
      BY <2>2, <1>1, <1>3
    <3>. QED
      BY <3>1, <1>5
  <2>. QED
    BY <2>1, <2>2
<1>. QED
  BY <1>3, <1>6 DEF TurnsHold, t, u

\* A round that gives a slot leaves the turns even.  The place chosen stops counting, since
\* its session is busy; of every other that could run, the list tells whether it was ahead.
LEMMA LiveRoundEven ==
    ASSUME SchedulerAssumption, NEW s, Shape(s), TurnsHold(s),
           NEW i \in DOMAIN s.credentials, NEW k \in DOMAIN s.sessions[s.credentials[i]],
           NEW j \in ToSet(s.queue),
           PlaceOf[j] = <<s.credentials[i], s.sessions[s.credentials[i]][k]>>,
           \A m \in Selectable(s) : i <= m,
           \A m \in OpenSessions(s, s.credentials[i]) : k <= m
    PROVE  LET t == CountPass(s, Given(RemoveJob(Turned(s, i, k), j), j),
                              <<s.credentials[i], s.sessions[s.credentials[i]][k]>>)
           IN Shape(t) /\ TurnsHold(t)
<1>. DEFINE c == s.credentials[i]
            x == s.sessions[c][k]
            u == Turned(s, i, k)
            r == RemoveJob(u, j)
            g == Given(r, j)
            t == CountPass(s, g, <<c, x>>)
<1>1. /\ Shape(u) /\ c \in Credentials /\ x \in Sessions /\ u.queue = s.queue
      /\ u.credentials = After(s.credentials, i) /\ u.sessions[c] = After(s.sessions[c], k)
      /\ \A d \in Credentials : d # c => u.sessions[d] = s.sessions[d]
  BY TurnedFields
<1>. HIDE DEF u
<1>2. /\ Shape(r)
      /\ \A a, b : Before(r.credentials, a, b) => Before(u.credentials, a, b)
      /\ \A d \in Credentials : \A a, b : Before(r.sessions[d], a, b) => Before(u.sessions[d], a, b)
  BY <1>1, RemoveFields
<1>3. s \in States /\ ListsHold(s) /\ j \in Jobs
  BY DEF Shape, States, ToSet
<1>. HIDE DEF r
<1>4. /\ Shape(g) /\ g.credentials = r.credentials /\ g.sessions = r.sessions
      /\ j \in g.running
  BY <1>2, <1>3, GivenFields
<1>. HIDE DEF g
<1>5. /\ t \in States
      /\ t.queue = g.queue /\ t.credentials = g.credentials /\ t.sessions = g.sessions
      /\ t.running = g.running /\ t.settled = g.settled /\ t.stale = g.stale
      /\ t.stopped = g.stopped
      /\ \A p \in Places :
           IF CouldRun(s, p) /\ CouldRun(g, p)
           THEN /\ t.passes[p].credential =
                     [s.passes[p].credential EXCEPT ![c] = s.passes[p].credential[c] + 1]
                /\ t.passes[p].session =
                     IF c # p[1] THEN s.passes[p].session
                     ELSE [s.passes[p].session EXCEPT ![x] = s.passes[p].session[x] + 1]
           ELSE t.passes[p] = NoPasses
  <2>1. g \in States
    BY <1>4 DEF Shape
  <2>. HIDE DEF c, x
  <2>. QED
    BY <2>1, <1>1, <1>3, CountedFields
<1>. HIDE DEF t
<1>6. Shape(t)
  BY <1>4, <1>5 DEF Shape, ListsHold, Waiting
<1>7. s.credentials \in Seq(Credentials) /\ Distinct(s.credentials)
      /\ s.sessions[c] \in Seq(Sessions) /\ Distinct(s.sessions[c])
  BY <1>1, <1>3 DEF States, ListsHold
<1>8. /\ i \in 1 .. Len(s.credentials) /\ k \in 1 .. Len(s.sessions[c])
      /\ c = s.credentials[i] /\ x = s.sessions[c][k] /\ PlaceOf[j] = <<c, x>>
      /\ \A m \in Selectable(s) : i <= m
      /\ \A m \in OpenSessions(s, c) : k <= m
  BY <1>7
<1>. HIDE DEF c, x
<1>9. ASSUME NEW p \in Places, CouldRun(s, p), CouldRun(g, p)
      PROVE  Even(t, p)
  <2>1. Even(s, p) /\ p = <<p[1], p[2]>> /\ p[1] \in Credentials /\ p[2] \in Sessions
    BY DEF TurnsHold, Places
  <2>2. /\ s.passes[p].credential \in [Credentials -> Nat]
        /\ s.passes[p].session \in [Sessions -> Nat]
    BY <1>3 DEF States, Counts
  <2>3. PICK m \in Selectable(s) : s.credentials[m] = p[1]
    BY <1>9, CouldRunListed, Zenon
  <2>4. m \in 1 .. Len(s.credentials) /\ i <= m
    <3>1. m \in DOMAIN s.credentials
      BY DEF Selectable
    <3>. QED
      BY <3>1, <1>7, <1>8
  <2>5. /\ t.passes[p].credential =
             [s.passes[p].credential EXCEPT ![c] = s.passes[p].credential[c] + 1]
        /\ t.passes[p].session =
             IF c # p[1] THEN s.passes[p].session
             ELSE [s.passes[p].session EXCEPT ![x] = s.passes[p].session[x] + 1]
    BY <1>9, <1>5
  <2>6. /\ \A a, b : Before(t.credentials, a, b) => Before(After(s.credentials, i), a, b)
        /\ \A d \in Credentials : \A a, b : Before(t.sessions[d], a, b) => Before(u.sessions[d], a, b)
    BY <1>1, <1>2, <1>4, <1>5
  <2>7. CASE p[1] # c
    <3>1. m \in i + 1 .. Len(s.credentials)
      <4>1. Len(s.credentials) \in Nat /\ i \in 1 .. Len(s.credentials)
        BY <1>7, <1>8
      <4>2. m # i
        BY <2>3, <2>7, <1>8
      <4>. QED
        BY <4>1, <4>2, <2>4
    <3>2. \A a : Before(t.credentials, a, p[1]) => Before(s.credentials, a, p[1]) /\ a # c
      <4>1. \A a, b : \A n \in i + 1 .. Len(s.credentials) :
              s.credentials[n] = b /\ Before(After(s.credentials, i), a, b) =>
                Before(s.credentials, a, b) /\ a # s.credentials[i]
        BY <1>7, <1>8, ListAfter
      <4>. QED
        BY <4>1, <3>1, <2>3, <2>6, <1>8
    <3>3. Before(s.credentials, c, p[1])
      BY <3>1, <2>3, <1>7, <1>8 DEF Before
    <3>4. s.passes[p].credential[c] <= s.passes[p].credential[p[1]]
      BY <3>3, <2>1, <2>7, <1>1 DEF Even
    <3>5. /\ t.passes[p].credential[p[1]] = s.passes[p].credential[p[1]]
          /\ t.passes[p].credential[c] = s.passes[p].credential[c] + 1
          /\ \A d \in Credentials \ {c} : t.passes[p].credential[d] = s.passes[p].credential[d]
      BY <2>1, <2>2, <2>5, <2>7, <1>1
    <3>6. ASSUME NEW d \in Credentials \ {p[1]}
          PROVE  /\ t.passes[p].credential[d] <= 1 + t.passes[p].credential[p[1]]
                 /\ Before(t.credentials, d, p[1]) =>
                      t.passes[p].credential[d] <= t.passes[p].credential[p[1]]
      <4>1. CASE d = c
        BY <4>1, <3>2, <3>4, <3>5, <2>1, <2>2, <1>1
      <4>2. CASE d # c
        <5>1. /\ s.passes[p].credential[d] <= 1 + s.passes[p].credential[p[1]]
              /\ Before(s.credentials, d, p[1]) =>
                   s.passes[p].credential[d] <= s.passes[p].credential[p[1]]
          BY <2>1 DEF Even
        <5>. QED
          BY <5>1, <4>2, <3>2, <3>5
      <4>. QED
        BY <4>1, <4>2
    <3>7. \A y \in Sessions :
            /\ t.passes[p].session[y] <= 1
            /\ Before(t.sessions[p[1]], y, p[2]) => t.passes[p].session[y] = 0
      BY <2>1, <2>5, <2>6, <2>7, <1>1 DEF Even
    <3>. QED
      BY <3>6, <3>7 DEF Even
  <2>8. CASE p[1] = c
    <3>1. \A d \in Credentials \ {c} :
            /\ t.passes[p].credential[d] = s.passes[p].credential[d]
            /\ s.passes[p].credential[d] <= 1 + s.passes[p].credential[c]
      BY <2>1, <2>2, <2>5, <2>8 DEF Even
    <3>2. t.passes[p].credential[c] = s.passes[p].credential[c] + 1
      BY <2>2, <2>5, <1>1
    <3>3. \A d \in Credentials \ {c} :
            t.passes[p].credential[d] <= t.passes[p].credential[c]
      BY <3>1, <3>2, <2>2, <1>1
    <3>4. \A d \in Credentials : t.passes[p].credential[d] \in Nat
      BY <2>2, <2>5, <1>1
    <3>5. ~ Active(g, p)
      BY <1>9 DEF CouldRun
    <3>6. p # <<c, x>>
      BY <3>5, <1>4, <1>8 DEF Active
    <3>7. PICK n \in OpenSessions(s, c) : s.sessions[c][n] = p[2]
        <4>1. \E n \in OpenSessions(s, p[1]) : s.sessions[p[1]][n] = p[2]
        BY <1>9, CouldRunListed, Zenon
      <4>. QED
        BY <4>1, <2>8
    <3>8. n \in k + 1 .. Len(s.sessions[c])
      <4>1. Len(s.sessions[c]) \in Nat /\ k \in 1 .. Len(s.sessions[c]) /\ k <= n
        BY <3>7, <1>7, <1>8
      <4>2. n \in 1 .. Len(s.sessions[c])
        BY <3>7, <1>7 DEF OpenSessions
      <4>3. n # k
        BY <3>6, <3>7, <2>1, <2>8, <1>8
      <4>. QED
        BY <4>1, <4>2, <4>3
    <3>9. \A a : Before(t.sessions[c], a, p[2]) => Before(s.sessions[c], a, p[2]) /\ a # x
      <4>. DEFINE list == s.sessions[c]
      <4>1. /\ list \in Seq(Sessions) /\ Distinct(list) /\ k \in 1 .. Len(list)
            /\ n \in k + 1 .. Len(list) /\ list[n] = p[2] /\ x = list[k]
        BY <1>7, <1>8, <3>7, <3>8
      <4>2. \A a : Before(t.sessions[c], a, p[2]) => Before(After(list, k), a, p[2])
        BY <2>6, <1>1
      <4>. HIDE DEF list
      <4>3. \A a, b : \A q \in k + 1 .. Len(list) :
              list[q] = b /\ Before(After(list, k), a, b) => Before(list, a, b) /\ a # list[k]
        BY <4>1, ListAfter
      <4>4. \A a : Before(After(list, k), a, p[2]) => Before(list, a, p[2]) /\ a # x
        BY <4>1, <4>3
      <4>. QED
        BY <4>2, <4>4 DEF list
    <3>10. Before(s.sessions[c], x, p[2])
      BY <3>7, <3>8, <1>7, <1>8 DEF Before
    <3>11. s.passes[p].session[x] = 0
      BY <3>10, <2>1, <2>8, <1>1 DEF Even
    <3>12. ASSUME NEW y \in Sessions
           PROVE  /\ t.passes[p].session[y] <= 1
                  /\ Before(t.sessions[c], y, p[2]) => t.passes[p].session[y] = 0
      <4>1. CASE y = x
        BY <4>1, <3>9, <3>11, <2>2, <2>5, <2>8
      <4>2. CASE y # x
        <5>1. t.passes[p].session[y] = s.passes[p].session[y]
          BY <4>2, <2>2, <2>5, <2>8
        <5>2. /\ s.passes[p].session[y] <= 1
              /\ Before(s.sessions[c], y, p[2]) => s.passes[p].session[y] = 0
          BY <2>1, <2>8 DEF Even
        <5>. QED
          BY <5>1, <5>2, <3>9
      <4>. QED
        BY <4>1, <4>2
    <3>13. \A d \in Credentials \ {c} :
             t.passes[p].credential[d] <= 1 + t.passes[p].credential[c]
      BY <3>3, <3>4, <1>1
    <3>. QED
      BY <3>3, <3>12, <3>13, <2>8 DEF Even
  <2>. QED
    BY <2>7, <2>8
<1>10. \A p : CouldRun(g, p) <=> CouldRun(t, p)
  BY <1>5, SameRunnable
<1>11. ASSUME NEW p \in Places
       PROVE  Even(t, p) /\ (t.passes[p] # NoPasses => CouldRun(t, p))
  <2>1. CASE CouldRun(s, p) /\ CouldRun(g, p)
    BY <2>1, <1>9, <1>10
  <2>2. CASE ~ (CouldRun(s, p) /\ CouldRun(g, p))
    <3>1. t.passes[p] = NoPasses
      BY <2>2, <1>5
    <3>. QED
      BY <3>1, NoneIsEven
  <2>. QED
    BY <2>1, <2>2
<1>. QED
  BY <1>6, <1>11 DEF TurnsHold, t, g, r, u, c, x

\* A round keeps lists and turns, and either takes a request out of the queue or is idle.
LEMMA RoundKeeps ==
    ASSUME SchedulerAssumption, NEW s, Shape(s), TurnsHold(s)
    PROVE  LET t == PumpOnce(s)
           IN /\ Shape(t) /\ TurnsHold(t) /\ t.stopped = s.stopped
              /\ \/ t = s /\ (Cardinality(s.running) < Slots => Selectable(s) = {})
                 \/ Len(t.queue) = Len(s.queue) - 1
<1>. DEFINE t == PumpOnce(s)
<1>1. CASE ~ (Cardinality(s.running) < Slots /\ Selectable(s) # {})
  <2>1. t = s
    BY <1>1 DEF PumpOnce
  <2>. QED
    BY <1>1, <2>1
<1>2. CASE Cardinality(s.running) < Slots /\ Selectable(s) # {}
  <2>7. PICK i \in DOMAIN s.credentials : \E k \in DOMAIN s.sessions[s.credentials[i]] :
         \E j \in ToSet(s.queue) : Takes(s, i, k, j)
    BY <1>2, RoundTaken
  <2>8. PICK k \in DOMAIN s.sessions[s.credentials[i]] : \E j \in ToSet(s.queue) : Takes(s, i, k, j)
    BY <2>7
  <2>1. PICK j \in ToSet(s.queue) : Takes(s, i, k, j)
    BY <2>8
  <2>. DEFINE c == s.credentials[i]
              x == s.sessions[c][k]
              u == Turned(s, i, k)
              r == RemoveJob(u, j)
              g == Given(r, j)
  <2>2. /\ PlaceOf[j] = <<c, x>>
        /\ \A m \in Selectable(s) : i <= m
        /\ \A m \in OpenSessions(s, c) : k <= m
        /\ t = IF j \in s.stale THEN r ELSE CountPass(s, g, <<c, x>>)
    BY <2>1 DEF Takes
  <2>3. /\ Shape(u) /\ c \in Credentials /\ x \in Sessions
        /\ u.queue = s.queue /\ u.stopped = s.stopped
    BY TurnedFields
  <2>4. Shape(r) /\ Len(r.queue) = Len(s.queue) - 1 /\ r.stopped = s.stopped
    <3>. HIDE DEF u
    <3>1. j \in ToSet(u.queue)
      BY <2>3
    <3>. QED
      BY <2>3, <3>1, RemoveFields
  <2>5. CASE j \in s.stale
    <3>1. t = r
      BY <2>2, <2>5
    <3>2. Shape(r) /\ TurnsHold(r)
      BY <2>2, <2>5, DeadRoundEven
    <3>. QED
      BY <3>1, <3>2, <2>4
  <2>6. CASE j \notin s.stale
    <3>1. t = CountPass(s, g, <<c, x>>)
      BY <2>2, <2>6
    <3>2. Shape(CountPass(s, g, <<c, x>>)) /\ TurnsHold(CountPass(s, g, <<c, x>>))
      BY <2>2, LiveRoundEven
    <3>3. s \in States /\ j \in Jobs
      BY DEF Shape, States, ToSet
    <3>4. Shape(g) /\ g.queue = r.queue /\ g.stopped = r.stopped
      <4>. HIDE DEF r
      <4>. QED
        BY <2>4, <3>3, GivenFields
    <3>5. /\ CountPass(s, g, <<c, x>>).queue = g.queue
          /\ CountPass(s, g, <<c, x>>).stopped = g.stopped
      <4>1. g \in States
        BY <3>4 DEF Shape
      <4>. HIDE DEF g, c, x
      <4>. QED
        BY <4>1, <2>3, <3>3, CountedFields
    <3>. HIDE DEF g, c, x, r, u
    <3>. QED
      BY <3>1, <3>2, <3>4, <3>5, <2>4
  <2>. QED
    BY <2>5, <2>6
<1>. QED
  BY <1>1, <1>2

\* The rounds of a pump are well defined.
LEMMA RoundsExist ==
    ASSUME NEW s, Len(s.queue) \in Nat
    PROVE  \A n \in 0 .. Len(s.queue) :
             Rounds(s)[n] = IF n = 0 THEN s ELSE PumpOnce(Rounds(s)[n - 1])
<1>. DEFINE G(k) == \E f : f = [n \in 0 .. k |-> IF n = 0 THEN s ELSE PumpOnce(f[n - 1])]
<1>1. G(0)
  <2>. DEFINE f == [n \in 0 .. 0 |-> s]
  <2>1. f = [n \in 0 .. 0 |-> IF n = 0 THEN s ELSE PumpOnce(f[n - 1])]
    OBVIOUS
  <2>. QED
    BY <2>1
<1>2. ASSUME NEW k \in Nat, G(k)
      PROVE  G(k + 1)
  <2>1. PICK f : f = [n \in 0 .. k |-> IF n = 0 THEN s ELSE PumpOnce(f[n - 1])]
    BY <1>2
  <2>. DEFINE g == [n \in 0 .. k + 1 |-> IF n = 0 THEN s ELSE PumpOnce(f[n - 1])]
  <2>2. \A n \in 0 .. k : f[n] = IF n = 0 THEN s ELSE PumpOnce(f[n - 1])
    BY <2>1
  <2>3. \A n \in 0 .. k : g[n] = f[n]
    BY <2>2
  <2>4. \A n \in 0 .. k + 1 : n # 0 => f[n - 1] = g[n - 1]
    <3>. HIDE DEF g
    <3>. QED
      BY <2>3
  <2>5. g = [n \in 0 .. k + 1 |-> IF n = 0 THEN s ELSE PumpOnce(g[n - 1])]
    BY <2>4
  <2>. HIDE DEF g
  <2>. QED
    BY <2>5
<1>3. \A k \in Nat : G(k)
  <2>. DEFINE Bad == {k \in Nat : ~ G(k)}
  <2>. HIDE DEF G
  <2>1. SUFFICES ASSUME Bad # {}
                 PROVE  FALSE
    OBVIOUS
  <2>2. First(Bad) \in Bad /\ \A k \in Bad : First(Bad) <= k
    BY <2>1, FirstIn
  <2>3. First(Bad) # 0
    BY <2>2, <1>1
  <2>4. First(Bad) - 1 \in Nat /\ First(Bad) - 1 \notin Bad /\ (First(Bad) - 1) + 1 = First(Bad)
    BY <2>2, <2>3
  <2>. QED
    BY <2>2, <2>4, <1>2
<1>4. PICK f : f = [n \in 0 .. Len(s.queue) |-> IF n = 0 THEN s ELSE PumpOnce(f[n - 1])]
  BY <1>3
<1>5. Rounds(s) = [n \in 0 .. Len(s.queue) |-> IF n = 0 THEN s ELSE PumpOnce(Rounds(s)[n - 1])]
  BY <1>4 DEF Rounds
<1>. HIDE DEF G
<1>. QED
  BY <1>5, Zenon

-------------------------------------------------------------------------------
(* The pump and the loops of removal                                       *)

Idle(s) == Cardinality(s.running) < Slots => Selectable(s) = {}

\* With an empty queue there is nobody to give a slot to.
LEMMA NobodyWaits ==
    ASSUME NEW s, Shape(s), Len(s.queue) = 0
    PROVE  Selectable(s) = {}
<1>1. s \in States /\ ListsHold(s)
  BY DEF Shape
<1>2. ToSet(s.queue) = {}
  BY <1>1 DEF States, ToSet
<1>3. \A m \in DOMAIN s.credentials :
        s.credentials[m] \in Credentials /\ s.credentials[m] \in ToSet(s.credentials)
  BY <1>1 DEF States, ToSet
<1>. QED
  BY <1>1, <1>2, <1>3 DEF ListsHold, Selectable

\* The pump stops when no slot is free or nobody waits who could have it.
LEMMA PumpHolds ==
    ASSUME SchedulerAssumption, NEW s, Shape(s), TurnsHold(s)
    PROVE  LET t == Pump(s)
           IN Shape(t) /\ TurnsHold(t) /\ t.stopped = s.stopped /\ (t.stopped \/ Idle(t))
<1>. DEFINE f == Rounds(s)
            L == Len(s.queue)
            P(n) == /\ Shape(f[n]) /\ TurnsHold(f[n]) /\ f[n].stopped = s.stopped
                    /\ Idle(f[n]) \/ Len(f[n].queue) <= L - n
            Bad == {n \in 0 .. L : ~ P(n)}
<1>1. L \in Nat /\ \A n \in 0 .. L : f[n] = IF n = 0 THEN s ELSE PumpOnce(f[n - 1])
  <2>1. L \in Nat
    BY DEF Shape, States
  <2>. QED
    BY <2>1, RoundsExist
<1>. HIDE DEF f, L
<1>2. P(0)
  <2>1. f[0] = s /\ Len(s.queue) = L
    BY <1>1 DEF L
  <2>. QED
    BY <2>1, <1>1
<1>3. ASSUME NEW n \in 1 .. L, P(n - 1)
      PROVE  P(n)
  <2>. DEFINE u == f[n - 1]
  <2>1. f[n] = PumpOnce(u)
    BY <1>1
  <2>2. /\ Shape(u) /\ TurnsHold(u) /\ u.stopped = s.stopped
        /\ (Idle(u) \/ Len(u.queue) <= L - (n - 1))
    BY <1>3
  <2>. HIDE DEF u
  <2>3. /\ Shape(f[n]) /\ TurnsHold(f[n]) /\ f[n].stopped = u.stopped
        /\ (f[n] = u /\ Idle(u)) \/ Len(f[n].queue) = Len(u.queue) - 1
    BY <2>1, <2>2, RoundKeeps DEF Idle
  <2>4. CASE Idle(u)
    <3>1. f[n] = u
      BY <2>1, <2>4 DEF PumpOnce, Idle
    <3>. QED
      BY <3>1, <2>2, <2>4
  <2>5. CASE ~ Idle(u)
    <3>1. Len(f[n].queue) = Len(u.queue) - 1 /\ Len(u.queue) <= L - (n - 1) /\ Len(u.queue) \in Nat
      BY <2>2, <2>3, <2>5 DEF Shape, States
    <3>2. Len(f[n].queue) <= L - n
      BY <3>1, <1>1
    <3>. QED
      BY <3>2, <2>2, <2>3
  <2>. QED
    BY <2>4, <2>5
<1>4. \A n \in 0 .. L : P(n)
  <2>. HIDE DEF P
  <2>1. SUFFICES ASSUME Bad # {}
                 PROVE  FALSE
    OBVIOUS
  <2>2. First(Bad) \in Bad /\ \A n \in Bad : First(Bad) <= n
    <3>1. Bad \subseteq Nat
      BY <1>1
    <3>. QED
      BY <3>1, <2>1, FirstIn
  <2>3. First(Bad) # 0
    BY <2>2, <1>2
  <2>4. First(Bad) \in 1 .. L /\ First(Bad) - 1 \in 0 .. L /\ First(Bad) - 1 \notin Bad
    BY <2>2, <2>3, <1>1
  <2>. QED
    BY <2>2, <2>4, <1>3
<1>5. P(L)
  BY <1>1, <1>4
<1>6. Idle(f[L])
  <2>1. CASE Len(f[L].queue) <= L - L
    <3>1. Len(f[L].queue) \in Nat
      BY <1>5 DEF Shape, States
    <3>2. Len(f[L].queue) = 0
      BY <3>1, <2>1, <1>1
    <3>. QED
      BY <3>2, <1>5, NobodyWaits DEF Idle
  <2>. QED
    BY <2>1, <1>5
<1>7. Pump(s) = IF s.stopped THEN s ELSE f[L]
  BY DEF Pump, f, L
<1>. QED
  BY <1>5, <1>6, <1>7

\* The removal of a request keeps the lists and the turns.
LEMMA RemoveHolds ==
    ASSUME SchedulerAssumption, NEW s, Shape(s), TurnsHold(s), NEW j \in ToSet(s.queue)
    PROVE  LET r == RemoveJob(s, j)
           IN /\ Shape(r) /\ TurnsHold(r) /\ r.stopped = s.stopped
              /\ ToSet(r.queue) = ToSet(s.queue) \ {j}
<1>. DEFINE r == RemoveJob(s, j)
<1>1. /\ Shape(r) /\ r.stopped = s.stopped /\ ToSet(r.queue) = ToSet(s.queue) \ {j}
      /\ \A a, b : Before(r.credentials, a, b) => Before(s.credentials, a, b)
      /\ \A c \in Credentials : \A a, b : Before(r.sessions[c], a, b) => Before(s.sessions[c], a, b)
  BY RemoveFields
<1>2. \A p \in Places : r.passes[p] = IF CouldRun(r, p) THEN s.passes[p] ELSE NoPasses
  <2>1. \A p \in Places : RemoveJob(s, j).passes[p] =
          IF CouldRun(RemoveJob(s, j), p) THEN s.passes[p] ELSE NoPasses
    <3>. HIDE DEF r
    <3>. QED
      BY RemoveFields
  <2>. QED
    BY <2>1
<1>. HIDE DEF r
<1>3. ASSUME NEW p \in Places
      PROVE  Even(r, p) /\ (r.passes[p] # NoPasses => CouldRun(r, p))
  <2>1. CASE CouldRun(r, p)
    <3>1. r.passes[p] = s.passes[p] /\ Even(s, p) /\ p[1] \in Credentials
      BY <2>1, <1>2 DEF TurnsHold, Places
    <3>. QED
      BY <3>1, <2>1, <1>1 DEF Even
  <2>2. CASE ~ CouldRun(r, p)
    BY <2>2, <1>2, NoneIsEven
  <2>. QED
    BY <2>1, <2>2
<1>. QED
  BY <1>1, <1>3 DEF TurnsHold, r

\* The loop over a copy of the queue is well defined.
LEMMA RemovedExist ==
    ASSUME NEW s, NEW js, Len(s.queue) \in Nat
    PROVE  \A n \in 0 .. Len(s.queue) :
             Removed(s, js)[n] =
               IF n = 0 THEN s
               ELSE IF s.queue[n] \in js THEN RemoveJob(Removed(s, js)[n - 1], s.queue[n])
               ELSE Removed(s, js)[n - 1]
<1>. DEFINE Out(t, n) == IF s.queue[n] \in js THEN RemoveJob(t, s.queue[n]) ELSE t
            G(k) == \E f : f = [n \in 0 .. k |-> IF n = 0 THEN s ELSE Out(f[n - 1], n)]
<1>1. G(0)
  <2>. DEFINE f == [n \in 0 .. 0 |-> s]
  <2>1. f = [n \in 0 .. 0 |-> IF n = 0 THEN s ELSE Out(f[n - 1], n)]
    OBVIOUS
  <2>. QED
    BY <2>1
<1>. HIDE DEF Out
<1>2. ASSUME NEW k \in Nat, G(k)
      PROVE  G(k + 1)
  <2>1. PICK f : f = [n \in 0 .. k |-> IF n = 0 THEN s ELSE Out(f[n - 1], n)]
    BY <1>2
  <2>. DEFINE g == [n \in 0 .. k + 1 |-> IF n = 0 THEN s ELSE Out(f[n - 1], n)]
  <2>2. \A n \in 0 .. k : f[n] = IF n = 0 THEN s ELSE Out(f[n - 1], n)
    BY <2>1
  <2>3. \A n \in 0 .. k : g[n] = f[n]
    BY <2>2
  <2>4. \A n \in 0 .. k + 1 : n # 0 => f[n - 1] = g[n - 1]
    <3>. HIDE DEF g
    <3>. QED
      BY <2>3
  <2>5. g = [n \in 0 .. k + 1 |-> IF n = 0 THEN s ELSE Out(g[n - 1], n)]
    BY <2>4
  <2>. HIDE DEF g
  <2>. QED
    BY <2>5
<1>3. \A k \in Nat : G(k)
  <2>. DEFINE Bad == {k \in Nat : ~ G(k)}
  <2>. HIDE DEF G
  <2>1. SUFFICES ASSUME Bad # {}
                 PROVE  FALSE
    OBVIOUS
  <2>2. First(Bad) \in Bad /\ \A k \in Bad : First(Bad) <= k
    BY <2>1, FirstIn
  <2>3. First(Bad) # 0
    BY <2>2, <1>1
  <2>4. First(Bad) - 1 \in Nat /\ First(Bad) - 1 \notin Bad /\ (First(Bad) - 1) + 1 = First(Bad)
    BY <2>2, <2>3
  <2>. QED
    BY <2>2, <2>4, <1>2
<1>4. PICK f : f = [n \in 0 .. Len(s.queue) |-> IF n = 0 THEN s ELSE Out(f[n - 1], n)]
  BY <1>3
<1>5. Removed(s, js) =
        [n \in 0 .. Len(s.queue) |-> IF n = 0 THEN s ELSE Out(Removed(s, js)[n - 1], n)]
  BY <1>4 DEF Removed, Out
<1>. HIDE DEF G
<1>6. \A n \in 0 .. Len(s.queue) :
        Removed(s, js)[n] = IF n = 0 THEN s ELSE Out(Removed(s, js)[n - 1], n)
  BY <1>5, Zenon
<1>. QED
  BY <1>6 DEF Out

\* The removal of requests keeps the lists and the turns.
LEMMA RemoveAllHolds ==
    ASSUME SchedulerAssumption, NEW s, Shape(s), TurnsHold(s), NEW js
    PROVE  LET t == RemoveAll(s, js)
           IN Shape(t) /\ TurnsHold(t) /\ t.stopped = s.stopped
<1>. DEFINE f == Removed(s, js)
            L == Len(s.queue)
            P(n) == /\ Shape(f[n]) /\ TurnsHold(f[n]) /\ f[n].stopped = s.stopped
                    /\ \A m \in n + 1 .. L : s.queue[m] \in ToSet(f[n].queue)
            Bad == {n \in 0 .. L : ~ P(n)}
<1>1. /\ L \in Nat /\ s.queue \in Seq(Jobs) /\ DOMAIN s.queue = 1 .. L /\ Distinct(s.queue)
  BY DEF Shape, States, ListsHold
<1>2. \A n \in 0 .. L :
        f[n] = IF n = 0 THEN s
               ELSE IF s.queue[n] \in js THEN RemoveJob(f[n - 1], s.queue[n]) ELSE f[n - 1]
  BY <1>1, RemovedExist
<1>. HIDE DEF f, L
<1>3. P(0)
  <2>1. f[0] = s
    BY <1>1, <1>2
  <2>2. \A m \in 1 .. L : s.queue[m] \in ToSet(s.queue)
    BY <1>1 DEF ToSet
  <2>. QED
    BY <2>1, <2>2
<1>4. ASSUME NEW n \in 1 .. L, P(n - 1)
      PROVE  P(n)
  <2>. DEFINE u == f[n - 1]
              j == s.queue[n]
  <2>1. f[n] = IF j \in js THEN RemoveJob(u, j) ELSE u
    BY <1>2
  <2>2. /\ Shape(u) /\ TurnsHold(u) /\ u.stopped = s.stopped
        /\ \A m \in n .. L : s.queue[m] \in ToSet(u.queue)
    BY <1>4
  <2>3. /\ j \in ToSet(u.queue)
        /\ \A m \in n + 1 .. L : s.queue[m] \in ToSet(u.queue) /\ s.queue[m] # j
    <3>1. j \in ToSet(u.queue) /\ \A m \in n + 1 .. L : s.queue[m] \in ToSet(u.queue)
      BY <2>2, <1>1
    <3>2. \A m \in n + 1 .. L : s.queue[m] # j
      BY <1>1 DEF Distinct
    <3>. QED
      BY <3>1, <3>2
  <2>. HIDE DEF u, j
  <2>4. CASE j \in js
    <3>1. f[n] = RemoveJob(u, j)
      BY <2>1, <2>4
    <3>2. /\ Shape(f[n]) /\ TurnsHold(f[n]) /\ f[n].stopped = u.stopped
          /\ ToSet(f[n].queue) = ToSet(u.queue) \ {j}
      BY <3>1, <2>2, <2>3, RemoveHolds
    <3>. QED
      BY <3>2, <2>2, <2>3
  <2>5. CASE j \notin js
    BY <2>1, <2>2, <2>3, <2>5
  <2>. QED
    BY <2>4, <2>5
<1>5. \A n \in 0 .. L : P(n)
  <2>. HIDE DEF P
  <2>1. SUFFICES ASSUME Bad # {}
                 PROVE  FALSE
    OBVIOUS
  <2>2. First(Bad) \in Bad /\ \A n \in Bad : First(Bad) <= n
    <3>1. Bad \subseteq Nat
      BY <1>1
    <3>. QED
      BY <3>1, <2>1, FirstIn
  <2>3. First(Bad) # 0
    BY <2>2, <1>3
  <2>4. First(Bad) \in 1 .. L /\ First(Bad) - 1 \in 0 .. L /\ First(Bad) - 1 \notin Bad
    BY <2>2, <2>3, <1>1
  <2>. QED
    BY <2>2, <2>4, <1>4
<1>6. P(L)
  BY <1>1, <1>5
<1>7. RemoveAll(s, js) = f[L]
  BY DEF RemoveAll, f, L
<1>. QED
  BY <1>6, <1>7

-------------------------------------------------------------------------------
(* The methods                                                             *)

SchedulerInv == Shape(Scheduler) /\ TurnsHold(Scheduler) /\ (stopped \/ Idle(Scheduler))

\* The state as a record.
LEMMA SchedulerFields ==
    /\ Scheduler.queue = queue /\ Scheduler.credentials = credentials
    /\ Scheduler.sessions = sessions /\ Scheduler.running = running
    /\ Scheduler.settled = settled /\ Scheduler.stale = stale
    /\ Scheduler.stopped = stopped /\ Scheduler.passes = passes
BY DEF Scheduler

\* What a method leaves behind is the next state.
LEMMA BecomeHolds ==
    ASSUME NEW s, Become(s), Shape(s), \A p \in Places : Even(s, p), s.stopped \/ Idle(s)
    PROVE  SchedulerInv'
<1>. DEFINE t == Recount(s)
<1>1. s \in States
  BY DEF Shape
<1>2. /\ t \in States
      /\ t.queue = s.queue /\ t.credentials = s.credentials /\ t.sessions = s.sessions
      /\ t.running = s.running /\ t.settled = s.settled /\ t.stale = s.stale
      /\ t.stopped = s.stopped
  BY <1>1, RecountFields
<1>3. Shape(t) /\ TurnsHold(t)
  BY RecountHolds
<1>. HIDE DEF t
<1>4. t.stopped \/ Idle(t)
  BY <1>2 DEF Idle, Selectable, UnderCap, Holds, OpenSessions, Active
<1>5. t = Scheduler'
  BY <1>2 DEF Become, Scheduler, States, t
<1>. QED
  BY <1>3, <1>4, <1>5, SchedulerFields DEF SchedulerInv, Scheduler

\* An arriving request keeps the lists and the turns: newcomers come last.
LEMMA EnqueueHolds ==
    ASSUME SchedulerAssumption, NEW s, Shape(s), TurnsHold(s),
           NEW j \in Jobs, j \notin ToSet(s.queue), j \notin s.stale
    PROVE  Shape(Enqueue(s, j)) /\ TurnsHold(Enqueue(s, j))
<1>. DEFINE c == PlaceOf[j][1]
            x == PlaceOf[j][2]
            t == Enqueue(s, j)
<1>1. s \in States /\ ListsHold(s) /\ IsFiniteSet(s.running)
  BY DEF Shape
<1>2. c \in Credentials /\ x \in Sessions /\ PlaceOf[j] = <<c, x>>
  BY DEF SchedulerAssumption, Places
<1>3. /\ Append(s.queue, j) \in Seq(Jobs) /\ Distinct(Append(s.queue, j))
      /\ ToSet(Append(s.queue, j)) = ToSet(s.queue) \cup {j}
  <2>1. s.queue \in Seq(Jobs) /\ Distinct(s.queue)
    BY <1>1 DEF States, ListsHold
  <2>2. AddTo(s.queue, j) = Append(s.queue, j)
    BY DEF AddTo
  <2>3. /\ AddTo(s.queue, j) \in Seq(Jobs) /\ Distinct(AddTo(s.queue, j))
        /\ ToSet(AddTo(s.queue, j)) = ToSet(s.queue) \cup {j}
    BY <2>1, ListAdd
  <2>. QED
    BY <2>2, <2>3
<1>4. /\ AddTo(s.credentials, c) \in Seq(Credentials) /\ Distinct(AddTo(s.credentials, c))
      /\ ToSet(AddTo(s.credentials, c)) = ToSet(s.credentials) \cup {c}
      /\ \A a, b : b \in ToSet(s.credentials) /\ Before(AddTo(s.credentials, c), a, b) =>
           Before(s.credentials, a, b)
  <2>1. s.credentials \in Seq(Credentials) /\ Distinct(s.credentials)
    BY <1>1 DEF States, ListsHold
  <2>. QED
    BY <2>1, <1>2, ListAdd
<1>5. /\ AddTo(s.sessions[c], x) \in Seq(Sessions) /\ Distinct(AddTo(s.sessions[c], x))
      /\ ToSet(AddTo(s.sessions[c], x)) = ToSet(s.sessions[c]) \cup {x}
      /\ \A a, b : b \in ToSet(s.sessions[c]) /\ Before(AddTo(s.sessions[c], x), a, b) =>
           Before(s.sessions[c], a, b)
  <2>1. s.sessions[c] \in Seq(Sessions) /\ Distinct(s.sessions[c])
    BY <1>1, <1>2 DEF States, ListsHold
  <2>. QED
    BY <2>1, <1>2, ListAdd
<1>. HIDE DEF c, x
<1>6. /\ t \in States /\ t.queue = Append(s.queue, j) /\ t.running = s.running /\ t.stale = s.stale
      /\ t.passes = s.passes /\ t.credentials = AddTo(s.credentials, c)
      /\ t.sessions[c] = AddTo(s.sessions[c], x)
      /\ \A d \in Credentials : d # c => t.sessions[d] = s.sessions[d]
  BY <1>1, <1>2, <1>3, <1>4, <1>5 DEF Enqueue, States, c, x
<1>. HIDE DEF t
<1>7. \A p : Waiting(t, p) = IF p = <<c, x>> THEN Waiting(s, p) \cup {j} ELSE Waiting(s, p)
  BY <1>2, <1>3, <1>6 DEF Waiting
<1>8. ASSUME NEW d \in Credentials
      PROVE  /\ Distinct(t.sessions[d])
             /\ d \in ToSet(t.credentials) <=> \E k \in ToSet(t.queue) : PlaceOf[k][1] = d
             /\ \A y \in Sessions : y \in ToSet(t.sessions[d]) <=> Waiting(t, <<d, y>>) # {}
  <2>1. /\ Distinct(s.sessions[d])
        /\ d \in ToSet(s.credentials) <=> \E k \in ToSet(s.queue) : PlaceOf[k][1] = d
        /\ \A y \in Sessions : y \in ToSet(s.sessions[d]) <=> Waiting(s, <<d, y>>) # {}
    BY <1>1 DEF ListsHold
  <2>2. PlaceOf[j][1] = c
    BY DEF c
  <2>3. d \in ToSet(t.credentials) <=> \E k \in ToSet(t.queue) : PlaceOf[k][1] = d
    BY <2>1, <2>2, <1>3, <1>4, <1>6
  <2>4. CASE d # c
    BY <2>1, <2>3, <2>4, <1>6, <1>7
  <2>5. CASE d = c
    BY <2>1, <2>3, <2>5, <1>5, <1>6, <1>7
  <2>. QED
    BY <2>4, <2>5
<1>9. Shape(t)
  BY <1>1, <1>3, <1>4, <1>6, <1>8 DEF Shape, ListsHold
<1>10. ASSUME NEW p \in Places, CouldRun(s, p)
       PROVE  Even(t, p) /\ CouldRun(t, p)
  <2>1. Even(s, p) /\ p = <<p[1], p[2]>> /\ p[1] \in Credentials /\ p[2] \in Sessions
    BY DEF TurnsHold, Places
  <2>2. p[1] \in ToSet(s.credentials) /\ p[2] \in ToSet(s.sessions[p[1]])
    <3>1. Waiting(s, p) # {}
      BY <1>10 DEF CouldRun
    <3>. QED
      BY <3>1, <2>1, <1>1 DEF ListsHold, Waiting
  <2>3. \A a : Before(t.credentials, a, p[1]) => Before(s.credentials, a, p[1])
    BY <2>2, <1>4, <1>6
  <2>4. \A a : Before(t.sessions[p[1]], a, p[2]) => Before(s.sessions[p[1]], a, p[2])
    BY <2>1, <2>2, <1>5, <1>6
  <2>5. Even(t, p)
    BY <2>1, <2>3, <2>4, <1>6 DEF Even
  <2>6. CouldRun(t, p)
    BY <1>10, <1>6, <1>7 DEF CouldRun, Active, UnderCap, Holds
  <2>. QED
    BY <2>5, <2>6
<1>11. ASSUME NEW p \in Places
       PROVE  Even(t, p) /\ (t.passes[p] # NoPasses => CouldRun(t, p))
  <2>1. CASE CouldRun(s, p)
    BY <2>1, <1>10
  <2>2. CASE ~ CouldRun(s, p)
    <3>1. t.passes[p] = NoPasses
      BY <2>2, <1>6 DEF TurnsHold
    <3>. QED
      BY <3>1, NoneIsEven
  <2>. QED
    BY <2>1, <2>2
<1>. QED
  BY <1>9, <1>11 DEF TurnsHold, t

\* A release keeps the lists and the turns: what could run still can.
LEMMA ReleaseHolds ==
    ASSUME SchedulerAssumption, NEW s, Shape(s), TurnsHold(s), NEW j \in s.running
    PROVE  LET t == [s EXCEPT !.running = @ \ {j}, !.settled = @ \cup {j}]
           IN Shape(t) /\ TurnsHold(t)
<1>. DEFINE t == [s EXCEPT !.running = @ \ {j}, !.settled = @ \cup {j}]
<1>1. s \in States /\ ListsHold(s) /\ IsFiniteSet(s.running)
  BY DEF Shape
<1>2. /\ t \in States
      /\ t.queue = s.queue /\ t.credentials = s.credentials /\ t.sessions = s.sessions
      /\ t.running = s.running \ {j} /\ t.stale = s.stale /\ t.passes = s.passes
  BY <1>1 DEF States
<1>. HIDE DEF t
<1>3. ListsHold(t) /\ IsFiniteSet(t.running)
  <2>1. ListsHold(t)
    BY <1>1, <1>2 DEF ListsHold, Waiting
  <2>2. IsFiniteSet(s.running \ {j})
    BY <1>1, FS_RemoveElement
  <2>. QED
    BY <1>2, <2>1, <2>2
<1>4. ASSUME NEW p \in Places, CouldRun(s, p)
      PROVE  CouldRun(t, p)
  <2>1. Holds(t, p[1]) \subseteq Holds(s, p[1]) /\ IsFiniteSet(Holds(s, p[1]))
    <3>1. Holds(s, p[1]) \subseteq s.running
      BY DEF Holds
    <3>. QED
      BY <3>1, <1>1, <1>2, FS_Subset DEF Holds
  <2>2. Cardinality(Holds(t, p[1])) <= Cardinality(Holds(s, p[1]))
        /\ Cardinality(Holds(t, p[1])) \in Nat /\ Cardinality(Holds(s, p[1])) \in Nat
    BY <2>1, FS_Subset, FS_CardinalityType
  <2>3. CapOf[p[1]] \in Nat
    BY DEF SchedulerAssumption, Places
  <2>4. UnderCap(t, p[1])
    BY <1>4, <2>2, <2>3 DEF CouldRun, UnderCap
  <2>5. Waiting(t, p) = Waiting(s, p) /\ \A q : Waiting(t, q) = Waiting(s, q)
    BY <1>2 DEF Waiting
  <2>6. ~ Active(t, p)
    BY <1>2, <1>4 DEF CouldRun, Active
  <2>. QED
    BY <1>2, <1>4, <2>4, <2>5, <2>6 DEF CouldRun
<1>5. \A p \in Places : Even(t, p) /\ (t.passes[p] # NoPasses => CouldRun(t, p))
  BY <1>2, <1>4 DEF TurnsHold, Even
<1>. QED
  BY <1>2, <1>3, <1>5 DEF Shape, TurnsHold, t

\* The invariant holds before the first request.
LEMMA SchedulerInit == Init => SchedulerInv
<1> SUFFICES ASSUME Init
             PROVE  SchedulerInv
  OBVIOUS
<1>1. Scheduler \in States
  <2>1. queue \in Seq(Jobs) /\ credentials \in Seq(Credentials)
    BY DEF Init
  <2>2. sessions \in [Credentials -> Seq(Sessions)]
    BY DEF Init
  <2>3. passes \in [Places -> Counts]
    BY NoPassesTyped DEF Init
  <2>4. /\ running \subseteq Jobs /\ settled \subseteq Jobs
        /\ stale \subseteq Jobs /\ stopped \in BOOLEAN
    BY DEF Init
  <2>. QED
    BY <2>1, <2>2, <2>3, <2>4 DEF Scheduler, States
<1>2. ListsHold(Scheduler) /\ IsFiniteSet(Scheduler.running)
  BY SchedulerFields, FS_EmptySet DEF Init, ListsHold, Distinct, Waiting, ToSet
<1>3. \A p \in Places : Scheduler.passes[p] = NoPasses
  BY SchedulerFields DEF Init
<1>4. TurnsHold(Scheduler)
  BY <1>3, NoneIsEven DEF TurnsHold
<1>5. Idle(Scheduler)
  <2>1. Shape(Scheduler)
    BY <1>1, <1>2 DEF Shape
  <2>2. Len(Scheduler.queue) = 0
    BY SchedulerFields DEF Init
  <2>3. Selectable(Scheduler) = {}
    BY <2>1, <2>2, NobodyWaits
  <2>. QED
    BY <2>3 DEF Idle
<1>. QED
  BY <1>1, <1>2, <1>4, <1>5 DEF SchedulerInv, Shape

\* Every method keeps the invariant.
LEMMA SchedulerStep ==
    ASSUME SchedulerAssumption
    PROVE  SchedulerInv /\ [Next]_vars => SchedulerInv'
<1> SUFFICES ASSUME SchedulerInv, [Next]_vars
             PROVE  SchedulerInv'
  OBVIOUS
<1>1. /\ Shape(Scheduler) /\ TurnsHold(Scheduler) /\ (stopped \/ Idle(Scheduler))
      /\ Scheduler \in States
  BY DEF SchedulerInv, Shape
\* The pump after anything that keeps the lists and the turns.
<1>2. ASSUME NEW s, Shape(s), TurnsHold(s), Become(Pump(s))
      PROVE  SchedulerInv'
  <2>1. Shape(Pump(s)) /\ TurnsHold(Pump(s)) /\ (Pump(s).stopped \/ Idle(Pump(s)))
    BY <1>2, PumpHolds
  <2>. QED
    BY <2>1, <1>2, BecomeHolds DEF TurnsHold
<1>3. ASSUME NEW s \in States, Become(s), s.queue = queue, s.credentials = credentials,
             s.sessions = sessions, s.running = running, s.passes = passes, s.stopped = stopped
      PROVE  SchedulerInv'
  <2>1. Shape(s)
    BY <1>1, <1>3, SchedulerFields DEF Shape, ListsHold, Waiting
  <2>2. Selectable(s) = Selectable(Scheduler)
    BY <1>3, SchedulerFields DEF Selectable, UnderCap, Holds, OpenSessions, Active
  <2>3. s.stopped \/ Idle(s)
    BY <1>1, <1>3, <2>2, SchedulerFields DEF Idle
  <2>4. \A p \in Places : Even(s, p)
    BY <1>1, <1>3, SchedulerFields DEF TurnsHold, Even
  <2>. QED
    BY <1>3, <2>1, <2>3, <2>4, BecomeHolds
<1>4. ASSUME NEW j \in Jobs, Acquire(j)
      PROVE  SchedulerInv'
  <2>1. CASE Refused(j)
    <3>. DEFINE s == [Scheduler EXCEPT !.settled = @ \cup {j}]
    <3>1. Become(s)
      BY <1>4, <2>1 DEF Acquire
    <3>2. /\ s \in States /\ s.queue = queue /\ s.credentials = credentials /\ s.sessions = sessions
          /\ s.running = running /\ s.passes = passes /\ s.stopped = stopped
      BY <1>1, SchedulerFields DEF States
    <3>. HIDE DEF s
    <3>. QED
      BY <3>1, <3>2, <1>3
  <2>2. CASE ~ Refused(j)
    <3>1. Become(Pump(Enqueue(Scheduler, j)))
      BY <1>4, <2>2 DEF Acquire
    <3>2. j \notin ToSet(Scheduler.queue) /\ j \notin Scheduler.stale
      BY <1>4, <2>2, SchedulerFields DEF Acquire, Refused
    <3>3. Shape(Enqueue(Scheduler, j)) /\ TurnsHold(Enqueue(Scheduler, j))
      BY <1>1, <3>2, EnqueueHolds
    <3>. QED
      BY <3>1, <3>3, <1>2
  <2>. QED
    BY <2>1, <2>2
<1>5. ASSUME NEW j \in Jobs, Release(j)
      PROVE  SchedulerInv'
  <2>. DEFINE s == [Scheduler EXCEPT !.running = @ \ {j}, !.settled = @ \cup {j}]
  <2>1. Become(Pump(s)) /\ j \in Scheduler.running
    BY <1>5, SchedulerFields DEF Release
  <2>2. Shape(s) /\ TurnsHold(s)
    BY <1>1, <2>1, ReleaseHolds
  <2>. HIDE DEF s
  <2>. QED
    BY <2>1, <2>2, <1>2
<1>6. ASSUME NEW j \in Jobs, Withdraw(j)
      PROVE  SchedulerInv'
  <2>1. Become(Pump(RemoveJob(Scheduler, j))) /\ j \in ToSet(Scheduler.queue)
    BY <1>6, SchedulerFields DEF Withdraw
  <2>2. Shape(RemoveJob(Scheduler, j)) /\ TurnsHold(RemoveJob(Scheduler, j))
    BY <1>1, <2>1, RemoveHolds
  <2>. QED
    BY <2>1, <2>2, <1>2
<1>7. ASSUME NEW j \in Jobs, Expire(j)
      PROVE  SchedulerInv'
  <2>. DEFINE s == [Scheduler EXCEPT !.stale = @ \cup {j}]
  <2>1. Become(s)
    BY <1>7 DEF Expire
  <2>2. /\ s \in States /\ s.queue = queue /\ s.credentials = credentials /\ s.sessions = sessions
        /\ s.running = running /\ s.passes = passes /\ s.stopped = stopped
    BY <1>1, SchedulerFields DEF States
  <2>. HIDE DEF s
  <2>. QED
    BY <2>1, <2>2, <1>3
<1>8. ASSUME NEW p \in Places, CancelSession(p)
      PROVE  SchedulerInv'
  <2>. DEFINE s == RemoveAll(Scheduler, Waiting(Scheduler, p))
  <2>1. Become(Pump(s))
    BY <1>8 DEF CancelSession
  <2>2. Shape(s) /\ TurnsHold(s)
    BY <1>1, RemoveAllHolds
  <2>. HIDE DEF s
  <2>. QED
    BY <2>1, <2>2, <1>2
<1>9. CASE Sweep
  <2>. DEFINE s == RemoveAll(Scheduler, stale)
  <2>1. Become(Pump(s))
    BY <1>9 DEF Sweep
  <2>2. Shape(s) /\ TurnsHold(s)
    BY <1>1, RemoveAllHolds
  <2>. HIDE DEF s
  <2>. QED
    BY <2>1, <2>2, <1>2
<1>10. CASE Close
  <2>. DEFINE s == [Scheduler EXCEPT !.stopped = TRUE]
              t == RemoveAll(s, Jobs)
  <2>1. Become(t)
    BY <1>10 DEF Close
  <2>2. /\ s \in States /\ s.queue = queue /\ s.credentials = credentials /\ s.sessions = sessions
        /\ s.running = running /\ s.passes = passes /\ s.stale = stale /\ s.stopped = TRUE
    BY <1>1, SchedulerFields DEF States
  <2>. HIDE DEF s
  <2>3. Shape(s)
    BY <1>1, <2>2, SchedulerFields DEF Shape, ListsHold, Waiting
  <2>4. TurnsHold(s)
    BY <1>1, <2>2, SchedulerFields, SameRunnable DEF TurnsHold, Even
  <2>5. Shape(t) /\ TurnsHold(t) /\ t.stopped
    BY <2>2, <2>3, <2>4, RemoveAllHolds
  <2>. HIDE DEF t
  <2>. QED
    BY <2>1, <2>5, BecomeHolds DEF TurnsHold
<1>11. CASE UNCHANGED vars
  <2>1. Scheduler' = Scheduler /\ stopped' = stopped
    BY <1>11 DEF vars, Scheduler
  <2>. QED
    BY <2>1, <1>1 DEF SchedulerInv
<1>. QED
  BY <1>4, <1>5, <1>6, <1>7, <1>8, <1>9, <1>10, <1>11 DEF Next

\* The invariant holds in every state of every instance.
LEMMA SchedulerInvariant ==
    ASSUME SchedulerAssumption
    PROVE  Spec => []SchedulerInv
BY SchedulerInit, SchedulerStep, PTL DEF Spec

\* No slot stays free while a search could have it, and turns are fair.
THEOREM WaitersAlwaysServed ==
    ASSUME SchedulerAssumption
    PROVE  Spec => []WaitersAreServed
<1>1. SchedulerInv => WaitersAreServed
  <2> SUFFICES ASSUME SchedulerInv
               PROVE  WaitersAreServed
    OBVIOUS
  <2>1. SlotsAreUsed
    BY SchedulerFields DEF SchedulerInv, Idle, SlotsAreUsed
  <2>2. TurnsAreFair
    BY SchedulerFields DEF SchedulerInv, TurnsHold, Even, TurnsAreFair
  <2>. QED
    BY <2>1, <2>2 DEF WaitersAreServed
<1>. QED
  BY <1>1, SchedulerInvariant, PTL
================================================================================
