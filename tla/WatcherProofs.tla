----------------------------- MODULE WatcherProofs -----------------------------
(***************************************************************************)
(* At most one live host serves a vault, and it is the one the host lock   *)
(* names; one host at a time works on the files of a journal; one journal  *)
(* ever becomes the vault's; and a start that has the vault to itself is   *)
(* never refused, unless it was stranded when it began: for any number of  *)
(* hosts, journals, deaths, torn writes and failing steps.                 *)
(***************************************************************************)
EXTENDS WatcherBootstrap, FiniteSetTheorems, TLAPS

Stages ==
  {"start", "refused", "route", "evidence", "acquire", "create", "open", "observeStale",
   "claimStale", "unlinkStale", "relock", "unclaim", "observe", "claim", "select", "link",
   "clean", "late", "finish", "elect", "stageExecutor", "install", "elected", "stale",
   "newLock", "release", "unclaimRecovered", "unguard", "serving", "stopped", "crashed"}
  \cup Leaves

Candidates == [by : Hosts, to : Targets \cup {NoTarget}, torn : BOOLEAN,
               claim : Claims \cup {NoClaim}]

\* The candidate a host writes for a journal.
Chosen(h, t) == [by |-> h, to |-> t, torn |-> FALSE, claim |-> myClaim[h]]

\* The files have their types.
FileTypes ==
  /\ lock \in HostLocks \cup {NoLock} /\ claim \in Claims \cup {NoClaim}
  /\ executor \in Hosts \cup {NoHost}
  /\ selector \in Targets \cup {NoTarget} /\ candidates \subseteq Candidates
  /\ disk \in [Leaves -> [Targets -> Statuses]]
  /\ bridgeClaim \in Claims \cup {NoClaim}

\* So do the locals of the hosts; a claim is made about a lock that was seen.
HostTypes ==
  /\ proc \in [Hosts -> {"unborn", "live", "dead"}] /\ pc \in [Hosts -> Stages]
  /\ prior \in [Hosts -> Targets \cup {NoTarget}]
  /\ target \in [Hosts -> Targets \cup {NoTarget}]
  /\ observed \in [Hosts -> HostLocks \cup {NoLock}]
  /\ myClaim \in [Hosts -> Claims \cup {NoClaim}]
  /\ held \in [Hosts -> BOOLEAN]
  /\ \A h \in Hosts : pc[h] \in {"claimStale", "claim"} => observed[h] \in HostLocks

\* The executor records are as many as their ordinals allow, the staged one
\* included, and whoever read the last one can still find it.
ChainHolds ==
  /\ IsFiniteSet(chain)
  /\ chain \subseteq [by : Hosts, ord : 0 .. Cardinality(chain) - 1, prior : Hosts \cup {NoHost}]
  /\ execStage \in [st : {"none", "torn", "stage"}, by : Hosts \cup {NoHost},
                    ord : 0 .. Cardinality(chain), prior : Hosts \cup {NoHost}]
  /\ execStage.st = "stage" => execStage.by \in Hosts
  /\ sawLast \in [Hosts -> {r.by : r \in chain} \cup {NoHost}]

\* The stages in which a host goes by a lock of its own.
Owns(h) ==
  Alive(h) /\ (held[h] \/ pc[h] \in {"open", "serving", "unclaim", "release", "unclaimRecovered"})

\* A lock is never taken away from a live host that goes by it.
OwnerHolds ==
  /\ \A h \in Hosts : Owns(h) => lock # NoLock /\ lock.owner = h
  /\ \A h \in Hosts : pc[h] \notin {"start", "refused", "stopped", "crashed"} => Alive(h)
  /\ \A h \in Hosts : proc[h] = "unborn" => ~held[h]

\* The inductive invariant.
WatcherInv == FileTypes /\ HostTypes /\ ChainHolds /\ OwnerHolds

-----------------------------------------------------------------------------
(***************************************************************************)
(* Steps.                                                                  *)
(***************************************************************************)

\* A host goes on to another stage.
LEMMA GoTyped ==
    ASSUME HostTypes, NEW h \in Hosts, NEW s \in Stages, Go(h, s)
    PROVE  pc' \in [Hosts -> Stages] /\ pc'[h] = s /\ \A g \in Hosts \ {h} : pc'[g] = pc[g]
  BY DEF HostTypes, Go

\* The chain and what is read of it stay as they are.
LEMMA ChainKept ==
    ASSUME ChainHolds, UNCHANGED <<chain, execStage, sawLast>>
    PROVE  ChainHolds'
  BY DEF ChainHolds

\* A host that does not come to own the lock may go on while the lock stays.
LEMMA OwnerKept ==
    ASSUME WatcherInv, NEW h \in Hosts, NEW s \in Stages, Go(h, s), UNCHANGED <<proc, held, lock>>,
           \/ s \notin {"open", "serving", "unclaim", "release", "unclaimRecovered"}
           \/ lock # NoLock /\ lock.owner = h,
           s \notin {"start", "refused", "stopped", "crashed"} => Alive(h)
    PROVE  OwnerHolds'
  <1>1. pc' \in [Hosts -> Stages] /\ pc'[h] = s /\ \A g \in Hosts \ {h} : pc'[g] = pc[g]
    BY GoTyped DEF WatcherInv
  <1>. QED  BY <1>1 DEF WatcherInv, OwnerHolds, Owns, Alive

\* The lock a host removes belongs to nobody who is alive, or to the host.
LEMMA OwnerGone ==
    ASSUME WatcherInv, NEW h \in Hosts, NEW s \in Stages, Go(h, s),
           proc' = proc, held' \in [Hosts -> BOOLEAN],
           \A g \in Hosts \ {h} : held'[g] = held[g],
           s \notin {"open", "serving", "unclaim", "release", "unclaimRecovered"},
           held'[h] => held[h] /\ lock' = lock,
           \/ lock' = lock
           \/ \A g \in Hosts \ {h} : Alive(g) => lock = NoLock \/ lock.owner # g,
           s \notin {"start", "refused", "stopped", "crashed"} => Alive(h)
    PROVE  OwnerHolds'
  <1>1. pc' \in [Hosts -> Stages] /\ pc'[h] = s /\ \A g \in Hosts \ {h} : pc'[g] = pc[g]
    BY GoTyped DEF WatcherInv
  <1>2. ASSUME NEW g \in Hosts, Owns(g)'
        PROVE  lock' # NoLock /\ lock'.owner = g
    <2>1. CASE g = h
      <3>1. held'[h]
        BY <1>1, <1>2, <2>1 DEF Owns
      <3>. QED  BY <1>2, <2>1, <3>1 DEF WatcherInv, OwnerHolds, Owns, Alive
    <2>2. CASE g # h
      <3>1. Owns(g) /\ Alive(g)
        BY <1>1, <1>2, <2>2 DEF Owns, Alive
      <3>. QED  BY <2>2, <3>1 DEF WatcherInv, OwnerHolds
    <2>. QED  BY <2>1, <2>2
  <1>3. \A g \in Hosts : pc'[g] \notin {"start", "refused", "stopped", "crashed"} => Alive(g)'
    BY <1>1 DEF WatcherInv, OwnerHolds, Alive
  <1>4. \A g \in Hosts : proc'[g] = "unborn" => ~held'[g]
    BY DEF WatcherInv, OwnerHolds
  <1>. QED  BY <1>2, <1>3, <1>4 DEF OwnerHolds

\* A lock is written while there is none: no other host owned it.
LEMMA OwnerNew ==
    ASSUME WatcherInv, NEW h \in Hosts, NEW s \in Stages, Go(h, s), Alive(h), lock = NoLock,
           lock' \in HostLocks, lock' # NoLock, lock'.owner = h, proc' = proc,
           held' \in [Hosts -> BOOLEAN], \A g \in Hosts \ {h} : held'[g] = held[g]
    PROVE  OwnerHolds'
  <1>1. pc' \in [Hosts -> Stages] /\ pc'[h] = s /\ \A g \in Hosts \ {h} : pc'[g] = pc[g]
    BY GoTyped DEF WatcherInv
  <1>2. ASSUME NEW g \in Hosts, Owns(g)'
        PROVE  g = h
    BY <1>1, <1>2 DEF WatcherInv, OwnerHolds, Owns, Alive
  <1>3. \A g \in Hosts : pc'[g] \notin {"start", "refused", "stopped", "crashed"} => Alive(g)'
    BY <1>1 DEF WatcherInv, OwnerHolds, Alive
  <1>4. \A g \in Hosts : proc'[g] = "unborn" => ~held'[g]
    BY DEF WatcherInv, OwnerHolds, Alive
  <1>. QED  BY <1>2, <1>3, <1>4 DEF OwnerHolds

\* A host that is refused keeps the invariant.
LEMMA RejectStep ==
    ASSUME WatcherInv, NEW h \in Hosts, Reject(h)
    PROVE  WatcherInv'
  <1>1. "refused" \in Stages
    BY DEF Stages
  <1>2. FileTypes'
    BY DEF WatcherInv, FileTypes, Reject, selVars, diskVars, execVars
  <1>3. HostTypes'
    <2>1. pc' \in [Hosts -> Stages] /\ pc'[h] = "refused" /\ \A g \in Hosts \ {h} : pc'[g] = pc[g]
      BY <1>1, GoTyped DEF WatcherInv, Reject
    <2>. QED  BY <2>1 DEF WatcherInv, HostTypes, Reject
  <1>4. ChainHolds'
    BY ChainKept DEF WatcherInv, Reject, execVars
  <1>5. OwnerHolds'
    BY <1>1, OwnerGone DEF WatcherInv, HostTypes, Reject
  <1>. QED  BY <1>2, <1>3, <1>4, <1>5 DEF WatcherInv

\* The files a host writes hold what the code writes into them.
LEMMA GrownTyped ==
    ASSUME NEW k, NEW st \in Statuses \ {"final"}
    PROVE  Grown(k, st) \in Statuses
  BY DEF Grown, Statuses

\* A file of a journal takes another status.
LEMMA DiskTyped ==
    ASSUME disk \in [Leaves -> [Targets -> Statuses]], NEW k \in Leaves, NEW t, NEW st,
           t \in Targets => st \in Statuses, disk' = [disk EXCEPT ![k][t] = st]
    PROVE  disk' \in [Leaves -> [Targets -> Statuses]]
  <1>1. [disk[k] EXCEPT ![t] = st] \in [Targets -> Statuses]
    OBVIOUS
  <1>. QED  BY <1>1

\* The records a host may write.
LEMMA LockTyped ==
    ASSUME HostTypes, NEW h \in Hosts
    PROVE  NewLock(h) \in HostLocks /\ [owner |-> h, prior |-> target[h]] \in HostLocks
  BY DEF HostTypes, NewLock, HostLocks

\* Every step keeps the types of the files.
LEMMA FileStep ==
    ASSUME WatcherInv, NEW h \in Hosts, Step(h), ~Reject(h)
    PROVE  FileTypes'
  <1>. USE DEF WatcherInv
  <1>1. CASE \/ Start(h) \/ Route(h) \/ Acquire(h) \/ ObserveStale(h) \/ Open(h) \/ Observe(h)
             \/ Elect(h) \/ StageExecutor(h) \/ Elected(h) \/ Publish(h) \/ Exit(h) \/ Crash(h)
    <2>1. UNCHANGED <<lock, claim, executor, selector, candidates, disk, bridgeClaim>>
      BY <1>1 DEF Start, Route, Acquire, ObserveStale, Open, Observe, Elect, StageExecutor,
                  Elected, Publish, Exit, Crash, Stop, Refuse, KeepDisk, KeepFinish, rootVars,
                  execVars, selVars, diskVars, startVars
    <2>. QED  BY <2>1 DEF FileTypes
  <1>2. CASE Create(h) \/ UnlinkStale(h) \/ Relock(h) \/ RemoveStale(h) \/ CreateRecovered(h)
    <2>1. UNCHANGED <<claim, executor, selector, candidates, disk, bridgeClaim>>
      BY <1>2 DEF Create, UnlinkStale, Relock, RemoveStale, CreateRecovered, Refuse, KeepDisk,
                  execVars, selVars, diskVars
    <2>2. lock' \in {NoLock, NewLock(h), [owner |-> h, prior |-> target[h]]}
      BY <1>2 DEF Create, UnlinkStale, Relock, RemoveStale, CreateRecovered, Refuse
    <2>. QED  BY <2>1, <2>2, LockTyped DEF FileTypes
  <1>3. CASE EnsureClaim(h) \/ Unclaim(h)
    <2>1. UNCHANGED <<lock, executor, selector, candidates, disk, bridgeClaim>>
      BY <1>3 DEF EnsureClaim, Unclaim, Refuse, KeepDisk, execVars, selVars, diskVars
    <2>2. claim' \in {claim, NoClaim} \/ claim' = [by |-> h, lock |-> observed[h]]
      BY <1>3 DEF EnsureClaim, Unclaim, Refuse
    <2>3. EnsureClaim(h) => observed[h] \in HostLocks
      BY DEF EnsureClaim, HostTypes
    <2>4. claim' = [by |-> h, lock |-> observed[h]] => claim' \in Claims \cup {NoClaim}
      <3>1. CASE EnsureClaim(h)
        BY <2>3, <3>1 DEF Claims
      <3>2. CASE Unclaim(h)
        BY <3>2 DEF Unclaim, Refuse
      <3>. QED  BY <1>3, <3>1, <3>2
    <2>. QED  BY <2>1, <2>2, <2>4 DEF FileTypes
  <1>4. CASE Evidence(h) \/ Clean(h)
    <2>1. UNCHANGED <<lock, claim, executor, selector, disk, bridgeClaim>>
      BY <1>4 DEF Evidence, Clean, Refuse, rootVars, execVars, diskVars
    <2>2. candidates' \subseteq candidates
      BY <1>4 DEF Evidence, Clean, Swept
    <2>. QED  BY <2>1, <2>2 DEF FileTypes
  <1>5. CASE Select(h)
    <2>1. UNCHANGED <<lock, claim, executor, selector, disk, bridgeClaim>>
      BY <1>5 DEF Select, rootVars, execVars, diskVars
    <2>2. Unused \subseteq Targets /\ Planned \subseteq Targets
      BY DEF Unused, Planned, Present
    <2>3. \/ candidates' \subseteq candidates
          \/ \E t \in Unused \cup Planned : candidates' = {Chosen(h, t)}
      BY <1>5 DEF Select, Chosen
    <2>4. \A t \in Targets : Chosen(h, t) \in Candidates
      BY DEF Candidates, Chosen, HostTypes
    <2>. QED  BY <2>1, <2>2, <2>3, <2>4 DEF FileTypes
  <1>6. CASE Link(h)
    <2>1. UNCHANGED <<lock, claim, executor, candidates, disk, bridgeClaim>>
      BY <1>6 DEF Link, Refuse, rootVars, execVars, diskVars
    <2>2. selector' \in {selector, target[h]}
      BY <1>6 DEF Link, Refuse
    <2>. QED  BY <2>1, <2>2 DEF FileTypes, HostTypes
  <1>7. CASE \E k \in PersistSteps : Persist(h, k)
    <2>1. PICK k \in Leaves : Persist(h, k)
      BY <1>7 DEF PersistSteps
    <2>2. UNCHANGED <<lock, claim, executor, selector, candidates>>
      BY <2>1 DEF Persist, Refuse, KeepDisk, rootVars, execVars, selVars
    <2>3. bridgeClaim' \in {bridgeClaim, myClaim[h]}
      BY <2>1 DEF Persist, Refuse, KeepDisk, diskVars
    <2>4. \/ disk' = disk
          \/ /\ disk' = [disk EXCEPT ![k][target[h]] = Grown(k, disk[k][target[h]])]
             /\ disk[k][target[h]] # "final"
      BY <2>1 DEF Persist, Refuse, KeepDisk, diskVars
    <2>5. target[h] \in Targets => disk[k][target[h]] \in Statuses
      BY DEF FileTypes
    <2>6. disk' \in [Leaves -> [Targets -> Statuses]]
      BY <2>4, <2>5, GrownTyped, DiskTyped DEF FileTypes
    <2>. QED  BY <2>2, <2>3, <2>6 DEF FileTypes, HostTypes
  <1>8. CASE Unguard(h)
    <2>1. UNCHANGED <<lock, claim, executor, selector, candidates, bridgeClaim>>
      BY <1>8 DEF Unguard, rootVars, execVars, selVars
    <2>. DEFINE st == IF disk["authority"][target[h]] = "final" THEN "none"
                      ELSE disk["guard"][target[h]]
    <2>2. "guard" \in Leaves /\ "none" \in Statuses
      BY DEF Leaves, FixedNames, Statuses
    <2>3. disk' = [disk EXCEPT !["guard"][target[h]] = st]
      BY <1>8 DEF Unguard
    <2>4. target[h] \in Targets => st \in Statuses
      BY <2>2 DEF FileTypes
    <2>. HIDE DEF st
    <2>5. disk' \in [Leaves -> [Targets -> Statuses]]
      BY <2>2, <2>3, <2>4, DiskTyped DEF FileTypes
    <2>. QED  BY <2>1, <2>5 DEF FileTypes
  <1>9. CASE Finish(h)
    <2>1. UNCHANGED <<lock, claim, selector, candidates, disk, bridgeClaim>>
      <3>1. KeepFinish
        BY <1>9 DEF Finish, Refuse
      <3>. QED  BY <3>1 DEF KeepFinish, rootVars, selVars, diskVars
    <2>2. \/ executor' = executor \/ executor' = NoHost
          \/ execStage.st = "stage" /\ executor' = execStage.by
      <3>1. \/ UNCHANGED execVars \/ UNCHANGED <<pc, executor, chain>>
            \/ UNCHANGED <<pc, executor, execStage>> \/ executor' = NoHost
            \/ execStage.st = "stage" /\ executor' = execStage.by
        BY <1>9, Zenon DEF Finish, Refuse
      <3>. QED  BY <3>1 DEF execVars
    <2>. QED  BY <2>1, <2>2 DEF FileTypes, ChainHolds
  <1>10. CASE ReleaseExecutor(h)
    BY <1>10 DEF ReleaseExecutor, Refuse, FileTypes, rootVars, selVars, diskVars
  <1>11. CASE Shutdown(h)
    BY <1>11 DEF Shutdown, Stop, FileTypes, execVars, selVars
  <1>12. CASE CrashWriting(h)
    <2>1. UNCHANGED <<lock, claim, executor, selector, bridgeClaim>>
      BY <1>12 DEF CrashWriting, rootVars
    <2>2. /\ candidates' \in {candidates, {[by |-> h, to |-> NoTarget, torn |-> TRUE, claim |-> NoClaim]}}
          /\ \/ disk' = disk
             \/ \E k \in Leaves : disk' = [disk EXCEPT ![k][target[h]] = "torn"]
      BY <1>12 DEF CrashWriting, PersistSteps
    <2>3. disk' \in [Leaves -> [Targets -> Statuses]]
      <3>1. "torn" \in Statuses
        BY DEF Statuses
      <3>2. CASE disk' = disk
        BY <3>2 DEF FileTypes
      <3>3. CASE \E k \in Leaves : disk' = [disk EXCEPT ![k][target[h]] = "torn"]
        <4>1. PICK k \in Leaves : disk' = [disk EXCEPT ![k][target[h]] = "torn"]
          BY <3>3
        <4>. QED  BY <3>1, <4>1, DiskTyped DEF FileTypes
      <3>. QED  BY <2>2, <3>2, <3>3
    <2>4. candidates' \subseteq Candidates
      <3>1. [by |-> h, to |-> NoTarget, torn |-> TRUE, claim |-> NoClaim] \in Candidates
        BY DEF Candidates
      <3>. QED  BY <2>2, <3>1 DEF FileTypes
    <2>. QED  BY <2>1, <2>3, <2>4 DEF FileTypes
  <1>13. CASE Fault(h)
    BY <1>13 DEF Fault
  <1>. QED
    BY <1>1, <1>2, <1>3, <1>4, <1>5, <1>6, <1>7, <1>8, <1>9, <1>10, <1>11, <1>12, <1>13 DEF Step

\* The stages are the ones the steps name.
LEMMA StageTyped ==
    ASSUME HostTypes, NEW h \in Hosts, NEW s \in Stages,
           Go(h, s) \/ (pc' = pc /\ observed' = observed),
           proc' \in [Hosts -> {"unborn", "live", "dead"}],
           prior' \in [Hosts -> Targets \cup {NoTarget}],
           target' \in [Hosts -> Targets \cup {NoTarget}],
           observed' \in [Hosts -> HostLocks \cup {NoLock}],
           myClaim' \in [Hosts -> Claims \cup {NoClaim}], held' \in [Hosts -> BOOLEAN],
           \A g \in Hosts \ {h} : observed'[g] = observed[g],
           s \in {"claimStale", "claim"} => observed'[h] \in HostLocks
    PROVE  HostTypes'
  <1>1. CASE pc' = pc /\ observed' = observed
    BY <1>1 DEF HostTypes
  <1>2. CASE Go(h, s)
    <2>1. pc' \in [Hosts -> Stages] /\ pc'[h] = s /\ \A g \in Hosts \ {h} : pc'[g] = pc[g]
      BY <1>2, GoTyped
    <2>. QED  BY <2>1 DEF HostTypes
  <1>. QED  BY <1>1, <1>2

\* A host that only goes on.
LEMMA StageKept ==
    ASSUME HostTypes, NEW h \in Hosts, NEW s \in Stages, Go(h, s) \/ pc' = pc,
           UNCHANGED <<proc, prior, target, observed, myClaim>>, held' \in [Hosts -> BOOLEAN],
           s \notin {"claimStale", "claim"}
    PROVE  HostTypes'
  BY StageTyped DEF HostTypes

\* Every step keeps the types of the locals.
LEMMA HostStep ==
    ASSUME WatcherInv, NEW h \in Hosts, Step(h), ~Reject(h)
    PROVE  HostTypes'
  <1>. USE DEF WatcherInv
  <1>1. CASE Start(h)
    <2>1. FixedPointer \in Targets \cup {NoTarget}
      BY DEF FixedPointer, At
    <2>2. \E s \in {"route", "refused"} : Go(h, s)
      BY <1>1 DEF Start
    <2>3. prior' \in [Hosts -> Targets \cup {NoTarget}] /\ proc' \in [Hosts -> {"unborn", "live", "dead"}]
      BY <1>1, <2>1 DEF Start, HostTypes
    <2>4. UNCHANGED <<observed, myClaim, target, held>>
      BY <1>1 DEF Start
    <2>. QED  BY <2>2, <2>3, <2>4, StageTyped DEF HostTypes, Stages
  <1>2. CASE \/ Route(h) \/ Evidence(h) \/ Acquire(h) \/ UnlinkStale(h) \/ Relock(h)
             \/ Link(h) \/ Finish(h) \/ Elect(h) \/ StageExecutor(h) \/ Elected(h)
             \/ RemoveStale(h) \/ CreateRecovered(h) \/ ReleaseExecutor(h) \/ Unguard(h)
             \/ Publish(h)
    <2>1. UNCHANGED <<proc, prior, target, observed, myClaim, held>>
      BY <1>2 DEF Route, Evidence, Acquire, UnlinkStale, Relock, Link, Finish, Elect,
                  StageExecutor, Elected, RemoveStale, CreateRecovered, ReleaseExecutor, Unguard,
                  Publish, Refuse, KeepFinish, KeepRest, startVars
    <2>2. pc' = pc \/ \E s \in Stages \ {"claimStale", "claim"} : Go(h, s)
      BY <1>2 DEF Route, Evidence, Acquire, UnlinkStale, Relock, Link, Finish, Elect,
                  StageExecutor, Elected, RemoveStale, CreateRecovered, ReleaseExecutor, Unguard,
                  Publish, Refuse, Stages, Leaves, FixedNames, execVars
    <2>3. "route" \in Stages
      BY DEF Stages
    <2>4. held' \in [Hosts -> BOOLEAN]
      BY <2>1 DEF HostTypes
    <2>. QED  BY <2>1, <2>2, <2>3, <2>4, StageKept
  <1>3. CASE Create(h) \/ Unclaim(h)
    <2>1. UNCHANGED <<proc, prior, target, observed, myClaim>>
      BY <1>3 DEF Create, Unclaim, Refuse, KeepRest
    <2>2. \E s \in {"open", "serving"} : Go(h, s)
      BY <1>3 DEF Create, Unclaim, Refuse
    <2>3. held' \in [Hosts -> BOOLEAN]
      BY <1>3 DEF Create, Unclaim, Refuse, HostTypes
    <2>4. {"open", "serving"} \subseteq Stages \ {"claimStale", "claim"}
      BY DEF Stages
    <2>. QED  BY <2>1, <2>2, <2>3, <2>4, StageKept
  <1>4. CASE ObserveStale(h)
    <2>1. /\ UNCHANGED <<proc, prior, target, myClaim, held>>
          /\ observed' = [observed EXCEPT ![h] = lock]
          /\ Go(h, IF lock = NoLock THEN "acquire" ELSE "claimStale")
      BY <1>4 DEF ObserveStale, Refuse, KeepRest
    <2>2. observed' \in [Hosts -> HostLocks \cup {NoLock}] /\ observed'[h] = lock
          /\ \A g \in Hosts \ {h} : observed'[g] = observed[g]
      BY <2>1 DEF HostTypes, FileTypes
    <2>3. "acquire" \in Stages /\ "claimStale" \in Stages
      BY DEF Stages
    <2>4. CASE lock = NoLock
      BY <2>1, <2>2, <2>3, <2>4, StageTyped DEF HostTypes
    <2>5. CASE lock # NoLock
      <3>1. observed'[h] \in HostLocks /\ Go(h, "claimStale")
        BY <2>1, <2>2, <2>5 DEF FileTypes
      <3>. QED  BY <2>1, <2>2, <2>3, <3>1, StageTyped DEF HostTypes
    <2>. QED  BY <2>4, <2>5
  <1>5. CASE EnsureClaim(h)
    <2>. DEFINE mine == IF claim = NoClaim THEN [by |-> h, lock |-> observed[h]] ELSE claim
    <2>1. /\ UNCHANGED <<proc, prior, target, observed, held>>
          /\ myClaim' = [myClaim EXCEPT ![h] = mine]
          /\ pc[h] \in {"claimStale", "claim"}
          /\ \E s \in {"select", "unlinkStale", "refused"} : Go(h, s)
      BY <1>5 DEF EnsureClaim, Refuse, KeepRest
    <2>2. mine \in Claims
      BY <2>1 DEF HostTypes, FileTypes, Claims
    <2>. HIDE DEF mine
    <2>3. myClaim' \in [Hosts -> Claims \cup {NoClaim}]
      BY <2>1, <2>2 DEF HostTypes
    <2>4. {"select", "unlinkStale", "refused"} \subseteq Stages \ {"claimStale", "claim"}
      BY DEF Stages
    <2>5. PICK s \in Stages \ {"claimStale", "claim"} : Go(h, s)
      BY <2>1, <2>4
    <2>. QED  BY <2>1, <2>3, <2>5, StageTyped DEF HostTypes
  <1>6. CASE Open(h)
    <2>1. Unused \subseteq Targets
      BY DEF Unused
    <2>2. UNCHANGED <<proc, prior, observed, myClaim, held>>
      BY <1>6 DEF Open, Refuse
    <2>3. \/ target' = [target EXCEPT ![h] = prior[h]] /\ Go(h, "serving")
          \/ (\E t \in Unused : target' = [target EXCEPT ![h] = t]) /\ Go(h, "planned")
      BY <1>6 DEF Open, Refuse
    <2>4. target' \in [Hosts -> Targets \cup {NoTarget}]
      BY <2>1, <2>3 DEF HostTypes
    <2>5. {"serving", "planned"} \subseteq Stages \ {"claimStale", "claim"}
      BY DEF Stages, Leaves
    <2>6. PICK s \in Stages \ {"claimStale", "claim"} : Go(h, s)
      BY <2>3, <2>5
    <2>. QED  BY <2>2, <2>4, <2>6, StageTyped DEF HostTypes
  <1>7. CASE Observe(h)
    <2>1. UNCHANGED <<proc, prior, held>>
      BY <1>7 DEF Observe, KeepRest
    <2>2. CASE /\ Begins /\ observed' = [observed EXCEPT ![h] = lock]
               /\ Go(h, "claim") /\ UNCHANGED <<myClaim, target>>
      <3>1. lock \in HostLocks
        BY <2>2 DEF Begins, FileTypes
      <3>2. observed' \in [Hosts -> HostLocks \cup {NoLock}] /\ observed'[h] \in HostLocks
            /\ \A g \in Hosts \ {h} : observed'[g] = observed[g]
        BY <2>2, <3>1 DEF HostTypes
      <3>3. "claim" \in Stages
        BY DEF Stages
      <3>. QED  BY <2>1, <2>2, <3>2, <3>3, StageTyped DEF HostTypes
    <2>3. CASE /\ Continues /\ observed' = [observed EXCEPT ![h] = claim.lock]
               /\ myClaim' = [myClaim EXCEPT ![h] = claim]
               /\ target' = [target EXCEPT ![h] = selector] /\ Go(h, "late")
      <3>1. claim \in Claims /\ claim.lock \in HostLocks
        BY <2>3 DEF Continues, FileTypes, Claims
      <3>2. /\ observed' \in [Hosts -> HostLocks \cup {NoLock}]
            /\ \A g \in Hosts \ {h} : observed'[g] = observed[g]
            /\ myClaim' \in [Hosts -> Claims \cup {NoClaim}]
            /\ target' \in [Hosts -> Targets \cup {NoTarget}]
        BY <2>3, <3>1 DEF HostTypes, FileTypes
      <3>3. "late" \in Stages
        BY DEF Stages
      <3>. QED  BY <2>1, <2>3, <3>2, <3>3, StageTyped DEF HostTypes
    <2>. QED  BY <1>7, <2>2, <2>3 DEF Observe, Refuse
  <1>8. CASE Select(h) \/ Clean(h)
    <2>1. UNCHANGED <<proc, prior, observed, myClaim, held>>
      BY <1>8 DEF Select, Clean, KeepRest
    <2>2. \E s \in {"clean", "refused", "link", "planned", "finish"} : Go(h, s)
      BY <1>8, Zenon DEF Select, Clean
    <2>3. target' \in [Hosts -> Targets \cup {NoTarget}]
      <3>1. CASE Clean(h)
        BY <3>1 DEF Clean, HostTypes, FileTypes
      <3>2. CASE Select(h)
        <4>1. target' = target \/ \E t \in Targets \cup {NoTarget} : target' = [target EXCEPT ![h] = t]
          <5>1. \/ target' = target
                \/ \E t \in IF Planned = {} THEN Unused ELSE Planned :
                       target' = [target EXCEPT ![h] = t]
                \/ \E c \in candidates : target' = [target EXCEPT ![h] = c.to]
            BY <3>2 DEF Select
          <5>2. Unused \subseteq Targets /\ Planned \subseteq Targets
            BY DEF Unused, Planned, Present
          <5>3. \A c \in candidates : c.to \in Targets \cup {NoTarget}
            BY DEF FileTypes, Candidates
          <5>. QED  BY <5>1, <5>2, <5>3
        <4>. QED  BY <4>1 DEF HostTypes
      <3>. QED  BY <1>8, <3>1, <3>2
    <2>4. {"clean", "refused", "link", "planned", "finish"} \subseteq Stages \ {"claimStale", "claim"}
      BY DEF Stages, Leaves
    <2>5. PICK s \in Stages \ {"claimStale", "claim"} : Go(h, s)
      BY <2>2, <2>4
    <2>. QED  BY <2>1, <2>3, <2>5, StageTyped DEF HostTypes
  <1>9. CASE \E k \in PersistSteps : Persist(h, k)
    <2>1. PICK k \in Leaves : Persist(h, k)
      BY <1>9 DEF PersistSteps
    <2>2. UNCHANGED <<proc, prior, target, observed, myClaim, held>>
      BY <2>1 DEF Persist, Refuse, KeepRest, startVars
    <2>3. pc' = pc \/ Go(h, AfterLeaf(h, k))
      BY <2>1 DEF Persist, Refuse
    <2>4. AfterLeaf(h, k) \in Stages \ {"claimStale", "claim"}
      BY DEF AfterLeaf, Stages, Leaves, FixedNames
    <2>. QED  BY <2>2, <2>3, <2>4, StageKept DEF HostTypes
  <1>10. CASE Shutdown(h) \/ Exit(h) \/ Crash(h) \/ CrashWriting(h)
    <2>1. UNCHANGED <<prior, target, observed, myClaim, held>>
      BY <1>10 DEF Shutdown, Exit, Crash, CrashWriting, Stop, startVars
    <2>2. proc' \in [Hosts -> {"unborn", "live", "dead"}]
      BY <1>10 DEF Shutdown, Exit, Crash, CrashWriting, Stop, HostTypes
    <2>3. \E s \in {"stopped", "refused", "crashed"} : Go(h, s)
      BY <1>10 DEF Shutdown, Exit, Crash, CrashWriting, Stop
    <2>4. {"stopped", "refused", "crashed"} \subseteq Stages \ {"claimStale", "claim"}
      BY DEF Stages
    <2>5. PICK s \in Stages \ {"claimStale", "claim"} : Go(h, s)
      BY <2>3, <2>4
    <2>. QED  BY <2>1, <2>2, <2>5, StageTyped DEF HostTypes
  <1>11. CASE Fault(h)
    BY <1>11 DEF Fault
  <1>. QED
    BY <1>1, <1>2, <1>3, <1>4, <1>5, <1>6, <1>7, <1>8, <1>9, <1>10, <1>11 DEF Step

\* The last record has the highest ordinal.
LEMMA LastRecord ==
    ASSUME ChainHolds, Linear, chain # {}
    PROVE  \E r \in chain : r.by = Last /\ \A s \in chain : s.ord <= r.ord
  <1>. DEFINE n == Cardinality(chain)
              f == [r \in chain |-> r.ord]
              last == CHOOSE r \in chain : \A s \in chain : s.ord <= r.ord
  <1>1. n \in Nat /\ n # 0
    BY FS_CardinalityType, FS_EmptySet DEF ChainHolds
  <1>2. IsFiniteSet(0 .. n - 1) /\ Cardinality(0 .. n - 1) = n
    BY <1>1, FS_Interval
  <1>3. f \in Injection(chain, 0 .. n - 1)
    BY DEF Injection, IsInjective, Linear, ChainHolds
  <1>4. f \in Surjection(chain, 0 .. n - 1)
    <2>. HIDE DEF f
    <2>. QED  BY <1>2, <1>3, FS_Injection
  <1>5. \E r \in chain : f[r] = n - 1
    <2>1. n - 1 \in 0 .. n - 1
      BY <1>1
    <2>. HIDE DEF f, n
    <2>2. \A t \in 0 .. n - 1 : \E r \in chain : f[r] = t
      BY <1>4 DEF Surjection
    <2>. QED  BY <2>1, <2>2
  <1>6. \E r \in chain : \A s \in chain : s.ord <= r.ord
    BY <1>1, <1>5 DEF ChainHolds
  <1>7. last \in chain /\ \A s \in chain : s.ord <= last.ord
    BY <1>6
  <1>8. last.by = Last
    BY DEF Last
  <1>. HIDE DEF last
  <1>. QED  BY <1>7, <1>8

\* A chain without gaps or forks has a last record.
LEMMA LastTyped ==
    ASSUME ChainHolds, Linear
    PROVE  Last \in {r.by : r \in chain} \cup {NoHost}
  <1>1. CASE chain = {}
    BY <1>1 DEF Last
  <1>2. CASE chain # {}
    BY <1>2, LastRecord
  <1>. QED  BY <1>1, <1>2

\* The ordinal after the record a host read is one the chain allows.
LEMMA OrdTyped ==
    ASSUME ChainHolds, NEW h \in {r.by : r \in chain} \cup {NoHost}
    PROVE  OrdOf(h) \in 0 .. Cardinality(chain)
  <1>1. Cardinality(chain) \in Nat
    BY FS_CardinalityType DEF ChainHolds
  <1>2. CASE h = NoHost
    BY <1>1, <1>2 DEF OrdOf
  <1>3. CASE h # NoHost
    <2>1. (CHOOSE r \in chain : r.by = h) \in chain
      BY <1>3
    <2>. QED  BY <1>1, <1>3, <2>1 DEF OrdOf, ChainHolds
  <1>. QED  BY <1>2, <1>3

\* A staging file that is absent or torn has the type of one.
LEMMA StageRecord ==
    ASSUME ChainHolds
    PROVE  /\ NoStage \in [st : {"none", "torn", "stage"}, by : Hosts \cup {NoHost},
                           ord : 0 .. Cardinality(chain), prior : Hosts \cup {NoHost}]
           /\ [NoStage EXCEPT !.st = "torn"]
                  \in [st : {"none", "torn", "stage"}, by : Hosts \cup {NoHost},
                       ord : 0 .. Cardinality(chain), prior : Hosts \cup {NoHost}]
           /\ NoStage.st # "stage" /\ [NoStage EXCEPT !.st = "torn"].st # "stage"
  <1>1. Cardinality(chain) \in Nat
    BY FS_CardinalityType DEF ChainHolds
  <1>2. 0 \in 0 .. Cardinality(chain)
    BY <1>1
  <1>. QED  BY <1>2 DEF NoStage

\* A staging file that is absent or torn is no record yet.
LEMMA StageReset ==
    ASSUME ChainHolds, UNCHANGED <<chain, sawLast>>,
           execStage' \in {NoStage, [NoStage EXCEPT !.st = "torn"]}
    PROVE  ChainHolds'
  BY StageRecord DEF ChainHolds

\* The staged record is added once, with the next ordinal.
LEMMA ChainGrows ==
    ASSUME ChainHolds, execStage.st = "stage", Staged \notin chain,
           chain' = chain \cup {Staged}, UNCHANGED <<execStage, sawLast>>
    PROVE  ChainHolds'
  <1>. DEFINE n == Cardinality(chain)
  <1>1. n \in Nat
    BY FS_CardinalityType DEF ChainHolds
  <1>2. IsFiniteSet(chain') /\ Cardinality(chain') = n + 1
    BY FS_AddElement DEF ChainHolds
  <1>3. /\ chain \subseteq [by : Hosts, ord : 0 .. n - 1, prior : Hosts \cup {NoHost}]
        /\ Staged \in [by : Hosts, ord : 0 .. n, prior : Hosts \cup {NoHost}]
        /\ execStage \in [st : {"none", "torn", "stage"}, by : Hosts \cup {NoHost},
                          ord : 0 .. n, prior : Hosts \cup {NoHost}]
    BY DEF ChainHolds, Staged
  <1>. HIDE DEF n
  <1>4. chain' \subseteq [by : Hosts, ord : 0 .. (n + 1) - 1, prior : Hosts \cup {NoHost}]
    BY <1>1, <1>3
  <1>5. execStage' \in [st : {"none", "torn", "stage"}, by : Hosts \cup {NoHost},
                        ord : 0 .. n + 1, prior : Hosts \cup {NoHost}]
    BY <1>1, <1>3
  <1>6. sawLast' \in [Hosts -> {r.by : r \in chain'} \cup {NoHost}]
    BY DEF ChainHolds
  <1>. QED  BY <1>2, <1>4, <1>5, <1>6 DEF ChainHolds

\* Every step keeps the chain without gaps.
LEMMA ChainStep ==
    ASSUME WatcherInv, NEW h \in Hosts, Step(h), ~Reject(h)
    PROVE  ChainHolds'
  <1>. USE DEF WatcherInv
  <1>1. CASE \/ Start(h) \/ Route(h) \/ Evidence(h) \/ Acquire(h) \/ Create(h) \/ ObserveStale(h)
             \/ EnsureClaim(h) \/ UnlinkStale(h) \/ Relock(h) \/ Unclaim(h) \/ Open(h)
             \/ Observe(h) \/ Select(h) \/ Link(h) \/ Clean(h) \/ Unguard(h) \/ Elected(h)
             \/ RemoveStale(h) \/ CreateRecovered(h) \/ ReleaseExecutor(h) \/ Publish(h)
             \/ Shutdown(h) \/ Exit(h) \/ Crash(h) \/ (\E k \in PersistSteps : Persist(h, k))
    <2>1. UNCHANGED <<chain, execStage, sawLast>>
      BY <1>1 DEF Start, Route, Evidence, Acquire, Create, ObserveStale, EnsureClaim, UnlinkStale,
                  Relock, Unclaim, Open, Observe, Select, Link, Clean, Unguard, Elected,
                  RemoveStale, CreateRecovered, ReleaseExecutor, Publish, Shutdown, Exit, Crash,
                  Stop, Persist, Refuse, KeepDisk, KeepFinish, startVars, execVars
    <2>. QED  BY <2>1, ChainKept
  <1>2. CASE Elect(h)
    <2>1. Linear /\ sawLast' = [sawLast EXCEPT ![h] = Last] /\ UNCHANGED <<chain, execStage>>
      BY <1>2 DEF Elect, Refuse, KeepDisk, execVars
    <2>. QED  BY <2>1, LastTyped DEF ChainHolds
  <1>3. CASE StageExecutor(h)
    <2>1. /\ UNCHANGED <<chain, sawLast>>
          /\ execStage' = [st |-> "stage", by |-> h, ord |-> OrdOf(sawLast[h]), prior |-> sawLast[h]]
      BY <1>3 DEF StageExecutor, Refuse, KeepFinish, startVars
    <2>2. sawLast[h] \in {r.by : r \in chain} \cup {NoHost} /\ sawLast[h] \in Hosts \cup {NoHost}
      BY DEF ChainHolds
    <2>3. OrdOf(sawLast[h]) \in 0 .. Cardinality(chain)
      BY <2>2, OrdTyped
    <2>. QED  BY <2>1, <2>2, <2>3 DEF ChainHolds
  <1>4. CASE Finish(h)
    <2>1. UNCHANGED sawLast
      <3>1. KeepFinish
        BY <1>4, Zenon DEF Finish, Refuse
      <3>. QED  BY <3>1 DEF KeepFinish, startVars
    <2>2. \/ UNCHANGED execVars \/ UNCHANGED <<pc, chain, execStage>>
          \/ UNCHANGED <<pc, executor, chain>> /\ execStage' = NoStage
          \/ execStage.st = "stage" /\ Staged \notin chain
             /\ chain' = chain \cup {Staged} /\ UNCHANGED <<pc, executor, execStage>>
      BY <1>4, Zenon DEF Finish, Refuse
    <2>3. CASE UNCHANGED execVars \/ UNCHANGED <<pc, chain, execStage>>
      BY <2>1, <2>3, ChainKept DEF execVars
    <2>4. CASE UNCHANGED <<pc, executor, chain>> /\ execStage' = NoStage
      BY <2>1, <2>4, StageReset
    <2>. QED  BY <2>1, <2>2, <2>3, <2>4, ChainGrows
  <1>5. CASE CrashWriting(h)
    <2>1. UNCHANGED <<chain, sawLast>>
      BY <1>5 DEF CrashWriting, startVars
    <2>2. execStage' = execStage \/ execStage' = [NoStage EXCEPT !.st = "torn"]
      BY <1>5 DEF CrashWriting
    <2>. QED  BY <2>1, <2>2, ChainKept, StageReset
  <1>6. CASE Fault(h)
    BY <1>6 DEF Fault
  <1>. QED
    BY <1>1, <1>2, <1>3, <1>4, <1>5, <1>6 DEF Step
\* The stages a host reaches without owning the lock.
Plain == Stages \ {"open", "serving", "unclaim", "release", "unclaimRecovered",
                   "start", "stopped", "crashed"}

\* A host that goes on to a stage without the lock.
LEMMA OwnerPlain ==
    ASSUME WatcherInv, NEW h \in Hosts, UNCHANGED <<proc, held, lock>>, Alive(h),
           (\E s \in Plain : Go(h, s)) \/ pc' = pc
    PROVE  OwnerHolds'
  <1>1. CASE pc' = pc
    BY <1>1 DEF WatcherInv, OwnerHolds, Owns, Alive
  <1>2. CASE \E s \in Plain : Go(h, s)
    <2>1. PICK s \in Plain : Go(h, s)
      BY <1>2
    <2>2. s \in Stages /\ s \notin {"open", "serving", "unclaim", "release", "unclaimRecovered"}
      BY DEF Plain
    <2>. QED  BY <2>1, <2>2, OwnerKept
  <1>. QED  BY <1>1, <1>2

\* A host that dies owns nothing any more.
LEMMA OwnerDies ==
    ASSUME WatcherInv, NEW h \in Hosts, NEW s \in {"stopped", "refused", "crashed"},
           Go(h, s), proc' = [proc EXCEPT ![h] = "dead"], held' = held,
           \/ lock' = lock
           \/ lock # NoLock /\ lock.owner = h
    PROVE  OwnerHolds'
  <1>1. s \in Stages
    BY DEF Stages
  <1>2. pc' \in [Hosts -> Stages] /\ pc'[h] = s /\ \A g \in Hosts \ {h} : pc'[g] = pc[g]
    BY <1>1, GoTyped DEF WatcherInv
  <1>3. proc'[h] = "dead" /\ \A g \in Hosts \ {h} : proc'[g] = proc[g]
    BY DEF WatcherInv, HostTypes
  <1>. QED  BY <1>2, <1>3 DEF WatcherInv, OwnerHolds, Owns, Alive

\* Every step leaves the lock with the live host that goes by it.
LEMMA OwnerStep ==
    ASSUME WatcherInv, NEW h \in Hosts, Step(h), ~Reject(h)
    PROVE  OwnerHolds'
  <1>. USE DEF WatcherInv
  <1>1. CASE Start(h)
    <2>1. PICK s \in {"route", "refused"} : Go(h, s)
      BY <1>1 DEF Start
    <2>2. s \in Stages
      BY DEF Stages
    <2>3. pc' \in [Hosts -> Stages] /\ pc'[h] = s /\ \A g \in Hosts \ {h} : pc'[g] = pc[g]
      BY <2>1, <2>2, GoTyped
    <2>4. /\ proc[h] = "unborn" /\ ~held[h] /\ held' = held /\ lock' = lock
          /\ proc'[h] = "live" /\ \A g \in Hosts \ {h} : proc'[g] = proc[g]
      BY <1>1 DEF Start, rootVars, HostTypes, OwnerHolds
    <2>. QED  BY <2>1, <2>3, <2>4 DEF OwnerHolds, Owns, Alive
  <1>2. CASE \/ Route(h) \/ Evidence(h) \/ Acquire(h) \/ ObserveStale(h) \/ EnsureClaim(h)
             \/ Observe(h) \/ Select(h) \/ Link(h) \/ Clean(h) \/ Elect(h) \/ StageExecutor(h)
             \/ Elected(h) \/ Finish(h)
    <2>1. UNCHANGED <<proc, held, lock>>
      BY <1>2 DEF Route, Evidence, Acquire, ObserveStale, EnsureClaim, Observe, Select, Link,
                  Clean, Elect, StageExecutor, Elected, Finish, Refuse, KeepFinish, KeepRest,
                  startVars, rootVars
    <2>2. pc[h] \notin {"start", "refused", "stopped", "crashed"}
      BY <1>2 DEF Route, Evidence, Acquire, ObserveStale, EnsureClaim, Observe, Select, Link,
                  Clean, Elect, StageExecutor, Elected, Finish
    <2>3. Alive(h)
      BY <2>2 DEF OwnerHolds
    <2>4. (\E s \in Plain : Go(h, s)) \/ pc' = pc
      <3>1. CASE Route(h) \/ Evidence(h) \/ Acquire(h) \/ ObserveStale(h) \/ EnsureClaim(h)
        BY <3>1 DEF Route, Evidence, Acquire, ObserveStale, EnsureClaim, Refuse, Plain, Stages
      <3>2. CASE Observe(h) \/ Select(h) \/ Link(h)
        BY <3>2 DEF Observe, Select, Link, Refuse, Plain, Stages
      <3>3. CASE Clean(h) \/ Elect(h) \/ StageExecutor(h) \/ Elected(h)
        BY <3>3 DEF Clean, Elect, StageExecutor, Elected, Refuse, Plain, Stages, Leaves
      <3>4. CASE Finish(h)
        BY <3>4 DEF Finish, Refuse, Plain, Stages, execVars
      <3>. QED  BY <1>2, <3>1, <3>2, <3>3, <3>4
    <2>. QED  BY <2>1, <2>3, <2>4, OwnerPlain
  <1>3. CASE \E k \in PersistSteps : Persist(h, k)
    <2>1. PICK k \in Leaves : Persist(h, k)
      BY <1>3 DEF PersistSteps
    <2>2. UNCHANGED <<proc, held, lock>> /\ pc[h] \in Leaves
      BY <2>1 DEF Persist, Refuse, KeepRest, startVars, rootVars
    <2>3. Alive(h)
      BY <2>2 DEF OwnerHolds, Leaves, FixedNames
    <2>4. pc' = pc \/ Go(h, AfterLeaf(h, k))
      BY <2>1 DEF Persist, Refuse
    <2>5. AfterLeaf(h, k) \in Plain
      BY DEF AfterLeaf, Plain, Stages, Leaves, FixedNames
    <2>. QED  BY <2>2, <2>3, <2>4, <2>5, OwnerPlain
  <1>4. CASE Create(h) \/ Relock(h) \/ CreateRecovered(h)
    <2>1. pc[h] \in {"create", "relock", "newLock"} /\ Alive(h)
      BY <1>4 DEF Create, Relock, CreateRecovered, OwnerHolds
    <2>2. /\ lock = NoLock /\ proc' = proc
          /\ lock' \in HostLocks /\ lock'.owner = h
      <3>1. lock = NoLock /\ proc' = proc
        BY <1>4 DEF Create, Relock, CreateRecovered, Refuse, KeepRest
      <3>2. lock' \in {NewLock(h), [owner |-> h, prior |-> target[h]]}
        BY <1>4 DEF Create, Relock, CreateRecovered, Refuse
      <3>3. NewLock(h) \in HostLocks /\ [owner |-> h, prior |-> target[h]] \in HostLocks
        BY LockTyped
      <3>4. NewLock(h).owner = h /\ [owner |-> h, prior |-> target[h]].owner = h
        BY DEF NewLock
      <3>5. lock' \in HostLocks
        BY <3>2, <3>3
      <3>6. lock'.owner = h
        BY <3>2, <3>4
      <3>. QED  BY <3>1, <3>5, <3>6
    <2>3. held' \in [Hosts -> BOOLEAN] /\ \A g \in Hosts \ {h} : held'[g] = held[g]
      BY <1>4 DEF Create, Relock, CreateRecovered, Refuse, startVars, HostTypes
    <2>4. PICK s \in {"open", "unclaim", "release"} : Go(h, s)
      BY <1>4 DEF Create, Relock, CreateRecovered, Refuse
    <2>5. s \in Stages
      BY DEF Stages
    <2>. QED  BY <2>1, <2>2, <2>3, <2>4, <2>5, OwnerNew, SentinelAssumption
  <1>5. CASE UnlinkStale(h) \/ RemoveStale(h)
    <2>1. pc[h] \in {"unlinkStale", "stale"} /\ Alive(h)
      BY <1>5 DEF UnlinkStale, RemoveStale, OwnerHolds
    <2>2. /\ proc' = proc /\ held' = held /\ lock' = NoLock
          /\ lock = NoLock \/ ~Alive(lock.owner)
      BY <1>5 DEF UnlinkStale, RemoveStale, Refuse, KeepRest, startVars
    <2>3. PICK s \in {"relock", "guard"} : Go(h, s)
      BY <1>5 DEF UnlinkStale, RemoveStale, Refuse
    <2>4. s \in Stages
      BY DEF Stages, Leaves, FixedNames
    <2>5. held[h] => lock' = lock
      BY <2>1, <2>2 DEF OwnerHolds, Owns
    <2>6. \A g \in Hosts \ {h} : Alive(g) => lock = NoLock \/ lock.owner # g
      BY <2>2
    <2>. QED  BY <2>1, <2>2, <2>3, <2>4, <2>5, <2>6, OwnerGone DEF HostTypes
  <1>6. CASE Open(h) \/ ReleaseExecutor(h)
    <2>1. pc[h] \in {"open", "release"} /\ Alive(h)
      BY <1>6 DEF Open, ReleaseExecutor, OwnerHolds
    <2>2. UNCHANGED <<proc, held, lock>>
      BY <1>6 DEF Open, ReleaseExecutor, Refuse, KeepRest, startVars, rootVars
    <2>3. PICK s \in {"serving", "planned", "unclaimRecovered"} : Go(h, s)
      BY <1>6 DEF Open, ReleaseExecutor, Refuse
    <2>4. s \in Stages
      BY DEF Stages, Leaves
    <2>5. lock # NoLock /\ lock.owner = h
      BY <2>1 DEF OwnerHolds, Owns
    <2>. QED  BY <2>1, <2>2, <2>3, <2>4, <2>5, OwnerKept
  <1>7. CASE Unguard(h)
    <2>1. UNCHANGED <<proc, held, lock>> /\ pc[h] = "unguard" /\ Alive(h)
      BY <1>7 DEF Unguard, KeepRest, startVars, rootVars, OwnerHolds
    <2>2. Go(h, IF held[h] THEN "serving" ELSE "newLock")
      BY <1>7 DEF Unguard
    <2>3. "serving" \in Stages /\ "newLock" \in Plain
      BY DEF Plain, Stages
    <2>4. CASE held[h]
      <3>1. lock # NoLock /\ lock.owner = h
        BY <2>1, <2>4 DEF OwnerHolds, Owns
      <3>. QED  BY <2>1, <2>2, <2>3, <2>4, <3>1, OwnerKept
    <2>5. CASE ~held[h]
      BY <2>1, <2>2, <2>3, <2>5, OwnerPlain
    <2>. QED  BY <2>4, <2>5
  <1>8. CASE Unclaim(h)
    <2>1. pc[h] \in {"unclaim", "unclaimRecovered"} /\ Alive(h)
      BY <1>8 DEF Unclaim, OwnerHolds
    <2>2. UNCHANGED <<proc, lock>> /\ held' = [held EXCEPT ![h] = TRUE]
      BY <1>8 DEF Unclaim, Refuse, KeepRest
    <2>3. PICK s \in {"open", "serving"} : Go(h, s)
      BY <1>8 DEF Unclaim, Refuse
    <2>4. s \in Stages
      BY DEF Stages
    <2>5. pc' \in [Hosts -> Stages] /\ pc'[h] = s /\ \A g \in Hosts \ {h} : pc'[g] = pc[g]
      BY <2>3, <2>4, GoTyped
    <2>6. Owns(h) /\ \A g \in Hosts \ {h} : held'[g] = held[g]
      BY <2>1, <2>2 DEF Owns, HostTypes
    <2>. QED  BY <2>1, <2>2, <2>5, <2>6 DEF OwnerHolds, Owns, Alive
  <1>9. CASE Publish(h)
    <2>1. UNCHANGED <<proc, pc, held, lock>>
      BY <1>9 DEF Publish, startVars, rootVars
    <2>. QED  BY <2>1 DEF OwnerHolds, Owns, Alive
  <1>10. CASE Shutdown(h) \/ Exit(h) \/ Crash(h) \/ CrashWriting(h)
    <2>1. proc' = [proc EXCEPT ![h] = "dead"] /\ held' = held
      BY <1>10 DEF Shutdown, Exit, Crash, CrashWriting, Stop, startVars
    <2>2. lock' = lock \/ (lock # NoLock /\ lock.owner = h)
      BY <1>10 DEF Shutdown, Exit, Crash, CrashWriting, Mine, rootVars
    <2>3. PICK s \in {"stopped", "refused", "crashed"} : Go(h, s)
      BY <1>10 DEF Shutdown, Exit, Crash, CrashWriting, Stop
    <2>. QED  BY <2>1, <2>2, <2>3, OwnerDies
  <1>11. CASE Fault(h)
    BY <1>11 DEF Fault
  <1>. QED
    BY <1>1, <1>2, <1>3, <1>4, <1>5, <1>6, <1>7, <1>8, <1>9, <1>10, <1>11 DEF Step

-----------------------------------------------------------------------------
(***************************************************************************)
(* The invariant and what it says.                                         *)
(***************************************************************************)

\* The invariant holds before any host has started.
LEMMA WatcherInit ==
    ASSUME Init
    PROVE  WatcherInv
  <1>1. FileTypes
    BY DEF Init, FileTypes, Statuses
  <1>2. HostTypes
    BY DEF Init, HostTypes, Stages
  <1>3. ChainHolds
    <2>1. IsFiniteSet({}) /\ Cardinality({}) = 0
      BY FS_EmptySet
    <2>2. chain = {} /\ execStage = NoStage /\ sawLast = [h \in Hosts |-> NoHost]
      BY DEF Init
    <2>. QED  BY <2>1, <2>2 DEF ChainHolds, NoStage
  <1>4. OwnerHolds
    BY DEF Init, OwnerHolds, Owns, Alive
  <1>. QED  BY <1>1, <1>2, <1>3, <1>4 DEF WatcherInv

\* Every step keeps the invariant.
LEMMA WatcherStep ==
    ASSUME WatcherInv, [Next]_vars
    PROVE  WatcherInv'
  <1>1. CASE Next
    <2>1. PICK h \in Hosts : Step(h)
      BY <1>1 DEF Next
    <2>2. CASE Reject(h)
      BY <2>2, RejectStep
    <2>3. CASE ~Reject(h)
      BY <2>1, <2>3, FileStep, HostStep, ChainStep, OwnerStep DEF WatcherInv
    <2>. QED  BY <2>2, <2>3
  <1>2. CASE UNCHANGED vars
    <2>1. FileTypes'
      BY <1>2 DEF WatcherInv, FileTypes, vars, rootVars, execVars, selVars, diskVars
    <2>2. HostTypes'
      BY <1>2 DEF WatcherInv, HostTypes, vars, startVars
    <2>3. ChainHolds'
      BY <1>2 DEF WatcherInv, ChainHolds, vars, startVars, execVars
    <2>4. OwnerHolds'
      BY <1>2 DEF WatcherInv, OwnerHolds, Owns, Alive, vars, startVars, rootVars
    <2>. QED  BY <2>1, <2>2, <2>3, <2>4 DEF WatcherInv
  <1>. QED  BY <1>1, <1>2

\* The hosts, the lock with its claim, the chain of recovery executors and the
\* files of the journal stay as the invariant says, through every race, death
\* and failing step.
THEOREM WatcherInvariant == Spec => []WatcherInv
  <1>1. Init => WatcherInv
    BY WatcherInit
  <1>2. WatcherInv /\ [Next]_vars => WatcherInv'
    BY WatcherStep
  <1>. QED  BY <1>1, <1>2, PTL DEF Spec

\* Whatever is written, torn or left behind, the files hold what the code can
\* write; the ordinals of the executor records leave no room for a gap beyond
\* their number.
THEOREM WatcherTypeCorrect == Spec => []TypeOK
  <1>1. WatcherInv => TypeOK
    BY DEF WatcherInv, FileTypes, HostTypes, ChainHolds, TypeOK
  <1>. QED  BY <1>1, WatcherInvariant, PTL

\* However many hosts start, recover a stale lock or a dead genesis, die and
\* come late: at most one live host serves the vault, and the lock names it.
THEOREM OneHostAlwaysServes == Spec => []OneHostServes
  <1>1. WatcherInv => OneHostServes
    <2>. SUFFICES ASSUME WatcherInv, NEW h \in Hosts, pc[h] = "serving"
                  PROVE  /\ lock # NoLock /\ lock.owner = h
                         /\ \A g \in Hosts \ {h} : pc[g] # "serving"
      BY DEF OneHostServes
    <2>1. \A g \in Hosts : pc[g] = "serving" => Owns(g)
      BY DEF WatcherInv, OwnerHolds, Owns
    <2>. QED  BY <2>1 DEF WatcherInv, OwnerHolds
  <1>. QED  BY <1>1, WatcherInvariant, PTL

-----------------------------------------------------------------------------
(***************************************************************************)
(* One host works on the files of a journal.  Those who create the first   *)
(* journal have the lock; those who recover it are the selected executor;  *)
(* and a recoverer that found the lock free or dead excludes a creator,    *)
(* which needs a directory without executor records.                       *)
(***************************************************************************)
Filling == {"guard", "database", "generation", "pointer", "fixed", "authority", "unguard"}
Creates(h) == held[h] /\ pc[h] \in Filling \cup {"planned", "witness"}
Finishes(h) == ~held[h] /\ pc[h] \in Filling \cup {"newLock", "release"}

RolesHold ==
  /\ \A h \in Hosts :
       /\ held[h] => pc[h] \in Filling \cup {"planned", "witness", "open", "serving", "stopped",
                                             "crashed"}
       /\ pc[h] = "open" => held[h]
       /\ Finishes(h) \/ pc[h] = "stale" => executor = h
  /\ executor # NoHost => chain # {}
  /\ \A g, h \in Hosts : ~(Finishes(g) /\ Creates(h))

\* The stages in which a host has the file behind it.
Written == {"database", "generation", "pointer", "fixed", "authority"}
Settled == {"unguard", "newLock", "release", "unclaimRecovered", "serving", "stopped"}
Past(k) ==
  Settled \cup CASE k = "database" -> {"generation", "pointer", "fixed", "authority"}
                 [] k = "generation" -> {"pointer", "fixed", "authority"}
                 [] k = "pointer" -> {"fixed", "authority"}
                 [] k = "fixed" -> {"authority"}
                 [] k = "authority" -> {}

FilesHold ==
  /\ \A k \in FixedNames, s, t \in Targets : disk[k][s] # "none" /\ disk[k][t] # "none" => s = t
  /\ \A t \in Targets : /\ disk["fixed"][t] # "none" => disk["pointer"][t] = "final"
                        /\ disk["authority"][t] # "none" => disk["fixed"][t] = "final"
  /\ \A h \in Hosts : Creates(h) \/ pc[h] \in {"serving", "stopped"} => target[h] \in Targets
  /\ \A h \in Hosts, k \in Written :
       pc[h] \in Past(k) => disk[k][target[h]] = "final"
  /\ AuthorityNamed => \A t \in Targets : disk["guard"][t] \in {"none", "final"}
  /\ \A h \in Hosts : pc[h] \in Filling \ {"guard"} =>
        AuthorityNamed \/ disk["guard"][target[h]] = "final"

\* The journal a recoverer goes by is the selected one, and the bridge names it
\* before an executor is elected.
Elects == {"late", "finish", "elect", "stageExecutor"}
Records == {"install", "elected", "stale", "newLock", "release", "unclaimRecovered"} \cup Filling
Recorded(h) == (execStage.st = "stage" /\ execStage.by = h) \/ \E r \in chain : r.by = h
Selected(h) == selector # NoTarget /\ target[h] = selector
Bridged(h) == Selected(h) /\ disk["bridge"][selector] = "final"

SelectionHolds ==
  /\ \A c \in candidates : ~c.torn => c.to # NoTarget
  /\ \A h \in Hosts :
       /\ pc[h] = "clean" => selector # NoTarget
       /\ pc[h] \in {"planned", "witness", "bridge"} /\ ~held[h] => Selected(h)
       /\ pc[h] \in Elects \cup Records /\ ~held[h] => Bridged(h)
       /\ Recorded(h) => \/ pc[h] \in Records /\ ~held[h]
                         \/ pc[h] = "serving" /\ Bridged(h)
                         \/ pc[h] \in {"refused", "stopped", "crashed"} /\ proc[h] # "unborn"

JournalInv == RolesHold /\ FilesHold /\ SelectionHolds

-----------------------------------------------------------------------------
(***************************************************************************)
(* What a step changes.                                                    *)
(***************************************************************************)

\* A step moves one host and leaves the stages and the journals of the others.
LEMMA OthersKept ==
    ASSUME WatcherInv, NEW h \in Hosts, Step(h)
    PROVE  \A g \in Hosts \ {h} : pc'[g] = pc[g] /\ held'[g] = held[g] /\ target'[g] = target[g]
  <1>. DEFINE Framed == \A g \in Hosts \ {h} :
                          pc'[g] = pc[g] /\ held'[g] = held[g] /\ target'[g] = target[g]
  <1>0. pc \in [Hosts -> Stages] /\ held \in [Hosts -> BOOLEAN] /\ DOMAIN target = Hosts
    BY DEF WatcherInv, HostTypes
  <1>1. CASE Reject(h)
    BY <1>0, <1>1 DEF Reject, Go
  <1>2. CASE \/ Start(h) \/ Route(h) \/ Evidence(h) \/ Acquire(h) \/ Create(h) \/ ObserveStale(h)
    BY <1>0, <1>1, <1>2 DEF Start, Route, Evidence, Acquire, Create, ObserveStale, Refuse, Go,
                            startVars
  <1>3. CASE EnsureClaim(h) \/ UnlinkStale(h) \/ Relock(h) \/ Unclaim(h) \/ Open(h) \/ Observe(h)
    BY <1>0, <1>1, <1>3 DEF EnsureClaim, UnlinkStale, Relock, Unclaim, Open, Observe, Refuse, Go,
                            startVars
  <1>4. CASE Select(h) \/ Link(h) \/ Clean(h)
    BY <1>0, <1>1, <1>4 DEF Select, Link, Clean, Refuse, Go, startVars
  <1>5. CASE (\E k \in PersistSteps : Persist(h, k)) \/ Unguard(h)
    BY <1>0, <1>1, <1>5 DEF Persist, Unguard, Refuse, Go, startVars
  <1>6. CASE Finish(h)
    <2>1. (KeepFinish /\ (pc' = pc \/ \E s : Go(h, s))) \/ Refuse(h)
      BY <1>6, Zenon DEF Finish
    <2>. QED
      BY <1>0, <1>1, <2>1 DEF KeepFinish, Refuse, Go, startVars
  <1>7. CASE Elect(h) \/ StageExecutor(h) \/ Elected(h) \/ RemoveStale(h) \/ CreateRecovered(h)
             \/ ReleaseExecutor(h)
    BY <1>0, <1>1, <1>7 DEF Elect, StageExecutor, Elected, RemoveStale, CreateRecovered,
                            ReleaseExecutor, KeepFinish, Refuse, Go, startVars
  <1>8. CASE Publish(h) \/ Shutdown(h) \/ Exit(h) \/ Crash(h) \/ CrashWriting(h) \/ Fault(h)
    BY <1>0, <1>1, <1>8 DEF Publish, Shutdown, Exit, Crash, CrashWriting, Fault, Stop, Go,
                            startVars
  <1>. QED
    BY <1>2, <1>3, <1>4, <1>5, <1>6, <1>7, <1>8 DEF Step

\* The executor is given up by itself, or once it has died.
LEMMA ExecutorStep ==
    ASSUME WatcherInv, NEW h \in Hosts, Step(h)
    PROVE  /\ chain \subseteq chain'
           /\ executor' # executor =>
                \/ executor = NoHost \/ ~Alive(executor)
                \/ executor = h /\ pc'[h] = "unclaimRecovered"
           /\ executor' # NoHost => executor' = executor \/ chain' # {}
  <1>1. CASE Reject(h)
    BY <1>1 DEF Reject, execVars
  <1>2. CASE Finish(h) /\ ~Reject(h)
    <2>1. \/ UNCHANGED execVars
          \/ executor' = executor /\ chain \subseteq chain'
          \/ UNCHANGED chain /\ ~Alive(executor) /\ executor' = NoHost
          \/ UNCHANGED chain /\ executor = NoHost /\ chain # {}
      BY <1>2, Zenon DEF Finish, Refuse
    <2>. QED
      BY <2>1 DEF execVars
  <1>3. CASE ReleaseExecutor(h) /\ ~Reject(h)
    BY <1>3 DEF ReleaseExecutor, Refuse, Go, WatcherInv, HostTypes
  <1>4. CASE ~(Finish(h) \/ ReleaseExecutor(h) \/ Reject(h))
    <2>1. UNCHANGED <<executor, chain>>
      BY <1>4 DEF Step, Start, Route, Evidence, Acquire, Create, ObserveStale, EnsureClaim,
                  UnlinkStale, Relock, Unclaim, Open, Observe, Select, Link, Clean, Unguard, Elect,
                  StageExecutor, Elected, RemoveStale, CreateRecovered, Publish, Shutdown, Exit,
                  Crash, CrashWriting, Fault, Stop, Persist, Refuse, KeepDisk, KeepFinish, execVars
    <2>. QED
      BY <2>1
  <1>. QED
    BY <1>1, <1>2, <1>3, <1>4

\* Nor is any other process born or dead by it.
LEMMA ProcKept ==
    ASSUME WatcherInv, NEW h \in Hosts, Step(h)
    PROVE  \A g \in Hosts \ {h} : proc'[g] = proc[g]
  <1>0. DOMAIN proc = Hosts
    BY DEF WatcherInv, HostTypes
  <1>1. CASE Reject(h)
    BY <1>1 DEF Reject
  <1>2. CASE Finish(h) /\ ~Reject(h)
    <2>1. KeepFinish
      BY <1>2, Zenon DEF Finish, Refuse
    <2>. QED
      BY <2>1 DEF KeepFinish, KeepRest
  <1>3. CASE Start(h) \/ Shutdown(h) \/ Exit(h) \/ Crash(h) \/ CrashWriting(h)
    BY <1>0, <1>3 DEF Start, Shutdown, Exit, Crash, CrashWriting, Stop
  <1>4. CASE ~(Start(h) \/ Shutdown(h) \/ Exit(h) \/ Crash(h) \/ CrashWriting(h) \/ Finish(h)
               \/ Reject(h))
    <2>1. proc' = proc
      BY <1>4 DEF Step, Route, Evidence, Acquire, Create, ObserveStale, EnsureClaim, UnlinkStale,
                  Relock, Unclaim, Open, Observe, Select, Link, Clean, Unguard, Elect,
                  StageExecutor, Elected, RemoveStale, CreateRecovered, ReleaseExecutor, Publish,
                  Fault, Persist, Refuse, KeepFinish, KeepRest
    <2>. QED
      BY <2>1
  <1>. QED
    BY <1>1, <1>2, <1>3, <1>4

-----------------------------------------------------------------------------
(***************************************************************************)
(* Who may work on the files.                                              *)
(***************************************************************************)

\* What a host may become: it creates a journal where there is no executor
\* record, and finishes one after it has found the lock free or dead.
LEMMA RoleStep ==
    ASSUME WatcherInv, RolesHold, NEW h \in Hosts, Step(h)
    PROVE  /\ held'[h] => pc'[h] \in Filling \cup {"planned", "witness", "open", "serving",
                                                   "stopped", "crashed"}
           /\ pc'[h] = "open" => held'[h]
           /\ Finishes(h)' => Finishes(h) \/ (RemoveStale(h) /\ pc[h] = "stale" /\ ~Reject(h))
           /\ pc'[h] = "stale" => pc[h] = "stale" \/ (pc[h] = "elected" /\ executor = h)
           /\ Creates(h)' => \/ Creates(h) /\ target'[h] = target[h]
                             \/ chain = {} /\ target'[h] \in Targets
  <1>. USE DEF Finishes, Creates, Filling
  <1>0. /\ pc \in [Hosts -> Stages] /\ held \in [Hosts -> BOOLEAN]
        /\ target \in [Hosts -> Targets \cup {NoTarget}]
        /\ held[h] => pc[h] \in Filling \cup {"planned", "witness", "open", "serving", "stopped",
                                              "crashed"}
        /\ pc[h] = "open" => held[h]
    BY DEF WatcherInv, HostTypes, RolesHold
  <1>1. CASE Reject(h)
    BY <1>0, <1>1 DEF Reject, Go
  <1>2. CASE (Start(h) \/ Route(h) \/ Evidence(h) \/ Acquire(h) \/ Create(h) \/ ObserveStale(h))
             /\ ~Reject(h)
    <2>1. proc[h] = "unborn" => ~held[h]
      BY DEF WatcherInv, OwnerHolds
    <2>. QED
      BY <1>0, <1>2, <2>1 DEF Start, Route, Evidence, Acquire, Create, ObserveStale, Refuse, Go,
                              startVars
  <1>3. CASE (EnsureClaim(h) \/ UnlinkStale(h) \/ Relock(h) \/ Unclaim(h) \/ Open(h)
              \/ Observe(h)) /\ ~Reject(h)
    BY <1>0, <1>3 DEF EnsureClaim, UnlinkStale, Relock, Unclaim, Open, Observe, Refuse, Go,
                      startVars, Genesis, Debris, Unused
  <1>4. CASE (Select(h) \/ Link(h) \/ Clean(h)) /\ ~Reject(h)
    BY <1>0, <1>4 DEF Select, Link, Clean, Refuse, Go, startVars
  <1>5. CASE (\E k \in PersistSteps : Persist(h, k)) /\ ~Reject(h)
    <2>1. PICK k \in Leaves : Persist(h, k)
      BY <1>5 DEF PersistSteps
    <2>2. pc[h] = k /\ UNCHANGED <<held, target>> /\ (pc' = pc \/ Go(h, AfterLeaf(h, k)))
      BY <1>5, <2>1 DEF Persist, Refuse, startVars
    <2>. QED
      BY <1>0, <2>2 DEF AfterLeaf, Leaves, FixedNames, Go
  <1>6. CASE Unguard(h) /\ ~Reject(h)
    BY <1>0, <1>6 DEF Unguard, Go, startVars
  <1>7. CASE Finish(h) /\ ~Reject(h)
    <2>1. /\ pc[h] \in {"finish", "install"} /\ held' = held
          /\ pc' = pc \/ Go(h, IF pc[h] = "finish" THEN "elect" ELSE "elected")
      <3>1. /\ pc[h] \in {"finish", "install"} /\ KeepFinish
            /\ pc' = pc \/ Go(h, IF pc[h] = "finish" THEN "elect" ELSE "elected")
        BY <1>7, Zenon DEF Finish, Refuse
      <3>. QED
        BY <3>1 DEF KeepFinish, startVars
    <2>. QED
      BY <1>0, <2>1 DEF Go
  <1>8. CASE (Elect(h) \/ StageExecutor(h) \/ Elected(h) \/ RemoveStale(h) \/ CreateRecovered(h)
              \/ ReleaseExecutor(h)) /\ ~Reject(h)
    BY <1>0, <1>8 DEF Elect, StageExecutor, Elected, RemoveStale, CreateRecovered,
                      ReleaseExecutor, KeepFinish, Refuse, Go, startVars
  <1>9. CASE (Publish(h) \/ Shutdown(h) \/ Exit(h) \/ Crash(h) \/ CrashWriting(h)) /\ ~Reject(h)
    BY <1>0, <1>9 DEF Publish, Shutdown, Exit, Crash, CrashWriting, Stop, Go, startVars
  <1>10. CASE Fault(h)
    BY <1>1, <1>10 DEF Fault
  <1>. QED
    BY <1>1, <1>2, <1>3, <1>4, <1>5, <1>6, <1>7, <1>8, <1>9, <1>10 DEF Step

\* A host at a stage of its start is alive.
LEMMA WorkersAlive ==
    ASSUME WatcherInv, NEW h \in Hosts,
           Creates(h) \/ Finishes(h) \/ pc[h] = "stale"
    PROVE  Alive(h)
  BY DEF WatcherInv, OwnerHolds, Creates, Finishes, Filling

LEMMA RolesStep ==
    ASSUME BootstrapAssumption, WatcherInv, RolesHold, NEW h \in Hosts, Step(h)
    PROVE  RolesHold'
  <1>1. ASSUME NEW g \in Hosts
        PROVE  /\ held'[g] => pc'[g] \in Filling \cup {"planned", "witness", "open", "serving",
                                                       "stopped", "crashed"}
               /\ pc'[g] = "open" => held'[g]
    BY RoleStep, OthersKept DEF RolesHold
  <1>2. ASSUME NEW g \in Hosts, Finishes(g)' \/ pc'[g] = "stale"
        PROVE  executor' = g /\ executor = g
    <2>1. executor = g
      <3>1. CASE g = h
        BY <1>2, <3>1, RoleStep DEF RolesHold
      <3>2. CASE g # h
        BY <1>2, <3>2, OthersKept DEF RolesHold, Finishes
      <3>. QED
        BY <3>1, <3>2
    <2>2. Alive(g)
      <3>1. CASE g = h
        <4>1. Finishes(h) \/ pc[h] \in {"stale", "elected"}
          BY <1>2, <3>1, RoleStep
        <4>. QED
          BY <3>1, <4>1 DEF WatcherInv, OwnerHolds, Finishes, Filling
      <3>2. CASE g # h
        BY <1>2, <3>2, OthersKept, WorkersAlive DEF Finishes
      <3>. QED
        BY <3>1, <3>2
    <2>3. pc'[g] # "unclaimRecovered" /\ g # NoHost
      BY <1>2 DEF Finishes, Filling, BootstrapAssumption
    <2>. QED
      BY <2>1, <2>2, <2>3, ExecutorStep
  <1>3. executor' # NoHost => chain' # {}
    BY ExecutorStep DEF RolesHold
  <1>4. ASSUME NEW f \in Hosts, NEW c \in Hosts, Finishes(f)', Creates(c)'
        PROVE  FALSE
    <2>1. f # c
      BY <1>4 DEF Finishes, Creates
    <2>2. Finishes(f) \/ (f = h /\ RemoveStale(h) /\ pc[h] = "stale" /\ ~Reject(h))
      BY <1>4, RoleStep, OthersKept DEF Finishes
    <2>3. Creates(c) \/ (c = h /\ chain = {})
      BY <1>4, RoleStep, OthersKept DEF Creates
    <2>4. CASE c = h /\ chain = {}
      BY <2>1, <2>2, <2>4 DEF RolesHold, BootstrapAssumption
    <2>5. CASE Creates(c)
      <3>1. lock # NoLock /\ lock.owner = c /\ Alive(c)
        BY <2>5, WorkersAlive DEF WatcherInv, OwnerHolds, Owns, Creates
      <3>2. ~(RemoveStale(h) /\ ~Reject(h))
        BY <3>1 DEF RemoveStale, Refuse
      <3>. QED
        BY <2>2, <2>5, <3>2 DEF RolesHold
    <2>. QED
      BY <2>3, <2>4, <2>5
  <1>. QED
    BY <1>1, <1>2, <1>3, <1>4 DEF RolesHold

\* So one host works on the files.
Works(h) == Creates(h) \/ Finishes(h)
LEMMA OneWorker ==
    ASSUME WatcherInv, RolesHold, NEW g \in Hosts, NEW h \in Hosts, Works(g), Works(h)
    PROVE  g = h
  <1>1. CASE Creates(g) /\ Creates(h)
    BY <1>1, WorkersAlive DEF WatcherInv, OwnerHolds, Owns, Creates
  <1>2. CASE Finishes(g) /\ Finishes(h)
    BY <1>2 DEF RolesHold
  <1>. QED
    BY <1>1, <1>2 DEF RolesHold, Works

-----------------------------------------------------------------------------
(***************************************************************************)
(* The files.                                                              *)
(***************************************************************************)

\* Whoever writes a file knows its journal.
LEMMA TargetKnown ==
    ASSUME WatcherInv, JournalInv, NEW h \in Hosts,
           pc[h] \in Leaves \cup Settled
    PROVE  target[h] \in Targets
  <1>1. target[h] \in Targets \cup {NoTarget} /\ selector \in Targets \cup {NoTarget}
    BY DEF WatcherInv, HostTypes, FileTypes
  <1>2. CASE held[h]
    BY <1>1, <1>2 DEF JournalInv, RolesHold, FilesHold, Creates, Filling, Leaves,
                            FixedNames, Settled
  <1>3. CASE ~held[h]
    BY <1>1, <1>3 DEF JournalInv, FilesHold, SelectionHolds, Selected, Bridged, Records, Elects,
                      Filling, Leaves, FixedNames, Settled, WatcherInv, HostTypes
  <1>. QED
    BY <1>2, <1>3 DEF WatcherInv, HostTypes

\* A step writes the file its host is at, one status on or torn, or removes the
\* guard.
Grows(h, k, st) ==
  LET t == target[h]
  IN /\ pc[h] = k /\ ~Another(k, t) /\ ~Skipped(k, t) /\ disk[k][t] # "final"
     /\ ~(disk[k][t] = "torn" /\ k \in TornIsFinal)
     /\ st = Grown(k, disk[k][t]) \/ (st = "torn" /\ disk[k][t] = "none")
     /\ pc'[h] \in {k, "crashed"}

LEMMA DiskStep ==
    ASSUME WatcherInv, JournalInv, NEW h \in Hosts, Step(h)
    PROVE  \/ disk' = disk
           \/ \E k \in Leaves, st \in Statuses :
                Grows(h, k, st) /\ disk' = [disk EXCEPT ![k][target[h]] = st]
           \/ /\ pc[h] = "unguard" /\ pc'[h] # "unguard"
              /\ \E st \in {"none", disk["guard"][target[h]]} :
                   disk' = [disk EXCEPT !["guard"][target[h]] = st]
  <1>0. disk \in [Leaves -> [Targets -> Statuses]] /\ pc \in [Hosts -> Stages]
    BY DEF WatcherInv, FileTypes, HostTypes
  <1>1. CASE Reject(h)
    BY <1>1 DEF Reject, diskVars
  <1>2. CASE (\E k \in PersistSteps : Persist(h, k)) /\ ~Reject(h)
    <2>1. PICK k \in Leaves : Persist(h, k)
      BY <1>2 DEF PersistSteps
    <2>2. CASE disk' = disk
      BY <2>2
    <2>3. CASE disk' # disk
      <3>1. /\ pc[h] = k /\ pc' = pc /\ ~Another(k, target[h]) /\ ~Skipped(k, target[h])
            /\ disk[k][target[h]] # "final" /\ ~(disk[k][target[h]] = "torn" /\ k \in TornIsFinal)
            /\ disk' = [disk EXCEPT ![k][target[h]] = Grown(k, disk[k][target[h]])]
        BY <1>2, <2>1, <2>3 DEF Persist, Refuse, KeepDisk, diskVars
      <3>2. target[h] \in Targets
        BY <3>1, TargetKnown
      <3>3. Grown(k, disk[k][target[h]]) \in Statuses
        BY <1>0, <3>1, <3>2, GrownTyped
      <3>. QED
        BY <3>1, <3>3 DEF Grows
    <2>. QED
      BY <2>2, <2>3
  <1>3. CASE Unguard(h) /\ ~Reject(h)
    <2>1. DEFINE st == IF disk["authority"][target[h]] = "final" THEN "none"
                       ELSE disk["guard"][target[h]]
    <2>2. /\ pc[h] = "unguard" /\ disk' = [disk EXCEPT !["guard"][target[h]] = st]
          /\ pc'[h] \in {"serving", "newLock"}
      BY <1>0, <1>3 DEF Unguard, Go
    <2>. QED
      BY <2>2
  <1>4. CASE CrashWriting(h)
    <2>1. CASE disk' = disk
      BY <2>1
    <2>2. CASE disk' # disk
      <3>1. PICK k \in Leaves :
              /\ pc[h] = k /\ ~Another(k, target[h]) /\ ~Skipped(k, target[h])
              /\ disk[k][target[h]] = "none" /\ disk' = [disk EXCEPT ![k][target[h]] = "torn"]
        BY <1>4, <2>2 DEF CrashWriting, PersistSteps
      <3>2. pc'[h] = "crashed"
        BY <1>0, <1>4 DEF CrashWriting, Go
      <3>. QED
        BY <3>1, <3>2 DEF Grows, Statuses
    <2>. QED
      BY <2>1, <2>2
  <1>5. CASE ~((\E k \in PersistSteps : Persist(h, k)) \/ Unguard(h) \/ CrashWriting(h)
               \/ Reject(h))
    BY <1>5 DEF Step, Start, Route, Evidence, Acquire, Create, ObserveStale, EnsureClaim,
                UnlinkStale, Relock, Unclaim, Open, Observe, Select, Link, Clean, Finish, Elect,
                StageExecutor, Elected, RemoveStale, CreateRecovered, ReleaseExecutor, Publish,
                Shutdown, Exit, Crash, Fault, Stop, Refuse, KeepDisk, KeepFinish, diskVars
  <1>. QED
    BY <1>1, <1>2, <1>3, <1>4, <1>5

\* A file with its final name keeps it, but for the guard.
LEMMA FinalKept ==
    ASSUME WatcherInv, JournalInv, NEW h \in Hosts, Step(h),
           NEW k \in Leaves \ {"guard"}, NEW t \in Targets, disk[k][t] = "final"
    PROVE  disk'[k][t] = "final"
  <1>1. disk \in [Leaves -> [Targets -> Statuses]]
    BY DEF WatcherInv, FileTypes
  <1>2. CASE disk' = disk
    BY <1>2
  <1>3. ASSUME NEW j \in Leaves, NEW st \in Statuses, Grows(h, j, st),
               disk' = [disk EXCEPT ![j][target[h]] = st]
        PROVE  disk'[k][t] = "final"
    BY <1>1, <1>3 DEF Grows
  <1>4. ASSUME NEW st, disk' = [disk EXCEPT !["guard"][target[h]] = st]
        PROVE  disk'[k][t] = "final"
    BY <1>1, <1>4
  <1>. QED
    BY <1>2, <1>3, <1>4, DiskStep

LEMMA PastSets ==
    /\ Past("database") = Settled \cup {"generation", "pointer", "fixed", "authority"}
    /\ Past("generation") = Settled \cup {"pointer", "fixed", "authority"}
    /\ Past("pointer") = Settled \cup {"fixed", "authority"}
    /\ Past("fixed") = Settled \cup {"authority"}
    /\ Past("authority") = Settled
  BY DEF Past

\* How a host comes to have a file behind it: it had, it has just found the file
\* complete, or it opened a complete journal.
LEMMA PastStep ==
    ASSUME WatcherInv, NEW h \in Hosts, Step(h), NEW k \in Written, pc'[h] \in Past(k)
    PROVE  \/ pc[h] \in Past(k) /\ target'[h] = target[h]
           \/ pc[h] = k /\ target'[h] = target[h] /\ disk[k][target[h]] = "final"
           \/ disk' = disk /\ prior[h] # NoTarget /\ target'[h] = prior[h] /\ Openable(prior[h])
  <1>. USE DEF Settled
  <1>0. pc \in [Hosts -> Stages] /\ target \in [Hosts -> Targets \cup {NoTarget}]
        /\ pc'[h] \in Settled \cup {"generation", "pointer", "fixed", "authority"}
        /\ Settled \subseteq Past(k)
    BY PastSets DEF WatcherInv, HostTypes, Written
  <1>1. CASE Reject(h)
    BY <1>0, <1>1 DEF Reject, Go
  <1>2. CASE (Start(h) \/ Route(h) \/ Evidence(h) \/ Acquire(h) \/ Create(h) \/ ObserveStale(h))
             /\ ~Reject(h)
    BY <1>0, <1>2 DEF Start, Route, Evidence, Acquire, Create, ObserveStale, Refuse, Go, startVars
  <1>3. CASE (EnsureClaim(h) \/ UnlinkStale(h) \/ Relock(h) \/ Unclaim(h) \/ Observe(h))
             /\ ~Reject(h)
    BY <1>0, <1>3 DEF EnsureClaim, UnlinkStale, Relock, Unclaim, Observe, Refuse, Go, startVars
  <1>4. CASE Open(h) /\ ~Reject(h)
    BY <1>0, <1>4 DEF Open, Refuse, Go, diskVars
  <1>5. CASE (Select(h) \/ Link(h) \/ Clean(h)) /\ ~Reject(h)
    BY <1>0, <1>5 DEF Select, Link, Clean, Refuse, Go, startVars
  <1>6. CASE (\E j \in PersistSteps : Persist(h, j)) /\ ~Reject(h)
    <2>1. PICK j \in Leaves : Persist(h, j)
      BY <1>6 DEF PersistSteps
    <2>2. /\ pc[h] = j /\ target' = target
          /\ pc' = pc \/ (Go(h, AfterLeaf(h, j)) /\ (disk[j][target[h]] = "final" \/ j = "guard"))
      BY <1>6, <2>1 DEF Persist, Refuse, Skipped, startVars
    <2>3. CASE pc' = pc
      BY <2>2, <2>3
    <2>4. CASE pc' # pc
      <3>1. pc'[h] = AfterLeaf(h, j) /\ (disk[j][target[h]] = "final" \/ j = "guard")
        BY <1>0, <2>2, <2>4 DEF Go
      <3>2. \/ j = k \/ j \in Past(k)
        BY <1>0, <3>1, PastSets DEF AfterLeaf, Leaves, FixedNames, Written
      <3>3. k # "guard" /\ "guard" \notin Past(k)
        BY PastSets DEF Written
      <3>. QED
        BY <2>2, <3>1, <3>2, <3>3
    <2>. QED
      BY <2>3, <2>4
  <1>7. CASE Unguard(h) /\ ~Reject(h)
    BY <1>0, <1>7 DEF Unguard, startVars
  <1>8. CASE Finish(h) /\ ~Reject(h)
    <2>1. /\ pc[h] \in {"finish", "install"}
          /\ pc' = pc \/ Go(h, IF pc[h] = "finish" THEN "elect" ELSE "elected")
      BY <1>8, Zenon DEF Finish, Refuse
    <2>. QED
      BY <1>0, <2>1 DEF Go
  <1>9. CASE (Elect(h) \/ StageExecutor(h) \/ Elected(h) \/ RemoveStale(h) \/ CreateRecovered(h)
              \/ ReleaseExecutor(h)) /\ ~Reject(h)
    BY <1>0, <1>9 DEF Elect, StageExecutor, Elected, RemoveStale, CreateRecovered,
                      ReleaseExecutor, KeepFinish, Refuse, Go, startVars
  <1>10. CASE (Publish(h) \/ Shutdown(h) \/ Exit(h) \/ Crash(h) \/ CrashWriting(h)) /\ ~Reject(h)
    BY <1>0, <1>10 DEF Publish, Shutdown, Exit, Crash, CrashWriting, Stop, Go, startVars
  <1>11. CASE Fault(h)
    BY <1>1, <1>11 DEF Fault
  <1>. QED
    BY <1>1, <1>2, <1>3, <1>4, <1>5, <1>6, <1>7, <1>8, <1>9, <1>10, <1>11 DEF Step

\* A journal that opens is complete.
LEMMA OpenableComplete ==
    ASSUME WatcherInv, JournalInv, NEW t, t # NoTarget, Openable(t)
    PROVE  t \in Targets /\ \A k \in Written : disk[k][t] = "final"
  <1>1. t \in Targets /\ disk["fixed"][t] = "final"
    BY DEF Openable, FixedPointer, At
  <1>2. disk["pointer"][t] = "final"
    BY <1>1 DEF JournalInv, FilesHold
  <1>. QED
    BY <1>1, <1>2 DEF Openable, Written

\* What a step may do to the journal a host has.
LEMMA TargetStep ==
    ASSUME WatcherInv, JournalInv, NEW h \in Hosts, Step(h),
           Creates(h)' \/ pc'[h] \in {"serving", "stopped"}
    PROVE  target'[h] \in Targets
  <1>1. CASE pc'[h] \in Settled
    <2>1. pc'[h] \in Past("database")
      BY <1>1, PastSets
    <2>2. CASE pc[h] \in Past("database") /\ target'[h] = target[h]
      BY <2>2, PastSets, TargetKnown DEF Leaves, FixedNames, Settled
    <2>3. CASE pc[h] = "database" /\ target'[h] = target[h]
      BY <2>3, TargetKnown DEF Leaves
    <2>4. CASE prior[h] # NoTarget /\ target'[h] = prior[h] /\ Openable(prior[h])
      BY <2>4, OpenableComplete
    <2>. QED
      BY <2>1, <2>2, <2>3, <2>4, PastStep DEF Written
  <1>2. CASE pc'[h] \notin Settled
    <2>1. Creates(h)'
      BY <1>2 DEF Settled
    <2>. QED
      BY <2>1, RoleStep DEF JournalInv, FilesHold
  <1>. QED
    BY <1>1, <1>2

\* How a host comes to the files: through the guard, and one after the other.
LEMMA FillStep ==
    ASSUME WatcherInv, NEW h \in Hosts, Step(h), pc'[h] \in Filling \ {"guard"}
    PROVE  /\ pc[h] \in Filling /\ target'[h] = target[h]
           /\ pc[h] = "guard" => AuthorityNamed \/ disk["guard"][target[h]] = "final"
           /\ pc[h] = "unguard" => pc'[h] = "unguard"
  <1>. USE DEF Filling
  <1>0. pc \in [Hosts -> Stages]
    BY DEF WatcherInv, HostTypes
  <1>1. CASE Reject(h)
    BY <1>0, <1>1 DEF Reject, Go
  <1>2. CASE (Start(h) \/ Route(h) \/ Evidence(h) \/ Acquire(h) \/ Create(h) \/ ObserveStale(h)
              \/ EnsureClaim(h) \/ UnlinkStale(h) \/ Relock(h) \/ Unclaim(h) \/ Open(h))
             /\ ~Reject(h)
    BY <1>0, <1>2 DEF Start, Route, Evidence, Acquire, Create, ObserveStale, EnsureClaim,
                      UnlinkStale, Relock, Unclaim, Open, Refuse, Go
  <1>3. CASE (Observe(h) \/ Select(h) \/ Link(h) \/ Clean(h) \/ Unguard(h)) /\ ~Reject(h)
    BY <1>0, <1>3 DEF Observe, Select, Link, Clean, Unguard, Refuse, Go
  <1>4. CASE (\E j \in PersistSteps : Persist(h, j)) /\ ~Reject(h)
    <2>1. PICK j \in Leaves : Persist(h, j)
      BY <1>4 DEF PersistSteps
    <2>2. /\ pc[h] = j /\ target' = target
          /\ \/ pc' = pc
             \/ /\ Go(h, AfterLeaf(h, j))
                /\ disk[j][target[h]] = "final" \/ (j = "guard" /\ AuthorityNamed)
      BY <1>4, <2>1 DEF Persist, Refuse, Skipped, startVars
    <2>. QED
      BY <1>0, <2>2 DEF AfterLeaf, Leaves, FixedNames, Go
  <1>5. CASE Finish(h) /\ ~Reject(h)
    <2>1. /\ pc[h] \in {"finish", "install"}
          /\ pc' = pc \/ Go(h, IF pc[h] = "finish" THEN "elect" ELSE "elected")
      BY <1>5, Zenon DEF Finish, Refuse
    <2>. QED
      BY <1>0, <2>1 DEF Go
  <1>6. CASE (Elect(h) \/ StageExecutor(h) \/ Elected(h) \/ RemoveStale(h) \/ CreateRecovered(h)
              \/ ReleaseExecutor(h)) /\ ~Reject(h)
    BY <1>0, <1>6 DEF Elect, StageExecutor, Elected, RemoveStale, CreateRecovered,
                      ReleaseExecutor, Refuse, Go
  <1>7. CASE (Publish(h) \/ Shutdown(h) \/ Exit(h) \/ Crash(h) \/ CrashWriting(h)) /\ ~Reject(h)
    BY <1>0, <1>7 DEF Publish, Shutdown, Exit, Crash, CrashWriting, Stop, Go
  <1>8. CASE Fault(h)
    BY <1>1, <1>8 DEF Fault
  <1>. QED
    BY <1>1, <1>2, <1>3, <1>4, <1>5, <1>6, <1>7, <1>8 DEF Step

\* Fixed names hold one journal at a time, and the files follow each other.
LEMMA OrderStep ==
    ASSUME WatcherInv, JournalInv, NEW h \in Hosts, Step(h)
    PROVE  /\ \A k \in FixedNames, s, t \in Targets :
                disk'[k][s] # "none" /\ disk'[k][t] # "none" => s = t
           /\ \A t \in Targets : /\ disk'["fixed"][t] # "none" => disk'["pointer"][t] = "final"
                                 /\ disk'["authority"][t] # "none" => disk'["fixed"][t] = "final"
  <1>. DEFINE One == \A k \in FixedNames, s, t \in Targets :
                       disk[k][s] # "none" /\ disk[k][t] # "none" => s = t
              Ordered == \A t \in Targets :
                           /\ disk["fixed"][t] # "none" => disk["pointer"][t] = "final"
                           /\ disk["authority"][t] # "none" => disk["fixed"][t] = "final"
  <1>0. disk \in [Leaves -> [Targets -> Statuses]] /\ One /\ Ordered
    BY DEF WatcherInv, FileTypes, JournalInv, FilesHold
  <1>. SUFFICES One' /\ Ordered'
    OBVIOUS
  <1>1. CASE disk' = disk
    BY <1>0, <1>1
  <1>2. ASSUME NEW k \in Leaves, NEW st \in Statuses, Grows(h, k, st),
               disk' = [disk EXCEPT ![k][target[h]] = st]
        PROVE  One' /\ Ordered'
    <2>1. pc[h] = k /\ target[h] \in Targets
      BY <1>2, TargetKnown DEF Grows
    <2>2. One'
      <3>1. \A t \in Targets : k \in FixedNames /\ disk[k][t] # "none" => t = target[h]
        BY <1>2 DEF Grows, Another, Present
      <3>. QED
        BY <1>0, <1>2, <2>1, <3>1
    <2>3. k = "fixed" => disk["pointer"][target[h]] = "final"
      BY <2>1, PastSets DEF JournalInv, FilesHold, Written
    <2>4. k = "authority" => disk["fixed"][target[h]] = "final"
      BY <2>1, PastSets DEF JournalInv, FilesHold, Written
    <2>5. disk[k][target[h]] # "final"
      BY <1>2 DEF Grows
    <2>6. Ordered'
      BY <1>0, <1>2, <2>1, <2>3, <2>4, <2>5 DEF Leaves, FixedNames
    <2>. QED
      BY <2>2, <2>6
  <1>3. ASSUME NEW st, pc[h] = "unguard", st \in {"none", disk["guard"][target[h]]},
               disk' = [disk EXCEPT !["guard"][target[h]] = st]
        PROVE  One' /\ Ordered'
    <2>1. target[h] \in Targets
      BY <1>3, TargetKnown DEF Settled
    <2>2. \A k \in Leaves, t \in Targets : disk'[k][t] # "none" => disk[k][t] # "none"
      BY <1>0, <1>3, <2>1
    <2>3. \A k \in Leaves \ {"guard"} : disk'[k] = disk[k]
      BY <1>0, <1>3, <2>1
    <2>. QED
      BY <1>0, <2>2, <2>3 DEF Leaves, FixedNames
  <1>. QED
    BY <1>1, <1>2, <1>3, DiskStep

\* What is behind a host stays complete.
LEMMA PastKept ==
    ASSUME WatcherInv, JournalInv, NEW h \in Hosts, Step(h),
           NEW g \in Hosts, NEW k \in Written, pc'[g] \in Past(k)
    PROVE  disk'[k][target'[g]] = "final"
  <1>0. k \in Leaves \ {"guard"}
    BY DEF Written, Leaves, FixedNames
  <1>1. ASSUME pc[g] \in Past(k), target'[g] = target[g]
        PROVE  disk'[k][target'[g]] = "final"
    <2>1. disk[k][target[g]] = "final" /\ pc[g] \in Leaves \cup Settled
      BY <1>1, PastSets DEF JournalInv, FilesHold, Written, Leaves, FixedNames
    <2>. QED
      BY <1>0, <1>1, <2>1, TargetKnown, FinalKept
  <1>2. CASE g # h
    BY <1>1, <1>2, OthersKept
  <1>3. CASE g = h
    <2>1. CASE pc[h] = k /\ target'[h] = target[h] /\ disk[k][target[h]] = "final"
      BY <1>0, <1>3, <2>1, TargetKnown, FinalKept
    <2>2. CASE disk' = disk /\ prior[h] # NoTarget /\ target'[h] = prior[h] /\ Openable(prior[h])
      BY <1>3, <2>2, OpenableComplete
    <2>. QED
      BY <1>1, <1>3, <2>1, <2>2, PastStep
  <1>. QED
    BY <1>2, <1>3

\* A host past the guard works, and it is the only one that does.
LEMMA FillersWork ==
    ASSUME NEW h \in Hosts, held \in [Hosts -> BOOLEAN], pc[h] \in Filling
    PROVE  Works(h)
  BY DEF Works, Creates, Finishes

\* The guard stands from the first file to the authority.
LEMMA GuardStep ==
    ASSUME WatcherInv, JournalInv, NEW h \in Hosts, Step(h)
    PROVE  /\ AuthorityNamed' => \A t \in Targets : disk'["guard"][t] \in {"none", "final"}
           /\ \A g \in Hosts : pc'[g] \in Filling \ {"guard"} =>
                AuthorityNamed' \/ disk'["guard"][target'[g]] = "final"
  <1>0. /\ disk \in [Leaves -> [Targets -> Statuses]] /\ held \in [Hosts -> BOOLEAN]
        /\ AuthorityNamed => \A t \in Targets : disk["guard"][t] \in {"none", "final"}
        /\ \A g \in Hosts : pc[g] \in Filling \ {"guard"} =>
             AuthorityNamed \/ disk["guard"][target[g]] = "final"
    BY DEF WatcherInv, FileTypes, HostTypes, JournalInv, FilesHold
  <1>1. ASSUME NEW t \in Targets
        PROVE  disk["authority"][t] \in {"linked", "final"} => AuthorityNamed
    BY DEF AuthorityNamed, At
  <1>2. AuthorityNamed => AuthorityNamed'
    <2>. SUFFICES ASSUME NEW t \in Targets, disk["authority"][t] \in {"linked", "final"}
                  PROVE  disk'["authority"][t] \in {"linked", "final"}
      BY DEF AuthorityNamed, At
    <2>1. ASSUME NEW k \in Leaves, NEW st \in Statuses, Grows(h, k, st),
                 disk' = [disk EXCEPT ![k][target[h]] = st]
          PROVE  disk'["authority"][t] \in {"linked", "final"}
      BY <1>0, <2>1 DEF Grows, Grown, PlainWrites
    <2>2. ASSUME NEW st, disk' = [disk EXCEPT !["guard"][target[h]] = st]
          PROVE  disk'["authority"][t] \in {"linked", "final"}
      BY <1>0, <2>2
    <2>. QED
      BY <2>1, <2>2, DiskStep
  <1>3. ASSUME AuthorityNamed'
        PROVE  \A t \in Targets : disk'["guard"][t] \in {"none", "final"}
    <2>1. CASE disk' = disk
      BY <1>0, <1>3, <2>1 DEF AuthorityNamed, At
    <2>2. ASSUME NEW k \in Leaves, NEW st \in Statuses, Grows(h, k, st),
                 disk' = [disk EXCEPT ![k][target[h]] = st]
          PROVE  \A t \in Targets : disk'["guard"][t] \in {"none", "final"}
      <3>0. pc[h] = k /\ target[h] \in Targets
        BY <2>2, TargetKnown DEF Grows
      <3>1. CASE k = "authority"
        <4>1. disk'["guard"] = disk["guard"]
          BY <1>0, <2>2, <3>0, <3>1
        <4>2. AuthorityNamed \/ disk["guard"][target[h]] = "final"
          BY <1>0, <3>0, <3>1 DEF Filling
        <4>3. \A t \in Targets : disk["guard"][t] # "none" /\ disk["guard"][target[h]] # "none"
                                   => t = target[h]
          BY <3>0 DEF JournalInv, FilesHold, FixedNames
        <4>. QED
          BY <1>0, <3>0, <4>1, <4>2, <4>3
      <3>2. CASE k # "authority"
        <4>1. AuthorityNamed
          BY <1>0, <1>3, <2>2, <3>0, <3>2 DEF AuthorityNamed, At, Leaves, FixedNames
        <4>2. CASE k = "guard"
          <5>1. disk["guard"][target[h]] \in {"none", "final"}
            BY <1>0, <3>0, <4>1
          <5>. QED
            BY <2>2, <4>1, <4>2, <5>1 DEF Grows, Skipped
        <4>3. CASE k # "guard"
          <5>1. disk'["guard"] = disk["guard"]
            BY <1>0, <2>2, <3>0, <4>3 DEF Leaves, FixedNames
          <5>. QED
            BY <1>0, <4>1, <5>1
        <4>. QED
          BY <4>2, <4>3
      <3>. QED
        BY <3>1, <3>2
    <2>3. ASSUME NEW st \in {"none", disk["guard"][target[h]]}, pc[h] = "unguard",
                 disk' = [disk EXCEPT !["guard"][target[h]] = st]
          PROVE  \A t \in Targets : disk'["guard"][t] \in {"none", "final"}
      <3>1. target[h] \in Targets
        BY <2>3, TargetKnown DEF Settled
      <3>2. disk'["authority"] = disk["authority"]
        BY <1>0, <2>3 DEF Leaves, FixedNames
      <3>3. AuthorityNamed
        BY <1>3, <3>2 DEF AuthorityNamed, At
      <3>. QED
        BY <1>0, <2>3, <3>1, <3>3 DEF Leaves, FixedNames
    <2>. QED
      BY <2>1, <2>2, <2>3, DiskStep
  <1>4. ASSUME NEW g \in Hosts, pc'[g] \in Filling \ {"guard"}
        PROVE  AuthorityNamed' \/ disk'["guard"][target'[g]] = "final"
    <2>1. /\ pc[g] \in Filling /\ target'[g] = target[g]
          /\ AuthorityNamed \/ disk["guard"][target[g]] = "final"
      <3>1. CASE g # h
        BY <1>0, <1>4, <3>1, OthersKept
      <3>2. CASE g = h
        BY <1>0, <1>4, <3>2, FillStep
      <3>. QED
        BY <3>1, <3>2
    <2>2. CASE AuthorityNamed
      BY <1>2, <2>2
    <2>3. CASE disk["guard"][target[g]] = "final"
      <3>0. target[g] \in Targets
        BY <2>1, TargetKnown DEF Filling, Leaves, FixedNames, Settled
      <3>1. CASE disk' = disk
        BY <2>1, <2>3, <3>1
      <3>2. ASSUME NEW k \in Leaves, NEW st \in Statuses, Grows(h, k, st),
                   disk' = [disk EXCEPT ![k][target[h]] = st]
            PROVE  disk'["guard"][target[g]] = "final"
        BY <1>0, <2>3, <3>0, <3>2 DEF Grows, Leaves, FixedNames
      <3>3. ~(pc[h] = "unguard" /\ pc'[h] # "unguard")
        <4>. SUFFICES ASSUME pc[h] = "unguard", pc'[h] # "unguard"
                      PROVE  FALSE
          OBVIOUS
        <4>1. g = h
          BY <1>0, <2>1, FillersWork, OneWorker DEF JournalInv, Filling
        <4>. QED
          BY <1>4, <4>1, FillStep
      <3>. QED
        BY <2>1, <3>1, <3>2, <3>3, DiskStep
    <2>. QED
      BY <2>1, <2>2, <2>3
  <1>. QED
    BY <1>3, <1>4

LEMMA FilesStep ==
    ASSUME WatcherInv, JournalInv, NEW h \in Hosts, Step(h)
    PROVE  FilesHold'
  <1>1. ASSUME NEW g \in Hosts, Creates(g)' \/ pc'[g] \in {"serving", "stopped"}
        PROVE  target'[g] \in Targets
    <2>1. CASE g = h
      BY <1>1, <2>1, TargetStep
    <2>2. CASE g # h
      BY <1>1, <2>2, OthersKept DEF JournalInv, FilesHold, Creates
    <2>. QED
      BY <2>1, <2>2
  <1>. QED
    BY <1>1, OrderStep, PastKept, GuardStep DEF FilesHold

-----------------------------------------------------------------------------
(***************************************************************************)
(* The selection.                                                          *)
(***************************************************************************)

\* The selector is written once, from a candidate that names a journal.
LEMMA SelectorStep ==
    ASSUME BootstrapAssumption, WatcherInv, SelectionHolds, NEW h \in Hosts, Step(h)
    PROVE  /\ selector # NoTarget => selector' = selector
           /\ \A c \in candidates' : ~c.torn => c.to # NoTarget
           /\ pc'[h] = "clean" => selector' # NoTarget
  <1>0. /\ pc \in [Hosts -> Stages] /\ \A c \in candidates : ~c.torn => c.to # NoTarget
        /\ pc[h] = "clean" => selector # NoTarget
    BY DEF WatcherInv, HostTypes, SelectionHolds
  <1>1. CASE Reject(h)
    BY <1>0, <1>1 DEF Reject, Go, selVars
  <1>2. CASE Select(h) /\ ~Reject(h)
    <2>1. UNCHANGED selector /\ (pc'[h] = "clean" => selector # NoTarget)
      BY <1>0, <1>2 DEF Select, Go
    <2>2. \A c \in candidates' : ~c.torn => c.to # NoTarget
      <3>1. CASE candidates' \subseteq candidates
        BY <1>0, <3>1
      <3>2. ASSUME NEW t \in Targets, candidates' = {Chosen(h, t)}
            PROVE  \A c \in candidates' : ~c.torn => c.to # NoTarget
        BY <3>2, BootstrapAssumption DEF Chosen
      <3>3. \/ candidates' \subseteq candidates
            \/ \E t \in Targets : candidates' = {Chosen(h, t)}
        BY <1>2 DEF Select, Chosen, Unused, Planned, Present
      <3>. QED
        BY <3>1, <3>2, <3>3
    <2>. QED
      BY <2>1, <2>2
  <1>3. CASE Link(h) /\ ~Reject(h)
    BY <1>0, <1>3 DEF Link, Refuse, Go
  <1>4. CASE (Evidence(h) \/ Clean(h)) /\ ~Reject(h)
    BY <1>0, <1>4 DEF Evidence, Clean, Swept, Go
  <1>5. CASE CrashWriting(h)
    <2>1. /\ UNCHANGED selector /\ pc'[h] = "crashed"
          /\ candidates' = candidates \/ \A c \in candidates' : c.torn
      BY <1>0, <1>5 DEF CrashWriting, Go
    <2>. QED
      BY <1>0, <2>1
  <1>6. CASE (\E j \in PersistSteps : Persist(h, j)) /\ ~Reject(h)
    <2>1. PICK j \in Leaves : Persist(h, j)
      BY <1>6 DEF PersistSteps
    <2>2. UNCHANGED selVars /\ (pc' = pc \/ Go(h, AfterLeaf(h, j))) /\ pc[h] = j
      BY <1>6, <2>1 DEF Persist, Refuse, KeepDisk
    <2>. QED
      BY <1>0, <2>2 DEF AfterLeaf, Leaves, FixedNames, Go, selVars
  <1>7. CASE Finish(h) /\ ~Reject(h)
    <2>1. /\ UNCHANGED selVars /\ pc[h] \in {"finish", "install"}
          /\ pc' = pc \/ Go(h, IF pc[h] = "finish" THEN "elect" ELSE "elected")
      <3>1. /\ pc[h] \in {"finish", "install"} /\ KeepFinish
            /\ pc' = pc \/ Go(h, IF pc[h] = "finish" THEN "elect" ELSE "elected")
        BY <1>7, Zenon DEF Finish, Refuse
      <3>. QED
        BY <3>1 DEF KeepFinish
    <2>. QED
      BY <1>0, <2>1 DEF Go, selVars
  <1>8. CASE ~(Select(h) \/ Link(h) \/ Evidence(h) \/ Clean(h) \/ CrashWriting(h) \/ Finish(h)
               \/ (\E j \in PersistSteps : Persist(h, j)) \/ Reject(h))
    <2>1. UNCHANGED selVars
      BY <1>8 DEF Step, Start, Route, Acquire, Create, ObserveStale, EnsureClaim, UnlinkStale,
                  Relock, Unclaim, Open, Observe, Unguard, Elect, StageExecutor, Elected,
                  RemoveStale, CreateRecovered, ReleaseExecutor, Publish, Shutdown, Exit, Crash,
                  Fault, Stop, Refuse, KeepDisk, KeepFinish, selVars
    <2>2. pc'[h] # "clean" \/ pc[h] = "clean"
      BY <1>0, <1>8 DEF Step, Start, Route, Acquire, Create, ObserveStale, EnsureClaim, UnlinkStale,
                  Relock, Unclaim, Open, Observe, Unguard, Elect, StageExecutor, Elected,
                  RemoveStale, CreateRecovered, ReleaseExecutor, Publish, Shutdown, Exit, Crash,
                  Fault, Stop, Refuse, Go
    <2>. QED
      BY <1>0, <2>1, <2>2 DEF selVars
  <1>. QED
    BY <1>1, <1>2, <1>3, <1>4, <1>5, <1>6, <1>7, <1>8

\* A host is recorded from the moment it stages its record.
LEMMA RecordStep ==
    ASSUME WatcherInv, NEW h \in Hosts, Step(h), NEW g \in Hosts, Recorded(g)'
    PROVE  Recorded(g) \/ (g = h /\ pc[h] = "stageExecutor" /\ pc'[h] = "install")
  <1>0. pc \in [Hosts -> Stages]
    BY DEF WatcherInv, HostTypes
  <1>1. CASE Reject(h)
    BY <1>1 DEF Reject, execVars, Recorded
  <1>2. CASE Finish(h) /\ ~Reject(h)
    <2>1. \/ UNCHANGED execVars \/ UNCHANGED <<chain, execStage>>
          \/ UNCHANGED chain /\ execStage' = NoStage
          \/ UNCHANGED execStage /\ chain' = chain \cup {Staged} /\ execStage.st = "stage"
      BY <1>2, Zenon DEF Finish, Refuse
    <2>. QED
      BY <2>1 DEF execVars, Recorded, Staged, NoStage
  <1>3. CASE StageExecutor(h) /\ ~Reject(h)
    BY <1>0, <1>3 DEF StageExecutor, Refuse, Go, Recorded
  <1>4. CASE CrashWriting(h)
    BY <1>4 DEF CrashWriting, Recorded, NoStage
  <1>5. CASE ~(Finish(h) \/ StageExecutor(h) \/ CrashWriting(h) \/ Reject(h))
    <2>1. UNCHANGED <<chain, execStage>>
      BY <1>5 DEF Step, Start, Route, Evidence, Acquire, Create, ObserveStale, EnsureClaim,
                  UnlinkStale, Relock, Unclaim, Open, Observe, Select, Link, Clean, Unguard, Elect,
                  Elected, RemoveStale, CreateRecovered, ReleaseExecutor, Publish, Shutdown, Exit,
                  Crash, Fault, Stop, Persist, Refuse, KeepDisk, KeepFinish, execVars
    <2>. QED
      BY <2>1 DEF Recorded
  <1>. QED
    BY <1>1, <1>2, <1>3, <1>4, <1>5

\* How a recoverer comes to its journal: from the selector, and past the bridge
\* once that has its name.
LEMMA SelectStep ==
    ASSUME WatcherInv, RolesHold, SelectionHolds, NEW h \in Hosts, Step(h), ~held'[h]
    PROVE  /\ pc'[h] \in {"planned", "witness", "bridge"} =>
                \/ pc[h] = "clean" /\ target'[h] = selector
                \/ Selected(h) /\ target'[h] = target[h]
           /\ pc'[h] \in Elects \cup Records =>
                \/ Bridged(h) /\ target'[h] \in {target[h], selector}
                \/ Selected(h) /\ target'[h] = target[h] /\ disk["bridge"][target[h]] = "final"
                \/ /\ selector # NoTarget /\ disk["bridge"][selector] = "final"
                   /\ target'[h] = selector
  <1>. USE DEF Elects, Records, Filling
  <1>0. /\ pc \in [Hosts -> Stages] /\ target \in [Hosts -> Targets \cup {NoTarget}]
        /\ held \in [Hosts -> BOOLEAN] /\ (pc[h] = "open" => held[h])
    BY DEF WatcherInv, HostTypes, RolesHold
  <1>1. ~held[h] /\ pc[h] \in {"planned", "witness", "bridge"} => Selected(h)
    BY DEF SelectionHolds
  <1>2. ~held[h] /\ pc[h] \in Elects \cup Records => Bridged(h)
    BY DEF SelectionHolds
  <1>3. CASE Reject(h)
    BY <1>0, <1>3 DEF Reject, Go
  <1>4. CASE (Start(h) \/ Route(h) \/ Evidence(h) \/ Acquire(h) \/ Create(h) \/ ObserveStale(h)
              \/ EnsureClaim(h) \/ UnlinkStale(h) \/ Relock(h) \/ Unclaim(h)) /\ ~Reject(h)
    BY <1>0, <1>4 DEF Start, Route, Evidence, Acquire, Create, ObserveStale, EnsureClaim,
                      UnlinkStale, Relock, Unclaim, Refuse, Go
  <1>5. CASE Open(h) /\ ~Reject(h)
    <2>1. pc[h] = "open" /\ held' = held
      BY <1>5 DEF Open, Refuse
    <2>2. held[h]
      BY <1>0, <2>1
    <2>3. held'[h]
      BY <2>1, <2>2, Zenon
    <2>. QED
      BY <2>3
  <1>6. CASE (Observe(h) \/ Select(h) \/ Link(h)) /\ ~Reject(h)
    BY <1>0, <1>6 DEF Observe, Continues, Select, Link, Refuse, Go
  <1>7. CASE Clean(h)
    BY <1>0, <1>2, <1>7 DEF Clean, Go
  <1>8. CASE (\E j \in PersistSteps : Persist(h, j)) /\ ~Reject(h)
    <2>1. PICK j \in Leaves : Persist(h, j)
      BY <1>8 DEF PersistSteps
    <2>2. /\ pc[h] = j /\ target' = target /\ held' = held
          /\ \/ pc' = pc
             \/ Go(h, AfterLeaf(h, j)) /\ (disk[j][target[h]] = "final" \/ j = "guard")
      BY <1>8, <2>1 DEF Persist, Refuse, Skipped, startVars
    <2>3. CASE pc' = pc
      BY <1>1, <1>2, <2>2, <2>3
    <2>4. CASE pc'[h] = AfterLeaf(h, j) /\ (disk[j][target[h]] = "final" \/ j = "guard")
      <3>1. CASE j \in {"planned", "witness"}
        BY <1>1, <2>2, <2>4, <3>1 DEF AfterLeaf
      <3>2. CASE j = "bridge"
        BY <1>1, <2>2, <2>4, <3>2 DEF AfterLeaf
      <3>3. CASE j \in Filling
        BY <1>2, <2>2, <2>4, <3>3 DEF AfterLeaf, Leaves, FixedNames
      <3>. QED
        BY <3>1, <3>2, <3>3 DEF Leaves, FixedNames
    <2>. QED
      BY <1>0, <2>2, <2>3, <2>4 DEF Go
  <1>9. CASE Unguard(h)
    BY <1>0, <1>2, <1>9 DEF Unguard, Go, startVars
  <1>10. CASE Finish(h) /\ ~Reject(h)
    <2>1. /\ pc[h] \in {"finish", "install"} /\ UNCHANGED <<target, held>>
          /\ pc' = pc \/ Go(h, IF pc[h] = "finish" THEN "elect" ELSE "elected")
      <3>1. /\ pc[h] \in {"finish", "install"} /\ KeepFinish
            /\ pc' = pc \/ Go(h, IF pc[h] = "finish" THEN "elect" ELSE "elected")
        BY <1>10, Zenon DEF Finish, Refuse
      <3>. QED
        BY <3>1 DEF KeepFinish, startVars
    <2>. QED
      BY <1>0, <1>2, <2>1 DEF Go
  <1>11. CASE (Elect(h) \/ StageExecutor(h) \/ Elected(h) \/ RemoveStale(h) \/ CreateRecovered(h)
               \/ ReleaseExecutor(h)) /\ ~Reject(h)
    BY <1>0, <1>2, <1>11 DEF Elect, StageExecutor, Elected, RemoveStale, CreateRecovered,
                             ReleaseExecutor, KeepFinish, Refuse, Go, startVars
  <1>12. CASE (Publish(h) \/ Shutdown(h) \/ Exit(h) \/ Crash(h) \/ CrashWriting(h)) /\ ~Reject(h)
    BY <1>0, <1>1, <1>2, <1>12 DEF Publish, Shutdown, Exit, Crash, CrashWriting, Stop, Go,
                                  startVars
  <1>13. CASE Fault(h)
    BY <1>3, <1>13 DEF Fault
  <1>. QED
    BY <1>3, <1>4, <1>5, <1>6, <1>7, <1>8, <1>9, <1>10, <1>11, <1>12, <1>13 DEF Step

\* What becomes of a host that is recorded.
LEMMA RecordedStep ==
    ASSUME WatcherInv, RolesHold, NEW h \in Hosts, Step(h)
    PROVE  /\ pc[h] = "stageExecutor" /\ pc'[h] = "install" => ~held'[h]
           /\ pc[h] \in Records /\ ~held[h] =>
                \/ pc'[h] \in Records /\ ~held'[h]
                \/ pc'[h] = "serving" /\ target'[h] = target[h]
                \/ pc'[h] \in {"refused", "crashed"}
           /\ pc[h] = "serving" =>
                \/ pc'[h] = "serving" /\ target'[h] = target[h]
                \/ pc'[h] \in {"refused", "stopped", "crashed"}
           /\ pc[h] \in {"refused", "stopped", "crashed"} /\ proc[h] # "unborn" =>
                pc'[h] \in {"refused", "stopped", "crashed"}
           /\ proc[h] # "unborn" => proc'[h] # "unborn"
  <1>. USE DEF Records, Filling
  <1>0. /\ pc \in [Hosts -> Stages] /\ held \in [Hosts -> BOOLEAN]
        /\ proc \in [Hosts -> {"unborn", "live", "dead"}]
        /\ held[h] => pc[h] \in Filling \cup {"planned", "witness", "open", "serving", "stopped",
                                              "crashed"}
    BY DEF WatcherInv, HostTypes, RolesHold
  <1>1. CASE Reject(h)
    BY <1>0, <1>1 DEF Reject, Go
  <1>2. CASE (Start(h) \/ Route(h) \/ Evidence(h) \/ Acquire(h) \/ Create(h) \/ ObserveStale(h)
              \/ EnsureClaim(h) \/ UnlinkStale(h) \/ Relock(h) \/ Open(h)) /\ ~Reject(h)
    <2>1. proc[h] = "unborn" => pc[h] \in {"start", "refused", "stopped", "crashed"}
      BY DEF WatcherInv, OwnerHolds, Alive
    <2>. QED
      BY <1>0, <1>2, <2>1 DEF Start, Route, Evidence, Acquire, Create, ObserveStale, EnsureClaim,
                      UnlinkStale, Relock, Open, Refuse, KeepRest
  <1>3. CASE (Unclaim(h) \/ Observe(h) \/ Select(h) \/ Link(h) \/ Clean(h) \/ Unguard(h))
             /\ ~Reject(h)
    BY <1>0, <1>3 DEF Unclaim, Observe, Select, Link, Clean, Unguard, Refuse, Go, KeepRest,
                      startVars
  <1>4. CASE (\E j \in PersistSteps : Persist(h, j)) /\ ~Reject(h)
    <2>1. PICK j \in Leaves : Persist(h, j)
      BY <1>4 DEF PersistSteps
    <2>2. /\ pc[h] = j /\ held' = held /\ proc' = proc
          /\ pc' = pc \/ Go(h, AfterLeaf(h, j))
      BY <1>4, <2>1 DEF Persist, Refuse, startVars, KeepRest
    <2>. QED
      BY <1>0, <2>2 DEF AfterLeaf, Leaves, FixedNames, Go
  <1>5. CASE Finish(h) /\ ~Reject(h)
    <2>1. /\ pc[h] \in {"finish", "install"} /\ UNCHANGED <<proc, held>>
          /\ pc' = pc \/ Go(h, IF pc[h] = "finish" THEN "elect" ELSE "elected")
      <3>1. /\ pc[h] \in {"finish", "install"} /\ KeepFinish
            /\ pc' = pc \/ Go(h, IF pc[h] = "finish" THEN "elect" ELSE "elected")
        BY <1>5, Zenon DEF Finish, Refuse
      <3>. QED
        BY <3>1 DEF KeepFinish, startVars, KeepRest
    <2>. QED
      BY <1>0, <2>1 DEF Go
  <1>6. CASE (Elect(h) \/ StageExecutor(h) \/ Elected(h) \/ RemoveStale(h) \/ CreateRecovered(h)
              \/ ReleaseExecutor(h)) /\ ~Reject(h)
    BY <1>0, <1>6 DEF Elect, StageExecutor, Elected, RemoveStale, CreateRecovered,
                      ReleaseExecutor, KeepFinish, Refuse, Go, startVars, KeepRest
  <1>7. CASE (Publish(h) \/ Shutdown(h) \/ Exit(h) \/ Crash(h) \/ CrashWriting(h)) /\ ~Reject(h)
    BY <1>0, <1>7 DEF Publish, Shutdown, Exit, Crash, CrashWriting, Stop, Go, startVars
  <1>8. CASE Fault(h)
    BY <1>1, <1>8 DEF Fault
  <1>. QED
    BY <1>1, <1>2, <1>3, <1>4, <1>5, <1>6, <1>7, <1>8 DEF Step

\* A journal that is selected and bridged stays so.
LEMMA BridgedKept ==
    ASSUME BootstrapAssumption, WatcherInv, JournalInv, NEW h \in Hosts, Step(h),
           selector # NoTarget, disk["bridge"][selector] = "final"
    PROVE  selector' = selector /\ disk'["bridge"][selector'] = "final"
  <1>1. selector \in Targets /\ selector' = selector
    BY SelectorStep DEF WatcherInv, FileTypes, JournalInv
  <1>. QED
    BY <1>1, FinalKept DEF Leaves, FixedNames

LEMMA SelectionStep ==
    ASSUME BootstrapAssumption, WatcherInv, JournalInv, NEW h \in Hosts, Step(h)
    PROVE  SelectionHolds'
  <1>0. WatcherInv /\ RolesHold /\ SelectionHolds
    BY DEF JournalInv
  <1>1. ASSUME NEW g \in Hosts, pc'[g] = "clean"
        PROVE  selector' # NoTarget
    BY <1>0, <1>1, OthersKept, SelectorStep DEF SelectionHolds
  <1>2. ASSUME NEW g \in Hosts, pc'[g] \in {"planned", "witness", "bridge"}, ~held'[g]
        PROVE  Selected(g)'
    <2>1. CASE g = h
      BY <1>0, <1>2, <2>1, SelectStep, SelectorStep DEF SelectionHolds, Selected
    <2>2. CASE g # h
      BY <1>0, <1>2, <2>2, OthersKept, SelectorStep DEF SelectionHolds, Selected
    <2>. QED
      BY <2>1, <2>2
  <1>3. ASSUME NEW g \in Hosts, pc'[g] \in Elects \cup Records, ~held'[g]
        PROVE  Bridged(g)'
    <2>1. CASE g = h
      <3>1. /\ selector # NoTarget /\ disk["bridge"][selector] = "final"
            /\ target'[h] = selector
        BY <1>0, <1>3, <2>1, SelectStep DEF Bridged, Selected
      <3>. QED
        BY <2>1, <3>1, BridgedKept DEF Bridged, Selected
    <2>2. CASE g # h
      BY <1>0, <1>3, <2>2, OthersKept, BridgedKept DEF SelectionHolds, Bridged, Selected
    <2>. QED
      BY <2>1, <2>2
  <1>4. ASSUME NEW g \in Hosts, Recorded(g)'
        PROVE  \/ pc'[g] \in Records /\ ~held'[g]
               \/ pc'[g] = "serving" /\ Bridged(g)'
               \/ pc'[g] \in {"refused", "stopped", "crashed"} /\ proc'[g] # "unborn"
    <2>1. CASE g = h /\ pc[h] = "stageExecutor" /\ pc'[h] = "install"
      BY <1>0, <2>1, RecordedStep DEF Records
    <2>2. CASE Recorded(g) /\ g = h
      <3>1. proc[h] # "unborn"
        BY <1>0, <2>2 DEF SelectionHolds, WatcherInv, OwnerHolds, Records, Filling, Alive
      <3>2. CASE pc[h] \in Records /\ ~held[h]
        <4>1. Bridged(h)
          BY <1>0, <3>2 DEF SelectionHolds
        <4>. QED
          BY <1>0, <2>2, <3>1, <3>2, <4>1, RecordedStep, BridgedKept DEF Bridged, Selected
      <3>3. CASE pc[h] = "serving" /\ Bridged(h)
        BY <1>0, <2>2, <3>1, <3>3, RecordedStep, BridgedKept DEF Bridged, Selected
      <3>4. CASE pc[h] \in {"refused", "stopped", "crashed"}
        BY <1>0, <2>2, <3>1, <3>4, RecordedStep
      <3>. QED
        BY <1>0, <2>2, <3>2, <3>3, <3>4 DEF SelectionHolds
    <2>3. CASE Recorded(g) /\ g # h
      <3>1. proc'[g] = proc[g]
        BY <1>0, <2>3, ProcKept
      <3>. QED
        BY <1>0, <2>3, <3>1, OthersKept, BridgedKept DEF SelectionHolds, Bridged, Selected
    <2>. QED
      BY <1>0, <1>4, <2>1, <2>2, <2>3, RecordStep
  <1>. QED
    BY <1>0, <1>1, <1>2, <1>3, <1>4, SelectorStep DEF SelectionHolds

LEMMA JournalStep ==
    ASSUME BootstrapAssumption, WatcherInv, JournalInv, [Next]_vars
    PROVE  JournalInv'
  <1>1. ASSUME NEW h \in Hosts, Step(h)
        PROVE  JournalInv'
    BY <1>1, RolesStep, FilesStep, SelectionStep DEF JournalInv
  <1>2. CASE UNCHANGED vars
    <2>1. RolesHold'
      BY <1>2 DEF JournalInv, RolesHold, Finishes, Creates, vars, startVars, execVars
    <2>2. FilesHold'
      BY <1>2 DEF JournalInv, FilesHold, Creates, AuthorityNamed, At, vars, startVars, diskVars
    <2>3. SelectionHolds'
      BY <1>2 DEF JournalInv, SelectionHolds, Selected, Bridged, Recorded, vars, startVars,
                  selVars, diskVars, execVars
    <2>. QED
      BY <2>1, <2>2, <2>3 DEF JournalInv
  <1>. QED
    BY <1>1, <1>2 DEF Next

LEMMA JournalInit ==
    ASSUME Init
    PROVE  JournalInv
  <1>1. RolesHold
    BY DEF Init, RolesHold, Finishes, Creates, Filling
  <1>2. FilesHold
    BY PastSets DEF Init, FilesHold, Creates, Filling, AuthorityNamed, At, Written, Settled,
                    Leaves, FixedNames
  <1>3. SelectionHolds
    BY DEF Init, SelectionHolds, Elects, Records, Filling, Recorded, NoStage
  <1>. QED
    BY <1>1, <1>2, <1>3 DEF JournalInv

\* Who works on the files, what is complete, and which journal is selected.
THEOREM JournalInvariant == Spec => []JournalInv
  <1>1. Init => JournalInv
    BY JournalInit
  <1>2. WatcherInv /\ JournalInv /\ [Next]_vars => JournalInv'
    BY JournalStep, BootstrapAssumption
  <1>. QED  BY <1>1, <1>2, WatcherInvariant, PTL DEF Spec

\* No two hosts write a journal's files, and nobody writes a file of the journal
\* that is served, however many hosts create, recover and serve at once.
THEOREM OneHostAlwaysWorks == Spec => []OneHostWorks
  <1>1. WatcherInv /\ JournalInv => OneHostWorks
    <2>. SUFFICES ASSUME WatcherInv, JournalInv, NEW g \in Hosts, NEW h \in Hosts, Writing(g),
                         Writing(h) \/ (pc[h] = "serving" /\ target[h] = target[g])
                  PROVE  g = h
      BY DEF OneHostWorks
    <2>0. held \in [Hosts -> BOOLEAN] /\ RolesHold
      BY DEF WatcherInv, HostTypes, JournalInv
    <2>1. Works(g)
      BY <2>0 DEF Writing, Works, Creates, Finishes, Filling
    <2>2. CASE Writing(h)
      <3>1. Works(h)
        BY <2>0, <2>2 DEF Writing, Works, Creates, Finishes, Filling
      <3>. QED
        BY <2>0, <2>1, <3>1, OneWorker
    <2>3. CASE pc[h] = "serving" /\ target[h] = target[g]
      <3>1. target[g] \in Targets /\ \A k \in Written : disk[k][target[g]] = "final"
        BY <2>3, PastSets DEF JournalInv, FilesHold, Settled, Written
      <3>2. AuthorityNamed /\ disk["guard"][target[g]] \in {"none", "final"}
        <4>1. AuthorityNamed
          BY <3>1 DEF AuthorityNamed, At, Written
        <4>. QED
          BY <3>1, <4>1 DEF JournalInv, FilesHold
      <3>3. pc[g] \notin Written \cup {"guard"}
        BY <3>1, <3>2 DEF Writing, Skipped, Written
      <3>4. held[g] /\ pc[g] \in {"planned", "witness"}
        BY <3>3 DEF Writing, Written
      <3>5. lock.owner = g
        BY <3>4 DEF WatcherInv, OwnerHolds, Owns
      <3>6. Owns(h)
        BY <2>3 DEF WatcherInv, OwnerHolds, Owns
      <3>. QED
        BY <3>5, <3>6 DEF WatcherInv, OwnerHolds
    <2>. QED
      BY <2>2, <2>3
  <1>. QED  BY <1>1, WatcherInvariant, JournalInvariant, PTL

\* One journal ever becomes the vault's: whatever is fixed, named by the authority
\* or served is the same, and a recovery ends with the journal it selected.
THEOREM OneJournalAlways == Spec => []OneJournal
  <1>1. WatcherInv /\ JournalInv => OneJournal
    <2>. SUFFICES ASSUME WatcherInv, JournalInv
                  PROVE  OneJournal
      OBVIOUS
    <2>. DEFINE served == {target[h] : h \in {g \in Hosts : pc[g] \in {"serving", "stopped"}}}
                named == At("fixed", "final") \cup At("fixed", "linked")
                           \cup At("authority", "final")
    <2>1. \A t \in named \cup served : t \in Targets /\ disk["fixed"][t] # "none"
      <3>1. \A t \in named : t \in Targets /\ disk["fixed"][t] # "none"
        BY DEF At, JournalInv, FilesHold
      <3>2. \A t \in served : t \in Targets /\ disk["fixed"][t] = "final"
        BY PastSets DEF JournalInv, FilesHold, Settled, Written
      <3>. QED
        BY <3>1, <3>2
    <2>2. \A s, t \in named \cup served : s = t
      BY <2>1 DEF JournalInv, FilesHold, FixedNames
    <2>3. Cardinality(named \cup served) <= 1
      <3>1. CASE named \cup served = {}
        BY <3>1, FS_EmptySet
      <3>2. CASE named \cup served # {}
        <4>1. PICK t : named \cup served = {t}
          BY <2>2, <3>2
        <4>. QED
          BY <4>1, FS_Singleton
      <3>. QED
        BY <3>1, <3>2
    <2>4. ASSUME NEW h \in Hosts, NEW r \in chain, pc[h] = "serving", r.by = h
          PROVE  selector = target[h] /\ disk["bridge"][selector] = "final"
      BY <2>4 DEF JournalInv, SelectionHolds, Recorded, Records, Filling, Bridged, Selected
    <2>. QED
      BY <2>3, <2>4 DEF OneJournal
  <1>. QED  BY <1>1, WatcherInvariant, JournalInvariant, PTL

-----------------------------------------------------------------------------
(***************************************************************************)
(* What is on record, and about what: claims and selections are about dead *)
(* owners of locks, the bridge is about the selection, a planned journal   *)
(* is the one its creator goes by, the executor records have the ones      *)
(* before them.                                                            *)
(***************************************************************************)
Gone(g) == proc[g] = "dead"
PlannedWhole == {t \in Targets : disk["planned"][t] \notin {"none", "torn"}}

\* A host that recovers a genesis, from its claim to the end.
Claimed(h) == /\ ~held[h]
              /\ pc[h] \in {"select", "link", "clean", "planned", "witness", "bridge"}
                           \cup Elects \cup Records

\* Stages a creator does not leave for another journal.
Stays(g) == Creates(g) \/ pc[g] \in {"serving", "stopped", "refused", "crashed"}

ClaimsHold ==
  /\ selectorClaim \in Claims \cup {NoClaim} /\ (selector # NoTarget => selectorClaim # NoClaim)
  /\ boundLock \in [Targets -> HostLocks \cup {NoLock}]
  /\ \A h \in Hosts : proc[h] = "unborn" <=> pc[h] = "start"
  /\ \A h \in Hosts : Claimed(h) =>
       /\ myClaim[h] \in Claims /\ observed[h] = myClaim[h].lock
       /\ pc[h] \notin {"select", "link"} => selectorClaim = myClaim[h]
  /\ \A h \in Hosts : pc[h] \in {"unlinkStale", "relock", "unclaim"} => myClaim[h] \in Claims
  /\ lock # NoLock => proc[lock.owner] # "unborn"
  /\ \A h \in Hosts : observed[h] # NoLock => proc[observed[h].owner] # "unborn"
  /\ claim # NoClaim => Gone(claim.lock.owner)
  /\ \A h \in Hosts : myClaim[h] # NoClaim => Gone(myClaim[h].lock.owner)
  /\ \A c \in candidates : IF c.torn THEN Gone(c.by)
                           ELSE c.to \in Targets /\ c.claim \in Claims /\ Gone(c.claim.lock.owner)

RecordsHold ==
  /\ \A t \in Targets : /\ disk["bridge"][t] # "none" => t = selector
                        /\ disk["bridge"][t] \notin {"none", "torn"} => bridgeClaim = selectorClaim
                        /\ disk["planned"][t] \in {"none", "torn"} => boundLock[t] = NoLock
  /\ outer => \E t \in Targets : disk["fixed"][t] = "final"
  /\ selector = NoTarget =>
       /\ \A t \in PlannedWhole : /\ boundLock[t] # NoLock /\ Stays(boundLock[t].owner)
                                  /\ target[boundLock[t].owner] = t
       /\ \A c \in candidates, t \in PlannedWhole :
            ~c.torn /\ boundLock[t] = c.claim.lock => t = c.to
       /\ \A t \in Targets, k \in FixedNames : disk[k][t] # "none" => disk["planned"][t] = "final"
       /\ \A h \in Hosts : Creates(h) /\ pc[h] # "planned" => disk["planned"][target[h]] = "final"

LineHolds ==
  /\ execStage.st = "none" => execStage = NoStage
  /\ \A r, s \in chain : r.by = s.by => r = s
  /\ execStage.st = "stage" =>
       /\ \A r \in chain : r.by = execStage.by => r = Staged
       /\ IF execStage.ord = 0 THEN execStage.prior = NoHost
          ELSE \E s \in chain : s.by = execStage.prior /\ s.ord + 1 = execStage.ord
  /\ chain # {} \/ execStage # NoStage =>
       selector # NoTarget /\ disk["bridge"][selector] = "final"

RecordInv == ClaimsHold /\ RecordsHold /\ LineHolds

-----------------------------------------------------------------------------
(***************************************************************************)
(* A lone start that is not stranded: what holds at each of its stages, so *)
(* that none of them refuses it.                                           *)
(***************************************************************************)
NotMine(h) == lock # NoLock => lock.owner # h

\* What the takeover of a lock needs, and the creation of the first journal.
Fit(h) == IF prior[h] = NoTarget THEN ~outer /\ ~Debris ELSE Openable(prior[h])

Takes(h) ==
  /\ pc[h] \in {"evidence", "acquire", "create", "observeStale", "claimStale", "unlinkStale",
                "relock", "unclaim", "open"} => Fit(h)
  /\ pc[h] = "open" /\ prior[h] = NoTarget => lock = NewLock(h)
  /\ pc[h] = "evidence" => TerminalEvidence /\ claim = NoClaim
                           /\ (prior[h] = NoTarget => lock = NoLock)
  /\ pc[h] = "acquire" => claim = NoClaim
  /\ pc[h] \in {"acquire", "create", "relock"} => lock = NoLock
  /\ pc[h] \in {"evidence", "observeStale", "claimStale", "unlinkStale"} => NotMine(h)
  /\ pc[h] \in {"observeStale", "claimStale", "unlinkStale"} => lock # NoLock
  /\ pc[h] \in {"observeStale", "claimStale"} => claim = NoClaim
  /\ pc[h] \in {"claimStale", "unlinkStale"} => observed[h] = lock
  /\ pc[h] \in {"observeStale", "claimStale", "unlinkStale", "relock", "unclaim"}
        => prior[h] # NoTarget
  /\ pc[h] \in {"unlinkStale", "relock", "unclaim"} => claim = myClaim[h]

\* Nothing is in the way of the files of one journal.
Room(t) == /\ \A k \in FixedNames : ~Another(k, t)
           /\ \A k \in TornIsFinal : disk[k][t] # "torn"

KnownLock(h) == \/ lock \in {NoLock, observed[h]}
                \/ lock.prior = selector /\ \E r \in chain : r.by = lock.owner
NotCut == ~(execStage.st = "torn" /\ executor = NoHost /\ chain # {})
WholeFiles == \A k \in TornIsFinal, t \in Targets : disk[k][t] # "torn"

\* From the claim to the executor record.
Follows(h) ==
  /\ claim = myClaim[h] /\ Foreign(claim) = {} /\ OneLine /\ NotCut
  /\ KnownLock(h) /\ NotMine(h) /\ WholeFiles

Recovers(h) ==
  /\ pc[h] \in {"observe", "claim"} => ~Stranded /\ RoutesToRecovery /\ NotMine(h)
  /\ pc[h] = "claim" => At("bridge", "final") = {} /\ observed[h] = lock
  /\ Claimed(h) => claim = myClaim[h]
  /\ Claimed(h) /\ pc[h] \notin Records => Follows(h)
  /\ pc[h] = "select" =>
       IF selector = NoTarget
       THEN At("planned", "torn") = {} /\ \A t \in PlannedWhole : boundLock[t] = observed[h]
       ELSE selectorClaim = myClaim[h] /\ \A k \in FixedNames : ~Another(k, selector)
  /\ pc[h] = "link" =>
       /\ selector = NoTarget /\ \A k \in FixedNames : ~Another(k, target[h])
       /\ \E c \in candidates : c.to = target[h] /\ ~c.torn /\ c.claim = myClaim[h]
  /\ pc[h] \in {"clean", "late"} => \A k \in FixedNames : ~Another(k, selector)
  /\ Claimed(h) /\ pc[h] \notin {"select", "link", "clean", "late"} => Room(target[h])
  /\ pc[h] \in {"elect", "stageExecutor"} => execStage = NoStage
  /\ pc[h] = "stageExecutor" => sawLast[h] = Last
  /\ pc[h] = "install" =>
       /\ OneLine /\ NotCut
       /\ IF execStage = NoStage THEN executor = h
          ELSE execStage.st = "stage" /\ execStage.by = h /\ execStage.prior # h
  /\ Claimed(h) /\ pc[h] \in {"elected", "stale", "release"} \cup Filling \cup {"newLock"} => executor = h
  /\ pc[h] \in {"install", "elected", "stale"} => KnownLock(h) /\ NotMine(h)
  /\ Claimed(h) /\ pc[h] \in Filling \cup {"newLock"} => lock = NoLock
  /\ pc[h] = "release" => lock = [owner |-> h, prior |-> target[h]]

Ready(h) ==
  /\ pc[h] # "refused"
  /\ pc[h] = "route" => ~Stranded /\ NotMine(h) /\ prior[h] = FixedPointer
  /\ Takes(h) /\ Recovers(h)
  /\ Creates(h) => Room(target[h])

LoneInv ==
  /\ DOMAIN lone = Hosts /\ DOMAIN stranded = Hosts
  /\ \A h \in Hosts : lone[h] =>
       /\ proc[h] = "live" => \A g \in Hosts \ {h} : proc[g] # "live"
       /\ pc[h] = "refused" => stranded[h]
       /\ proc[h] = "live" /\ ~stranded[h] => Ready(h)

-----------------------------------------------------------------------------
(***************************************************************************)
(* What a step does to claims, locks, selections and candidates.           *)
(***************************************************************************)

\* A host comes to go by a claim when it ensures one or continues one.
LEMMA MyClaimStep ==
    ASSUME WatcherInv, NEW h \in Hosts, Step(h)
    PROVE  \/ myClaim' = myClaim
           \/ /\ pc[h] \in {"claimStale", "claim"} /\ UsableClaim(h)
              /\ claim' = IF claim = NoClaim THEN [by |-> h, lock |-> observed[h]] ELSE claim
              /\ myClaim' = [myClaim EXCEPT ![h] = claim'] /\ observed' = observed
           \/ /\ pc[h] = "observe" /\ Continues
              /\ myClaim' = [myClaim EXCEPT ![h] = claim]
              /\ observed' = [observed EXCEPT ![h] = claim.lock]
  <1>1. CASE Reject(h)
    BY <1>1 DEF Reject
  <1>2. CASE EnsureClaim(h) /\ ~Reject(h)
    BY <1>2 DEF EnsureClaim, Refuse
  <1>3. CASE Observe(h) /\ ~Reject(h)
    BY <1>3 DEF Observe, Refuse
  <1>4. CASE Finish(h) /\ ~Reject(h)
    <2>1. KeepFinish
      BY <1>4, Zenon DEF Finish, Refuse
    <2>. QED  BY <2>1 DEF KeepFinish, startVars
  <1>5. CASE ~(EnsureClaim(h) \/ Observe(h) \/ Finish(h) \/ Reject(h))
    BY <1>5 DEF Step, Start, Route, Evidence, Acquire, Create, ObserveStale, UnlinkStale, Relock,
                Unclaim, Open, Select, Link, Clean, Persist, Unguard, Elect, StageExecutor,
                Elected, RemoveStale, CreateRecovered, ReleaseExecutor, Publish, Shutdown, Exit,
                Crash, CrashWriting, Fault, Stop, Refuse, KeepFinish, startVars
  <1>. QED  BY <1>1, <1>2, <1>3, <1>4, <1>5

\* A host observes a lock it has just read, or the one of the claim it continues.
LEMMA ObservedStep ==
    ASSUME WatcherInv, NEW h \in Hosts, Step(h)
    PROVE  \/ observed' = observed
           \/ /\ observed' = [observed EXCEPT ![h] = lock]
              /\ pc'[h] \in {"acquire", "claimStale", "claim"}
           \/ pc[h] = "observe" /\ Continues /\ observed' = [observed EXCEPT ![h] = claim.lock]
  <1>0. pc \in [Hosts -> Stages]
    BY DEF WatcherInv, HostTypes
  <1>1. CASE Reject(h)
    BY <1>1 DEF Reject
  <1>2. CASE ObserveStale(h) /\ ~Reject(h)
    BY <1>0, <1>2 DEF ObserveStale, Refuse, Go
  <1>3. CASE Observe(h) /\ ~Reject(h)
    BY <1>0, <1>3 DEF Observe, Refuse, Go
  <1>4. CASE Finish(h) /\ ~Reject(h)
    <2>1. KeepFinish
      BY <1>4, Zenon DEF Finish, Refuse
    <2>. QED  BY <2>1 DEF KeepFinish, startVars
  <1>5. CASE ~(ObserveStale(h) \/ Observe(h) \/ Finish(h) \/ Reject(h))
    BY <1>5 DEF Step, Start, Route, Evidence, Acquire, Create, EnsureClaim, UnlinkStale, Relock,
                Unclaim, Open, Select, Link, Clean, Persist, Unguard, Elect, StageExecutor,
                Elected, RemoveStale, CreateRecovered, ReleaseExecutor, Publish, Shutdown, Exit,
                Crash, CrashWriting, Fault, Stop, Refuse, KeepFinish, startVars
  <1>. QED  BY <1>1, <1>2, <1>3, <1>4, <1>5

\* A claim is made about the lock its maker observed, and removed by a host that
\* goes by it.
LEMMA ClaimStep ==
    ASSUME WatcherInv, NEW h \in Hosts, Step(h)
    PROVE  \/ claim' \in {claim, NoClaim}
           \/ /\ pc[h] \in {"claimStale", "claim"} /\ UsableClaim(h)
              /\ claim' = [by |-> h, lock |-> observed[h]]
  <1>1. CASE Reject(h)
    BY <1>1 DEF Reject
  <1>2. CASE EnsureClaim(h) /\ ~Reject(h)
    BY <1>2 DEF EnsureClaim, Refuse
  <1>3. CASE Unclaim(h) /\ ~Reject(h)
    BY <1>3 DEF Unclaim, Refuse
  <1>4. CASE Finish(h) /\ ~Reject(h)
    <2>1. KeepFinish
      BY <1>4, Zenon DEF Finish, Refuse
    <2>. QED  BY <2>1 DEF KeepFinish, rootVars
  <1>5. CASE ~(EnsureClaim(h) \/ Unclaim(h) \/ Finish(h) \/ Reject(h))
    BY <1>5 DEF Step, Start, Route, Evidence, Acquire, Create, ObserveStale, UnlinkStale, Relock,
                Observe, Open, Select, Link, Clean, Persist, Unguard, Elect, StageExecutor,
                Elected, RemoveStale, CreateRecovered, ReleaseExecutor, Publish, Shutdown, Exit,
                Crash, CrashWriting, Fault, Stop, Refuse, KeepFinish, rootVars
  <1>. QED  BY <1>1, <1>2, <1>3, <1>4, <1>5

\* A lock is written by a live host, in its own name.
LEMMA LockStep ==
    ASSUME WatcherInv, NEW h \in Hosts, Step(h)
    PROVE  \/ lock' \in {lock, NoLock}
           \/ lock' \in HostLocks /\ lock'.owner = h /\ Alive(h) /\ proc' = proc
  <1>. DEFINE rec == [owner |-> h, prior |-> target[h]]
  <1>0. NewLock(h) \in HostLocks /\ NewLock(h).owner = h /\ rec \in HostLocks /\ rec.owner = h
    BY LockTyped DEF WatcherInv, NewLock
  <1>. HIDE DEF rec
  <1>1. CASE Reject(h)
    BY <1>1 DEF Reject
  <1>2. CASE (Create(h) \/ Relock(h) \/ CreateRecovered(h)) /\ ~Reject(h)
    <2>1. pc[h] \in {"create", "relock", "newLock"} /\ proc' = proc
      BY <1>2 DEF Create, Relock, CreateRecovered, Refuse, KeepRest
    <2>2. lock' \in {NewLock(h), rec}
      BY <1>2 DEF Create, Relock, CreateRecovered, Refuse, rec
    <2>3. Alive(h)
      BY <2>1 DEF WatcherInv, OwnerHolds
    <2>. QED  BY <1>0, <2>1, <2>2, <2>3
  <1>3. CASE (UnlinkStale(h) \/ RemoveStale(h) \/ Shutdown(h)) /\ ~Reject(h)
    BY <1>3 DEF UnlinkStale, RemoveStale, Shutdown, Refuse
  <1>4. CASE Finish(h) /\ ~Reject(h)
    <2>1. KeepFinish
      BY <1>4, Zenon DEF Finish, Refuse
    <2>. QED  BY <2>1 DEF KeepFinish, rootVars
  <1>5. CASE ~(Create(h) \/ Relock(h) \/ CreateRecovered(h) \/ UnlinkStale(h) \/ RemoveStale(h)
               \/ Shutdown(h) \/ Finish(h) \/ Reject(h))
    BY <1>5 DEF Step, Start, Route, Evidence, Acquire, ObserveStale, EnsureClaim, Unclaim,
                Observe, Open, Select, Link, Clean, Persist, Unguard, Elect, StageExecutor,
                Elected, ReleaseExecutor, Publish, Exit,
                Crash, CrashWriting, Fault, Stop, Refuse, KeepFinish, rootVars
  <1>. QED  BY <1>1, <1>2, <1>3, <1>4, <1>5

\* A process that has died stays dead, and is born by its start.
LEMMA LifeStep ==
    ASSUME WatcherInv, NEW h \in Hosts, Step(h), ClaimsHold
    PROVE  /\ \A g \in Hosts : /\ proc[g] = "dead" => proc'[g] = "dead"
                               /\ proc'[g] = "unborn" => proc[g] = "unborn"
           /\ proc'[h] = "unborn" <=> pc'[h] = "start"
           /\ proc'[h] # "unborn"
  <1>0. /\ pc \in [Hosts -> Stages] /\ proc \in [Hosts -> {"unborn", "live", "dead"}]
        /\ proc[h] = "unborn" <=> pc[h] = "start"
        /\ pc[h] \notin {"start", "refused", "stopped", "crashed"} => proc[h] = "live"
    BY DEF WatcherInv, HostTypes, ClaimsHold, OwnerHolds, Alive
  <1>00. \A g \in Hosts \ {h} : proc'[g] = proc[g]
    BY ProcKept
  <1>1. CASE Start(h)
    BY <1>0, <1>00, <1>1 DEF Start, Go
  <1>2. CASE Shutdown(h) \/ Exit(h) \/ Crash(h) \/ CrashWriting(h)
    BY <1>0, <1>00, <1>2 DEF Shutdown, Exit, Crash, CrashWriting, Stop, Go
  <1>3. CASE Finish(h)
    <2>1. /\ proc' = proc /\ pc[h] \in {"finish", "install"}
          /\ pc'[h] \in {pc[h], "elect", "elected", "refused"}
      <3>1. /\ pc[h] \in {"finish", "install"} /\ (KeepFinish \/ Reject(h))
            /\ pc' = pc \/ Go(h, "elect") \/ Go(h, "elected") \/ Go(h, "refused")
        BY <1>3, Zenon DEF Finish, Refuse, Reject
      <3>. QED  BY <1>0, <3>1 DEF KeepFinish, KeepRest, Reject, Go
    <2>. QED  BY <1>0, <2>1
  <1>4. CASE Fault(h)
    BY <1>0, <1>4 DEF Fault, Reject, Go
  <1>5. CASE \E k \in PersistSteps : Persist(h, k)
    <2>1. PICK k \in Leaves : Persist(h, k)
      BY <1>5 DEF PersistSteps
    <2>2. proc' = proc /\ pc[h] = k /\ (pc' = pc \/ Go(h, AfterLeaf(h, k)) \/ Go(h, "refused"))
      BY <2>1 DEF Persist, Refuse, Reject, KeepRest
    <2>. QED  BY <1>0, <2>2 DEF AfterLeaf, Leaves, FixedNames, Go
  <1>6. CASE ~(Start(h) \/ Shutdown(h) \/ Exit(h) \/ Crash(h) \/ CrashWriting(h) \/ Finish(h)
               \/ Fault(h) \/ \E k \in PersistSteps : Persist(h, k))
    BY <1>0, <1>6 DEF Step, Route, Evidence, Acquire, Create, ObserveStale, EnsureClaim,
                UnlinkStale, Relock, Unclaim, Open, Observe, Select, Link, Clean, Unguard, Elect,
                StageExecutor, Elected, RemoveStale, CreateRecovered, ReleaseExecutor, Publish,
                Refuse, Reject, KeepFinish, KeepRest, Go
  <1>. QED  BY <1>1, <1>2, <1>3, <1>4, <1>5, <1>6

\* A candidate is new when it was left torn by a death, or chosen with none whole.
LEMMA CandStep ==
    ASSUME WatcherInv, NEW h \in Hosts, Step(h), NEW c \in candidates', c \notin candidates
    PROVE  /\ pc[h] = "select" /\ selector = NoTarget
           /\ UNCHANGED <<diskVars, selector, selectorClaim, myClaim>>
           /\ \/ c.torn /\ c.by = h /\ proc'[h] = "dead"
              \/ \E t \in Targets :
                   /\ c = Chosen(h, t) /\ proc' = proc /\ candidates' = {c}
                   /\ PlannedUsable(h) /\ t \in IF Planned = {} THEN Unused ELSE Planned
  <1>1. CASE Reject(h)
    BY <1>1 DEF Reject, selVars
  <1>2. CASE Select(h) /\ ~Reject(h)
    <2>. DEFINE pool == IF Planned = {} THEN Unused ELSE Planned
    <2>1. pool \subseteq Targets
      BY DEF Planned, Present, Unused
    <2>2. ASSUME ~(candidates' \subseteq candidates)
          PROVE  /\ pc[h] = "select" /\ selector = NoTarget /\ PlannedUsable(h)
                 /\ \E t \in pool : candidates' = {Chosen(h, t)}
      BY <1>2, <2>2 DEF Select, Chosen
    <2>3. UNCHANGED <<diskVars, selector, selectorClaim, myClaim, proc>>
      BY <1>2 DEF Select, KeepRest
    <2>. QED  BY <2>1, <2>2, <2>3
  <1>3. CASE CrashWriting(h) /\ ~Reject(h)
    <2>1. proc \in [Hosts -> {"unborn", "live", "dead"}]
      BY DEF WatcherInv, HostTypes
    <2>. QED  BY <1>3, <2>1 DEF CrashWriting, startVars, diskVars
  <1>4. CASE (Evidence(h) \/ Clean(h)) /\ ~Reject(h)
    BY <1>4 DEF Evidence, Clean, Swept
  <1>5. CASE Finish(h) /\ ~Reject(h)
    <2>1. KeepFinish
      BY <1>5, Zenon DEF Finish, Refuse
    <2>. QED  BY <2>1 DEF KeepFinish, selVars
  <1>6. CASE ~(Select(h) \/ CrashWriting(h) \/ Evidence(h) \/ Clean(h) \/ Finish(h) \/ Reject(h))
    <2>1. candidates' = candidates
      BY <1>6 DEF Step, Start, Route, Acquire, Create, ObserveStale, EnsureClaim, UnlinkStale,
                Relock, Unclaim, Observe, Open, Link, Persist, Unguard, Elect, StageExecutor,
                Elected, RemoveStale, CreateRecovered, ReleaseExecutor, Publish, Shutdown, Exit,
                Crash, Fault, Stop, Refuse, KeepFinish, KeepDisk, selVars
    <2>. QED  BY <2>1
  <1>. QED  BY <1>1, <1>2, <1>3, <1>4, <1>5, <1>6

\* The selector is linked once, from a whole candidate of the host's claim.
LEMMA LinkStep ==
    ASSUME WatcherInv, NEW h \in Hosts, Step(h)
    PROVE  \/ UNCHANGED <<selector, selectorClaim>>
           \/ /\ pc[h] = "link" /\ selector = NoTarget /\ pc'[h] = "clean"
              /\ \E c \in candidates : c.to = target[h] /\ ~c.torn /\ c.claim = myClaim[h]
              /\ selector' = target[h] /\ selectorClaim' = myClaim[h]
              /\ UNCHANGED <<diskVars, myClaim, candidates>>
  <1>1. CASE Reject(h)
    BY <1>1 DEF Reject, selVars
  <1>2. CASE Link(h) /\ ~Reject(h)
    BY <1>2 DEF Link, Go, startVars, WatcherInv, HostTypes
  <1>3. CASE Finish(h) /\ ~Reject(h)
    <2>1. KeepFinish
      BY <1>3, Zenon DEF Finish, Refuse
    <2>. QED  BY <2>1 DEF KeepFinish, selVars
  <1>4. CASE ~(Link(h) \/ Finish(h) \/ Reject(h))
    BY <1>4 DEF Step, Start, Route, Evidence, Acquire, Create, ObserveStale, EnsureClaim,
                UnlinkStale, Relock, Unclaim, Observe, Open, Select, Clean, Persist, Unguard, Elect,
                StageExecutor, Elected, RemoveStale, CreateRecovered, ReleaseExecutor, Publish,
                Shutdown, Exit, Crash, CrashWriting, Fault, Stop, Refuse, KeepFinish, KeepDisk,
                selVars
  <1>. QED  BY <1>1, <1>2, <1>3, <1>4

\* What a host writes into the files, the lock of the planned journal and the
\* claim of the bridge included.
Binds(h, k) ==
  LET t == target[h]
  IN /\ boundLock' = IF k = "planned" /\ boundLock[t] = NoLock
                     THEN [boundLock EXCEPT ![t] = IF held[h] THEN lock ELSE observed[h]]
                     ELSE boundLock
     /\ bridgeClaim' = IF k = "bridge" THEN myClaim[h] ELSE bridgeClaim
     /\ UNCHANGED <<proc, pc, held, target, lock>>

LEMMA WriteStep ==
    ASSUME WatcherInv, JournalInv, NEW h \in Hosts, Step(h)
    PROVE  \/ UNCHANGED diskVars
           \/ \E k \in Leaves, st \in Statuses :
                /\ Grows(h, k, st) /\ disk' = [disk EXCEPT ![k][target[h]] = st]
                /\ target[h] \in Targets
                /\ UNCHANGED <<startVars, rootVars, execVars, selector, selectorClaim, outer>>
                /\ IF st = "torn" THEN disk[k][target[h]] = "none" /\ UNCHANGED <<boundLock, bridgeClaim>>
                   ELSE Binds(h, k)
           \/ /\ pc[h] = "unguard" /\ pc'[h] # "unguard" /\ target[h] \in Targets
              /\ \E st \in {"none", disk["guard"][target[h]]} :
                   disk' = [disk EXCEPT !["guard"][target[h]] = st]
              /\ UNCHANGED <<boundLock, bridgeClaim>>
  <1>0. disk \in [Leaves -> [Targets -> Statuses]] /\ pc \in [Hosts -> Stages]
    BY DEF WatcherInv, FileTypes, HostTypes
  <1>1. CASE Reject(h)
    BY <1>1 DEF Reject
  <1>2. CASE (\E k \in PersistSteps : Persist(h, k)) /\ ~Reject(h)
    <2>1. PICK k \in Leaves : Persist(h, k)
      BY <1>2 DEF PersistSteps
    <2>2. CASE UNCHANGED diskVars
      BY <2>2
    <2>3. CASE ~(UNCHANGED diskVars)
      <3>1. /\ pc[h] = k /\ pc' = pc /\ ~Another(k, target[h]) /\ ~Skipped(k, target[h])
            /\ disk[k][target[h]] # "final" /\ ~(disk[k][target[h]] = "torn" /\ k \in TornIsFinal)
            /\ disk' = [disk EXCEPT ![k][target[h]] = Grown(k, disk[k][target[h]])]
            /\ Binds(h, k)
            /\ UNCHANGED <<startVars, rootVars, execVars, selector, selectorClaim, outer>>
        BY <1>2, <2>1, <2>3 DEF Persist, Refuse, KeepDisk, KeepRest, Binds, startVars, rootVars,
                                selVars
      <3>2. target[h] \in Targets
        BY <3>1, TargetKnown
      <3>3. Grown(k, disk[k][target[h]]) \in Statuses /\ Grown(k, disk[k][target[h]]) # "torn"
        BY <1>0, <3>1, <3>2, GrownTyped DEF Grown, Statuses
      <3>. QED
        BY <3>1, <3>2, <3>3 DEF Grows
    <2>. QED
      BY <2>2, <2>3
  <1>3. CASE Unguard(h) /\ ~Reject(h)
    <2>1. DEFINE st == IF disk["authority"][target[h]] = "final" THEN "none"
                       ELSE disk["guard"][target[h]]
    <2>2. /\ pc[h] = "unguard" /\ disk' = [disk EXCEPT !["guard"][target[h]] = st]
          /\ pc'[h] \in {"serving", "newLock"} /\ UNCHANGED <<boundLock, bridgeClaim>>
      BY <1>0, <1>3 DEF Unguard, Go
    <2>3. target[h] \in Targets
      BY <2>2, TargetKnown DEF Settled
    <2>. QED
      BY <2>2, <2>3
  <1>4. CASE CrashWriting(h)
    <2>1. UNCHANGED <<boundLock, bridgeClaim>>
      BY <1>4 DEF CrashWriting
    <2>2. CASE disk' = disk
      BY <2>1, <2>2 DEF diskVars
    <2>3. CASE disk' # disk
      <3>1. PICK k \in Leaves :
              /\ pc[h] = k /\ ~Another(k, target[h]) /\ ~Skipped(k, target[h])
              /\ disk[k][target[h]] = "none" /\ disk' = [disk EXCEPT ![k][target[h]] = "torn"]
              /\ UNCHANGED execStage
        BY <1>4, <2>3 DEF CrashWriting, PersistSteps
      <3>2. /\ pc'[h] = "crashed"
            /\ UNCHANGED <<startVars, rootVars, executor, chain, selector, selectorClaim, outer>>
        BY <1>0, <1>4 DEF CrashWriting, Go
      <3>3. target[h] \in Targets
        BY <3>1, TargetKnown
      <3>. QED
        BY <2>1, <3>1, <3>2, <3>3 DEF Grows, Statuses, execVars
    <2>. QED
      BY <2>2, <2>3
  <1>5. CASE Finish(h) /\ ~Reject(h)
    <2>1. KeepFinish
      BY <1>5, Zenon DEF Finish, Refuse
    <2>. QED  BY <2>1 DEF KeepFinish
  <1>6. CASE ~((\E k \in PersistSteps : Persist(h, k)) \/ Unguard(h) \/ CrashWriting(h)
               \/ Finish(h) \/ Reject(h))
    BY <1>6 DEF Step, Start, Route, Evidence, Acquire, Create, ObserveStale, EnsureClaim,
                UnlinkStale, Relock, Unclaim, Open, Observe, Select, Link, Clean, Elect,
                StageExecutor, Elected, RemoveStale, CreateRecovered, ReleaseExecutor, Publish,
                Shutdown, Exit, Crash, Fault, Stop, Refuse, KeepDisk, KeepFinish, diskVars
  <1>. QED
    BY <1>1, <1>2, <1>3, <1>4, <1>5, <1>6

\* An outer generation is published while the journal is served.
LEMMA OuterStep ==
    ASSUME WatcherInv, NEW h \in Hosts, Step(h)
    PROVE  outer' = outer \/ (pc[h] = "serving" /\ disk' = disk)
  <1>1. CASE Reject(h)
    BY <1>1 DEF Reject
  <1>2. CASE Publish(h)
    BY <1>2 DEF Publish, KeepDisk, diskVars
  <1>3. CASE Finish(h) /\ ~Reject(h)
    <2>1. KeepFinish
      BY <1>3, Zenon DEF Finish, Refuse
    <2>. QED  BY <2>1 DEF KeepFinish, KeepRest
  <1>4. CASE ~(Publish(h) \/ Finish(h) \/ Reject(h))
    BY <1>4 DEF Step, Start, Route, Evidence, Acquire, Create, ObserveStale, EnsureClaim,
                UnlinkStale, Relock, Unclaim, Observe, Open, Select, Link, Clean, Persist, Unguard,
                Elect, StageExecutor, Elected, RemoveStale, CreateRecovered, ReleaseExecutor,
                Shutdown, Exit, Crash, CrashWriting, Fault, Stop, Refuse, KeepFinish, KeepRest
  <1>. QED  BY <1>1, <1>2, <1>3, <1>4

\* The executor files: a stage is written, becomes a record, is selected and is
\* removed.
LEMMA ExecFilesStep ==
    ASSUME WatcherInv, NEW h \in Hosts, Step(h)
    PROVE  \/ UNCHANGED <<execStage, chain>>
           \/ /\ pc[h] = "stageExecutor" /\ execStage = NoStage /\ UNCHANGED <<executor, chain>>
              /\ \/ execStage' = [st |-> "stage", by |-> h, ord |-> OrdOf(sawLast[h]),
                                  prior |-> sawLast[h]]
                 \/ execStage' = [NoStage EXCEPT !.st = "torn"]
           \/ execStage' = NoStage /\ UNCHANGED <<executor, chain>>
           \/ /\ execStage.st = "stage" /\ Linear /\ UNCHANGED <<executor, execStage>>
              /\ chain' = chain \cup {Staged}
  <1>1. CASE Reject(h)
    BY <1>1 DEF Reject, execVars
  <1>2. CASE Finish(h) /\ ~Reject(h)
    BY <1>2, Zenon DEF Finish, Refuse, execVars
  <1>3. CASE StageExecutor(h) /\ ~Reject(h)
    BY <1>3 DEF StageExecutor, Refuse
  <1>4. CASE CrashWriting(h)
    BY <1>4 DEF CrashWriting
  <1>5. CASE ReleaseExecutor(h) /\ ~Reject(h)
    BY <1>5 DEF ReleaseExecutor, Refuse
  <1>6. CASE ~(Finish(h) \/ StageExecutor(h) \/ CrashWriting(h) \/ ReleaseExecutor(h) \/ Reject(h))
    BY <1>6 DEF Step, Start, Route, Evidence, Acquire, Create, ObserveStale, EnsureClaim,
                UnlinkStale, Relock, Unclaim, Observe, Open, Select, Link, Clean, Persist, Unguard,
                Elect, Elected, RemoveStale, CreateRecovered, Publish, Shutdown, Exit, Crash,
                Fault, Stop, Refuse, KeepFinish, KeepDisk, execVars
  <1>. QED  BY <1>1, <1>2, <1>3, <1>4, <1>5, <1>6

\* A host that creates a journal, or is done, stays with it.
LEMMA StayStep ==
    ASSUME WatcherInv, JournalInv, ClaimsHold, NEW h \in Hosts, Step(h)
    PROVE  /\ Stays(h) => Stays(h)' /\ target'[h] = target[h]
           /\ Creates(h)' /\ pc'[h] # "planned" =>
                /\ Creates(h) /\ target'[h] = target[h]
                /\ pc[h] = "planned" => disk["planned"][target[h]] = "final"
  <1>. USE DEF Stays, Creates, Filling
  <1>0. /\ pc \in [Hosts -> Stages] /\ held \in [Hosts -> BOOLEAN]
        /\ target \in [Hosts -> Targets \cup {NoTarget}]
        /\ proc[h] = "unborn" <=> pc[h] = "start"
        /\ held[h] => pc[h] \in Filling \cup {"planned", "witness", "open", "serving", "stopped",
                                             "crashed"}
    BY DEF WatcherInv, HostTypes, ClaimsHold, JournalInv, RolesHold
  <1>1. CASE Reject(h)
    BY <1>0, <1>1 DEF Reject, Go
  <1>2. CASE (\E k \in PersistSteps : Persist(h, k)) /\ ~Reject(h)
    <2>1. PICK k \in Leaves : Persist(h, k)
      BY <1>2 DEF PersistSteps
    <2>2. /\ pc[h] = k /\ held' = held /\ target' = target
          /\ pc' = pc \/ (Go(h, AfterLeaf(h, k)) /\ (k # "guard" => disk[k][target[h]] = "final"))
      BY <1>2, <2>1 DEF Persist, Refuse, Skipped, startVars
    <2>. QED  BY <1>0, <2>2 DEF AfterLeaf, Leaves, FixedNames, Go
  <1>3. CASE Finish(h) /\ ~Reject(h)
    <2>1. /\ pc[h] \in {"finish", "install"} /\ KeepFinish
          /\ pc' = pc \/ Go(h, IF pc[h] = "finish" THEN "elect" ELSE "elected")
      BY <1>3, Zenon DEF Finish, Refuse
    <2>. QED  BY <1>0, <2>1 DEF KeepFinish, startVars, Go
  <1>4. CASE Fault(h)
    BY <1>1, <1>4 DEF Fault
  <1>5. CASE ~((\E k \in PersistSteps : Persist(h, k)) \/ Finish(h) \/ Fault(h) \/ Reject(h))
    BY <1>0, <1>5 DEF Step, Start, Route, Evidence, Acquire, Create, ObserveStale, EnsureClaim,
                UnlinkStale, Relock, Unclaim, Observe, Open, Select, Link, Clean, Unguard,
                Elect, StageExecutor, Elected, RemoveStale, CreateRecovered, ReleaseExecutor,
                Publish, Shutdown, Exit, Crash, CrashWriting, Stop, Refuse, KeepFinish, startVars, Go
  <1>. QED  BY <1>1, <1>2, <1>3, <1>4, <1>5

\* How a host comes to recover a genesis, and to go by a claim.
LEMMA ClaimedStep ==
    ASSUME WatcherInv, JournalInv, ClaimsHold, NEW h \in Hosts, Step(h)
    PROVE  /\ Claimed(h)' =>
                \/ /\ Claimed(h) /\ UNCHANGED <<myClaim, observed>>
                   /\ pc'[h] \notin {"select", "link"} =>
                        pc[h] \notin {"select", "link"} \/ selectorClaim' = myClaim[h]
                \/ /\ pc[h] = "claim" /\ pc'[h] = "select" /\ observed' = observed
                   /\ UsableClaim(h) /\ myClaim' = [myClaim EXCEPT ![h] = claim']
                   /\ claim' = IF claim = NoClaim THEN [by |-> h, lock |-> observed[h]] ELSE claim
                \/ /\ pc[h] = "observe" /\ Continues /\ UNCHANGED <<claim, selectorClaim>>
                   /\ myClaim' = [myClaim EXCEPT ![h] = claim]
                   /\ observed' = [observed EXCEPT ![h] = claim.lock]
           /\ pc'[h] \in {"unlinkStale", "relock", "unclaim"} =>
                \/ pc[h] \in {"unlinkStale", "relock"}
                \/ /\ pc[h] = "claimStale"
                   /\ claim' = IF claim = NoClaim THEN [by |-> h, lock |-> observed[h]] ELSE claim
                   /\ myClaim' = [myClaim EXCEPT ![h] = claim']
  <1>. USE DEF Claimed, Elects, Records, Filling
  <1>0. /\ pc \in [Hosts -> Stages] /\ held \in [Hosts -> BOOLEAN]
    BY DEF WatcherInv, HostTypes
  <1>1. CASE Reject(h)
    BY <1>0, <1>1 DEF Reject, Go
  <1>2. CASE (\E k \in PersistSteps : Persist(h, k)) /\ ~Reject(h)
    <2>1. PICK k \in Leaves : Persist(h, k)
      BY <1>2 DEF PersistSteps
    <2>2. /\ pc[h] = k /\ held' = held /\ UNCHANGED <<myClaim, observed>>
          /\ pc' = pc \/ Go(h, AfterLeaf(h, k))
      BY <1>2, <2>1 DEF Persist, Refuse, startVars
    <2>. QED  BY <1>0, <2>2 DEF AfterLeaf, Leaves, FixedNames, Go
  <1>3. CASE Finish(h) /\ ~Reject(h)
    <2>1. /\ pc[h] \in {"finish", "install"} /\ KeepFinish
          /\ pc' = pc \/ Go(h, IF pc[h] = "finish" THEN "elect" ELSE "elected")
      BY <1>3, Zenon DEF Finish, Refuse
    <2>. QED  BY <1>0, <2>1 DEF KeepFinish, startVars, Go
  <1>4. CASE Fault(h)
    BY <1>1, <1>4 DEF Fault
  <1>5. CASE (Select(h) \/ Link(h) \/ Clean(h)) /\ ~Reject(h)
    BY <1>0, <1>5 DEF Select, Link, Clean, startVars, Go
  <1>6. CASE (EnsureClaim(h) \/ Observe(h)) /\ ~Reject(h)
    <2>1. CASE EnsureClaim(h) /\ ~Reject(h)
      <3>1. /\ pc[h] \in {"claimStale", "claim"} /\ UsableClaim(h) /\ observed' = observed
            /\ claim' = IF claim = NoClaim THEN [by |-> h, lock |-> observed[h]] ELSE claim
            /\ myClaim' = [myClaim EXCEPT ![h] = claim']
            /\ \/ pc[h] = "claim" /\ Go(h, "select")
               \/ pc[h] = "claimStale" /\ (Go(h, "unlinkStale") \/ Go(h, "refused"))
        BY <2>1 DEF EnsureClaim, Refuse
      <3>. QED  BY <1>0, <3>1 DEF Go
    <2>2. CASE Observe(h) /\ ~Reject(h)
      BY <1>0, <2>2 DEF Observe, Refuse, rootVars, KeepDisk, selVars, Go
    <2>. QED  BY <1>6, <2>1, <2>2
  <1>7. CASE ~((\E k \in PersistSteps : Persist(h, k)) \/ Finish(h) \/ Fault(h) \/ Select(h)
               \/ Link(h) \/ Clean(h) \/ EnsureClaim(h) \/ Observe(h) \/ Reject(h))
    <2>1. held[h] => pc[h] \in Filling \cup {"planned", "witness", "open", "serving", "stopped",
                                             "crashed"}
      BY DEF JournalInv, RolesHold
    <2>2. CASE Start(h) \/ Route(h) \/ Evidence(h)
      <3>1. \E s \in {"route", "refused", "observe", "evidence", "observeStale", "acquire"} : Go(h, s)
        BY <1>7, <2>2 DEF Start, Route, Evidence
      <3>. QED  BY <1>0, <3>1 DEF Go
    <2>6. CASE Acquire(h) \/ Create(h) \/ ObserveStale(h)
      <3>1. \E s \in {"create", "open", "acquire", "claimStale"} : Go(h, s)
        BY <1>7, <2>6 DEF Acquire, Create, ObserveStale, Refuse
      <3>. QED  BY <1>0, <3>1 DEF Go
    <2>3. CASE UnlinkStale(h) \/ Relock(h) \/ Unclaim(h) \/ Open(h)
      <3>1. \/ pc[h] = "unlinkStale" /\ Go(h, "relock")
            \/ pc[h] = "relock" /\ Go(h, "unclaim")
            \/ Go(h, "open") \/ Go(h, "serving")
            \/ pc[h] = "open" /\ held' = held /\ Go(h, "planned")
        BY <1>7, <2>3 DEF UnlinkStale, Relock, Unclaim, Open, Refuse
      <3>2. pc[h] = "open" => held[h]
        BY DEF JournalInv, RolesHold
      <3>. QED  BY <1>0, <3>1, <3>2 DEF Go
    <2>7. CASE Unguard(h) \/ Elect(h)
      BY <1>0, <1>7, <2>1, <2>7 DEF Unguard, Elect, Refuse, startVars, Go
    <2>4. CASE StageExecutor(h) \/ Elected(h) \/ RemoveStale(h) \/ CreateRecovered(h) \/ ReleaseExecutor(h)
      BY <1>0, <1>7, <2>1, <2>4 DEF StageExecutor, Elected, RemoveStale, CreateRecovered,
                                    ReleaseExecutor, Refuse, KeepFinish, startVars, Go
    <2>5. CASE Publish(h) \/ Shutdown(h) \/ Exit(h) \/ Crash(h) \/ CrashWriting(h)
      BY <1>0, <1>7, <2>1, <2>5 DEF Publish, Shutdown, Exit, Crash, CrashWriting, Stop, startVars, Go
    <2>. QED
      BY <1>7, <2>2, <2>3, <2>4, <2>5, <2>6, <2>7 DEF Step
  <1>. QED  BY <1>1, <1>2, <1>3, <1>4, <1>5, <1>6, <1>7

\* Steps keep ClaimsHold.
LEMMA ClaimsStep ==
    ASSUME BootstrapAssumption, SentinelAssumption, WatcherInv, JournalInv, ClaimsHold,
           NEW h \in Hosts, Step(h)
    PROVE  ClaimsHold'
  <1>0. /\ pc \in [Hosts -> Stages] /\ held \in [Hosts -> BOOLEAN]
        /\ proc \in [Hosts -> {"unborn", "live", "dead"}]
        /\ observed \in [Hosts -> HostLocks \cup {NoLock}]
        /\ myClaim \in [Hosts -> Claims \cup {NoClaim}]
        /\ lock \in HostLocks \cup {NoLock} /\ claim \in Claims \cup {NoClaim}
        /\ pc[h] \in {"claimStale", "claim"} => observed[h] \in HostLocks
    BY DEF WatcherInv, HostTypes, FileTypes
  <1>00. /\ \A l \in HostLocks : l # NoLock /\ l.owner \in Hosts
         /\ \A c \in Claims : c # NoClaim /\ c.lock \in HostLocks
         /\ observed[h] \in HostLocks => [by |-> h, lock |-> observed[h]] \in Claims
    BY DEF SentinelAssumption, HostLocks, Claims
  <1>01. \A g \in Hosts : /\ Gone(g) => proc'[g] = "dead"
                          /\ proc[g] # "unborn" => proc'[g] # "unborn"
    BY <1>0, LifeStep, ProcKept DEF Gone
  <1>a. /\ lock # NoLock => proc[lock.owner] # "unborn"
        /\ \A g \in Hosts : observed[g] # NoLock => proc[observed[g].owner] # "unborn"
        /\ claim # NoClaim => Gone(claim.lock.owner)
        /\ \A g \in Hosts : myClaim[g] # NoClaim => Gone(myClaim[g].lock.owner)
    BY DEF ClaimsHold
  <1>b. /\ \A l \in HostLocks : proc[l.owner] # "unborn" => proc'[l.owner] # "unborn"
        /\ \A c \in Claims : Gone(c.lock.owner) =>
             c.lock # NoLock /\ proc'[c.lock.owner] = "dead" /\ proc'[c.lock.owner] # "unborn"
    <2>1. ASSUME NEW l \in HostLocks
          PROVE  /\ proc[l.owner] # "unborn" => proc'[l.owner] # "unborn"
                 /\ Gone(l.owner) => l # NoLock /\ proc'[l.owner] = "dead"
      <3>1. l.owner \in Hosts /\ l # NoLock
        BY <1>00
      <3>. QED  BY <1>01, <3>1 DEF Gone
    <2>2. \A c \in Claims : c.lock \in HostLocks
      BY <1>00
    <2>. QED  BY <2>1, <2>2
  <1>c. lock # NoLock => lock.owner \in Hosts /\ proc'[lock.owner] # "unborn"
    BY <1>0, <1>00, <1>a, <1>b
  <1>d. \A g \in Hosts : observed[g] # NoLock => proc'[observed[g].owner] # "unborn"
    BY <1>0, <1>a, <1>b
  <1>e. claim # NoClaim => claim.lock # NoLock /\ proc'[claim.lock.owner] = "dead"
    BY <1>0, <1>a, <1>b
  <1>f. \A g \in Hosts : myClaim[g] # NoClaim => proc'[myClaim[g].lock.owner] = "dead"
    BY <1>0, <1>a, <1>b
  \* A lock that can be claimed is of a dead host.
  <1>02. observed[h] # NoLock /\ UsableClaim(h) => Gone(observed[h].owner)
    BY <1>0, <1>00, <1>a DEF UsableClaim, Alive, Gone
  <1>1. /\ selectorClaim' \in Claims \cup {NoClaim}
        /\ selector' # NoTarget => selectorClaim' # NoClaim
    <2>1. CASE UNCHANGED <<selector, selectorClaim>>
      BY <2>1 DEF ClaimsHold
    <2>2. CASE pc[h] = "link" /\ selectorClaim' = myClaim[h]
      <3>1. Claimed(h)
        BY <2>2 DEF Claimed, JournalInv, RolesHold, Filling
      <3>. QED  BY <1>00, <2>2, <3>1 DEF ClaimsHold
    <2>. QED  BY <2>1, <2>2, LinkStep
  <1>2. boundLock' \in [Targets -> HostLocks \cup {NoLock}]
    <2>1. boundLock \in [Targets -> HostLocks \cup {NoLock}]
      BY DEF ClaimsHold
    <2>2. CASE UNCHANGED boundLock
      BY <2>1, <2>2
    <2>3. ASSUME NEW k \in Leaves, Binds(h, k)
          PROVE  boundLock' \in [Targets -> HostLocks \cup {NoLock}]
      <3>1. lock \in HostLocks \cup {NoLock} /\ observed[h] \in HostLocks \cup {NoLock}
        BY <1>0
      <3>. QED  BY <2>1, <2>3, <3>1 DEF Binds
    <2>. QED  BY <2>2, <2>3, WriteStep DEF diskVars
  <1>3. \A g \in Hosts : proc'[g] = "unborn" <=> pc'[g] = "start"
    BY LifeStep, OthersKept, ProcKept DEF ClaimsHold
  <1>4. ASSUME NEW g \in Hosts \ {h}
        PROVE  myClaim'[g] = myClaim[g] /\ observed'[g] = observed[g]
    <2>1. myClaim'[g] = myClaim[g]
      BY <1>0, MyClaimStep
    <2>2. observed'[g] = observed[g]
      BY <1>0, ObservedStep
    <2>. QED  BY <2>1, <2>2
  <1>5. ASSUME NEW g \in Hosts, Claimed(g)'
        PROVE  /\ myClaim'[g] \in Claims /\ observed'[g] = myClaim'[g].lock
               /\ pc'[g] \notin {"select", "link"} => selectorClaim' = myClaim'[g]
    <2>1. CASE Claimed(g) /\ myClaim'[g] = myClaim[g] /\ observed'[g] = observed[g]
               /\ (pc'[g] \notin {"select", "link"} => pc[g] \notin {"select", "link"})
      <3>1. pc[g] \notin {"select", "link"} => selector # NoTarget
        BY <2>1 DEF JournalInv, SelectionHolds, Selected, Bridged, Claimed
      <3>. QED  BY <2>1, <3>1, LinkStep DEF ClaimsHold
    <2>2. CASE g # h
      BY <1>4, <1>5, <2>1, <2>2, OthersKept DEF Claimed
    <2>3. CASE g = h
      <3>1. CASE Claimed(h) /\ UNCHANGED <<myClaim, observed>> /\ selectorClaim' = myClaim[h]
        BY <2>3, <3>1 DEF ClaimsHold
      <3>2. CASE /\ pc[h] = "claim" /\ pc'[h] = "select" /\ observed' = observed
                 /\ UsableClaim(h) /\ myClaim' = [myClaim EXCEPT ![h] = claim']
                 /\ claim' = IF claim = NoClaim THEN [by |-> h, lock |-> observed[h]] ELSE claim
        BY <1>0, <1>00, <2>3, <3>2 DEF UsableClaim
      <3>3. CASE /\ pc[h] = "observe" /\ Continues /\ UNCHANGED <<claim, selectorClaim>>
                 /\ myClaim' = [myClaim EXCEPT ![h] = claim]
                 /\ observed' = [observed EXCEPT ![h] = claim.lock]
        BY <1>0, <1>00, <2>3, <3>3 DEF Continues
      <3>. QED  BY <1>5, <2>1, <2>3, <3>1, <3>2, <3>3, ClaimedStep
    <2>. QED  BY <2>2, <2>3
  <1>6. ASSUME NEW g \in Hosts, pc'[g] \in {"unlinkStale", "relock", "unclaim"}
        PROVE  myClaim'[g] \in Claims
    <2>1. CASE g # h
      BY <1>4, <1>6, <2>1, OthersKept DEF ClaimsHold
    <2>2. CASE g = h
      <3>1. CASE pc[h] = "claimStale"
        BY <1>0, <1>00, <1>6, <2>2, <3>1, ClaimedStep
      <3>2. CASE pc[h] \in {"unlinkStale", "relock"}
        BY <2>2, <3>2, MyClaimStep DEF ClaimsHold
      <3>. QED  BY <1>6, <2>2, <3>1, <3>2, ClaimedStep
    <2>. QED  BY <2>1, <2>2
  <1>7. lock' # NoLock => proc'[lock'.owner] # "unborn"
    <2>1. CASE lock' \in {lock, NoLock}
      BY <1>c, <2>1
    <2>2. CASE lock' \in HostLocks /\ lock'.owner = h
      BY <2>2, LifeStep
    <2>. QED  BY <2>1, <2>2, LockStep
  <1>8. ASSUME NEW g \in Hosts, observed'[g] # NoLock
        PROVE  proc'[observed'[g].owner] # "unborn"
    <2>1. CASE observed'[g] = observed[g]
      BY <1>d, <1>8, <2>1
    <2>2. CASE observed'[g] = lock
      BY <1>c, <1>8, <2>2
    <2>3. CASE claim # NoClaim /\ observed'[g] = claim.lock
      BY <1>e, <1>8, <2>3
    <2>. QED  BY <1>0, <2>1, <2>2, <2>3, ObservedStep DEF Continues
  <1>9. claim' # NoClaim => proc'[claim'.lock.owner] = "dead"
    <2>1. CASE claim' \in {claim, NoClaim}
      BY <1>e, <2>1
    <2>2. CASE /\ pc[h] \in {"claimStale", "claim"} /\ UsableClaim(h)
               /\ claim' = [by |-> h, lock |-> observed[h]]
      <3>1. observed[h] \in HostLocks /\ claim'.lock = observed[h]
        BY <1>0, <2>2
      <3>2. Gone(observed[h].owner) /\ observed[h].owner \in Hosts
        BY <1>00, <1>02, <2>2, <3>1
      <3>. QED  BY <1>01, <3>1, <3>2 DEF Gone
    <2>. QED  BY <2>1, <2>2, ClaimStep
  <1>10. ASSUME NEW g \in Hosts, myClaim'[g] # NoClaim
         PROVE  proc'[myClaim'[g].lock.owner] = "dead"
    <2>1. CASE myClaim'[g] = myClaim[g]
      BY <1>f, <1>10, <2>1
    <2>2. CASE myClaim'[g] = claim'
      BY <1>9, <1>10, <2>2
    <2>3. CASE myClaim'[g] = claim
      BY <1>e, <1>10, <2>3
    <2>. QED  BY <1>0, <2>1, <2>2, <2>3, MyClaimStep
  <1>11. ASSUME NEW c \in candidates'
         PROVE  IF c.torn THEN proc'[c.by] = "dead"
                ELSE c.to \in Targets /\ c.claim \in Claims /\ proc'[c.claim.lock.owner] = "dead"
    <2>0. \A d \in Candidates : d.by \in Hosts
      BY DEF Candidates
    <2>1. CASE c \in candidates
      <3>1. c \in Candidates
        BY <2>1 DEF WatcherInv, FileTypes
      <3>2. IF c.torn THEN Gone(c.by)
            ELSE c.to \in Targets /\ c.claim \in Claims /\ Gone(c.claim.lock.owner)
        BY <2>1 DEF ClaimsHold
      <3>. QED  BY <1>01, <1>b, <2>0, <3>1, <3>2 DEF Gone
    <2>2. CASE c \notin candidates
      <3>1. CASE c.torn /\ c.by = h /\ proc'[h] = "dead"
        BY <3>1
      <3>2. ASSUME NEW t \in Targets, c = Chosen(h, t), pc[h] = "select"
            PROVE  ~c.torn /\ c.to \in Targets /\ c.claim \in Claims /\ proc'[c.claim.lock.owner] = "dead"
        <4>1. Claimed(h)
          BY <3>2 DEF Claimed, JournalInv, RolesHold, Filling
        <4>2. myClaim[h] \in Claims /\ Gone(myClaim[h].lock.owner)
          BY <1>00, <1>a, <4>1 DEF ClaimsHold
        <4>. QED  BY <1>b, <3>2, <4>2 DEF Chosen
      <3>. QED  BY <2>2, <3>1, <3>2, CandStep
    <2>. QED  BY <2>1, <2>2
  <1>. QED
    BY <1>1, <1>2, <1>3, <1>5, <1>6, <1>7, <1>8, <1>9, <1>10, <1>11 DEF ClaimsHold, Gone

\* Who writes what: the planned journal and, before there is a selection, every
\* other file is written by a host that creates it.
LEMMA GrowsBy ==
    ASSUME BootstrapAssumption, WatcherInv, JournalInv, NEW h \in Hosts, NEW k \in Leaves,
           pc[h] = k
    PROVE  /\ k = "bridge" => Claimed(h) /\ Selected(h)
           /\ selector = NoTarget => Creates(h) /\ lock # NoLock /\ lock.owner = h /\ Alive(h)
  <1>0. held \in [Hosts -> BOOLEAN] /\ pc[h] \notin {"start", "refused", "stopped", "crashed"}
    BY DEF WatcherInv, HostTypes, Leaves, FixedNames
  <1>1. Alive(h)
    BY <1>0 DEF WatcherInv, OwnerHolds
  <1>2. CASE held[h]
    <2>1. Creates(h)
      BY <1>2 DEF JournalInv, RolesHold, Creates, Leaves, FixedNames, Filling
    <2>2. lock # NoLock /\ lock.owner = h
      BY <1>1, <1>2 DEF WatcherInv, OwnerHolds, Owns
    <2>. QED  BY <1>1, <2>1, <2>2 DEF Creates, Filling
  <1>3. CASE ~held[h]
    <2>1. Selected(h)
      BY <1>3 DEF JournalInv, SelectionHolds, Bridged, Records, Filling, Leaves, FixedNames
    <2>. QED  BY <1>0, <1>3, <2>1 DEF Selected, Claimed
  <1>. QED  BY <1>0, <1>2, <1>3

\* Steps keep RecordsHold.
LEMMA RecordsStep ==
    ASSUME BootstrapAssumption, SentinelAssumption, WatcherInv, JournalInv, ClaimsHold, RecordsHold,
           NEW h \in Hosts, Step(h)
    PROVE  RecordsHold'
  <1>0. /\ pc \in [Hosts -> Stages] /\ disk \in [Leaves -> [Targets -> Statuses]]
        /\ boundLock \in [Targets -> HostLocks \cup {NoLock}]
        /\ NoTarget \notin Targets
        /\ "bridge" \in Leaves /\ "planned" \in Leaves /\ "fixed" \in Leaves \ {"guard"}
        /\ "planned" \in Leaves \ {"guard"} /\ FixedNames \subseteq Leaves
    BY DEF WatcherInv, FileTypes, HostTypes, BootstrapAssumption, ClaimsHold, Leaves, FixedNames
  <1>1. /\ selector # NoTarget => UNCHANGED <<selector, selectorClaim>>
        /\ selector' = NoTarget => selector = NoTarget
    BY LinkStep
  <1>2. ASSUME NEW k \in Leaves, NEW st \in Statuses, Grows(h, k, st), target[h] \in Targets,
               disk' = [disk EXCEPT ![k][target[h]] = st]
        PROVE  /\ pc[h] = k /\ st # "none" /\ disk'[k][target[h]] = st
               /\ \A j \in Leaves, t \in Targets :
                    j # k \/ t # target[h] => disk'[j][t] = disk[j][t]
    <2>1. disk[k][target[h]] \in Statuses \ {"final"} /\ pc[h] = k
      BY <1>0, <1>2 DEF Grows
    <2>2. Grown(k, disk[k][target[h]]) # "none"
      BY <2>1 DEF Grown, Statuses
    <2>3. st # "none"
      BY <1>2, <2>2 DEF Grows
    <2>. QED  BY <1>0, <1>2, <2>1, <2>3
  <1>3. ASSUME NEW t \in Targets, disk'["bridge"][t] # "none"
        PROVE  /\ t = selector'
               /\ disk'["bridge"][t] \notin {"none", "torn"} => bridgeClaim' = selectorClaim'
    <2>1. CASE disk["bridge"][t] # "none" /\ disk'["bridge"][t] = disk["bridge"][t]
               /\ bridgeClaim' = bridgeClaim
      BY <1>0, <1>1, <2>1 DEF RecordsHold
    <2>2. CASE UNCHANGED diskVars
      BY <1>3, <2>1, <2>2 DEF diskVars
    <2>3. ASSUME NEW k \in Leaves, NEW st \in Statuses, Grows(h, k, st), target[h] \in Targets,
                 disk' = [disk EXCEPT ![k][target[h]] = st],
                 IF st = "torn" THEN UNCHANGED <<boundLock, bridgeClaim>> ELSE Binds(h, k)
          PROVE  /\ t = selector'
                 /\ disk'["bridge"][t] \notin {"none", "torn"} => bridgeClaim' = selectorClaim'
      <3>1. CASE k # "bridge"
        BY <1>0, <1>2, <1>3, <2>1, <2>3, <3>1 DEF Binds
      <3>2. CASE k = "bridge"
        <4>1. Claimed(h) /\ Selected(h) /\ pc[h] = "bridge"
          BY <1>2, <2>3, <3>2, GrowsBy
        <4>2. selectorClaim = myClaim[h] /\ target[h] = selector /\ selector # NoTarget
          BY <4>1 DEF ClaimsHold, Selected
        <4>3. CASE t = target[h]
          BY <1>1, <1>2, <2>3, <3>2, <4>2, <4>3 DEF Binds
        <4>4. CASE t # target[h]
          <5>1. disk["bridge"][t] # "none"
            BY <1>0, <1>2, <1>3, <2>3, <4>4
          <5>. QED  BY <4>2, <4>4, <5>1 DEF RecordsHold
        <4>. QED  BY <4>3, <4>4
      <3>. QED  BY <3>1, <3>2
    <2>4. ASSUME NEW st, disk' = [disk EXCEPT !["guard"][target[h]] = st],
                 UNCHANGED <<boundLock, bridgeClaim>>
          PROVE  /\ t = selector'
                 /\ disk'["bridge"][t] \notin {"none", "torn"} => bridgeClaim' = selectorClaim'
      BY <1>0, <1>3, <2>1, <2>4
    <2>. QED  BY <2>2, <2>3, <2>4, WriteStep
  \* What happens to the planned journals.
  <1>. DEFINE Moves(t) ==
         \/ disk'["planned"][t] = disk["planned"][t] /\ boundLock'[t] = boundLock[t]
         \/ disk'["planned"][t] = "torn" /\ boundLock'[t] = boundLock[t]
            /\ disk["planned"][t] = "none"
         \/ /\ pc[h] = "planned" /\ t = target[h] /\ disk'["planned"][t] \notin {"none", "torn"}
            /\ UNCHANGED <<target, pc, held>>
            /\ boundLock'[t] = IF boundLock[t] = NoLock
                               THEN IF held[h] THEN lock ELSE observed[h] ELSE boundLock[t]
  <1>4. ASSUME NEW t \in Targets
        PROVE  Moves(t)
    <2>1. CASE UNCHANGED diskVars
      BY <2>1 DEF diskVars
    <2>2. ASSUME NEW k \in Leaves, NEW st \in Statuses, Grows(h, k, st), target[h] \in Targets,
                 disk' = [disk EXCEPT ![k][target[h]] = st],
                 IF st = "torn" THEN disk[k][target[h]] = "none" /\ UNCHANGED <<boundLock, bridgeClaim>>
                 ELSE Binds(h, k)
          PROVE  Moves(t)
      <3>1. CASE k # "planned"
        BY <1>0, <1>2, <2>2, <3>1 DEF Binds
      <3>2. CASE k = "planned" /\ st = "torn"
        <4>1. CASE t = target[h]
          BY <1>2, <2>2, <3>2, <4>1
        <4>2. CASE t # target[h]
          BY <1>0, <1>2, <2>2, <3>2, <4>2
        <4>. QED  BY <4>1, <4>2
      <3>3. CASE k = "planned" /\ st # "torn" /\ t = target[h]
        <4>1. pc[h] = "planned" /\ disk'["planned"][t] \notin {"none", "torn"} /\ Binds(h, "planned")
          BY <1>2, <2>2, <3>3
        <4>2. boundLock'[t] = IF boundLock[t] = NoLock
                              THEN IF held[h] THEN lock ELSE observed[h] ELSE boundLock[t]
          BY <1>0, <3>3, <4>1 DEF Binds
        <4>. QED  BY <3>3, <4>1, <4>2 DEF Binds
      <3>4. CASE k = "planned" /\ st # "torn" /\ t # target[h]
        BY <1>0, <1>2, <2>2, <3>4 DEF Binds
      <3>. QED  BY <3>1, <3>2, <3>3, <3>4
    <2>3. ASSUME NEW st, disk' = [disk EXCEPT !["guard"][target[h]] = st],
                 UNCHANGED <<boundLock, bridgeClaim>>
          PROVE  Moves(t)
      <3>1. disk'["planned"] = disk["planned"]
        BY <1>0, <2>3
      <3>. QED  BY <2>3, <3>1
    <2>. QED  BY <2>1, <2>2, <2>3, WriteStep
  <1>. HIDE DEF Moves
  <1>5. ASSUME NEW t \in Targets, disk'["planned"][t] \in {"none", "torn"}
        PROVE  boundLock'[t] = NoLock
    BY <1>4, <1>5 DEF RecordsHold, Moves
  <1>6. outer' => \E t \in Targets : disk'["fixed"][t] = "final"
    <2>1. CASE outer /\ outer' = outer
      BY <1>0, <2>1, FinalKept DEF RecordsHold
    <2>2. CASE pc[h] = "serving" /\ disk' = disk
      <3>1. target[h] \in Targets /\ disk["fixed"][target[h]] = "final"
        BY <2>2, PastSets DEF JournalInv, FilesHold, Settled, Written
      <3>. QED  BY <2>2, <3>1
    <2>. QED  BY <2>1, <2>2, OuterStep
  <1>7. ASSUME selector' = NoTarget
        PROVE  /\ \A t \in PlannedWhole' : /\ boundLock'[t] # NoLock /\ Stays(boundLock[t].owner)'
                                            /\ target'[boundLock'[t].owner] = t
               /\ \A c \in candidates', t \in PlannedWhole' :
                    ~c.torn /\ boundLock'[t] = c.claim.lock => t = c.to
               /\ \A t \in Targets, k \in FixedNames : disk'[k][t] # "none" => disk'["planned"][t] = "final"
               /\ \A g \in Hosts : Creates(g)' /\ pc'[g] # "planned" => disk'["planned"][target'[g]] = "final"
    <2>. selector = NoTarget
      BY <1>1, <1>7
    <2>0. /\ \A l \in HostLocks : l # NoLock /\ l.owner \in Hosts
          /\ \A c \in Claims : c.lock \in HostLocks
          /\ proc \in [Hosts -> {"unborn", "live", "dead"}]
      BY DEF SentinelAssumption, HostLocks, Claims, WatcherInv, HostTypes
    <2>1. \A g \in Hosts : Stays(g) => Stays(g)' /\ target'[g] = target[g]
      BY StayStep, OthersKept DEF Stays, Creates
    \* Only a creator, by its own lock, plans a journal now.
    <2>2. ASSUME NEW t \in PlannedWhole', t \notin PlannedWhole
          PROVE  /\ boundLock'[t] = lock /\ lock # NoLock /\ lock.owner = h /\ Alive(h) /\ Creates(h)
                 /\ Creates(h)' /\ target'[h] = t
      <3>1. t \in Targets /\ disk["planned"][t] \in {"none", "torn"}
            /\ disk'["planned"][t] \notin {"none", "torn"}
        BY <2>2 DEF PlannedWhole
      <3>2. /\ pc[h] = "planned" /\ t = target[h] /\ UNCHANGED <<target, pc, held>>
            /\ boundLock'[t] = IF boundLock[t] = NoLock
                               THEN IF held[h] THEN lock ELSE observed[h] ELSE boundLock[t]
        BY <1>4, <3>1 DEF Moves
      <3>3. boundLock[t] = NoLock
        BY <3>1 DEF RecordsHold
      <3>4. Creates(h) /\ lock # NoLock /\ lock.owner = h /\ Alive(h)
        BY <1>0, <3>2, GrowsBy
      <3>. QED  BY <3>2, <3>3, <3>4 DEF Creates
    <2>3. ASSUME NEW t \in PlannedWhole' \cap PlannedWhole
          PROVE  boundLock'[t] = boundLock[t] /\ boundLock[t] # NoLock /\ t \in Targets
      <3>1. t \in Targets /\ boundLock[t] # NoLock /\ disk'["planned"][t] \notin {"none", "torn"}
        BY DEF PlannedWhole, RecordsHold
      <3>. QED  BY <1>4, <3>1 DEF Moves
    <2>4. ASSUME NEW t \in PlannedWhole'
          PROVE  /\ boundLock'[t] # NoLock /\ Stays(boundLock[t].owner)'
                 /\ target'[boundLock'[t].owner] = t
      <3>1. CASE t \in PlannedWhole
        <4>1. /\ boundLock'[t] = boundLock[t] /\ boundLock[t] # NoLock /\ t \in Targets
              /\ Stays(boundLock[t].owner) /\ target[boundLock[t].owner] = t
          BY <2>3, <3>1 DEF RecordsHold
        <4>2. boundLock[t].owner \in Hosts
          BY <1>0, <2>0, <4>1
        <4>. QED  BY <2>1, <4>1, <4>2 DEF Stays
      <3>2. CASE t \notin PlannedWhole
        BY <2>2, <3>2 DEF Stays
      <3>. QED  BY <3>1, <3>2
    <2>5. ASSUME NEW c \in candidates', NEW t \in PlannedWhole', ~c.torn,
                 boundLock'[t] = c.claim.lock
          PROVE  t = c.to
      <3>1. CASE c \in candidates /\ t \in PlannedWhole
        BY <2>3, <2>5, <3>1 DEF RecordsHold
      <3>2. CASE c \in candidates /\ t \notin PlannedWhole
        <4>1. c.claim \in Claims /\ Gone(c.claim.lock.owner)
          BY <2>5, <3>2 DEF ClaimsHold
        <4>2. lock = c.claim.lock /\ lock.owner = h /\ Alive(h)
          BY <2>2, <2>5, <3>2
        <4>. QED  BY <4>1, <4>2 DEF Gone, Alive
      <3>3. CASE c \notin candidates
        <4>1. PICK u \in Targets : /\ c = Chosen(h, u) /\ PlannedUsable(h)
                                   /\ u \in IF Planned = {} THEN Unused ELSE Planned
          BY <2>5, <3>3, CandStep
        <4>2. disk' = disk
          BY <3>3, CandStep DEF diskVars
        <4>3. t \in Planned
          BY <4>2 DEF PlannedWhole, Planned, Present
        <4>. QED  BY <4>1, <4>3 DEF PlannedUsable, Chosen
      <3>. QED  BY <3>1, <3>2, <3>3
    <2>6. ASSUME NEW t \in Targets, NEW k \in FixedNames, disk'[k][t] # "none"
          PROVE  disk'["planned"][t] = "final"
      <3>1. CASE disk[k][t] # "none"
        BY <1>0, <3>1, FinalKept DEF RecordsHold
      <3>2. CASE disk[k][t] = "none"
        <4>1. k \in Leaves /\ k # "planned"
          BY <1>0 DEF FixedNames
        <4>2. pc[h] = k /\ t = target[h]
          <5>1. CASE disk' = disk
            BY <2>6, <3>2, <5>1
          <5>2. ASSUME NEW j \in Leaves, NEW st \in Statuses, Grows(h, j, st), target[h] \in Targets,
                       disk' = [disk EXCEPT ![j][target[h]] = st]
                PROVE  pc[h] = k /\ t = target[h]
            BY <1>2, <2>6, <3>2, <4>1, <5>2
          <5>3. ASSUME NEW st \in {"none", disk["guard"][target[h]]}, target[h] \in Targets,
                       disk' = [disk EXCEPT !["guard"][target[h]] = st]
                PROVE  pc[h] = k /\ t = target[h]
            BY <1>0, <2>6, <3>2, <4>1, <5>3
          <5>. QED  BY <5>1, <5>2, <5>3, WriteStep DEF diskVars
        <4>3. Creates(h)
          BY <4>1, <4>2, GrowsBy
        <4>4. disk["planned"][t] = "final"
          BY <4>1, <4>2, <4>3 DEF RecordsHold
        <4>. QED  BY <1>0, <4>4, FinalKept
      <3>. QED  BY <3>1, <3>2
    <2>7. ASSUME NEW g \in Hosts, Creates(g)', pc'[g] # "planned"
          PROVE  disk'["planned"][target'[g]] = "final"
      <3>1. target'[g] = target[g] /\ Creates(g) /\ disk["planned"][target[g]] = "final"
        BY <2>7, StayStep, OthersKept DEF RecordsHold, Creates
      <3>2. target[g] \in Targets
        BY <3>1 DEF JournalInv, FilesHold
      <3>. QED  BY <1>0, <3>1, <3>2, FinalKept
    <2>. QED  BY <2>4, <2>5, <2>6, <2>7
  <1>. QED  BY <1>3, <1>5, <1>6, <1>7 DEF RecordsHold

\* Steps keep LineHolds: who stages an executor record has none yet.
LEMMA LineStep ==
    ASSUME BootstrapAssumption, WatcherInv, JournalInv, LineHolds, NEW h \in Hosts, Step(h)
    PROVE  LineHolds'
  <1>0. /\ \A r \in chain : r.by \in Hosts /\ r.ord \in Nat
        /\ sawLast[h] \in {r.by : r \in chain} \cup {NoHost} /\ NoHost \notin Hosts
        /\ execStage.ord \in Nat
    BY FS_CardinalityType DEF WatcherInv, ChainHolds, BootstrapAssumption
  \* The executor is elected once the bridge has its name.
  <1>a. chain' # {} \/ execStage' # NoStage =>
          selector' # NoTarget /\ disk'["bridge"][selector'] = "final"
    <2>1. chain # {} \/ execStage # NoStage =>
            selector # NoTarget /\ disk["bridge"][selector] = "final"
      BY DEF LineHolds
    <2>2. pc[h] = "stageExecutor" => selector # NoTarget /\ disk["bridge"][selector] = "final"
      BY DEF JournalInv, RolesHold, SelectionHolds, Elects, Bridged, Selected, Filling
    <2>3. execStage.st = "stage" => execStage # NoStage
      BY DEF NoStage
    <2>. QED  BY <2>1, <2>2, <2>3, ExecFilesStep, BridgedKept
  <1>. DEFINE Line ==
         /\ execStage.st = "none" => execStage = NoStage
         /\ \A r, s \in chain : r.by = s.by => r = s
         /\ execStage.st = "stage" =>
              /\ \A r \in chain : r.by = execStage.by => r = Staged
              /\ IF execStage.ord = 0 THEN execStage.prior = NoHost
                 ELSE \E s \in chain : s.by = execStage.prior /\ s.ord + 1 = execStage.ord
  <1>b. Line
    BY DEF LineHolds
  <1>. SUFFICES Line'
    BY <1>a DEF LineHolds
  <1>1. CASE UNCHANGED <<execStage, chain>>
    BY <1>1, <1>b DEF Staged
  <1>2. CASE execStage' = NoStage /\ chain' = chain
    BY <1>b, <1>2 DEF NoStage
  <1>3. CASE /\ pc[h] = "stageExecutor" /\ chain' = chain
             /\ execStage' = [st |-> "stage", by |-> h, ord |-> OrdOf(sawLast[h]),
                              prior |-> sawLast[h]]
    <2>1. ~Recorded(h)
      BY <1>3 DEF JournalInv, SelectionHolds, Records, Filling
    <2>2. CASE sawLast[h] = NoHost
      BY <1>b, <1>3, <2>1, <2>2 DEF Recorded, OrdOf
    <2>3. CASE sawLast[h] # NoHost
      <3>. DEFINE r == CHOOSE r \in chain : r.by = sawLast[h]
      <3>1. r \in chain /\ r.by = sawLast[h]
        BY <1>0, <2>3
      <3>2. OrdOf(sawLast[h]) = r.ord + 1 /\ r.ord \in Nat
        BY <1>0, <2>3, <3>1 DEF OrdOf
      <3>. HIDE DEF r
      <3>3. r.ord + 1 # 0
        BY <3>2
      <3>. QED  BY <1>b, <1>3, <2>1, <3>1, <3>2, <3>3 DEF Recorded
    <2>. QED  BY <2>2, <2>3
  <1>4. CASE execStage' = [NoStage EXCEPT !.st = "torn"] /\ chain' = chain
    BY <1>b, <1>4 DEF NoStage
  <1>5. CASE execStage.st = "stage" /\ execStage' = execStage /\ chain' = chain \cup {Staged}
    <2>1. Staged.by = execStage.by /\ Staged' = Staged
      BY <1>5 DEF Staged
    <2>2. \A r, s \in chain' : r.by = s.by => r = s
      BY <1>b, <1>5, <2>1
    <2>3. \A r \in chain' : r.by = execStage'.by => r = Staged'
      BY <1>b, <1>5, <2>1
    <2>. QED  BY <1>b, <1>5, <2>2, <2>3
  <1>. QED  BY <1>1, <1>2, <1>3, <1>4, <1>5, ExecFilesStep

LEMMA RecordInit ==
    ASSUME BootstrapAssumption, SentinelAssumption, Init
    PROVE  RecordInv
  <1>1. ClaimsHold
    BY DEF Init, ClaimsHold, Claimed, Elects, Records, Filling
  <1>2. RecordsHold
    BY DEF Init, RecordsHold, PlannedWhole, Creates, FixedNames, Leaves
  <1>3. LineHolds
    BY DEF Init, LineHolds, NoStage
  <1>. QED  BY <1>1, <1>2, <1>3 DEF RecordInv

\* Claims and selections are about dead owners of the lock, the bridge is about
\* the selection, a planned journal is the one its creator goes by, and every
\* executor record has the one before it (journal.ts:906-936, 1242-1362,
\* 1498-1522).
THEOREM RecordInvariant == Spec => []RecordInv
  <1>1. RecordInv /\ WatcherInv /\ JournalInv /\ [Next]_vars => RecordInv'
    <2>. SUFFICES ASSUME RecordInv, WatcherInv, JournalInv, [Next]_vars
                  PROVE  RecordInv'
      OBVIOUS
    <2>1. CASE Next
      <3>1. PICK h \in Hosts : Step(h)
        BY <2>1 DEF Next
      <3>. QED
        BY <3>1, ClaimsStep, RecordsStep, LineStep, BootstrapAssumption, SentinelAssumption
        DEF RecordInv
    <2>2. CASE UNCHANGED vars
      BY <2>2 DEF vars, startVars, rootVars, execVars, selVars, diskVars, boundVars, ghostVars,
                  RecordInv, ClaimsHold, RecordsHold, LineHolds, Claimed, Gone, Stays, Creates,
                  PlannedWhole, Staged
    <2>. QED  BY <2>1, <2>2
  <1>. QED
    BY <1>1, RecordInit, WatcherInvariant, JournalInvariant, BootstrapAssumption,
       SentinelAssumption, PTL DEF Spec

-----------------------------------------------------------------------------
(***************************************************************************)
(* The steps of a lone start: none of them refuses it.                     *)
(***************************************************************************)
Alone(h) == proc[h] = "live" /\ (\A g \in Hosts \ {h} : proc[g] # "live") /\ Ready(h)

\* What it goes by stays while the files do.
LEMMA FitKept ==
    ASSUME NEW h \in Hosts, Fit(h), UNCHANGED <<prior, disk, outer>>,
           prior[h] = NoTarget => UNCHANGED <<claim, execVars, selector>> /\ candidates' \subseteq candidates
    PROVE  Fit(h)'
  BY DEF Fit, Openable, FixedPointer, At, Debris, Present, execVars

LEMMA RoomKept ==
    ASSUME NEW t, Room(t), disk' = disk
    PROVE  Room(t)'
  BY DEF Room, Another, Present

LEMMA ExecKept ==
    ASSUME UNCHANGED execVars
    PROVE  OneLine' = OneLine /\ NotCut' = NotCut /\ Last' = Last
  BY DEF OneLine, Linear, Last, Staged, NotCut, execVars

LEMMA FollowsKept ==
    ASSUME NEW h \in Hosts, Follows(h), UNCHANGED <<execVars, lock, claim, selector, observed, myClaim>>,
           WholeFiles', Foreign(claim)' \subseteq Foreign(claim)
    PROVE  Follows(h)'
  BY ExecKept DEF Follows, KnownLock, NotMine, execVars

\* A lone start finds no other process alive.
LEMMA NobodyElse ==
    ASSUME NEW h \in Hosts, Alone(h), NEW l \in HostLocks, l.owner # h
    PROVE  ~Alive(l.owner)
  BY DEF Alone, Alive, HostLocks

\* The takeover of the lock, or the creation of the first journal.
LEMMA TakeoverStep ==
    ASSUME SentinelAssumption, WatcherInv, JournalInv, RecordInv, NEW h \in Hosts, Alone(h),
           \/ Evidence(h) \/ Acquire(h) \/ Create(h) \/ ObserveStale(h) \/ UnlinkStale(h) \/ Relock(h)
    PROVE  Ready(h)'
  <1>. USE DEF Claimed, Creates, Elects, Records, Filling
  <1>0. /\ pc \in [Hosts -> Stages] /\ lock \in HostLocks \cup {NoLock}
        /\ observed \in [Hosts -> HostLocks \cup {NoLock}]
        /\ \A l \in HostLocks : l # NoLock
        /\ Ready(h)
    BY DEF WatcherInv, HostTypes, FileTypes, SentinelAssumption, Alone
  <1>1. CASE Evidence(h)
    <2>1. pc[h] = "evidence" /\ TerminalEvidence /\ claim = NoClaim /\ NotMine(h) /\ Fit(h)
          /\ (prior[h] = NoTarget => lock = NoLock)
      BY <1>0, <1>1 DEF Evidence, Ready, Takes
    <2>2. /\ Go(h, IF lock # NoLock THEN "observeStale" ELSE "acquire")
          /\ UNCHANGED <<startVars, rootVars, execVars, selector, selectorClaim, diskVars, outer>>
          /\ candidates' \subseteq candidates
      BY <1>1, <2>1 DEF Evidence, KeepRest
    <2>3. Fit(h)' /\ NotMine(h)' /\ UNCHANGED <<prior, lock, claim>>
      BY <2>1, <2>2, FitKept DEF NotMine, startVars, rootVars, diskVars
    <2>4. CASE lock # NoLock
      BY <1>0, <2>1, <2>2, <2>3, <2>4 DEF Go, Ready, Takes, Recovers
    <2>5. CASE lock = NoLock
      BY <1>0, <2>1, <2>2, <2>3, <2>5 DEF Go, Ready, Takes, Recovers
    <2>. QED  BY <2>4, <2>5
  <1>2. CASE Acquire(h)
    <2>1. pc[h] = "acquire" /\ claim = NoClaim /\ lock = NoLock /\ Fit(h)
      BY <1>0, <1>2 DEF Acquire, Ready, Takes
    <2>2. Go(h, "create") /\ UNCHANGED <<startVars, rootVars, execVars, selVars, diskVars, outer>>
      BY <1>2, <2>1 DEF Acquire, KeepDisk, KeepRest
    <2>3. Fit(h)' /\ lock' = NoLock
      BY <2>1, <2>2, FitKept DEF startVars, rootVars, selVars, diskVars
    <2>. QED
      BY <1>0, <2>1, <2>2, <2>3 DEF Go, Ready, Takes, Recovers
  <1>3. CASE Create(h)
    <2>1. pc[h] = "create" /\ lock = NoLock /\ Fit(h)
      BY <1>0, <1>3 DEF Create, Ready, Takes
    <2>2. /\ Go(h, "open") /\ UNCHANGED <<prior, claim, execVars, selVars, diskVars, outer>>
          /\ lock' = NewLock(h)
      BY <1>3, <2>1 DEF Create, KeepDisk, KeepRest
    <2>3. Fit(h)' /\ lock' = NewLock(h)'
      BY <2>1, <2>2, FitKept DEF selVars, diskVars, NewLock
    <2>. QED
      BY <1>0, <2>1, <2>2, <2>3 DEF Go, Ready, Takes, Recovers
  <1>4. CASE ObserveStale(h)
    <2>1. /\ pc[h] = "observeStale" /\ lock # NoLock /\ claim = NoClaim /\ NotMine(h) /\ Fit(h)
          /\ prior[h] # NoTarget
      BY <1>0, <1>4 DEF ObserveStale, Ready, Takes
    <2>2. ~Alive(lock.owner)
      BY <1>0, <2>1, NobodyElse DEF NotMine
    <2>3. /\ Go(h, "claimStale") /\ UNCHANGED <<prior, lock, claim, execVars, selVars, diskVars, outer>>
          /\ observed' = [observed EXCEPT ![h] = lock]
      BY <1>4, <2>1, <2>2 DEF ObserveStale, KeepDisk, KeepRest, rootVars
    <2>4. Fit(h)' /\ NotMine(h)' /\ observed'[h] = lock'
      BY <1>0, <2>1, <2>3, FitKept DEF selVars, diskVars, NotMine
    <2>. QED
      BY <1>0, <2>1, <2>3, <2>4 DEF Go, Ready, Takes, Recovers
  <1>5. CASE UnlinkStale(h)
    <2>1. /\ pc[h] = "unlinkStale" /\ observed[h] = lock /\ lock # NoLock /\ NotMine(h) /\ Fit(h)
          /\ prior[h] # NoTarget /\ claim = myClaim[h]
      BY <1>0, <1>5 DEF UnlinkStale, Ready, Takes
    <2>2. ~Alive(observed[h].owner)
      BY <1>0, <2>1, NobodyElse DEF NotMine
    <2>3. /\ Go(h, "relock") /\ UNCHANGED <<startVars, claim, execVars, selVars, diskVars, outer>>
          /\ lock' = NoLock
      BY <1>5, <2>1, <2>2 DEF UnlinkStale, KeepDisk, KeepRest
    <2>4. Fit(h)' /\ UNCHANGED <<prior, myClaim>>
      BY <2>1, <2>3, FitKept DEF selVars, diskVars, startVars
    <2>. QED
      BY <1>0, <2>1, <2>3, <2>4 DEF Go, Ready, Takes, Recovers
  <1>6. CASE Relock(h)
    <2>1. pc[h] = "relock" /\ lock = NoLock /\ Fit(h) /\ prior[h] # NoTarget /\ claim = myClaim[h]
      BY <1>0, <1>6 DEF Relock, Ready, Takes
    <2>2. Go(h, "unclaim") /\ UNCHANGED <<startVars, claim, execVars, selVars, diskVars, outer>>
      BY <1>6, <2>1 DEF Relock, KeepDisk, KeepRest
    <2>3. Fit(h)' /\ UNCHANGED <<prior, myClaim>>
      BY <2>1, <2>2, FitKept DEF selVars, diskVars, startVars
    <2>. QED
      BY <1>0, <2>1, <2>2, <2>3 DEF Go, Ready, Takes, Recovers
  <1>. QED  BY <1>1, <1>2, <1>3, <1>4, <1>5, <1>6

LEMMA StrandedKept ==
    ASSUME UNCHANGED <<rootVars, execVars, selVars, diskVars, outer>>
    PROVE  Stranded' = Stranded /\ RoutesToRecovery' = RoutesToRecovery
  <1>1. UNCHANGED <<claim, lock, executor, execStage, chain, selector, selectorClaim, candidates, disk,
                    boundLock, bridgeClaim, outer>>
    BY DEF rootVars, execVars, selVars, diskVars
  <1>2. \A k, st : At(k, st)' = At(k, st) /\ Present(k)' = Present(k)
    BY <1>1 DEF At, Present
  <1>3. FixedPointer' = FixedPointer /\ PointerReadable' = PointerReadable
    BY <1>1 DEF FixedPointer, PointerReadable, At
  <1>4. TornForGood' = TornForGood /\ RoutesToRecovery' = RoutesToRecovery
    BY <1>1, <1>2, <1>3 DEF TornForGood, RoutesToRecovery
  <1>5. Crossed' = Crossed
    BY <1>1, <1>2, ExecKept DEF Crossed, Foreign, Another, execVars
  <1>6. Debris' = Debris
    BY <1>1, <1>2 DEF Debris
  <1>7. TerminalEvidence' = TerminalEvidence
    BY <1>1, <1>2 DEF TerminalEvidence, Foreign
  <1>8. Openable(FixedPointer)' = Openable(FixedPointer)
    BY <1>1, <1>3 DEF Openable
  <1>. QED
    BY <1>1, <1>2, <1>3, <1>4, <1>5, <1>6, <1>7, <1>8 DEF Stranded

\* The route it takes.
LEMMA RouteStep ==
    ASSUME BootstrapAssumption, SentinelAssumption, WatcherInv, JournalInv, RecordInv,
           NEW h \in Hosts, Alone(h), Route(h)
    PROVE  Ready(h)'
  <1>. USE DEF Claimed, Creates, Elects, Records, Filling
  <1>0. /\ pc \in [Hosts -> Stages] /\ pc[h] = "route" /\ ~Stranded /\ NotMine(h)
        /\ prior[h] = FixedPointer
    BY DEF WatcherInv, HostTypes, Alone, Route, Ready
  <1>1. UNCHANGED <<startVars, rootVars, execVars, selVars, diskVars, outer>>
    BY DEF Route, KeepDisk, KeepRest
  <1>2. UNCHANGED <<prior, claim, lock, executor, execStage, chain, selector, selectorClaim, candidates, disk,
                    boundLock, bridgeClaim>>
    BY <1>1 DEF startVars, rootVars, execVars, selVars, diskVars
  <1>3. NotMine(h)' /\ RecoveryActive(h) = RoutesToRecovery
    BY <1>0, <1>2 DEF NotMine, RecoveryActive, RoutesToRecovery
  <1>4. CASE RecoveryActive(h)
    <2>1. Go(h, "observe")
      BY <1>4 DEF Route
    <2>2. ~Stranded' /\ RoutesToRecovery'
      BY <1>0, <1>1, <1>2, <1>3, <1>4, StrandedKept
    <2>. QED
      BY <1>0, <1>3, <2>1, <2>2 DEF Go, Ready, Takes, Recovers
  <1>5. CASE ~RecoveryActive(h)
    <2>1. Go(h, "evidence")
      BY <1>5 DEF Route
    <2>2. /\ claim = NoClaim /\ (prior[h] = NoTarget => lock = NoLock)
          /\ prior[h] = NoTarget => ~Debris
          /\ prior[h] # NoTarget => Openable(prior[h]) /\ TerminalEvidence
      BY <1>0, <1>3, <1>5 DEF Stranded, RecoveryActive
    <2>3. prior[h] = NoTarget => ~outer
      <3>1. outer => At("fixed", "final") # {}
        BY DEF RecordInv, RecordsHold, At
      <3>2. At("fixed", "final") # {} => FixedPointer \in Targets
        BY DEF FixedPointer, At
      <3>. QED  BY <1>0, <3>1, <3>2 DEF BootstrapAssumption
    <2>4. ~Debris => TerminalEvidence
      BY DEF Debris, TerminalEvidence, Present, At, Leaves, FixedNames
    <2>5. Fit(h) /\ TerminalEvidence
      BY <2>2, <2>3, <2>4 DEF Fit
    <2>6. Fit(h)'
      BY <1>1, <1>2, <2>5, FitKept
    <2>7. TerminalEvidence'
      BY <1>2, <2>5 DEF TerminalEvidence, At, Foreign
    <2>. QED
      BY <1>0, <1>2, <1>3, <2>1, <2>2, <2>6, <2>7 DEF Go, Ready, Takes, Recovers
  <1>. QED  BY <1>4, <1>5

\* The claim, its removal and the journal.
LEMMA ClaimReady ==
    ASSUME SentinelAssumption, WatcherInv, JournalInv, RecordInv, NEW h \in Hosts, Alone(h), EnsureClaim(h)
    PROVE  Ready(h)'
  <1>. USE DEF Claimed, Creates, Elects, Records, Filling
  <1>. DEFINE mine == IF claim = NoClaim THEN [by |-> h, lock |-> observed[h]] ELSE claim
  <1>0. /\ pc \in [Hosts -> Stages] /\ lock \in HostLocks \cup {NoLock}
        /\ myClaim \in [Hosts -> Claims \cup {NoClaim}] /\ claim \in Claims \cup {NoClaim}
        /\ \A l \in HostLocks : l # NoLock
        /\ \A c \in Claims : c # NoClaim
        /\ Ready(h) /\ pc[h] \in {"claimStale", "claim"} /\ ~held[h]
    BY DEF WatcherInv, HostTypes, FileTypes, SentinelAssumption, Alone, EnsureClaim, JournalInv, RolesHold
  <1>1. observed[h] = lock /\ NotMine(h)
    BY <1>0 DEF Ready, Takes, Recovers
  <1>2. ASSUME UsableClaim(h)
        PROVE  /\ claim' = mine /\ myClaim'[h] = mine /\ claim' = myClaim'[h]
               /\ Go(h, IF pc[h] = "claim" THEN "select"
                        ELSE IF mine.by = h THEN "unlinkStale" ELSE "refused")
               /\ UNCHANGED <<prior, observed, target, held, lock, execVars, selVars, diskVars, outer>>
    BY <1>0, <1>2 DEF EnsureClaim, KeepDisk, KeepRest, Refuse
  <1>. HIDE DEF mine
  <1>3. CASE pc[h] = "claimStale"
    <2>1. lock # NoLock /\ claim = NoClaim /\ prior[h] # NoTarget /\ Fit(h)
      BY <1>0, <1>3 DEF Ready, Takes
    <2>2. UsableClaim(h)
      BY <1>0, <1>1, <2>1, NobodyElse DEF UsableClaim, NotMine
    <2>3. mine.by = h
      BY <2>1 DEF mine
    <2>4. Fit(h)' /\ NotMine(h)'
      BY <1>1, <1>2, <2>1, <2>2, FitKept DEF selVars, diskVars, NotMine
    <2>. QED
      BY <1>0, <1>1, <1>2, <1>3, <2>1, <2>2, <2>3, <2>4 DEF Go, Ready, Takes, Recovers
  <1>4. CASE pc[h] = "claim"
    <2>1. ~Stranded /\ RoutesToRecovery /\ At("bridge", "final") = {}
      BY <1>0, <1>4 DEF Ready, Recovers
    <2>2. /\ lock # NoLock /\ lock.prior = NoTarget /\ ~TornForGood /\ ~Crossed
      BY <2>1 DEF Stranded
    <2>3. chain = {}
      BY <2>1 DEF RecordInv, LineHolds, At, WatcherInv, FileTypes
    <2>4. claim # NoClaim => claim.lock = lock
      BY <2>2, <2>3 DEF Crossed
    <2>5. UsableClaim(h)
      BY <1>0, <1>1, <2>2, <2>4, NobodyElse DEF UsableClaim, NotMine
    <2>6. /\ OneLine /\ NotCut /\ WholeFiles
          /\ selector = NoTarget => At("planned", "torn") = {}
      BY <2>2 DEF TornForGood, Crossed, NotCut, WholeFiles, At, TornIsFinal
    <2>7. OneLine' /\ NotCut' /\ WholeFiles' /\ UNCHANGED <<lock, observed, selector, selectorClaim,
                                                            candidates, disk, boundLock>>
      BY <1>2, <2>5, <2>6, ExecKept DEF WholeFiles, selVars, diskVars
    <2>8. Foreign(claim)' = {}
      <3>1. \A c \in candidates : ~c.torn => c.claim = claim
        BY <2>2 DEF Crossed, Foreign
      <3>2. \A c \in candidates : ~c.torn => c.claim \in Claims
        BY DEF RecordInv, ClaimsHold
      <3>3. \A c \in candidates : ~c.torn => c.claim = claim'
        BY <1>0, <1>2, <2>5, <3>1, <3>2 DEF mine
      <3>. QED  BY <2>7, <3>3 DEF Foreign
    <2>9. KnownLock(h)' /\ NotMine(h)'
      BY <1>1, <2>7 DEF KnownLock, NotMine
    <2>10. Follows(h)'
      BY <1>2, <2>5, <2>7, <2>8, <2>9 DEF Follows
    <2>11. IF selector = NoTarget
           THEN At("planned", "torn") = {} /\ \A t \in PlannedWhole : boundLock[t] = observed[h]
           ELSE selectorClaim = mine /\ \A k \in FixedNames : ~Another(k, selector)
      <3>1. CASE selector = NoTarget
        <4>1. \A t \in PlannedWhole : boundLock[t] = lock
          BY <2>2, <3>1 DEF Crossed, PlannedWhole, Present
        <4>. QED  BY <1>1, <2>6, <3>1, <4>1
      <3>2. CASE selector # NoTarget
        <4>1. selectorClaim = claim /\ claim # NoClaim /\ \A k \in FixedNames : ~Another(k, selector)
          BY <2>2, <3>2 DEF Crossed, RecordInv, ClaimsHold
        <4>. QED  BY <3>2, <4>1 DEF mine
      <3>. QED  BY <3>1, <3>2
    <2>12. /\ \A k, st : At(k, st)' = At(k, st) /\ PlannedWhole' = PlannedWhole
           /\ \A k, t : Another(k, t)' = Another(k, t)
      BY <2>7 DEF At, PlannedWhole, Another, Present
    <2>13. IF selector' = NoTarget
           THEN At("planned", "torn")' = {} /\ \A t \in PlannedWhole' : boundLock'[t] = observed'[h]
           ELSE selectorClaim' = myClaim'[h] /\ \A k \in FixedNames : ~Another(k, selector)'
      BY <1>2, <2>5, <2>7, <2>11, <2>12
    <2>. QED
      BY <1>0, <1>2, <1>4, <2>5, <2>10, <2>13 DEF Go, Ready, Takes, Recovers
  <1>. QED  BY <1>0, <1>3, <1>4

LEMMA UnclaimReady ==
    ASSUME WatcherInv, JournalInv, NEW h \in Hosts, Alone(h), Unclaim(h)
    PROVE  Ready(h)'
  <1>. USE DEF Claimed, Creates, Elects, Records, Filling
  <1>0. /\ pc \in [Hosts -> Stages] /\ held \in [Hosts -> BOOLEAN] /\ Ready(h)
        /\ pc[h] \in {"unclaim", "unclaimRecovered"} /\ ~held[h]
    BY DEF WatcherInv, HostTypes, Alone, Unclaim, JournalInv, RolesHold
  <1>1. claim = myClaim[h]
    BY <1>0 DEF Ready, Takes, Recovers
  <1>2. /\ Go(h, IF pc[h] = "unclaim" THEN "open" ELSE "serving")
        /\ held' = [held EXCEPT ![h] = TRUE]
        /\ UNCHANGED <<prior, selVars, execVars, diskVars, outer>>
    BY <1>0, <1>1 DEF Unclaim, Refuse, KeepDisk, KeepRest
  <1>3. pc[h] = "unclaim" => prior[h] # NoTarget /\ Fit(h)
    BY <1>0 DEF Ready, Takes
  <1>4. pc[h] = "unclaim" => Fit(h)'
    BY <1>2, <1>3, FitKept DEF selVars, diskVars
  <1>. QED
    BY <1>0, <1>2, <1>3, <1>4 DEF Go, Ready, Takes, Recovers

LEMMA OpenReady ==
    ASSUME WatcherInv, JournalInv, NEW h \in Hosts, Alone(h), Open(h)
    PROVE  Ready(h)'
  <1>. USE DEF Claimed, Creates, Elects, Records, Filling
  <1>0. /\ pc \in [Hosts -> Stages] /\ held \in [Hosts -> BOOLEAN] /\ Ready(h)
        /\ pc[h] = "open" /\ held[h] /\ target \in [Hosts -> Targets \cup {NoTarget}]
    BY DEF WatcherInv, HostTypes, Alone, Open, JournalInv, RolesHold
  <1>1. Fit(h) /\ (prior[h] = NoTarget => lock = NewLock(h))
    BY <1>0 DEF Ready, Takes
  <1>2. CASE prior[h] # NoTarget
    <2>1. Go(h, "serving") /\ held' = held
      BY <1>1, <1>2 DEF Open, Fit, Refuse
    <2>. QED  BY <1>0, <2>1 DEF Go, Ready, Takes, Recovers
  <1>3. CASE prior[h] = NoTarget
    <2>1. Genesis(h) /\ ~Debris
      BY <1>1, <1>3 DEF Fit, Genesis
    <2>2. Go(h, "planned") /\ UNCHANGED <<held, diskVars>>
      BY <1>3, <2>1 DEF Open, Refuse
    <2>3. \A k \in Leaves : Present(k)' = {}
      BY <2>1, <2>2 DEF Debris, Present, diskVars
    <2>4. Room(target[h])'
      <3>1. \A k \in Leaves : disk'[k][target'[h]] = "none"
        BY <1>0, <1>3, <2>1 DEF Open, Refuse, Unused, diskVars
      <3>. QED  BY <2>3, <3>1 DEF Room, Another, Leaves, FixedNames, TornIsFinal
    <2>. QED  BY <1>0, <2>2, <2>4 DEF Go, Ready, Takes, Recovers
  <1>. QED  BY <1>2, <1>3

\* The recovery of a genesis is taken up, or continued.
LEMMA ObserveReady ==
    ASSUME BootstrapAssumption, SentinelAssumption, WatcherInv, JournalInv, RecordInv,
           NEW h \in Hosts, Alone(h), Observe(h)
    PROVE  Ready(h)'
  <1>. USE DEF Claimed, Creates, Elects, Records, Filling
  <1>0. /\ pc \in [Hosts -> Stages] /\ held \in [Hosts -> BOOLEAN] /\ Ready(h)
        /\ pc[h] = "observe" /\ ~held[h] /\ disk \in [Leaves -> [Targets -> Statuses]]
        /\ observed \in [Hosts -> HostLocks \cup {NoLock}]
        /\ myClaim \in [Hosts -> Claims \cup {NoClaim}]
        /\ NoTarget \notin Targets /\ "bridge" \in Leaves
    BY DEF WatcherInv, HostTypes, FileTypes, Alone, Observe, JournalInv, RolesHold,
           BootstrapAssumption, Leaves, FixedNames
  <1>1. ~Stranded /\ RoutesToRecovery /\ NotMine(h)
    BY <1>0 DEF Ready, Recovers
  <1>2. ~outer /\ ~Crossed /\ ~TornForGood /\ At("bridge", "linked") = {}
    BY <1>1 DEF Stranded
  <1>3. CASE At("bridge", "final") # {}
    <2>1. claim # NoClaim
      BY <1>1, <1>3 DEF Stranded
    <2>2. PICK t \in Targets : disk["bridge"][t] = "final"
      BY <1>3 DEF At
    <2>3. t = selector /\ bridgeClaim = selectorClaim
      BY <2>2 DEF RecordInv, RecordsHold
    <2>4. selectorClaim = claim /\ \A k \in FixedNames : ~Another(k, selector)
      BY <1>0, <1>2, <2>3 DEF Crossed
    <2>5. Continues
      BY <1>0, <1>3, <2>1, <2>2, <2>3, <2>4 DEF Continues, BridgeFinal
    <2>6. ~Begins
      <3>1. \A s \in Targets : disk["bridge"][s] # "none" => s = t
        BY <2>3 DEF RecordInv, RecordsHold
      <3>. QED  BY <2>2, <3>1 DEF Begins, Present, At
    <2>7. /\ Go(h, "late") /\ observed' = [observed EXCEPT ![h] = claim.lock]
          /\ myClaim' = [myClaim EXCEPT ![h] = claim]
          /\ UNCHANGED <<held, rootVars, execVars, selVars, diskVars>>
      BY <1>2, <2>5, <2>6 DEF Observe, Refuse, KeepDisk
    <2>8. UNCHANGED <<lock, claim, selector, selectorClaim, candidates, disk, chain>>
      BY <2>7 DEF rootVars, execVars, selVars, diskVars
    <2>9. /\ OneLine /\ NotCut /\ WholeFiles /\ Foreign(claim) = {}
      BY <1>2 DEF TornForGood, Crossed, NotCut, WholeFiles, At, TornIsFinal
    <2>10. OneLine' /\ NotCut' /\ WholeFiles' /\ Foreign(claim)' = {} /\ NotMine(h)'
           /\ \A k \in FixedNames : ~Another(k, selector)'
      BY <1>1, <2>4, <2>7, <2>8, <2>9, ExecKept DEF WholeFiles, Foreign, NotMine, Another, Present
    <2>11. KnownLock(h)'
      <3>1. lock \in {claim.lock, NoLock} \/ (lock.prior = selector /\ \E r \in chain : r.by = lock.owner)
        BY <1>2, <2>1 DEF Crossed
      <3>2. observed'[h] = claim.lock
        BY <1>0, <2>7
      <3>. QED  BY <2>8, <3>1, <3>2 DEF KnownLock
    <2>12. Follows(h)' /\ claim' = myClaim'[h]
      BY <1>0, <2>7, <2>8, <2>10, <2>11 DEF Follows
    <2>. QED
      BY <1>0, <2>7, <2>10, <2>12 DEF Go, Ready, Takes, Recovers
  <1>4. CASE At("bridge", "final") = {}
    <2>1. lock # NoLock /\ lock.prior = NoTarget
      BY <1>1, <1>4 DEF Stranded
    <2>2. Begins /\ ~Continues
      BY <1>0, <1>2, <1>4, <2>1 DEF Begins, Continues, BridgeFinal, Present, At, Statuses
    <2>3. /\ Go(h, "claim") /\ observed' = [observed EXCEPT ![h] = lock]
          /\ UNCHANGED <<held, rootVars, execVars, selVars, diskVars, outer>>
      BY <1>2, <2>2 DEF Observe, Refuse, KeepDisk, KeepRest
    <2>4. ~Stranded' /\ RoutesToRecovery'
      BY <1>1, <2>3, StrandedKept
    <2>5. At("bridge", "final")' = {} /\ NotMine(h)' /\ observed'[h] = lock'
      BY <1>0, <1>1, <1>4, <2>3 DEF At, NotMine, rootVars, diskVars
    <2>. QED
      BY <1>0, <2>3, <2>4, <2>5 DEF Go, Ready, Takes, Recovers
  <1>. QED  BY <1>3, <1>4

\* The selection: the planned journal is the one that is selected.
LEMMA SelectReady ==
    ASSUME BootstrapAssumption, SentinelAssumption, WatcherInv, JournalInv, RecordInv,
           NEW h \in Hosts, Alone(h), Select(h)
    PROVE  Ready(h)'
  <1>. USE DEF Claimed, Creates, Elects, Records, Filling
  <1>. DEFINE whole == {c \in candidates : ~c.torn}
  <1>0. /\ pc \in [Hosts -> Stages] /\ held \in [Hosts -> BOOLEAN] /\ Ready(h)
        /\ pc[h] = "select" /\ ~held[h] /\ target \in [Hosts -> Targets \cup {NoTarget}]
        /\ NoTarget \notin Targets
    BY DEF WatcherInv, HostTypes, Alone, Select, JournalInv, RolesHold, BootstrapAssumption
  <1>1. /\ claim = myClaim[h] /\ Follows(h) /\ myClaim[h] \in Claims /\ observed[h] = myClaim[h].lock
    BY <1>0 DEF Ready, Recovers, RecordInv, ClaimsHold
  <1>2. /\ UNCHANGED <<proc, held, observed, myClaim, rootVars, execVars, selector, selectorClaim, diskVars>>
    BY DEF Select, KeepRest
  <1>3. UNCHANGED <<lock, claim, disk, chain>>
    BY <1>2 DEF rootVars, execVars, diskVars
  <1>4. Foreign(myClaim[h]) = {} /\ WholeFiles'
    BY <1>1, <1>3 DEF Follows, WholeFiles
  <1>5. ASSUME \A c \in candidates' : ~c.torn => c.claim = myClaim[h]
        PROVE  Follows(h)' /\ claim' = myClaim'[h]
    <2>1. Foreign(claim)' = {}
      BY <1>1, <1>3, <1>5 DEF Foreign
    <2>. QED  BY <1>1, <1>2, <1>3, <1>4, <2>1, FollowsKept
  <1>6. \A c \in candidates : ~c.torn => c.claim = myClaim[h]
    BY <1>4 DEF Foreign
  <1>7. CASE selector # NoTarget
    <2>1. selectorClaim = myClaim[h] /\ \A k \in FixedNames : ~Another(k, selector)
      BY <1>0, <1>7 DEF Ready, Recovers
    <2>2. Go(h, "clean") /\ candidates' = candidates
      BY <1>7, <2>1 DEF Select
    <2>3. Follows(h)' /\ claim' = myClaim'[h]
      BY <1>5, <1>6, <2>2
    <2>4. \A k \in FixedNames : ~Another(k, selector)'
      BY <1>2, <1>3, <2>1 DEF Another, Present
    <2>. QED  BY <1>0, <1>2, <2>2, <2>3, <2>4 DEF Go, Ready, Takes, Recovers
  <1>8. CASE selector = NoTarget
    <2>1. At("planned", "torn") = {} /\ \A t \in PlannedWhole : boundLock[t] = observed[h]
      BY <1>0, <1>8 DEF Ready, Recovers
    <2>2. Planned = PlannedWhole
      BY <2>1 DEF Planned, Present, PlannedWhole, At
    <2>3. \A s, t \in Planned : s = t
      BY <1>8, <2>1, <2>2 DEF RecordInv, RecordsHold
    <2>4. PlannedUsable(h)
      <3>1. \A t \in Planned : Planned = {t} /\ disk["planned"][t] # "torn" /\ boundLock[t] = observed[h]
        BY <2>1, <2>2, <2>3 DEF PlannedWhole
      <3>. QED  BY <3>1 DEF PlannedUsable
    <2>5. \A c \in candidates : c.torn => ~Alive(c.by)
      BY DEF RecordInv, ClaimsHold, Gone, Alive
    <2>6. /\ Go(h, "link")
          /\ \/ \E c \in whole : target' = [target EXCEPT ![h] = c.to] /\ candidates' = whole
             \/ /\ whole = {}
                /\ \E t \in IF Planned = {} THEN Unused ELSE Planned :
                     target' = [target EXCEPT ![h] = t] /\ candidates' = {Chosen(h, t)}
      BY <1>4, <1>8, <2>4, <2>5 DEF Select, Chosen
    <2>7. \A k \in FixedNames : Present(k) \subseteq PlannedWhole
      BY <1>8 DEF RecordInv, RecordsHold, Present, PlannedWhole
    <2>8. /\ \A c \in candidates' : ~c.torn => c.claim = myClaim[h]
          /\ \E c \in candidates' : c.to = target'[h] /\ ~c.torn /\ c.claim = myClaim[h]
          /\ \A t \in PlannedWhole : t = target'[h]
      <3>1. ASSUME NEW c \in whole, target' = [target EXCEPT ![h] = c.to], candidates' = whole
            PROVE  <2>8
        <4>1. c.claim = myClaim[h] /\ target'[h] = c.to /\ c \in candidates' /\ ~c.torn
          BY <1>0, <1>6, <3>1
        <4>2. \A t \in PlannedWhole : t = c.to
          BY <1>1, <1>8, <2>1, <4>1 DEF RecordInv, RecordsHold
        <4>. QED  BY <1>6, <3>1, <4>1, <4>2
      <3>2. ASSUME NEW t \in IF Planned = {} THEN Unused ELSE Planned,
                   target' = [target EXCEPT ![h] = t], candidates' = {Chosen(h, t)}
            PROVE  <2>8
        <4>1. target'[h] = t
          BY <1>0, <3>2
        <4>2. \A s \in PlannedWhole : s = t
          BY <2>2, <2>3, <3>2
        <4>. QED  BY <3>2, <4>1, <4>2 DEF Chosen
      <3>. QED  BY <2>6, <3>1, <3>2
    <2>9. \A k \in FixedNames : ~Another(k, target[h])'
      BY <1>3, <2>7, <2>8 DEF Another, Present
    <2>10. Follows(h)' /\ claim' = myClaim'[h]
      BY <1>5, <2>8
    <2>. QED
      BY <1>0, <1>2, <1>8, <2>6, <2>8, <2>9, <2>10 DEF Go, Ready, Takes, Recovers
  <1>. QED  BY <1>7, <1>8

LEMMA LinkReady ==
    ASSUME WatcherInv, JournalInv, RecordInv, NEW h \in Hosts, Alone(h), Link(h)
    PROVE  Ready(h)'
  <1>. USE DEF Claimed, Creates, Elects, Records, Filling
  <1>0. /\ pc \in [Hosts -> Stages] /\ held \in [Hosts -> BOOLEAN] /\ Ready(h)
        /\ pc[h] = "link" /\ ~held[h]
    BY DEF WatcherInv, HostTypes, Alone, Link, JournalInv, RolesHold
  <1>1. /\ claim = myClaim[h] /\ Follows(h) /\ selector = NoTarget
        /\ \A k \in FixedNames : ~Another(k, target[h])
        /\ \E c \in candidates : c.to = target[h] /\ ~c.torn /\ c.claim = myClaim[h]
    BY <1>0 DEF Ready, Recovers
  <1>2. /\ Go(h, "clean") /\ selector' = target[h]
        /\ UNCHANGED <<startVars, rootVars, execVars, candidates, diskVars>>
    BY <1>1 DEF Link
  <1>3. UNCHANGED <<lock, claim, disk, chain, candidates, held, observed, myClaim>>
    BY <1>2 DEF rootVars, execVars, diskVars, startVars
  <1>4. chain = {}
    BY <1>1 DEF RecordInv, LineHolds
  <1>5. /\ OneLine' /\ NotCut' /\ Foreign(claim)' = {} /\ WholeFiles' /\ NotMine(h)' /\ KnownLock(h)'
    BY <1>1, <1>2, <1>3, <1>4, ExecKept DEF Follows, Foreign, WholeFiles, NotMine, KnownLock
  <1>6. \A k \in FixedNames : ~Another(k, selector)'
    BY <1>1, <1>2, <1>3 DEF Another, Present
  <1>7. Follows(h)' /\ claim' = myClaim'[h]
    BY <1>1, <1>3, <1>5 DEF Follows
  <1>. QED  BY <1>0, <1>2, <1>3, <1>6, <1>7 DEF Go, Ready, Takes, Recovers

LEMMA CleanReady ==
    ASSUME WatcherInv, JournalInv, RecordInv, NEW h \in Hosts, Alone(h), Clean(h)
    PROVE  Ready(h)'
  <1>. USE DEF Claimed, Creates, Elects, Records, Filling
  <1>0. /\ pc \in [Hosts -> Stages] /\ held \in [Hosts -> BOOLEAN] /\ Ready(h)
        /\ pc[h] \in {"clean", "late"} /\ ~held[h] /\ target \in [Hosts -> Targets \cup {NoTarget}]
        /\ selector \in Targets \cup {NoTarget}
        /\ pc[h] = "clean" => selector # NoTarget
        /\ pc[h] = "late" => selector # NoTarget
    BY DEF WatcherInv, HostTypes, FileTypes, Alone, Clean, JournalInv, RolesHold, SelectionHolds, Bridged, Selected
  <1>1. /\ claim = myClaim[h] /\ Follows(h) /\ \A k \in FixedNames : ~Another(k, selector)
    BY <1>0 DEF Ready, Recovers
  <1>2. /\ Go(h, IF pc[h] = "clean" THEN "planned" ELSE "finish")
        /\ candidates' = {} /\ target' = [target EXCEPT ![h] = selector]
        /\ UNCHANGED <<held, observed, myClaim, rootVars, execVars, selector, diskVars>>
    BY <1>1 DEF Clean, Follows
  <1>3. UNCHANGED <<lock, claim, disk>>
    BY <1>2 DEF rootVars, diskVars
  <1>4. Follows(h)'
    <2>1. WholeFiles' /\ Foreign(claim)' = {}
      BY <1>1, <1>2, <1>3 DEF Follows, WholeFiles, Foreign
    <2>. QED  BY <1>1, <1>2, <1>3, <2>1, FollowsKept
  <1>5. Room(target[h])'
    <2>1. Room(selector)
      BY <1>0, <1>1 DEF Room, Follows, WholeFiles
    <2>2. target'[h] = selector
      BY <1>0, <1>2
    <2>. QED  BY <1>3, <2>1, <2>2 DEF Room, Another, Present
  <1>. QED  BY <1>0, <1>1, <1>2, <1>3, <1>4, <1>5 DEF Go, Ready, Takes, Recovers

\* A file of the journal is written, or found complete.
LEMMA PersistReady ==
    ASSUME WatcherInv, JournalInv, RecordInv, NEW h \in Hosts, Alone(h),
           NEW k \in Leaves, Persist(h, k)
    PROVE  Ready(h)'
  <1>. USE DEF Claimed, Creates, Elects, Records, Filling
  <1>. DEFINE t == target[h]
  <1>0. /\ pc \in [Hosts -> Stages] /\ held \in [Hosts -> BOOLEAN] /\ Ready(h) /\ pc[h] = k
        /\ disk \in [Leaves -> [Targets -> Statuses]] /\ t \in Targets
        /\ k \in {"planned", "witness", "bridge", "guard", "database", "generation", "pointer",
                  "fixed", "authority"}
        /\ held[h] => k # "bridge"
    BY TargetKnown DEF WatcherInv, HostTypes, FileTypes, Alone, Persist, JournalInv, RolesHold,
                       Leaves, FixedNames
  <1>1. Room(t)
    BY <1>0 DEF Ready, Recovers
  <1>2. ~Another(k, t) /\ ~(disk[k][t] = "torn" /\ k \in TornIsFinal)
    BY <1>1 DEF Room, Another
  <1>3. ~held[h] => /\ claim = myClaim[h]
                    /\ k \in {"planned", "witness", "bridge"} => Follows(h)
                    /\ k \notin {"planned", "witness", "bridge"} => executor = h /\ lock = NoLock
    BY <1>0 DEF Ready, Recovers
  <1>4. ~held[h] => selector = t /\ selectorClaim = myClaim[h]
    BY <1>0 DEF JournalInv, SelectionHolds, Selected, Bridged, RecordInv, ClaimsHold
  <1>5. ~(k = "bridge" /\ disk[k][t] \in {"stage", "linked", "final"} /\ bridgeClaim # myClaim[h])
    BY <1>0, <1>4 DEF RecordInv, RecordsHold
  <1>6. UNCHANGED <<held, observed, myClaim, target, rootVars, execVars, selVars>>
    BY <1>2, <1>5 DEF Persist, KeepDisk, startVars
  <1>7. UNCHANGED <<lock, claim, executor, execStage, chain, selector, selectorClaim, candidates>>
    BY <1>6 DEF rootVars, execVars, selVars
  <1>8. CASE Go(h, AfterLeaf(h, k)) /\ disk' = disk
    <2>1. /\ pc'[h] = AfterLeaf(h, k) /\ Room(t)' /\ target'[h] = t
          /\ \A j \in FixedNames : ~Another(j, t)'
      BY <1>0, <1>1, <1>6, <1>8 DEF Go, Room, Another, Present
    <2>2. ~held[h] /\ k \in {"planned", "witness", "bridge"} => Follows(h)'
      <3>1. Foreign(claim)' = Foreign(claim) /\ WholeFiles' = WholeFiles
        BY <1>7, <1>8 DEF Foreign, WholeFiles
      <3>. QED  BY <1>3, <1>6, <1>7, <3>1, FollowsKept DEF Follows
    <2>3. CASE held[h]
      <3>1. AfterLeaf(h, k) \in {"witness"} \cup Filling
        BY <1>0, <2>3 DEF AfterLeaf
      <3>. QED  BY <1>6, <2>1, <2>3, <3>1 DEF Ready, Takes, Recovers
    <2>4. CASE ~held[h] /\ k \in {"planned", "witness"}
      <3>1. AfterLeaf(h, k) \in {"witness", "bridge"}
        BY <2>4 DEF AfterLeaf
      <3>. QED  BY <1>3, <1>6, <1>7, <2>1, <2>2, <2>4, <3>1 DEF Ready, Takes, Recovers
    <2>5. CASE ~held[h] /\ k = "bridge"
      <3>1. AfterLeaf(h, k) = "late"
        BY <2>5 DEF AfterLeaf
      <3>. QED  BY <1>3, <1>4, <1>6, <1>7, <2>1, <2>2, <2>5, <3>1 DEF Ready, Takes, Recovers
    <2>6. CASE ~held[h] /\ k \notin {"planned", "witness", "bridge"}
      <3>1. AfterLeaf(h, k) \in Filling \ {"guard"}
        BY <1>0, <2>6 DEF AfterLeaf
      <3>. QED  BY <1>3, <1>6, <1>7, <2>1, <2>6, <3>1 DEF Ready, Takes, Recovers
    <2>. QED  BY <2>3, <2>4, <2>5, <2>6
  <1>9. CASE /\ pc' = pc /\ disk' = [disk EXCEPT ![k][t] = Grown(k, disk[k][t])]
             /\ disk[k][t] # "final"
    <2>1. Grown(k, disk[k][t]) # "torn"
      BY <1>0, <1>9 DEF Grown, Statuses
    <2>2. /\ \A j \in Leaves, s \in Targets : s # t => disk'[j][s] = disk[j][s]
          /\ \A j \in Leaves : disk'[j][t] = "torn" => disk[j][t] = "torn"
      BY <1>0, <1>9, <2>1
    <2>3. /\ \A j \in Leaves : Present(j)' \ {t} = Present(j) \ {t}
      BY <2>2 DEF Present
    <2>4. FixedNames \subseteq Leaves /\ TornIsFinal \subseteq Leaves
      BY DEF Leaves, FixedNames, TornIsFinal
    <2>5. Room(t)' /\ target'[h] = t
      <3>1. \A j \in FixedNames : ~Another(j, t)'
        BY <1>1, <1>6, <2>3, <2>4 DEF Room, Another
      <3>. QED  BY <1>1, <1>6, <2>2, <2>4, <3>1 DEF Room
    <2>6. WholeFiles => WholeFiles'
      BY <2>2, <2>4 DEF WholeFiles
    <2>7. ~held[h] /\ k \in {"planned", "witness", "bridge"} => Follows(h)'
      <3>1. Foreign(claim)' = Foreign(claim)
        BY <1>7 DEF Foreign
      <3>. QED  BY <1>3, <1>6, <1>7, <2>6, <3>1, FollowsKept DEF Follows
    <2>. QED  BY <1>0, <1>3, <1>6, <1>7, <1>9, <2>5, <2>7 DEF Ready, Takes, Recovers
  <1>. QED
    BY <1>2, <1>5, <1>8, <1>9 DEF Persist, KeepDisk, diskVars

\* The guard goes, and the journal is served or gets its lock.
LEMMA UnguardReady ==
    ASSUME WatcherInv, JournalInv, RecordInv, NEW h \in Hosts, Alone(h), Unguard(h)
    PROVE  Ready(h)'
  <1>. USE DEF Claimed, Creates, Elects, Records, Filling
  <1>. DEFINE t == target[h]
  <1>0. /\ pc \in [Hosts -> Stages] /\ held \in [Hosts -> BOOLEAN] /\ Ready(h) /\ pc[h] = "unguard"
        /\ disk \in [Leaves -> [Targets -> Statuses]] /\ t \in Targets
    BY TargetKnown DEF WatcherInv, HostTypes, FileTypes, Alone, Unguard, Settled
  <1>1. /\ Room(t)
        /\ ~held[h] => claim = myClaim[h] /\ executor = h /\ lock = NoLock
    BY <1>0 DEF Ready, Recovers
  <1>2. /\ pc'[h] = IF held[h] THEN "serving" ELSE "newLock"
        /\ UNCHANGED <<held, observed, myClaim, target, lock, claim, executor>>
        /\ \E st \in {"none", disk["guard"][t]} : disk' = [disk EXCEPT !["guard"][t] = st]
    BY <1>0 DEF Unguard, Go, startVars, rootVars, execVars
  <1>3. Room(t)' /\ target'[h] = t
    <2>1. /\ \A j \in Leaves, s \in Targets : s # t => disk'[j][s] = disk[j][s]
          /\ \A j \in Leaves : disk'[j][t] = "torn" => disk[j][t] = "torn"
      BY <1>0, <1>2
    <2>2. /\ \A j \in Leaves : Present(j)' \ {t} = Present(j) \ {t}
          /\ FixedNames \subseteq Leaves /\ TornIsFinal \subseteq Leaves
      BY <2>1 DEF Present, Leaves, FixedNames, TornIsFinal
    <2>3. \A j \in FixedNames : ~Another(j, t)'
      BY <1>1, <1>2, <2>2 DEF Room, Another
    <2>. QED  BY <1>1, <1>2, <2>1, <2>2, <2>3 DEF Room
  <1>. QED  BY <1>0, <1>1, <1>2, <1>3 DEF Ready, Takes, Recovers

\* The executor records of one line.
LEMMA StagedLast ==
    ASSUME ChainHolds, OneLine, execStage.st = "stage", Staged \in chain
    PROVE  Last = execStage.by
  <1>1. \A r \in chain : r.ord \in Nat
    BY FS_CardinalityType DEF ChainHolds
  <1>2. /\ \A r \in chain : r.ord < execStage.ord \/ r = Staged
        /\ Staged.ord = execStage.ord /\ Staged.by = execStage.by
    BY DEF OneLine, Staged
  <1>3. \A s \in chain : s.ord <= Staged.ord
    BY <1>1, <1>2
  <1>4. \A r \in chain : (\A s \in chain : s.ord <= r.ord) => r = Staged
    BY <1>1, <1>2
  <1>. DEFINE last == CHOOSE r \in chain : \A s \in chain : s.ord <= r.ord
  <1>5. last \in chain /\ \A s \in chain : s.ord <= last.ord
    BY <1>3
  <1>. HIDE DEF last
  <1>6. last = Staged
    BY <1>4, <1>5
  <1>. QED  BY <1>2, <1>6 DEF Last, last

LEMMA StageJoins ==
    ASSUME BootstrapAssumption, ChainHolds, LineHolds, OneLine, execStage.st = "stage", Staged \notin chain,
           chain' = chain \cup {Staged}, UNCHANGED <<executor, execStage>>
    PROVE  OneLine'
  <1>0. /\ \A r \in chain : r.ord \in Nat
        /\ execStage.ord \in Nat
    BY FS_CardinalityType DEF ChainHolds
  <1>1. /\ \A r \in chain : r.ord < execStage.ord
        /\ executor \in {NoHost, execStage.by, execStage.prior}
        /\ Linear
    BY DEF OneLine
  <1>2. Staged.ord = execStage.ord /\ Staged.prior = execStage.prior /\ Staged' = Staged
    BY DEF Staged
  <1>3. \A r \in chain' : \E s \in chain' \cup {NoStage} :
          IF r.ord = 0 THEN r.prior = NoHost ELSE s.by = r.prior /\ s.ord + 1 = r.ord
    <2>1. \A r \in chain : \E s \in chain' \cup {NoStage} :
            IF r.ord = 0 THEN r.prior = NoHost ELSE s.by = r.prior /\ s.ord + 1 = r.ord
      BY <1>1 DEF Linear
    <2>2. \E s \in chain' \cup {NoStage} :
            IF Staged.ord = 0 THEN Staged.prior = NoHost
            ELSE s.by = Staged.prior /\ s.ord + 1 = Staged.ord
      <3>1. IF execStage.ord = 0 THEN execStage.prior = NoHost
            ELSE \E s \in chain : s.by = execStage.prior /\ s.ord + 1 = execStage.ord
        BY DEF LineHolds
      <3>. QED  BY <1>2, <3>1
    <2>. QED  BY <2>1, <2>2
  <1>4. \A r, s \in chain' : r.ord = s.ord => r = s
    <2>1. \A r, s \in chain : r.ord = s.ord => r = s
      BY <1>1 DEF Linear
    <2>. QED  BY <1>0, <1>1, <1>2, <2>1
  <1>5. Linear'
    BY <1>3, <1>4 DEF Linear
  <1>. QED  BY <1>1, <1>2, <1>5 DEF OneLine

\* Nothing refuses the stage of an executor record to a lone recoverer.
LEMMA NotCutShort ==
    ASSUME BootstrapAssumption, WatcherInv, JournalInv, RecordInv, NEW h \in Hosts, Alone(h),
           pc[h] \in {"finish", "install"}, OneLine, NotCut,
           pc[h] = "install" => execStage = NoStage \/ execStage.prior # h
    PROVE  ~ \/ execStage.st = "torn" /\ executor = NoHost /\ chain # {}
             \/ execStage.st = "stage" /\ ~Linear
             \/ /\ execStage.st = "stage" /\ Staged \in chain
                /\ executor \notin {NoHost, execStage.by}
                /\ execStage.prior # executor \/ Alive(executor)
  <1>1. SUFFICES ASSUME execStage.st = "stage", executor \notin {NoHost, execStage.by},
                        execStage.prior # executor \/ Alive(executor)
                 PROVE  FALSE
    BY DEF OneLine, NotCut
  <1>2. executor = execStage.prior /\ Alive(executor) /\ executor \in Hosts /\ NoHost \notin Hosts
    BY <1>1 DEF OneLine, WatcherInv, FileTypes, BootstrapAssumption
  <1>3. executor = h
    BY <1>2 DEF Alone, Alive
  <1>4. \E s \in chain : s.by = h
    BY <1>1, <1>2, <1>3 DEF RecordInv, LineHolds
  <1>5. Recorded(h)
    BY <1>4 DEF Recorded
  <1>6. pc[h] = "install"
    BY <1>5 DEF JournalInv, SelectionHolds, Records, Filling
  <1>. QED  BY <1>1, <1>2, <1>3, <1>6 DEF NoStage

LEMMA FinishReady ==
    ASSUME BootstrapAssumption, WatcherInv, JournalInv, RecordInv, NEW h \in Hosts, Alone(h), Finish(h)
    PROVE  Ready(h)'
  <1>. USE DEF Claimed, Creates, Elects, Records, Filling
  <1>0. /\ pc \in [Hosts -> Stages] /\ held \in [Hosts -> BOOLEAN] /\ Ready(h)
        /\ pc[h] \in {"finish", "install"} /\ ~held[h]
        /\ execStage.st = "none" => execStage = NoStage
        /\ execStage.st \in {"none", "torn", "stage"} /\ NoStage.st = "none"
    BY DEF WatcherInv, HostTypes, Alone, Finish, JournalInv, RolesHold, RecordInv, LineHolds,
           ChainHolds, NoStage
  <1>1. /\ OneLine /\ NotCut /\ KnownLock(h) /\ NotMine(h) /\ claim = myClaim[h] /\ Room(target[h])
        /\ pc[h] = "finish" => Foreign(claim) = {} /\ WholeFiles
        /\ pc[h] = "install" => IF execStage = NoStage THEN executor = h
                                ELSE execStage.st = "stage" /\ execStage.by = h /\ execStage.prior # h
    BY <1>0 DEF Ready, Recovers, Follows
  <1>. DEFINE Cut == \/ execStage.st = "torn" /\ executor = NoHost /\ chain # {}
                     \/ execStage.st = "stage" /\ ~Linear
                     \/ /\ execStage.st = "stage" /\ Staged \in chain
                        /\ executor \notin {NoHost, execStage.by}
                        /\ execStage.prior # executor \/ Alive(executor)
              Keep == UNCHANGED <<startVars, rootVars, selVars, diskVars>>
              Goes == /\ execStage.st = "none" /\ UNCHANGED execVars
                      /\ Go(h, IF pc[h] = "finish" THEN "elect" ELSE "elected")
              Drops == /\ execStage.st = "torn" /\ execStage' = NoStage
                       /\ UNCHANGED <<pc, executor, chain>>
              Joins == /\ execStage.st = "stage" /\ Staged \notin chain
                       /\ chain' = chain \cup {Staged} /\ UNCHANGED <<pc, executor, execStage>>
              Swaps == /\ execStage.st = "stage"
                       /\ executor' \in {NoHost, execStage.by} /\ UNCHANGED <<pc, chain, execStage>>
              Ends == /\ execStage.st = "stage" /\ Staged \in chain /\ executor = execStage.by
                      /\ execStage' = NoStage /\ UNCHANGED <<pc, executor, chain>>
  <1>2. ~Cut
    BY <1>0, <1>1, NotCutShort
  <1>3. Keep /\ (Goes \/ Drops \/ Joins \/ Swaps \/ Ends)
    BY <1>2, Zenon DEF Finish, KeepFinish
  <1>. HIDE DEF Cut
  <1>4. /\ UNCHANGED <<held, observed, myClaim, target, lock, claim, selector, candidates, disk>>
    BY <1>3 DEF startVars, rootVars, selVars, diskVars
  <1>5. /\ NotMine(h)' /\ claim' = myClaim'[h] /\ Room(target[h])' /\ Foreign(claim)' = Foreign(claim)
        /\ WholeFiles' = WholeFiles /\ ~held'[h]
        /\ chain \subseteq chain' => KnownLock(h)'
    BY <1>0, <1>1, <1>4 DEF NotMine, Room, Another, Present, Foreign, WholeFiles, KnownLock
  <1>6. CASE Goes
    <2>1. /\ OneLine' /\ NotCut' /\ chain' = chain /\ execStage' = NoStage /\ executor' = executor
          /\ execStage = NoStage
      BY <1>0, <1>1, <1>6, ExecKept DEF execVars
    <2>2. CASE pc[h] = "finish"
      <3>1. pc'[h] = "elect"
        BY <1>0, <1>6, <2>2 DEF Go
      <3>2. Follows(h)'
        BY <1>1, <1>5, <2>1, <2>2 DEF Follows
      <3>. QED  BY <1>5, <2>1, <3>1, <3>2 DEF Ready, Takes, Recovers
    <2>3. CASE pc[h] = "install"
      <3>1. pc'[h] = "elected" /\ executor' = h
        BY <1>0, <1>1, <1>6, <2>1, <2>3 DEF Go
      <3>. QED  BY <1>5, <2>1, <3>1 DEF Ready, Takes, Recovers
    <2>. QED  BY <1>0, <2>2, <2>3
  <1>7. ASSUME pc' = pc, OneLine', NotCut', chain \subseteq chain',
               pc[h] = "install" =>
                 IF execStage' = NoStage THEN executor' = h
                 ELSE execStage'.st = "stage" /\ execStage'.by = h /\ execStage'.prior # h
        PROVE  Ready(h)'
    <2>1. CASE pc[h] = "finish"
      <3>1. Follows(h)'
        BY <1>1, <1>5, <1>7, <2>1 DEF Follows
      <3>. QED  BY <1>5, <1>7, <2>1, <3>1 DEF Ready, Takes, Recovers
    <2>2. CASE pc[h] = "install"
      BY <1>5, <1>7, <2>2 DEF Ready, Takes, Recovers
    <2>. QED  BY <1>0, <2>1, <2>2
  <1>8. CASE Drops
    <2>1. OneLine' /\ NotCut'
      BY <1>0, <1>1, <1>8 DEF OneLine, Linear, Last, Staged, NotCut
    <2>2. pc[h] # "install"
      BY <1>0, <1>1, <1>8
    <2>. QED  BY <1>7, <1>8, <2>1, <2>2
  <1>9. CASE Joins
    <2>1. OneLine' /\ NotCut'
      BY <1>1, <1>9, StageJoins DEF NotCut, WatcherInv, RecordInv
    <2>. QED  BY <1>0, <1>1, <1>7, <1>9, <2>1
  <1>10. CASE Swaps
    <2>1. OneLine' /\ NotCut'
      BY <1>1, <1>10 DEF OneLine, Linear, Staged, NotCut
    <2>. QED  BY <1>0, <1>1, <1>7, <1>10, <2>1
  <1>11. CASE Ends
    <2>1. Last = executor
      BY <1>1, <1>11, StagedLast DEF WatcherInv
    <2>2. OneLine' /\ NotCut'
      BY <1>0, <1>1, <1>11, <2>1 DEF OneLine, Linear, Last, Staged, NotCut
    <2>. QED  BY <1>0, <1>1, <1>7, <1>11, <2>2
  <1>. QED  BY <1>3, <1>6, <1>8, <1>9, <1>10, <1>11

\* The election of a lone recoverer, and the record it stages.
LEMMA ElectReady ==
    ASSUME BootstrapAssumption, WatcherInv, JournalInv, RecordInv, NEW h \in Hosts, Alone(h), Elect(h)
    PROVE  Ready(h)'
  <1>. USE DEF Claimed, Creates, Elects, Records, Filling
  <1>0. /\ pc \in [Hosts -> Stages] /\ held \in [Hosts -> BOOLEAN] /\ Ready(h)
        /\ pc[h] = "elect" /\ ~held[h] /\ ~Recorded(h) /\ DOMAIN sawLast = Hosts
        /\ executor \in Hosts \cup {NoHost} /\ NoStage.st = "none"
    BY DEF WatcherInv, HostTypes, FileTypes, ChainHolds, Alone, Elect, JournalInv, RolesHold,
           SelectionHolds, NoStage
  <1>1. Follows(h) /\ Room(target[h]) /\ execStage = NoStage /\ claim = myClaim[h]
    BY <1>0 DEF Ready, Recovers
  <1>2. Linear /\ executor \in {NoHost, Last} /\ Last \in {r.by : r \in chain} \cup {NoHost}
    BY <1>0, <1>1, LastTyped DEF Follows, OneLine, WatcherInv
  <1>3. executor # NoHost => ~Alive(executor)
    BY <1>0, <1>2 DEF Alone, Alive, Recorded
  <1>4. /\ Go(h, "stageExecutor") /\ sawLast' = [sawLast EXCEPT ![h] = Last]
        /\ UNCHANGED <<held, observed, myClaim, target, rootVars, selVars, diskVars, execVars>>
    BY <1>2, <1>3 DEF Elect, Refuse, KeepDisk
  <1>5. UNCHANGED <<lock, claim, selector, candidates, disk, execStage>>
    BY <1>4 DEF rootVars, selVars, diskVars, execVars
  <1>6. WholeFiles' = WholeFiles /\ Foreign(claim)' = Foreign(claim) /\ Room(target[h])'
    BY <1>1, <1>4, <1>5 DEF WholeFiles, Foreign, Room, Another, Present
  <1>7. Follows(h)' /\ claim' = myClaim'[h]
    BY <1>1, <1>4, <1>5, <1>6, FollowsKept DEF Follows
  <1>8. sawLast'[h] = Last'
    BY <1>0, <1>4, ExecKept
  <1>. QED  BY <1>0, <1>1, <1>4, <1>5, <1>6, <1>7, <1>8 DEF Go, Ready, Takes, Recovers

LEMMA StageReady ==
    ASSUME BootstrapAssumption, WatcherInv, JournalInv, RecordInv, NEW h \in Hosts, Alone(h),
           StageExecutor(h)
    PROVE  Ready(h)'
  <1>. USE DEF Claimed, Creates, Elects, Records, Filling
  <1>0. /\ pc \in [Hosts -> Stages] /\ held \in [Hosts -> BOOLEAN] /\ Ready(h)
        /\ pc[h] = "stageExecutor" /\ ~held[h] /\ ~Recorded(h) /\ NoStage.st = "none"
        /\ h # NoHost
        /\ \A r \in chain : r.ord \in Nat /\ r.by # NoHost
    BY FS_CardinalityType
       DEF WatcherInv, HostTypes, ChainHolds, Alone, StageExecutor, JournalInv, RolesHold,
           SelectionHolds, NoStage, BootstrapAssumption
  <1>1. Follows(h) /\ Room(target[h]) /\ execStage = NoStage /\ claim = myClaim[h] /\ sawLast[h] = Last
    BY <1>0 DEF Ready, Recovers
  <1>2. Linear /\ executor \in {NoHost, Last} /\ Last \in {r.by : r \in chain} \cup {NoHost}
    BY <1>0, <1>1, LastTyped DEF Follows, OneLine, WatcherInv
  <1>3. Last # h
    BY <1>0, <1>2 DEF Recorded
  <1>4. /\ Go(h, "install") /\ KeepFinish /\ UNCHANGED <<executor, chain>>
        /\ execStage' = [st |-> "stage", by |-> h, ord |-> OrdOf(Last), prior |-> Last]
    BY <1>1 DEF StageExecutor, Refuse
  <1>5. UNCHANGED <<held, observed, myClaim, target, lock, claim, selector, disk>>
    BY <1>4 DEF KeepFinish, startVars, rootVars, selVars, diskVars
  <1>6. \A r \in chain : r.ord < OrdOf(Last)
    <2>1. SUFFICES ASSUME chain # {}
                   PROVE  \A r \in chain : r.ord < OrdOf(Last)
      OBVIOUS
    <2>2. PICK r \in chain : r.by = Last /\ \A s \in chain : s.ord <= r.ord
      BY <1>2, <2>1, LastRecord DEF WatcherInv
    <2>3. (CHOOSE s \in chain : s.by = Last) = r
      BY <2>2 DEF RecordInv, LineHolds
    <2>4. OrdOf(Last) = r.ord + 1
      BY <1>0, <2>2, <2>3 DEF OrdOf
    <2>. QED  BY <1>0, <2>2, <2>4
  <1>7. OneLine' /\ NotCut'
    BY <1>2, <1>4, <1>6 DEF OneLine, Linear, NotCut
  <1>8. KnownLock(h)' /\ NotMine(h)' /\ Room(target[h])' /\ claim' = myClaim'[h]
    BY <1>1, <1>4, <1>5 DEF Follows, KnownLock, NotMine, Room, Another, Present
  <1>9. execStage' # NoStage
    BY <1>0, <1>4
  <1>. QED
    BY <1>0, <1>3, <1>4, <1>5, <1>7, <1>8, <1>9 DEF Go, Ready, Takes, Recovers

\* The elected recoverer replaces the dead lock by its own, and serves.
LEMMA ElectedReady ==
    ASSUME WatcherInv, JournalInv, RecordInv, NEW h \in Hosts, Alone(h),
           \/ Elected(h) \/ RemoveStale(h) \/ CreateRecovered(h) \/ ReleaseExecutor(h)
    PROVE  Ready(h)'
  <1>. USE DEF Claimed, Creates, Elects, Records, Filling
  <1>0. /\ pc \in [Hosts -> Stages] /\ held \in [Hosts -> BOOLEAN] /\ Ready(h)
        /\ pc[h] \in {"elected", "stale", "newLock", "release"} /\ ~held[h]
        /\ lock \in HostLocks \cup {NoLock}
    BY DEF WatcherInv, HostTypes, FileTypes, Alone, Elected, RemoveStale, CreateRecovered,
           ReleaseExecutor, JournalInv, RolesHold
  <1>1. /\ claim = myClaim[h] /\ executor = h /\ Room(target[h])
        /\ pc[h] \in {"elected", "stale"} => KnownLock(h) /\ NotMine(h)
        /\ pc[h] = "newLock" => lock = NoLock
        /\ pc[h] = "release" => lock = [owner |-> h, prior |-> target[h]]
    BY <1>0 DEF Ready, Recovers
  <1>2. CASE Elected(h)
    <2>1. /\ Go(h, "stale")
          /\ UNCHANGED <<held, observed, myClaim, target, lock, claim, selector, disk, executor, chain>>
      BY <1>1, <1>2 DEF Elected, Refuse, KeepDisk, startVars, rootVars, selVars, diskVars, execVars
    <2>2. KnownLock(h)' /\ NotMine(h)' /\ Room(target[h])'
      BY <1>1, <1>2, <2>1 DEF Elected, KnownLock, NotMine, Room, Another, Present
    <2>. QED  BY <1>0, <1>1, <2>1, <2>2 DEF Go, Ready, Takes, Recovers
  <1>3. CASE RemoveStale(h)
    <2>1. target[h] = selector /\ KnownLock(h) /\ NotMine(h)
      BY <1>0, <1>1, <1>3 DEF RemoveStale, JournalInv, SelectionHolds, Bridged, Selected
    <2>2. lock # NoLock => ~Alive(lock.owner) /\ KnownOwner(h)
      BY <1>0, <2>1, NobodyElse DEF KnownOwner, KnownLock, NotMine
    <2>3. /\ Go(h, "guard") /\ lock' = NoLock
          /\ UNCHANGED <<held, observed, myClaim, target, claim, disk, executor>>
      BY <1>3, <2>2 DEF RemoveStale, Refuse, KeepDisk, startVars, rootVars, selVars, diskVars, execVars
    <2>4. Room(target[h])'
      BY <1>1, <2>3 DEF Room, Another, Present
    <2>. QED  BY <1>0, <1>1, <2>3, <2>4 DEF Go, Ready, Takes, Recovers
  <1>4. CASE CreateRecovered(h)
    <2>1. /\ Go(h, "release") /\ lock' = [owner |-> h, prior |-> target[h]]
          /\ UNCHANGED <<held, observed, myClaim, target, claim, disk, executor>>
      BY <1>1, <1>4 DEF CreateRecovered, Refuse, KeepDisk, startVars, rootVars, selVars, diskVars, execVars
    <2>2. Room(target[h])'
      BY <1>1, <2>1 DEF Room, Another, Present
    <2>. QED  BY <1>0, <1>1, <2>1, <2>2 DEF Go, Ready, Takes, Recovers
  <1>5. CASE ReleaseExecutor(h)
    <2>1. /\ Go(h, "unclaimRecovered")
          /\ UNCHANGED <<held, observed, myClaim, target, claim, disk>>
      BY <1>1, <1>5 DEF ReleaseExecutor, Refuse, startVars, rootVars, selVars, diskVars
    <2>2. Room(target[h])'
      BY <1>1, <2>1 DEF Room, Another, Present
    <2>. QED  BY <1>0, <1>1, <2>1, <2>2 DEF Go, Ready, Takes, Recovers
  <1>. QED  BY <1>2, <1>3, <1>4, <1>5

\* What no step of a lone start does: to refuse it.
LEMMA ReadyStep ==
    ASSUME BootstrapAssumption, SentinelAssumption, WatcherInv, JournalInv, RecordInv,
           NEW h \in Hosts, Alone(h), Step(h), ~Fault(h), proc'[h] = "live"
    PROVE  Ready(h)'
  <1>1. ~(Start(h) \/ Shutdown(h) \/ Exit(h) \/ Crash(h) \/ CrashWriting(h))
    BY DEF Alone, Start, Shutdown, Exit, Crash, CrashWriting, Stop, WatcherInv, HostTypes
  <1>2. CASE Publish(h)
    BY <1>2 DEF Publish, Alone, Ready, Takes, Recovers, Claimed, Creates, Elects, Records, Filling
  <1>3. CASE \E k \in PersistSteps : Persist(h, k)
    BY <1>3, PersistReady DEF PersistSteps
  <1>4. CASE \/ Route(h) \/ Evidence(h) \/ Acquire(h) \/ Create(h) \/ ObserveStale(h)
             \/ EnsureClaim(h) \/ UnlinkStale(h) \/ Relock(h) \/ Unclaim(h) \/ Open(h)
    BY <1>4, RouteStep, TakeoverStep, ClaimReady, UnclaimReady, OpenReady
  <1>5. CASE \/ Observe(h) \/ Select(h) \/ Link(h) \/ Clean(h) \/ Unguard(h)
    BY <1>5, ObserveReady, SelectReady, LinkReady, CleanReady, UnguardReady
  <1>6. CASE \/ Finish(h) \/ Elect(h) \/ StageExecutor(h) \/ Elected(h)
             \/ RemoveStale(h) \/ CreateRecovered(h) \/ ReleaseExecutor(h)
    BY <1>6, FinishReady, ElectReady, StageReady, ElectedReady
  <1>. QED  BY <1>1, <1>2, <1>3, <1>4, <1>5, <1>6 DEF Step

\* What a step does to the histories, and who takes it.
LEMMA GhostStep ==
    ASSUME WatcherInv, NEW h \in Hosts, Step(h), ~Start(h)
    PROVE  /\ Alive(h) /\ stranded' = stranded
           /\ \/ UNCHANGED <<proc, lone>>
              \/ /\ proc' = [proc EXCEPT ![h] = "dead"] /\ lone' = lone
                 /\ pc'[h] = "refused" => pc[h] = "refused"
              \/ Fault(h) /\ lone' = [lone EXCEPT ![h] = FALSE]
  <1>0. /\ pc \in [Hosts -> Stages]
        /\ pc[h] \notin {"start", "refused", "stopped", "crashed"} => Alive(h)
    BY DEF WatcherInv, HostTypes, OwnerHolds
  <1>1. CASE \/ Route(h) \/ Evidence(h) \/ Acquire(h) \/ Create(h) \/ ObserveStale(h)
             \/ EnsureClaim(h) \/ UnlinkStale(h) \/ Relock(h) \/ Unclaim(h)
    BY <1>0, <1>1 DEF Route, Evidence, Acquire, Create, ObserveStale, EnsureClaim, UnlinkStale,
                      Relock, Unclaim, Refuse, Reject, KeepRest, ghostVars
  <1>2. CASE \/ Open(h) \/ Observe(h) \/ Select(h) \/ Link(h) \/ Clean(h) \/ Unguard(h)
    BY <1>0, <1>2 DEF Open, Observe, Select, Link, Clean, Unguard, Refuse, Reject, KeepRest, ghostVars
  <1>3. CASE \E k \in PersistSteps : Persist(h, k)
    <2>1. PICK k \in PersistSteps : Persist(h, k)
      BY <1>3
    <2>2. pc[h] = k /\ UNCHANGED <<proc, lone, stranded>>
      BY <2>1 DEF Persist, Refuse, Reject, KeepRest, ghostVars
    <2>. QED  BY <1>0, <2>2 DEF PersistSteps, Leaves, FixedNames
  <1>4. CASE Finish(h)
    <2>1. pc[h] \in {"finish", "install"} /\ (KeepFinish \/ Refuse(h))
      BY <1>4, Zenon DEF Finish
    <2>. QED  BY <1>0, <2>1 DEF KeepFinish, Refuse, Reject, KeepRest, ghostVars
  <1>5. CASE \/ Elect(h) \/ StageExecutor(h) \/ Elected(h)
             \/ RemoveStale(h) \/ CreateRecovered(h) \/ ReleaseExecutor(h) \/ Publish(h)
    BY <1>0, <1>5 DEF Elect, StageExecutor, Elected, RemoveStale, CreateRecovered, ReleaseExecutor,
                      Publish, Refuse, Reject, KeepFinish, KeepRest, ghostVars
  <1>6. CASE Shutdown(h) \/ Exit(h) \/ Crash(h) \/ CrashWriting(h)
    BY <1>0, <1>6 DEF Shutdown, Exit, Crash, CrashWriting, Stop, Go, Alive, ghostVars
  <1>7. CASE Fault(h)
    BY <1>7 DEF Fault, Alive
  <1>. QED  BY <1>1, <1>2, <1>3, <1>4, <1>5, <1>6, <1>7 DEF Step

\* A start that finds nobody alive and is not stranded is at the right stage.
LEMMA StartReady ==
    ASSUME WatcherInv, RecordInv, NEW h \in Hosts, Start(h), ~Stranded
    PROVE  pc'[h] = "route" /\ Ready(h)'
  <1>. USE DEF Claimed, Creates, Elects, Records, Filling
  <1>0. /\ pc \in [Hosts -> Stages] /\ proc[h] = "unborn" /\ DOMAIN prior = Hosts
        /\ lock # NoLock => proc[lock.owner] # "unborn"
    BY DEF WatcherInv, HostTypes, Start, RecordInv, ClaimsHold
  <1>1. PointerReadable
    BY DEF Stranded
  <1>2. pc'[h] = "route"
    BY <1>0, <1>1 DEF Start, Go
  <1>3. UNCHANGED <<rootVars, execVars, selVars, diskVars, outer>> /\ prior'[h] = FixedPointer
    BY <1>0 DEF Start
  <1>4. ~Stranded' /\ FixedPointer' = FixedPointer /\ lock' = lock
    BY <1>3, StrandedKept DEF FixedPointer, At, diskVars, rootVars
  <1>5. NotMine(h)'
    BY <1>0, <1>4 DEF NotMine
  <1>. QED  BY <1>2, <1>3, <1>4, <1>5 DEF Ready, Takes, Recovers

LEMMA LoneStep ==
    ASSUME BootstrapAssumption, SentinelAssumption, WatcherInv, JournalInv, RecordInv, LoneInv,
           NEW h \in Hosts, Step(h)
    PROVE  LoneInv'
  <1>0. /\ pc \in [Hosts -> Stages] /\ DOMAIN proc = Hosts
        /\ DOMAIN lone = Hosts /\ DOMAIN stranded = Hosts
    BY DEF WatcherInv, HostTypes, LoneInv
  <1>1. CASE Start(h)
    <2>1. /\ proc[h] = "unborn" /\ proc' = [proc EXCEPT ![h] = "live"]
          /\ lone' = [g \in Hosts |-> IF g = h THEN \A o \in Hosts : ~(proc[o] = "live")
                                      ELSE lone[g] /\ ~(proc[g] = "live")]
          /\ stranded' = [stranded EXCEPT ![h] = Stranded]
          /\ Go(h, IF PointerReadable THEN "route" ELSE "refused")
      BY <1>1 DEF Start
    <2>2. ~Stranded => pc'[h] = "route" /\ Ready(h)'
      BY <1>1, StartReady
    <2>3. ASSUME NEW g \in Hosts, lone'[g]
          PROVE  /\ proc'[g] = "live" => \A o \in Hosts \ {g} : proc'[o] # "live"
                 /\ pc'[g] = "refused" => stranded'[g]
                 /\ proc'[g] = "live" /\ ~stranded'[g] => Ready(g)'
      <3>1. CASE g = h
        <4>1. stranded'[g] = Stranded
          BY <1>0, <2>1, <3>1
        <4>2. \A o \in Hosts \ {g} : proc'[o] # "live"
          BY <1>0, <2>1, <2>3, <3>1
        <4>. QED  BY <2>2, <3>1, <4>1, <4>2
      <3>2. CASE g # h
        <4>1. lone[g] /\ proc[g] # "live" /\ proc'[g] = proc[g]
          BY <1>0, <2>1, <2>3, <3>2
        <4>2. pc'[g] = pc[g] /\ stranded'[g] = stranded[g]
          BY <1>0, <2>1, <3>2 DEF Go
        <4>. QED  BY <4>1, <4>2 DEF LoneInv
      <3>. QED  BY <3>1, <3>2
    <2>4. DOMAIN lone' = Hosts /\ DOMAIN stranded' = Hosts
      BY <1>0, <2>1
    <2>. QED  BY <2>3, <2>4 DEF LoneInv
  <1>2. CASE ~Start(h)
    <2>1. Alive(h) /\ stranded' = stranded
      BY <1>2, GhostStep
    <2>2. \/ UNCHANGED <<proc, lone>>
          \/ /\ proc' = [proc EXCEPT ![h] = "dead"] /\ lone' = lone
             /\ pc'[h] = "refused" => pc[h] = "refused"
          \/ Fault(h) /\ lone' = [lone EXCEPT ![h] = FALSE]
      BY <1>2, GhostStep
    <2>3. /\ \A g \in Hosts : lone'[g] => lone[g] /\ (g = h => ~Fault(h) \/ lone' = lone)
          /\ \A g \in Hosts : proc'[g] = "live" => proc[g] = "live"
          /\ \A g \in Hosts \ {h} : pc'[g] = pc[g]
      <3>1. \A g \in Hosts \ {h} : pc'[g] = pc[g]
        BY OthersKept
      <3>2. \A g \in Hosts : proc'[g] = "live" => proc[g] = "live"
        BY <1>0, <2>2 DEF Fault, Reject
      <3>3. \A g \in Hosts : lone'[g] => lone[g] /\ (g = h => ~Fault(h) \/ lone' = lone)
        BY <1>0, <2>2
      <3>. QED  BY <3>1, <3>2, <3>3
    <2>4. ASSUME NEW g \in Hosts, lone'[g]
          PROVE  /\ proc'[g] = "live" => \A o \in Hosts \ {g} : proc'[o] # "live"
                 /\ pc'[g] = "refused" => stranded'[g]
                 /\ proc'[g] = "live" /\ ~stranded'[g] => Ready(g)'
      <3>0. /\ lone[g]
            /\ proc[g] = "live" => \A o \in Hosts \ {g} : proc[o] # "live"
            /\ pc[g] = "refused" => stranded[g]
            /\ proc[g] = "live" /\ ~stranded[g] => Ready(g)
        BY <2>3, <2>4 DEF LoneInv
      <3>1. proc'[g] = "live" => \A o \in Hosts \ {g} : proc'[o] # "live"
        BY <2>3, <3>0
      <3>2. CASE g # h
        BY <2>1, <2>3, <3>0, <3>2 DEF Alive
      <3>3. CASE g = h
        <4>1. ~Fault(h)
          <5>1. Fault(h) => lone' = [lone EXCEPT ![h] = FALSE]
            BY DEF Fault
          <5>. QED  BY <1>0, <2>4, <3>3, <5>1
        <4>2. CASE stranded[h]
          BY <2>1, <3>1, <3>3, <4>2
        <4>3. CASE ~stranded[h]
          <5>1. Alone(h)
            BY <2>1, <3>0, <3>3, <4>3 DEF Alone, Alive
          <5>2. proc'[h] = "live" => Ready(h)'
            BY <4>1, <5>1, ReadyStep
          <5>3. proc'[h] = "live" => pc'[h] # "refused"
            BY <5>2 DEF Ready
          <5>4. proc'[h] # "live" => pc'[h] # "refused"
            BY <2>1, <2>2, <3>0, <3>3, <4>1, <4>3 DEF Alive
          <5>. QED  BY <3>1, <3>3, <5>2, <5>3, <5>4
        <4>. QED  BY <4>2, <4>3
      <3>. QED  BY <3>2, <3>3
    <2>5. DOMAIN lone' = Hosts /\ DOMAIN stranded' = Hosts
      BY <1>0, <2>1, <2>2
    <2>. QED  BY <2>4, <2>5 DEF LoneInv
  <1>. QED  BY <1>1, <1>2

\* A start that has the vault to itself and was not stranded when it began is
\* never refused, however the hosts before it died (journal.ts:906-1941,
\* 2057-2157, host.ts: startWatcherHost).
THEOREM LoneStartAlwaysServes == Spec => []LoneStartServes
  <1>1. Init => LoneInv
    BY DEF Init, LoneInv
  <1>2. LoneInv /\ RecordInv /\ WatcherInv /\ JournalInv /\ [Next]_vars => LoneInv'
    <2>. SUFFICES ASSUME LoneInv, RecordInv, WatcherInv, JournalInv, [Next]_vars
                  PROVE  LoneInv'
      OBVIOUS
    <2>1. CASE Next
      BY <2>1, LoneStep, BootstrapAssumption, SentinelAssumption DEF Next
    <2>2. CASE UNCHANGED vars
      <3>1. UNCHANGED <<proc, pc, prior, observed, myClaim, target, held, sawLast, rootVars, execVars,
                        selVars, diskVars, outer, lone, stranded>>
        BY <2>2 DEF vars, startVars, ghostVars
      <3>2. Stranded' = Stranded /\ RoutesToRecovery' = RoutesToRecovery
        BY <3>1, StrandedKept
      <3>3. ASSUME NEW h \in Hosts, Ready(h)
            PROVE  Ready(h)'
        <4>1. UNCHANGED <<lock, claim, executor, execStage, chain, selector, selectorClaim, candidates,
                          disk, boundLock, bridgeClaim>>
          BY <3>1 DEF rootVars, execVars, selVars, diskVars
        <4>2. /\ OneLine' = OneLine /\ NotCut' = NotCut /\ Last' = Last
              /\ \A k, st : At(k, st)' = At(k, st)
              /\ \A k, t : Another(k, t)' = Another(k, t)
              /\ PlannedWhole' = PlannedWhole /\ WholeFiles' = WholeFiles /\ FixedPointer' = FixedPointer
              /\ Foreign(claim)' = Foreign(claim)
          BY <3>1, <4>1, ExecKept DEF At, Another, Present, PlannedWhole, WholeFiles, FixedPointer, Foreign
        <4>3. Takes(h)'
          <5>1. TerminalEvidence' = TerminalEvidence
            BY <4>1, <4>2 DEF TerminalEvidence, Foreign
          <5>2. Fit(h) => Fit(h)'
            BY <3>1, FitKept, <4>1 DEF diskVars, selVars
          <5>3. Takes(h)
            BY <3>3 DEF Ready
          <5>. QED  BY <3>1, <4>1, <5>1, <5>2, <5>3 DEF Takes, NotMine, NewLock
        <4>4. Follows(h)' = Follows(h) /\ KnownLock(h)' = KnownLock(h) /\ NotMine(h)' = NotMine(h)
              /\ Claimed(h)' = Claimed(h) /\ Creates(h)' = Creates(h) /\ Room(target[h])' = Room(target[h])
          BY <3>1, <4>1, <4>2 DEF Follows, KnownLock, NotMine, Claimed, Creates, Room
        <4>5. Recovers(h)'
          BY <3>1, <3>2, <3>3, <4>1, <4>2, <4>4 DEF Ready, Recovers
        <4>. QED  BY <3>1, <3>2, <3>3, <4>2, <4>3, <4>4, <4>5 DEF Ready
      <3>. QED  BY <3>1, <3>3 DEF LoneInv
    <2>. QED  BY <2>1, <2>2
  <1>3. LoneInv => LoneStartServes
    BY DEF LoneInv, LoneStartServes
  <1>. QED
    BY <1>1, <1>2, <1>3, RecordInvariant, WatcherInvariant, JournalInvariant, PTL DEF Spec

===============================================================================
