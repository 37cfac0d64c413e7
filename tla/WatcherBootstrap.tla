-------------------------- MODULE WatcherBootstrap --------------------------
(***************************************************************************)
(* How a vault watcher host becomes the one owner of the watcher state:    *)
(* the host lock `watcher-authority.lock` with its recovery claim, the     *)
(* creation of the first journal (true genesis), and the recovery of a     *)
(* genesis whose process died (src/src/watcher/journal.ts and the start    *)
(* of src/src/watcher/host.ts).  Hosts are processes, each started once;   *)
(* everything else is files, and every step of a host is the reads and the *)
(* one file operation the code does between two of them.                   *)
(*                                                                         *)
(* A file is written in full or, when its writer dies inside the write, is *)
(* left "torn".  An artifact that is published through a stage goes        *)
(* "none" -> "stage" -> "linked" (stage and final name are one inode, so a *)
(* reader that insists on one link refuses it) -> "final".                 *)
(*                                                                         *)
(* Before and after each operation the code compares the directory with    *)
(* the state it last saw and refuses on a foreign change; what that sees   *)
(* depends on the file system, so here it only MAY refuse: Fault.          *)
(***************************************************************************)
EXTENDS Naturals, FiniteSets, FiniteSetsExt

CONSTANTS
  Hosts,      \* host processes; process ids are not reused
  Targets,    \* journal identities buildJournalRecords can draw
  NoHost, NoTarget, NoLock, NoClaim,
  MaxCrashes, \* hosts that may die without a shutdown
  MaxTorn,    \* of these, the ones that may die inside a write
  MaxFaults   \* starts that may fail with an I/O error or a foreign change

ASSUME BootstrapAssumption ==
  /\ MaxCrashes \in Nat /\ MaxTorn \in Nat /\ MaxFaults \in Nat
  /\ NoHost \notin Hosts /\ NoTarget \notin Targets

VARIABLES
  proc,       \* host -> "unborn", "live" or "dead"
  pc,         \* host -> the next step of its start
  prior,      \* host -> journal pointer it read first (priorJournalPointer)
  observed,   \* host -> the stale lock its recovery is about
  myClaim,    \* host -> the recovery claim it goes by
  target,     \* host -> the journal it creates, recovers or serves
  held,       \* host -> startWatcherHost has its host lock capability
  sawLast,    \* host -> last executor of the chain it read
  lock,       \* watcher-authority.lock
  claim,      \* watcher-authority.recovery
  executor,   \* the selected recovery executor
  execStage,  \* stage of the next executor
  chain,      \* immutable executor records: [by, ord, prior]
  selector,   \* the selected bootstrap target
  selectorClaim, \* the recovery claim, and with it the lock, its record names
  candidates, \* selector candidates: [by, to, torn, claim]
  disk,       \* staged and written artifacts: leaf -> journal -> status
  boundLock,  \* journal -> the lock its planned target names
  bridgeClaim,\* the claim the recovery bridge names
  outer,      \* an outer generation has been published
  crashes, torn, faults,
  lone,       \* history: host -> no other host has been alive since it began
  stranded    \* history: host -> what it found at its start (see Stranded)

startVars == <<prior, observed, myClaim, target, held, sawLast>>
rootVars == <<lock, claim>>
execVars == <<executor, execStage, chain>>
selVars == <<selector, selectorClaim, candidates>>
diskVars == <<disk, boundLock, bridgeClaim>>
boundVars == <<crashes, torn, faults>>
ghostVars == <<lone, stranded>>
vars == <<proc, pc, startVars, rootVars, execVars, selVars, diskVars, outer,
          boundVars, ghostVars>>

Statuses == {"none", "torn", "stage", "linked", "final"}

\* Names that do not carry the journal's digest hold one journal at a time.
FixedNames == {"bridge", "guard", "fixed", "authority"}
Leaves == FixedNames \cup {"planned", "witness", "database", "generation", "pointer"}

HostLocks == [owner : Hosts, prior : Targets \cup {NoTarget}]
Claims == [by : Hosts, lock : HostLocks]
NoStage == [st |-> "none", by |-> NoHost, ord |-> 0, prior |-> NoHost]
Executors == [by : Hosts, ord : Nat, prior : Hosts \cup {NoHost}]

ASSUME SentinelAssumption == NoLock \notin HostLocks /\ NoClaim \notin Claims

(***************************************************************************)
(* Reads.                                                                  *)
(***************************************************************************)
MutantAlive(h) == FALSE
Alive(h) == proc[h] = "live"

At(leaf, st) == {t \in Targets : disk[leaf][t] = st}
Present(leaf) == {t \in Targets : disk[leaf][t] # "none"}

MutantAnother(leaf, t) == FALSE
Another(leaf, t) == leaf \in FixedNames /\ Present(leaf) \ {t} # {}

\* A leaf of the watcher directory other than journals/ and the lock, or a
\* leaf of the journal directory: what trueJournalGenesis does not admit.
Debris ==
  \/ claim # NoClaim \/ executor # NoHost \/ execStage # NoStage \/ chain # {}
  \/ selector # NoTarget \/ candidates # {}
  \/ \E k \in Leaves : Present(k) # {}

\* readWatcherPointer: the fixed pointer has one link and its artifact agrees.
PointerReadable == At("fixed", "linked") = {}
                   /\ \A t \in At("fixed", "final") : disk["pointer"][t] = "final"
FixedPointer == IF At("fixed", "final") = {} THEN NoTarget
                ELSE CHOOSE t \in Targets : disk["fixed"][t] = "final"

\* bootstrapRecoveryActive of startWatcherHost.
RecoveryActive(h) == \/ claim # NoClaim \/ executor # NoHost \/ execStage # NoStage
                     \/ prior[h] = NoTarget /\ lock # NoLock

\* Whole candidates about another claim than c: a sweep refuses at the first one.
Foreign(c) == {d \in candidates : ~d.torn /\ d.claim # c}

\* What a refused sweep may leave.
Swept(c) == {kept \in SUBSET candidates : Foreign(c) \subseteq kept}

\* validateWatcherBootstrapTerminalEvidence, once a bridge exists.
TerminalEvidence ==
  \/ At("bridge", "linked") \cup At("bridge", "final") = {}
  \/ /\ At("bridge", "final") # {}
     /\ claim = NoClaim /\ executor = NoHost /\ execStage = NoStage
     /\ disk["bridge"][selector] = "final" /\ selectorClaim = bridgeClaim
     /\ Foreign(bridgeClaim) = {}
     /\ disk["authority"][selector] = "final"

\* openWatcherJournal of a journal without an anchor.
Openable(t) == /\ FixedPointer = t
               /\ \A k \in {"generation", "database", "authority", "planned", "witness"} :
                    disk[k][t] = "final"

\* readExecutorChain accepts the records; the last of them.
Linear == /\ \A r \in chain : \E s \in chain \cup {NoStage} :
                IF r.ord = 0 THEN r.prior = NoHost ELSE s.by = r.prior /\ s.ord + 1 = r.ord
          /\ \A r, s \in chain : r.ord = s.ord => r = s

Last == IF chain = {} THEN NoHost
        ELSE (CHOOSE r \in chain : \A s \in chain : s.ord <= r.ord).by

Staged == [by |-> execStage.by, ord |-> execStage.ord, prior |-> execStage.prior]

-----------------------------------------------------------------------------
(***************************************************************************)
(* A start that rejects.  The catch block of startWatcherHost releases the *)
(* lock it was given; a lock that a recovery wrote but has not returned    *)
(* stays.  The process lives on until it exits.                            *)
(***************************************************************************)
Go(h, next) == pc' = [pc EXCEPT ![h] = next]

Reject(h) ==
  /\ Go(h, "refused")
  /\ held' = [held EXCEPT ![h] = FALSE]
  /\ lock' = IF held[h] /\ lock # NoLock /\ lock.owner = h THEN NoLock ELSE lock
  /\ UNCHANGED <<proc, prior, observed, myClaim, target, sawLast, claim, execVars,
                 selVars, diskVars, outer>>

Refuse(h) == Reject(h) /\ UNCHANGED <<boundVars, ghostVars>>

\* Everything a step leaves alone when it changes only pc and what is listed.
KeepDisk == UNCHANGED <<selVars, diskVars, execVars>>
KeepRest == UNCHANGED <<proc, outer, boundVars, ghostVars>>

(***************************************************************************)
(* What a lone start may find that the code has no way out of.             *)
(***************************************************************************)
TornForGood ==
  \/ At("guard", "torn") # {} \/ At("authority", "torn") # {}
  \/ At("generation", "torn") # {} \/ At("pointer", "torn") # {}
  \/ selector = NoTarget /\ At("planned", "torn") # {}
  \/ execStage.st = "torn" /\ executor = NoHost /\ chain # {}

\* The executor records are one line, and the one that is staged, or else the
\* one that is selected, ends it.
OneLine ==
  /\ Linear
  /\ IF execStage.st = "stage"
     THEN /\ \A r \in chain : r.ord < execStage.ord \/ r = Staged
          /\ executor \in {NoHost, execStage.by, execStage.prior}
     ELSE executor \in {NoHost, Last}

\* A takeover of the lock and a recovery of the genesis, or two recoveries, ran
\* at the same time: what one of them left is about a lock, a claim or a journal
\* that the other has done away with.
Crossed ==
  \/ Foreign(claim) # {}
  \/ selector # NoTarget /\ (selectorClaim # claim \/ \E k \in FixedNames : Another(k, selector))
  \/ selector = NoTarget /\ \E t \in Present("planned") : boundLock[t] # lock
  \/ claim # NoClaim /\ lock \notin {claim.lock, NoLock}
     /\ ~(lock.prior = selector /\ \E r \in chain : r.by = lock.owner)
  \/ ~OneLine

\* The route startWatcherHost takes next, were it to start now.
RoutesToRecovery == \/ claim # NoClaim \/ executor # NoHost \/ execStage # NoStage
                    \/ FixedPointer = NoTarget /\ lock # NoLock

Stranded ==
  \/ ~PointerReadable \/ At("bridge", "linked") # {} \/ TornForGood
  \/ /\ RoutesToRecovery
     /\ \/ outer \/ Crossed
        \/ At("bridge", "final") # {} /\ claim = NoClaim
        \/ /\ At("bridge", "final") = {}
           /\ lock = NoLock \/ lock.prior # NoTarget
  \/ /\ ~RoutesToRecovery
     /\ \/ FixedPointer = NoTarget /\ Debris
        \/ FixedPointer # NoTarget /\ ~(Openable(FixedPointer) /\ TerminalEvidence)

-----------------------------------------------------------------------------
(***************************************************************************)
(* The start: read the pointer, choose the route.                          *)
(***************************************************************************)
Start(h) ==
  /\ proc[h] = "unborn"
  /\ proc' = [proc EXCEPT ![h] = "live"]
  /\ prior' = [prior EXCEPT ![h] = FixedPointer]
  /\ Go(h, IF PointerReadable THEN "route" ELSE "refused")
  /\ lone' = [g \in Hosts |-> IF g = h THEN \A o \in Hosts : ~(proc[o] = "live")
                              ELSE lone[g] /\ ~(proc[g] = "live")]
  /\ stranded' = [stranded EXCEPT ![h] = Stranded]
  /\ UNCHANGED <<observed, myClaim, target, held, sawLast, rootVars, execVars, selVars,
                 diskVars, outer, boundVars>>

Route(h) ==
  /\ pc[h] = "route"
  /\ Go(h, IF RecoveryActive(h) THEN "observe" ELSE "evidence")
  /\ UNCHANGED <<startVars, rootVars>> /\ KeepDisk /\ KeepRest

\* Late candidates of the selection go with the validation.
Evidence(h) ==
  /\ pc[h] = "evidence"
  /\ \/ /\ TerminalEvidence
        /\ Go(h, IF lock # NoLock THEN "observeStale" ELSE "acquire")
        /\ candidates' = IF At("bridge", "final") = {} THEN candidates ELSE {}
        /\ UNCHANGED <<startVars, rootVars, execVars, selector, selectorClaim, diskVars>>
        /\ KeepRest
     \/ /\ ~TerminalEvidence
        /\ Go(h, "refused")
        /\ candidates' \in IF At("bridge", "final") = {} THEN {candidates} ELSE Swept(bridgeClaim)
        /\ UNCHANGED <<startVars, rootVars, execVars, selector, selectorClaim, diskVars>>
        /\ KeepRest

-----------------------------------------------------------------------------
(***************************************************************************)
(* The host lock: acquireWatcherHostLock and recoverWatcherHostLock.       *)
(***************************************************************************)
NewLock(h) == [owner |-> h, prior |-> prior[h]]

Acquire(h) ==
  /\ pc[h] = "acquire"
  /\ \/ claim # NoClaim /\ Refuse(h)
     \/ /\ claim = NoClaim /\ Go(h, "create")
        /\ UNCHANGED <<startVars, rootVars>> /\ KeepDisk /\ KeepRest

Create(h) ==
  /\ pc[h] = "create"
  /\ \/ lock # NoLock /\ Refuse(h)
     \/ /\ lock = NoLock
        /\ lock' = NewLock(h)
        /\ held' = [held EXCEPT ![h] = TRUE]
        /\ Go(h, "open")
        /\ UNCHANGED <<prior, observed, myClaim, target, sawLast, claim>>
        /\ KeepDisk /\ KeepRest

ObserveStale(h) ==
  /\ pc[h] = "observeStale"
  /\ \/ lock # NoLock /\ Alive(lock.owner) /\ Refuse(h)
     \/ /\ lock # NoLock => ~Alive(lock.owner)
        /\ observed' = [observed EXCEPT ![h] = lock]
        /\ Go(h, IF lock = NoLock THEN "acquire" ELSE "claimStale")
        /\ UNCHANGED <<prior, myClaim, target, held, sawLast, rootVars>>
        /\ KeepDisk /\ KeepRest

\* ensureRecoveryClaim: create the claim, or go by one about the same lock.
MutantUsableClaim(h) == /\ ~Alive(observed[h].owner)
                        /\ claim # NoClaim => claim = [by |-> h, lock |-> observed[h]]
UsableClaim(h) == /\ ~Alive(observed[h].owner)
                  /\ claim # NoClaim => claim.lock = observed[h]

\* The ordinary recovery continues only its own claim; the recovery of a
\* genesis continues anybody's.
EnsureClaim(h) ==
  /\ pc[h] \in {"claimStale", "claim"}
  /\ LET mine == IF claim = NoClaim THEN [by |-> h, lock |-> observed[h]] ELSE claim
     IN \/ ~UsableClaim(h) /\ Refuse(h)
        \/ /\ UsableClaim(h)
           /\ claim' = mine
           /\ myClaim' = [myClaim EXCEPT ![h] = mine]
           /\ Go(h, IF pc[h] = "claim" THEN "select"
                    ELSE IF mine.by = h THEN "unlinkStale" ELSE "refused")
           /\ UNCHANGED <<prior, observed, target, held, sawLast, lock>>
           /\ KeepDisk /\ KeepRest

\* unlinkWatcherLeaf removes exactly the lock whose digest was observed.
UnlinkStale(h) ==
  /\ pc[h] = "unlinkStale"
  /\ \/ (lock # observed[h] \/ Alive(observed[h].owner)) /\ Refuse(h)
     \/ /\ lock = observed[h] /\ ~Alive(observed[h].owner)
        /\ lock' = NoLock
        /\ Go(h, "relock")
        /\ UNCHANGED <<startVars, claim>> /\ KeepDisk /\ KeepRest

Relock(h) ==
  /\ pc[h] = "relock"
  /\ \/ lock # NoLock /\ Refuse(h)
     \/ /\ lock = NoLock
        /\ lock' = NewLock(h)
        /\ Go(h, "unclaim")
        /\ UNCHANGED <<startVars, claim>> /\ KeepDisk /\ KeepRest

\* The claim is removed last, by the host that goes by it; with it the lock
\* (and in a genesis recovery the journal) is returned to startWatcherHost.
Unclaim(h) ==
  /\ pc[h] \in {"unclaim", "unclaimRecovered"}
  /\ \/ claim # myClaim[h] /\ Refuse(h)
     \/ /\ claim = myClaim[h]
        /\ claim' = NoClaim
        /\ held' = [held EXCEPT ![h] = TRUE]
        /\ Go(h, IF pc[h] = "unclaim" THEN "open" ELSE "serving")
        /\ UNCHANGED <<prior, observed, myClaim, target, sawLast, lock>>
        /\ KeepDisk /\ KeepRest

-----------------------------------------------------------------------------
(***************************************************************************)
(* With the lock held: open the journal, or create the first one.          *)
(***************************************************************************)
Unused == {t \in Targets : /\ \A k \in Leaves : disk[k][t] = "none"
                           /\ \A h \in Hosts : target[h] # t
                           /\ \A c \in candidates : c.to # t}

Genesis(h) == lock = NewLock(h) /\ ~outer /\ ~Debris

Open(h) ==
  /\ pc[h] = "open"
  /\ \/ /\ prior[h] # NoTarget /\ Openable(prior[h])
        /\ target' = [target EXCEPT ![h] = prior[h]]
        /\ Go(h, "serving")
        /\ UNCHANGED <<prior, observed, myClaim, held, sawLast, rootVars, diskVars>>
     \/ /\ prior[h] = NoTarget /\ Genesis(h)
        /\ \E t \in Unused :
             target' = [target EXCEPT ![h] = t]
        /\ Go(h, "planned")
        /\ UNCHANGED <<prior, observed, myClaim, held, sawLast, rootVars, diskVars>>
     \/ /\ IF prior[h] = NoTarget THEN ~Genesis(h) ELSE ~Openable(prior[h])
        /\ Refuse(h)
  /\ UNCHANGED <<proc, execVars, selVars, outer, boundVars, ghostVars>>

-----------------------------------------------------------------------------
(***************************************************************************)
(* Recovery of a genesis: recoverWatcherJournalBootstrap.                  *)
(***************************************************************************)
BridgeFinal == At("bridge", "final") # {}

Continues == /\ BridgeFinal /\ claim # NoClaim /\ claim = bridgeClaim
             /\ selector # NoTarget /\ disk["bridge"][selector] = "final"
             /\ selectorClaim = claim
Begins == /\ Present("bridge") = {} \/ At("bridge", "stage") # {} \/ At("bridge", "torn") # {}
          /\ lock # NoLock /\ lock.prior = NoTarget

Observe(h) ==
  /\ pc[h] = "observe"
  /\ \/ /\ ~outer /\ Begins
        /\ observed' = [observed EXCEPT ![h] = lock]
        /\ Go(h, "claim")
        /\ UNCHANGED <<myClaim, target>>
     \/ /\ ~outer /\ Continues
        /\ observed' = [observed EXCEPT ![h] = claim.lock]
        /\ myClaim' = [myClaim EXCEPT ![h] = claim]
        /\ target' = [target EXCEPT ![h] = selector]
        /\ Go(h, "late")
     \/ /\ outer \/ ~(Begins \/ Continues)
        /\ Refuse(h)
  /\ UNCHANGED <<prior, held, sawLast, rootVars>> /\ KeepDisk /\ KeepRest

(***************************************************************************)
(* ensureSelectedTarget.  A candidate is chosen or written, and linked to  *)
(* the one selector name without replacing it; the selected target is the  *)
(* one everybody then goes by.  The selector and its candidates name the   *)
(* lock and the claim they are about, and a recovery about another lock or *)
(* by another claim refuses them.                                          *)
(***************************************************************************)
Planned == Present("planned")

\* existingPlannedTarget: at most one, complete, of the observed lock.
PlannedUsable(h) == \/ Planned = {}
                    \/ \E t \in Planned : /\ Planned = {t} /\ disk["planned"][t] # "torn"
                                          /\ boundLock[t] = observed[h]

Select(h) ==
  /\ pc[h] = "select"
  /\ LET broken == {c \in candidates : c.torn}
         whole == candidates \ broken
     IN \/ /\ selector # NoTarget
           /\ Go(h, IF selectorClaim = myClaim[h] THEN "clean" ELSE "refused")
           /\ UNCHANGED <<target, candidates>>
        \/ /\ selector = NoTarget
           /\ \/ \E c \in broken : Alive(c.by)
              \/ Foreign(myClaim[h]) # {}
              \/ whole = {} /\ ~PlannedUsable(h)
           /\ Go(h, "refused")
           /\ \E gone \in SUBSET {c \in broken : ~Alive(c.by)} : candidates' = candidates \ gone
           /\ UNCHANGED target
        \/ /\ selector = NoTarget /\ \A c \in broken : ~Alive(c.by)
           /\ Foreign(myClaim[h]) = {}
           /\ \/ \E c \in whole : /\ target' = [target EXCEPT ![h] = c.to]
                                  /\ candidates' = whole
                                  /\ Go(h, "link")
              \/ /\ whole = {} /\ PlannedUsable(h)
                 /\ \E t \in IF Planned = {} THEN Unused ELSE Planned :
                      /\ target' = [target EXCEPT ![h] = t]
                      /\ candidates' = {[by |-> h, to |-> t, torn |-> FALSE, claim |-> myClaim[h]]}
                 /\ Go(h, "link")
  /\ UNCHANGED <<prior, observed, myClaim, held, sawLast, rootVars, execVars, selector,
                 selectorClaim, diskVars>>
  /\ KeepRest

Link(h) ==
  /\ pc[h] = "link"
  /\ LET mine == {c \in candidates : c.to = target[h] /\ ~c.torn /\ c.claim = myClaim[h]}
     IN \/ /\ mine # {} /\ selector = NoTarget
           /\ selector' = target[h] /\ selectorClaim' = myClaim[h]
           /\ Go(h, "clean")
        \/ /\ mine # {} /\ selector # NoTarget
           /\ Go(h, IF selectorClaim = myClaim[h] THEN "clean" ELSE "refused")
           /\ UNCHANGED <<selector, selectorClaim>>
        \/ /\ mine = {} /\ Go(h, "refused")
           /\ UNCHANGED <<selector, selectorClaim>>
  /\ UNCHANGED <<startVars, rootVars, execVars, candidates, diskVars>> /\ KeepRest

\* The candidates of the selection, and (pc "late") those that came after it.
Clean(h) ==
  /\ pc[h] \in {"clean", "late"}
  /\ \/ /\ Foreign(myClaim[h]) = {}
        /\ candidates' = {}
        /\ target' = [target EXCEPT ![h] = selector]
        /\ Go(h, IF pc[h] = "clean" THEN "planned" ELSE "finish")
     \/ /\ Foreign(myClaim[h]) # {}
        /\ candidates' \in Swept(myClaim[h])
        /\ Go(h, "refused")
        /\ UNCHANGED target
  /\ UNCHANGED <<prior, observed, myClaim, held, sawLast, rootVars, execVars, selector,
                 selectorClaim, diskVars>>
  /\ KeepRest

-----------------------------------------------------------------------------
(***************************************************************************)
(* The artifacts, in the order they are persisted: ensureContentAddressed- *)
(* Artifact, persistBootstrapAuthority and the plain writes.  Every step   *)
(* resumes from what is on disk.                                           *)
(***************************************************************************)
PersistSteps == Leaves

PlainWrites == {"database", "generation", "pointer"}

\* A torn stage is discarded and written anew, but not this one's.
TornIsFinal == {"guard", "authority", "generation", "pointer"}

Grown(k, st) == CASE st \in {"none", "torn"} -> IF k \in PlainWrites THEN "final" ELSE "stage"
                  [] st = "stage" -> "linked"
                  [] st = "linked" -> "final"

AfterLeaf(h, k) ==
  CASE k = "planned" -> "witness"
    [] k = "witness" -> IF held[h] THEN "guard" ELSE "bridge"
    [] k = "bridge" -> "late"
    [] k = "guard" -> "database"
    [] k = "database" -> "generation"
    [] k = "generation" -> "pointer"
    [] k = "pointer" -> "fixed"
    [] k = "fixed" -> "authority"
    [] k = "authority" -> "unguard"

\* The guard is wanted until an authority, of whatever journal, has its name.
AuthorityNamed == At("authority", "linked") \cup At("authority", "final") # {}
Skipped(k, t) == k = "guard" /\ disk["guard"][t] = "none" /\ AuthorityNamed

Persist(h, k) ==
  LET t == target[h]
      st == disk[k][t]
      theirs == k = "bridge" /\ st \in {"stage", "linked", "final"} /\ bridgeClaim # myClaim[h]
  IN /\ pc[h] = k
     /\ \/ /\ Another(k, t) \/ (st = "torn" /\ k \in TornIsFinal) \/ theirs
           /\ Refuse(h)
        \/ /\ ~Another(k, t) /\ ~theirs
           /\ Skipped(k, t) \/ st = "final"
           /\ Go(h, AfterLeaf(h, k))
           /\ UNCHANGED <<startVars, rootVars>> /\ KeepDisk /\ KeepRest
        \/ /\ ~Another(k, t) /\ ~theirs /\ ~Skipped(k, t) /\ st # "final"
           /\ ~(st = "torn" /\ k \in TornIsFinal)
           /\ disk' = [disk EXCEPT ![k][t] = Grown(k, st)]
           /\ boundLock' = IF k = "planned" /\ boundLock[t] = NoLock
                           THEN [boundLock EXCEPT ![t] = IF held[h] THEN lock ELSE observed[h]]
                           ELSE boundLock
           /\ bridgeClaim' = IF k = "bridge" THEN myClaim[h] ELSE bridgeClaim
           /\ UNCHANGED <<pc, startVars, rootVars, execVars, selVars>> /\ KeepRest

\* The bootstrap guard goes last; the journal is then complete.
Unguard(h) ==
  /\ pc[h] = "unguard"
  /\ disk' = [disk EXCEPT !["guard"][target[h]] =
                IF disk["authority"][target[h]] = "final" THEN "none" ELSE @]
  /\ Go(h, IF held[h] THEN "serving" ELSE "newLock")
  /\ UNCHANGED <<startVars, rootVars, execVars, selVars, boundLock, bridgeClaim>> /\ KeepRest

-----------------------------------------------------------------------------
(***************************************************************************)
(* The recovery executor: finishExecutorStage and                          *)
(* selectBootstrapRecoveryExecutor.                                        *)
(***************************************************************************)
MutantOrdOf(h) == IF h = NoHost THEN 0 ELSE (CHOOSE r \in chain : r.by = h).ord + 2
OrdOf(h) == IF h = NoHost THEN 0 ELSE (CHOOSE r \in chain : r.by = h).ord + 1

KeepFinish == UNCHANGED <<startVars, rootVars, selVars, diskVars>> /\ KeepRest

Finish(h) ==
  /\ pc[h] \in {"finish", "install"}
  /\ \/ /\ execStage.st = "none"
        /\ Go(h, IF pc[h] = "finish" THEN "elect" ELSE "elected")
        /\ UNCHANGED execVars /\ KeepFinish
     \/ /\ execStage.st = "torn" /\ (executor # NoHost \/ chain = {})
        /\ execStage' = NoStage
        /\ UNCHANGED <<pc, executor, chain>> /\ KeepFinish
     \/ /\ execStage.st = "stage" /\ Staged \notin chain /\ Linear
        /\ chain' = chain \cup {Staged}
        /\ UNCHANGED <<pc, executor, execStage>> /\ KeepFinish
     \/ /\ execStage.st = "stage" /\ Staged \in chain /\ Linear
        /\ executor \notin {NoHost, execStage.by}
        /\ execStage.prior = executor /\ ~Alive(executor)
        /\ executor' = NoHost
        /\ UNCHANGED <<pc, chain, execStage>> /\ KeepFinish
     \/ /\ execStage.st = "stage" /\ Staged \in chain /\ Linear
        /\ executor = NoHost
        /\ executor' = execStage.by
        /\ UNCHANGED <<pc, chain, execStage>> /\ KeepFinish
     \/ /\ execStage.st = "stage" /\ Staged \in chain /\ Linear
        /\ executor = execStage.by
        /\ execStage' = NoStage
        /\ UNCHANGED <<pc, executor, chain>> /\ KeepFinish
     \/ /\ \/ execStage.st = "torn" /\ executor = NoHost /\ chain # {}
           \/ execStage.st = "stage" /\ ~Linear
           \/ /\ execStage.st = "stage" /\ Staged \in chain
              /\ executor \notin {NoHost, execStage.by}
              /\ execStage.prior # executor \/ Alive(executor)
        /\ Refuse(h)

Elect(h) ==
  /\ pc[h] = "elect"
  /\ \/ ((executor # NoHost /\ Alive(executor)) \/ ~Linear) /\ Refuse(h)
     \/ /\ executor # NoHost => ~Alive(executor)
        /\ Linear
        /\ sawLast' = [sawLast EXCEPT ![h] = Last]
        /\ Go(h, "stageExecutor")
        /\ UNCHANGED <<prior, observed, myClaim, target, held, rootVars>>
        /\ KeepDisk /\ KeepRest

StageExecutor(h) ==
  /\ pc[h] = "stageExecutor"
  /\ \/ execStage # NoStage /\ Refuse(h)
     \/ /\ execStage = NoStage
        /\ execStage' = [st |-> "stage", by |-> h, ord |-> OrdOf(sawLast[h]), prior |-> sawLast[h]]
        /\ Go(h, "install")
        /\ UNCHANGED <<executor, chain>> /\ KeepFinish

Elected(h) ==
  /\ pc[h] = "elected"
  /\ \/ executor # h /\ Refuse(h)
     \/ /\ executor = h /\ Go(h, "stale")
        /\ UNCHANGED <<startVars, rootVars>> /\ KeepDisk /\ KeepRest

-----------------------------------------------------------------------------
(***************************************************************************)
(* The lock of a recovered genesis: removeStaleBootstrapLock and the end   *)
(* of recoverWatcherJournalBootstrap.                                      *)
(***************************************************************************)
KnownOwner(h) == \/ lock = observed[h]
                 \/ lock.prior = target[h] /\ \E r \in chain : r.by = lock.owner

MutantRemoveStale(h) ==
  /\ pc[h] = "stale"
  /\ lock' = NoLock
  /\ Go(h, "guard")
  /\ UNCHANGED <<startVars, claim>> /\ KeepDisk /\ KeepRest
RemoveStale(h) ==
  /\ pc[h] = "stale"
  /\ \/ /\ lock # NoLock /\ (Alive(lock.owner) \/ ~KnownOwner(h))
        /\ Refuse(h)
     \/ /\ lock # NoLock => ~Alive(lock.owner) /\ KnownOwner(h)
        /\ lock' = NoLock
        /\ Go(h, "guard")
        /\ UNCHANGED <<startVars, claim>> /\ KeepDisk /\ KeepRest

CreateRecovered(h) ==
  /\ pc[h] = "newLock"
  /\ \/ lock # NoLock /\ Refuse(h)
     \/ /\ lock = NoLock
        /\ lock' = [owner |-> h, prior |-> target[h]]
        /\ Go(h, "release")
        /\ UNCHANGED <<startVars, claim>> /\ KeepDisk /\ KeepRest

ReleaseExecutor(h) ==
  /\ pc[h] = "release"
  /\ \/ (lock # [owner |-> h, prior |-> target[h]] \/ executor # h) /\ Refuse(h)
     \/ /\ lock = [owner |-> h, prior |-> target[h]] /\ executor = h
        /\ executor' = NoHost
        /\ Go(h, "unclaimRecovered")
        /\ UNCHANGED <<startVars, rootVars, selVars, diskVars, execStage, chain>> /\ KeepRest

-----------------------------------------------------------------------------
(***************************************************************************)
(* Service, shutdown, death.                                               *)
(***************************************************************************)
Mine(h) == held[h] /\ lock # NoLock /\ lock.owner = h

\* The first activation publishes the outer pointer, under the asserted lock.
Publish(h) ==
  /\ pc[h] = "serving" /\ Mine(h) /\ ~outer
  /\ outer' = TRUE
  /\ UNCHANGED <<proc, pc, startVars, rootVars, boundVars, ghostVars>> /\ KeepDisk

Stop(h, next) == /\ proc' = [proc EXCEPT ![h] = "dead"] /\ Go(h, next)
                 /\ UNCHANGED <<startVars, claim, outer, faults, ghostVars, execVars, bridgeClaim, boundLock>>

\* The last step of prepareShutdown: releaseWatcherHostLock.
Shutdown(h) ==
  /\ pc[h] = "serving" /\ Mine(h)
  /\ Stop(h, "stopped")
  /\ lock' = NoLock
  /\ UNCHANGED <<crashes, torn, selVars, disk>>

\* A process whose start was refused goes away when it likes.
Exit(h) ==
  /\ pc[h] = "refused" /\ proc[h] = "live"
  /\ Stop(h, "refused")
  /\ UNCHANGED <<lock, crashes, torn, selVars, disk>>

Crash(h) ==
  /\ proc[h] = "live" /\ pc[h] # "refused" /\ crashes < MaxCrashes
  /\ crashes' = crashes + 1
  /\ Stop(h, "crashed")
  /\ UNCHANGED <<lock, torn, selVars, disk>>

\* Death inside the write of an artifact's stage, an executor's or a candidate.
CrashWriting(h) ==
  /\ proc[h] = "live" /\ crashes < MaxCrashes /\ torn < MaxTorn
  /\ crashes' = crashes + 1 /\ torn' = torn + 1
  /\ proc' = [proc EXCEPT ![h] = "dead"] /\ Go(h, "crashed")
  /\ UNCHANGED <<startVars, rootVars, outer, faults, ghostVars, executor, chain, selector,
                 selectorClaim, boundLock, bridgeClaim>>
  /\ \/ \E k \in PersistSteps \ {"database"} :
          /\ pc[h] = k /\ disk[k][target[h]] \in {"none"}
          /\ ~Skipped(k, target[h]) /\ ~Another(k, target[h])
          /\ disk' = [disk EXCEPT ![k][target[h]] = "torn"]
          /\ UNCHANGED <<execStage, candidates>>
     \/ /\ pc[h] = "stageExecutor" /\ execStage = NoStage
        /\ execStage' = [NoStage EXCEPT !.st = "torn"]
        /\ UNCHANGED <<disk, candidates>>
     \/ /\ pc[h] = "select" /\ selector = NoTarget /\ candidates = {}
        /\ candidates' = {[by |-> h, to |-> NoTarget, torn |-> TRUE, claim |-> NoClaim]}
        /\ UNCHANGED <<disk, execStage>>

\* An I/O error, or a foreign change of a directory seen by the comparison.
Fault(h) ==
  /\ proc[h] = "live" /\ pc[h] \notin {"serving", "refused"} /\ faults < MaxFaults
  /\ faults' = faults + 1
  /\ lone' = [lone EXCEPT ![h] = FALSE]
  /\ Reject(h)
  /\ UNCHANGED <<crashes, torn, stranded>>

Init ==
  /\ proc = [h \in Hosts |-> "unborn"] /\ pc = [h \in Hosts |-> "start"]
  /\ prior = [h \in Hosts |-> NoTarget] /\ observed = [h \in Hosts |-> NoLock]
  /\ myClaim = [h \in Hosts |-> NoClaim] /\ target = [h \in Hosts |-> NoTarget]
  /\ held = [h \in Hosts |-> FALSE] /\ sawLast = [h \in Hosts |-> NoHost]
  /\ lock = NoLock /\ claim = NoClaim
  /\ executor = NoHost /\ execStage = NoStage /\ chain = {}
  /\ selector = NoTarget /\ selectorClaim = NoClaim /\ candidates = {}
  /\ disk = [k \in Leaves |-> [t \in Targets |-> "none"]]
  /\ boundLock = [t \in Targets |-> NoLock] /\ bridgeClaim = NoClaim
  /\ outer = FALSE
  /\ crashes = 0 /\ torn = 0 /\ faults = 0
  /\ lone = [h \in Hosts |-> FALSE] /\ stranded = [h \in Hosts |-> FALSE]

Step(h) ==
  \/ Start(h) \/ Route(h) \/ Evidence(h)
  \/ Acquire(h) \/ Create(h) \/ ObserveStale(h) \/ EnsureClaim(h) \/ UnlinkStale(h)
  \/ Relock(h) \/ Unclaim(h) \/ Open(h)
  \/ Observe(h) \/ Select(h) \/ Link(h) \/ Clean(h)
  \/ \E k \in PersistSteps : Persist(h, k)
  \/ Unguard(h)
  \/ Finish(h) \/ Elect(h) \/ StageExecutor(h) \/ Elected(h)
  \/ RemoveStale(h) \/ CreateRecovered(h) \/ ReleaseExecutor(h)
  \/ Publish(h) \/ Shutdown(h) \/ Exit(h) \/ Crash(h) \/ CrashWriting(h) \/ Fault(h)

Next == \E h \in Hosts : Step(h)

Spec == Init /\ [][Next]_vars

-----------------------------------------------------------------------------
(***************************************************************************)
(* Properties.                                                             *)
(***************************************************************************)
\* The files and the hosts' locals range over what the code can write.
TypeOK ==
  /\ proc \in [Hosts -> {"unborn", "live", "dead"}]
  /\ prior \in [Hosts -> Targets \cup {NoTarget}]
  /\ target \in [Hosts -> Targets \cup {NoTarget}]
  /\ lock \in HostLocks \cup {NoLock}
  /\ claim \in Claims \cup {NoClaim}
  /\ executor \in Hosts \cup {NoHost}
  /\ chain \subseteq [by : Hosts, ord : 0 .. Cardinality(chain) - 1, prior : Hosts \cup {NoHost}]
  /\ disk \in [Leaves -> [Targets -> Statuses]]

\* At most one live host serves the vault, and it is the one the lock names:
\* stale-lock recovery and genesis recovery, by any number of hosts at once,
\* never take the lock away from a live owner (journal.ts:938-973, 2130-2157).
OneHostServes ==
  \A h \in Hosts : pc[h] = "serving" =>
    /\ lock # NoLock /\ lock.owner = h
    /\ \A g \in Hosts \ {h} : pc[g] # "serving"

\* No two hosts write the files of a journal at the same time, whether they
\* create it under the lock or recover it as the selected executor; and nobody
\* writes a file of the journal that is being served: a slow recoverer that
\* meets it finds nothing left to write (journal.ts:1877-1941, 2095-2110).  A
\* recoverer that went by a claim which an ordinary recovery has removed since
\* may still write files of a journal of its own, that nobody will ever serve.
Writing(h) == /\ \/ pc[h] \in {"guard", "database", "generation", "pointer", "fixed", "authority"}
                 \/ held[h] /\ pc[h] \in {"planned", "witness"}
              /\ disk[pc[h]][target[h]] # "final"
              /\ ~Another(pc[h], target[h]) /\ ~Skipped(pc[h], target[h])
OneHostWorks ==
  \A g, h \in Hosts :
    Writing(g) /\ (Writing(h) \/ (pc[h] = "serving" /\ target[h] = target[g])) => g = h

\* One journal ever becomes the vault's: what is fixed, what the authority
\* names and what any host has served are the same, and when a recovery ends
\* it is also the one its selector and its bridge name (journal.ts:1292-1372,
\* 1877-1941).  A selector written by a host that lost a race to an ordinary
\* recovery may name another journal, but that host never gets to fix it.
OneJournal ==
  LET served == {target[h] : h \in {g \in Hosts : pc[g] \in {"serving", "stopped"}}}
      named == At("fixed", "final") \cup At("fixed", "linked") \cup At("authority", "final")
  IN /\ Cardinality(named \cup served) <= 1
     /\ \A h \in Hosts, r \in chain : pc[h] = "serving" /\ r.by = h =>
          selector = target[h] /\ disk["bridge"][selector] = "final"

\* A start that has the vault to itself is refused only in the states listed
\* as Stranded: from every other point at which a host can die, the next one
\* completes the genesis or takes over the lock.
LoneStartServes == \A h \in Hosts : pc[h] = "refused" /\ lone[h] => stranded[h]

\* What the test "host startup automatically completes a dead first-process
\* journal bootstrap" says (test/watcher-service-cli.test.mjs:1217): as long as
\* no file was torn and no start failed, the death of the first process during
\* the genesis does not refuse the next start.
DeadBootstrapCompletes ==
  \A h \in Hosts : pc[h] = "refused" /\ (\A g \in Hosts : proc[g] = "unborn" \/ lone[g])
                   => torn > 0 \/ faults > 0 \/ outer

=============================================================================
