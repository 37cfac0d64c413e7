------------------------------ MODULE MCLiveness ------------------------------
(***************************************************************************)
(* What the managed MOC pipeline, the effects executor and the watcher     *)
(* host do in the end, on one small instance of each.  They share no state *)
(* here, so a behaviour is one of one of them: part says of which, and the *)
(* variables of the others stay as they began.                             *)
(***************************************************************************)
EXTENDS MCMoc

CONSTANTS
  b0, b1, t1, r1, r2, Effects, Targets, Bytes, Runs, TargetOf, Prior, Proposed, RunOf,
  Original, InitialTarget, NoReceipt, MaxTargetEdits, MaxDeaths, MaxIoErrors, MaxAttempts,
  Requests, MaxVersions, MaxFaults

VARIABLES
  part,
  \* EffectsExecutor
  journal, target, temp, lock, arch, versions, alias, archVersions, archAlias, audit,
  checkpoint, pc, mode, cur, out, bound, todo, heads, unsafe, latched, checked, corrupt,
  applied, replaced, validated, targetEdits, deaths, ioErrors,
  \* WatcherHost
  version, notice, gen, cut, orphan, past, tail, hostUp, job, retry, retryTimer, debounce, periodic,
  queued, hints, coverage, committed, closing, req, faults, told, absorbed, unrecorded

Executor == INSTANCE EffectsProperties WITH
  MaxEdits <- MaxTargetEdits, MaxCrashes <- MaxDeaths, MaxFailures <- MaxIoErrors,
  raced <- replaced, edits <- targetEdits, crashes <- deaths, failures <- ioErrors

Host == INSTANCE WatcherHost WITH
  MaxEdits <- MaxVersions, up <- hostUp, pending <- queued

\* An effect and its rollback.
ChainTargetOf == <<t1, t1>>
ChainPrior == <<b0, b1>>
ChainProposed == <<b1, b0>>
ChainRunOf == <<r1, r2>>
ChainOriginal == <<0, 1>>
ChainInitial == [t \in {t1} |-> b0]

executorVars ==
  <<journal, target, temp, lock, arch, versions, alias, archVersions, archAlias, audit,
    checkpoint, pc, mode, cur, out, bound, todo, heads, unsafe, latched, checked, corrupt,
    applied, replaced, validated, targetEdits, deaths, ioErrors>>

hostLoopVars ==
  <<version, notice, gen, cut, orphan, past, tail, hostUp, job, retry, retryTimer, debounce,
    periodic, queued, hints, coverage, committed, closing, req, faults, told, absorbed, unrecorded>>

LiveInit == part \in {"moc", "effects", "host"} /\ Init /\ Executor!Init /\ Host!Init

LiveNext ==
  \/ part = "moc" /\ Next /\ UNCHANGED <<part, executorVars, hostLoopVars>>
  \/ part = "effects" /\ Executor!Next /\ UNCHANGED <<part, vars, hostLoopVars>>
  \/ part = "host" /\ Host!Next /\ UNCHANGED <<part, vars, executorVars>>

LiveSpec ==
  /\ LiveInit
  /\ [][LiveNext]_<<part, vars, executorVars, hostLoopVars>>
  /\ WF_vars(part = "moc" /\ Coordinate) /\ WF_vars(part = "moc" /\ (Reconcile \/ FailEffect))
  /\ WF_vars(part = "moc" /\ StartUp) /\ WF_vars(part = "moc" /\ Receive)
  /\ WF_vars(part = "moc" /\ TimerTick) /\ WF_vars(part = "moc" /\ TickNow)
  /\ WF_vars(part = "moc" /\ Advance)
  /\ WF_executorVars(part = "effects" /\ (Executor!Execute \/ Executor!Record \/ Executor!Recover))
  /\ WF_hostLoopVars(part = "host" /\ Host!JobStep)
  /\ WF_hostLoopVars(part = "host" /\ Host!DebounceFires)
  /\ WF_hostLoopVars(part = "host" /\ Host!PeriodicFires)
  /\ WF_hostLoopVars(part = "host" /\ Host!RetryFires)
  /\ WF_hostLoopVars(part = "host" /\ Host!Start)

-------------------------------------------------------------------------------
\* Every effect with an entry is decided in the end, or recovery blocks writes.
StartedIsDecided == Executor!StartedIsDecided

\* When the host stays up and the vault rests, its content is published.
EditsArePublished == part = "host" => Host!EditsArePublished
===============================================================================
