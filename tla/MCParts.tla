-------------------------------- MODULE MCParts --------------------------------
(***************************************************************************)
(* Small instances of parts that share no state: the vault lease, the loop *)
(* of a running watcher host and its publication, the writers of the       *)
(* retrieval state, the ingest authority, the Graphiti ledger and the      *)
(* scheduler of searches.  Interleaving them would show nothing, so a      *)
(* behaviour is one of one of them: part says of which, and the variables  *)
(* of the others stay as they began.                                       *)
(***************************************************************************)
EXTENDS MCLease

CONSTANTS Nothing, s1, Requests, MaxEdits, MaxFailures, Readers, MaxAttempts, MaxDeaths, MaxTorn, MaxIoErrors,
          LedgerJobs, ScopeOf, CorpusOf, Episodes, Workers, Capacity, MaxChanges, NoLedgerJob, NoWorker,
          Credentials, Sessions, Searches, SearchedBy, CapOf, Slots, QueueCap, CredentialCap, SessionCap

VARIABLES
  part,
  \* WatcherHost
  version, notice, gen, cut, orphan, past, tail, up, job, retry, retryTimer, debounce, periodic,
  pending, hints, coverage, committed, closing, req, failures, told, absorbed, unrecorded,
  \* WatcherPublication
  immutable, stage, guard, temp, fixed, authTemp, authority, prepared, complete, active,
  step, publishing, attempts, crashes, torn, ioErrors, reader,
  \* StateWriters
  writerLock, writerClaim, writerClaimant, ingestLock, watcherLock, journals, pointer,
  writerStep, writers, writerPrior, recoveryRead, overlapped,
  \* IngestActivation
  authorityLock, authorityClaim, authorityClaimant, files, stray, ingestStep, owners,
  snapshot, found, retired, refused, crossed,
  \* GraphitiLedger
  state, token, expired, current, changes, graph, workerStep, work, mapped, late, claimed,
  purge, fenced,
  \* WorkScheduler
  queue, credentials, sessions, running, settled, stale, stopped, passes

Host == INSTANCE HostProofs WITH MaxFaults <- MaxFailures, faults <- failures
Pub == INSTANCE WatcherPublication WITH
  MaxCrashes <- MaxDeaths, MaxFaults <- MaxIoErrors, pc <- step, attempt <- publishing,
  faults <- ioErrors

WriterCasts ==
  {{"l1", "l2", "r1", "i1"}, {"l1", "l2", "r1", "w1"}, {"l1", "r1", "i1", "w1"}, {"l1", "l2", "r1", "r2"}}

Writers == INSTANCE WriterProofs WITH
  Legacy <- {"l1", "l2"}, Recoverers <- {"r1", "r2"}, Ingest <- {"i1"}, Watchers <- {"w1"},
  Casts <- WriterCasts, NoFile <- Nothing, NoPointer <- "none", Tombstone <- "tombstone",
  lock <- writerLock, claim <- writerClaim, claimant <- writerClaimant, pc <- writerStep,
  alive <- writers, prior <- writerPrior, read <- recoveryRead

Activation == INSTANCE ActivationProofs WITH
  Owners <- {"o1", "o2"}, Recoveries <- {"r1", "r2"}, None <- Nothing,
  lock <- authorityLock, claim <- authorityClaim, claimant <- authorityClaimant,
  temp <- stray, pc <- ingestStep, alive <- owners

Ledger == INSTANCE GraphitiLedger WITH
  Jobs <- LedgerJobs, NoJob <- NoLedgerJob, pc <- workerStep

\* The jobs are successive generations of one corpus.
OneScope == [j \in LedgerJobs |-> "s1"]
OneCorpus == [j \in LedgerJobs |-> "c1"]

Pool == INSTANCE SchedulerProofs WITH Jobs <- Searches, PlaceOf <- SearchedBy

\* Three searches of each credential, two of them in one session; one credential may
\* hold one slot, the other two.
SearchOf ==
  << <<"c1", "x1">>, <<"c1", "x1">>, <<"c1", "x2">>, <<"c2", "x1">>, <<"c2", "x1">>, <<"c2", "x2">> >>
SlotsOf == [c \in Credentials |-> IF c = "c1" THEN 1 ELSE 2]

\* What the theorems about these parts assume of their constants.
ASSUME PartsAssumption ==
  /\ Host!HostAssumption /\ Pub!PublicationAssumption
  /\ Writers!WriterAssumption /\ Activation!ActivationAssumption /\ Ledger!LedgerAssumption
  /\ Pool!SchedulerAssumption

hostVars ==
  <<version, notice, gen, cut, orphan, past, tail, up, job, retry, retryTimer, debounce, periodic,
    pending, hints, coverage, committed, closing, req, failures, told, absorbed, unrecorded>>
publicationVars ==
  <<immutable, stage, guard, temp, fixed, authTemp, authority, prepared, complete, active,
    step, publishing, attempts, crashes, torn, ioErrors, reader>>

writerVars ==
  <<writerLock, writerClaim, writerClaimant, ingestLock, watcherLock, journals, pointer,
    writerStep, writers, writerPrior, recoveryRead, overlapped>>
ingestVars ==
  <<authorityLock, authorityClaim, authorityClaimant, files, stray, ingestStep, owners,
    snapshot, found, retired, refused, crossed>>
ledgerVars ==
  <<state, token, expired, current, changes, graph, workerStep, work, mapped, late, claimed,
    purge, fenced>>
schedulerVars ==
  <<queue, credentials, sessions, running, settled, stale, stopped, passes>>

\* A part that is not looked at begins in one state only.
PartsInit ==
  /\ part \in {"lease", "host", "publication", "writers", "ingest", "ledger", "scheduler"}
  /\ Init /\ Host!Init /\ Pub!Init
  /\ Writers!Init /\ Activation!Init /\ Ledger!Init /\ Pool!Init
  /\ part # "writers" => "r2" \in writers
  /\ part # "ingest" => files.legacy = "none"

Only(p, others) == part = p /\ UNCHANGED <<part, others>>

PartsNext ==
  \/ Only("lease", <<hostVars, publicationVars, writerVars, ingestVars, ledgerVars, schedulerVars>>) /\ Next
  \/ Only("host", <<vars, publicationVars, writerVars, ingestVars, ledgerVars, schedulerVars>>) /\ Host!Next
  \/ Only("publication", <<vars, hostVars, writerVars, ingestVars, ledgerVars, schedulerVars>>) /\ Pub!Next
  \/ Only("writers", <<vars, hostVars, publicationVars, ingestVars, ledgerVars, schedulerVars>>) /\ Writers!Next
  \/ Only("ingest", <<vars, hostVars, publicationVars, writerVars, ledgerVars, schedulerVars>>) /\ Activation!Next
  \/ Only("ledger", <<vars, hostVars, publicationVars, writerVars, ingestVars, schedulerVars>>) /\ Ledger!Next
  \/ Only("scheduler", <<vars, hostVars, publicationVars, writerVars, ingestVars, ledgerVars>>) /\ Pool!Next

PartsSpec ==
  PartsInit /\
  [][PartsNext]_<<part, vars, hostVars, publicationVars, writerVars, ingestVars, ledgerVars, schedulerVars>>

-------------------------------------------------------------------------------
\* The host's variables have their types, and a stopping host has no timer armed.
HostTypeOK == part = "host" => Host!HostTypeOK

\* A failed reconciliation the journal holds stays armed for its retry.
FailureIsRetried == part = "host" => Host!FailureIsRetried

\* What a delivered hint was about is committed or will be scanned.
HintsReachAScan == part = "host" => Host!HintsReachAScan

\* Coverage is evidence about the published generation.
CoverageIsOfTheGeneration == part = "host" => Host!CoverageIsOfTheGeneration

\* A search and a fresh status answer with content the vault had meanwhile.
AnswersAreCurrent == part = "host" => Host!AnswersAreCurrent

\* A reader of the pointer gets a complete generation, never an older one than
\* was current when it began.
ReadersSeeActivated == part = "publication" => Pub!ReadersSeeActivated

\* Guard, pointer, authority and journal agree at every point of a publication.
StoresAgree == part = "publication" => Pub!StoresAgree

\* A publication that was cut short is finished by the next start, but for the
\* listed files.
RecoveryFinishes == part = "publication" => Pub!RecoveryFinishes

\* One legacy, ingest or watcher process writes the retrieval state at a time, and a
\* legacy writer replaces only the pointer it started from, unless recoveries overlap.
OneWriter == part = "writers" => Writers!OneWriter

\* An activation or a blocked attempt happens as a whole or not at all, and a dead
\* owner's is recovered, but for the listed deaths.
TransitionsComplete == part = "ingest" => Activation!TransitionsComplete

\* Only a whole graph, never quarantined or revoked, is published, one per scope.
PublishedIsWhole == part = "ledger" => Ledger!PublishedIsWhole

\* Nothing writes to the graph of a purged job.
PurgedStaysAbsent == part = "ledger" => Ledger!PurgedStaysAbsent

\* No slot stays free while a search could have it, and waiting sessions and
\* credentials take turns.
WaitersAreServed == part = "scheduler" => Pool!WaitersAreServed
================================================================================
