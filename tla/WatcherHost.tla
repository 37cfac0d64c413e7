------------------------------ MODULE WatcherHost ------------------------------
(***************************************************************************)
(* The reconciliation loop of a running vault watcher host                 *)
(* (startWatcherHost in src/src/watcher/host.ts): file system hints, the   *)
(* debounce, periodic and retry timers, one reconciliation with one more   *)
(* pending, the durable retry epoch of a failed one, requests that want a  *)
(* fresh answer, and shutdown.  How the host gets the lock and the journal *)
(* is WatcherBootstrap.  How a generation is published is                  *)
(* WatcherPublication; here a publication is one step, which may be cut    *)
(* short, and what that leaves behind stays until the next start.          *)
(*                                                                         *)
(* The host is one JavaScript event loop: a step is what runs between two  *)
(* awaits.  The vault is a version number; Content says which versions     *)
(* hold equal bytes.  A secure scan takes two snapshots and refuses when   *)
(* they differ, so it answers with some version the vault had while it     *)
(* ran, or fails as unstable.  The unchanged-scan fast path is on, there   *)
(* is no removal adapter and no refresh hook, as in desktop-agent.ts.      *)
(***************************************************************************)
EXTENDS Naturals

CONSTANTS
  Requests,    \* slots for requests: a search or a GET /status
  MaxEdits,    \* edits of the vault
  MaxFaults    \* reconciliations that fail for a reason other than an edit, and
               \* deaths in the middle of a publication

HostAssumption == MaxEdits \in Nat

None == 0                      \* no version: null in the code
Versions == 1 .. MaxEdits + 1
Content(v) == v % 2            \* an edit may be undone by the next

VARIABLES
  version,     \* what the vault holds
  notice,      \* newest version with a file system event still to be delivered
  gen,         \* version of the generation the outer pointer names
  tail,        \* the journal's last batch failed and has no resolved retry
  cut,         \* the publication whose guard or temporary pointer was left behind
  orphan,      \* the journal has the intent of an activation without its outcome
  past,        \* what resolved the failures the journal holds, see Pasts
  up,          \* "down", "starting" or "open"
  job,         \* activeReconciliation, and where its runOne is
  retry,       \* retryEpoch is set
  retryTimer, debounce, periodic, \* which timers are armed
  pending,     \* pendingReconciliation; pendingKind is "event" whenever it is set
  hints,       \* pendingPaths, pendingUnscoped, pendingOverflow
  coverage,    \* the scan in coverageScan
  committed,   \* committedProjectionNamespace; set iff projectionIndexReady
  closing,     \* where the shutdown is
  req,         \* the requests
  faults,
  told,        \* history: newest version a delivered hint was about
  absorbed,    \* history: a retry consumed a hint its scan had not seen
  unrecorded   \* history: a retry failed and the journal could not say so

timers == <<retryTimer, debounce, periodic>>
queue == <<pending, hints>>
retryState == <<tail, retry>>
left == <<cut, orphan, past>>
history == <<told, absorbed, unrecorded>>
vars == <<version, notice, gen, left, tail, up, job, retry, timers, queue, coverage, committed,
          closing, req, faults, history>>

\* A cut publication: the version it is of, None for none; and whether the journal
\* has made it active.
NoCut == [to |-> None, final |-> FALSE]

\* The last publication retried no failure ("plain"), or one ("complete"); or the
\* last failure was resolved by a retry that found nothing changed ("noop"); or
\* readWatcherFailureRetryEpoch refuses what the journal holds ("broken").
Pasts == {"plain", "complete", "noop", "broken"}

NoJob == [step |-> "none"]
NoRequest == [at |-> "idle", as |-> "none", born |-> None, snap |-> None, before |-> None,
              expect |-> None, answer |-> None]

Init ==
  /\ version = 1 /\ notice = None /\ gen = None /\ tail = FALSE
  /\ cut = NoCut /\ orphan = FALSE /\ past = "plain"
  /\ up = "down" /\ job = NoJob /\ retry = FALSE
  /\ retryTimer = FALSE /\ debounce = FALSE /\ periodic = FALSE
  /\ pending = FALSE  /\ hints = "unscoped"
  /\ coverage = None /\ committed = None /\ closing = "no"
  /\ req = [r \in Requests |-> NoRequest]
  /\ faults = 0
  /\ told = 1 /\ absorbed = FALSE /\ unrecorded = FALSE

-------------------------------------------------------------------------------
(* The vault and the scans of it *)

\* A hint may be lost: they are advisory.
Edit ==
  /\ version <= MaxEdits
  /\ version' = version + 1
  /\ notice' \in {notice, IF up = "open" /\ closing = "no" THEN version' ELSE notice}
  /\ UNCHANGED <<gen, left, tail, up, job, retry, timers, queue, coverage, committed, closing, req,
                 faults, history>>

\* secureWatcherSourceScan: what a scan that began at version s may answer.
Scanned(s) == s .. version
Unstable(s) == s # version

-------------------------------------------------------------------------------
(* reconcile() and the batch it starts *)

\* The start of a reconciliation: the loop head and runOne up to the scan.
StartJob(k, h, byTimer) ==
  /\ job' = [step |-> "scan", kind |-> k, snap |-> version, scan |-> None, hinted |-> FALSE,
             batch |-> h, byTimer |-> byTimer]
  /\ hints' = "none" /\ pending' = FALSE
  /\ debounce' = FALSE /\ periodic' = FALSE

\* reconcile("event") with the hints h: joins the retry epoch, joins the active
\* reconciliation as the one that is pending, or starts one.  A request that
\* brings no hint is one itself.
ReconcileEvent(h) ==
  \/ /\ retry
     /\ pending' = TRUE /\ hints' = "unscoped"
     /\ debounce' = FALSE
     /\ UNCHANGED job
  \/ /\ ~retry /\ job # NoJob
     /\ pending' = TRUE
     /\ hints' = IF h = "none" THEN "unscoped" ELSE h
     /\ job' = IF h = "none" THEN [job EXCEPT !.hinted = TRUE] ELSE job
     /\ debounce' = FALSE
  \/ /\ ~retry /\ job = NoJob
     /\ StartJob("event", IF h = "none" THEN "unscoped" ELSE h, FALSE)

Hinted(j) == IF j = NoJob THEN j ELSE [j EXCEPT !.hinted = TRUE]
Open == up = "open" /\ closing = "no"

\* queueEvent: a scoped name, or one that cannot be scoped (or one too many).
HintArrives ==
  /\ Open /\ notice # None
  /\ notice' = None
  /\ told' = notice
  /\ hints' \in {"unscoped", IF hints = "unscoped" THEN hints ELSE "paths"}
  /\ job' = Hinted(job)
  /\ pending' = TRUE
  /\ coverage' = None
  /\ debounce' = TRUE
  /\ UNCHANGED <<version, gen, left, tail, up, retry, retryTimer, periodic, committed, closing, req,
                 faults, absorbed, unrecorded>>

DebounceFires ==
  /\ Open /\ debounce
  /\ ReconcileEvent(hints)
  /\ periodic' = (periodic /\ (retry \/ job # NoJob))
  /\ UNCHANGED <<version, notice, gen, left, tail, up, retry, retryTimer, coverage, committed,
                 closing, req, faults, history>>

\* The periodic timer; armed again when the reconciliation ends.
PeriodicFires ==
  /\ Open /\ periodic
  /\ periodic' = FALSE
  /\ coverage' = None
  /\ IF retry
     THEN /\ pending' = TRUE /\ hints' = "unscoped"
          /\ debounce' = FALSE
          /\ UNCHANGED job
     ELSE StartJob("event", "unscoped", FALSE)
  /\ UNCHANGED <<version, notice, gen, left, tail, up, retry, retryTimer, committed, closing, req,
                 faults, history>>

\* watcherError: the native watcher failed; whatever it had to say is lost.
WatcherError ==
  /\ Open /\ faults < MaxFaults
  /\ faults' = faults + 1
  /\ notice' = None
  /\ coverage' = None
  /\ \/ /\ retry
        /\ pending' = TRUE /\ hints' = "unscoped"
        /\ debounce' = FALSE
        /\ UNCHANGED <<job, periodic>>
     \/ /\ ~retry /\ job # NoJob
        /\ pending' = TRUE /\ hints' = "unscoped"
        /\ debounce' = FALSE
        /\ job' = Hinted(job)
        /\ UNCHANGED periodic
     \/ /\ ~retry /\ job = NoJob
        /\ StartJob("event", "unscoped", FALSE)
  /\ UNCHANGED <<version, gen, left, tail, up, retry, retryTimer, committed, closing, req,
                 history>>

\* scheduleRetry's callback and dispatchRetry.
RetryFires ==
  /\ Open /\ retryTimer /\ job = NoJob
  /\ retryTimer' = FALSE
  /\ StartJob("failure", hints, TRUE)
  /\ UNCHANGED <<version, notice, gen, left, tail, up, retry, coverage, committed, closing, req,
                 faults, history>>

-------------------------------------------------------------------------------
(* How a reconciliation ends *)

\* Where the promise a request waits for sends it: "ok", "error" or no word yet.
Resume(r, word) ==
  IF word = "none" THEN req[r]
  ELSE IF req[r].as = "status" THEN [req[r] EXCEPT !.at = "recheck"]
  ELSE IF word = "ok" \/ (retry' /\ retryTimer') THEN [req[r] EXCEPT !.at = "check"]
  ELSE NoRequest

Settle(active, epoch) ==
  req' = [r \in Requests |->
            CASE req[r].at = "wait" -> Resume(r, active)
              [] req[r].at = "waitRetry" -> Resume(r, epoch)
              [] OTHER -> req[r]]

\* The host has released its lock, or died.
GoDown ==
  /\ up' = "down" /\ job' = NoJob /\ retry' = FALSE
  /\ retryTimer' = FALSE /\ debounce' = FALSE /\ periodic' = FALSE
  /\ pending' = FALSE /\ hints' = "unscoped"
  /\ coverage' = None /\ committed' = None /\ closing' = "no" /\ notice' = None
  /\ req' = [r \in Requests |-> NoRequest]

\* A shutdown that waits for the reconciliation goes on, unless it failed; a failed
\* flush is good enough when the journal holds its retry.
ClosingAfter(ok) ==
  CASE closing = "wait" /\ ~ok -> "failed"
    [] closing = "flush" -> IF ok \/ retry' THEN "close" ELSE "failed"
    [] OTHER -> closing

\* The periodic timer is armed again whatever the host is doing.
MutantEndLoop(ok) ==
  /\ job' = NoJob
  /\ up' = "open"
  /\ periodic' = TRUE
  /\ closing' = ClosingAfter(ok)

\* The periodic timer is armed again by a reconciliation that succeeds.
HopefulEndLoop(ok) ==
  /\ job' = NoJob
  /\ up' = "open"
  /\ periodic' = (closing = "no" /\ ok)
  /\ closing' = ClosingAfter(ok)

\* The activeReconciliation promise settles.
EndLoop(ok) ==
  /\ job' = NoJob
  /\ up' = "open"
  /\ periodic' = (closing = "no")
  /\ closing' = ClosingAfter(ok)

\* runOne returns: the loop starts over when something is pending (p) by then.
Complete(h, p, deb, epoch) ==
  \/ /\ p
     /\ StartJob("event", h, job.byTimer)
     /\ Settle("none", epoch)
     /\ UNCHANGED <<up, closing>>
  \/ /\ ~p
     /\ hints' = h /\ pending' = FALSE /\ debounce' = deb
     /\ EndLoop(TRUE)
     /\ Settle("ok", epoch)

\* Only what arrived meanwhile is kept.
MutantJoin(a, b) == b

Join(a, b) ==
  IF "unscoped" \in {a, b} THEN "unscoped" ELSE IF "paths" \in {a, b} THEN "paths" ELSE "none"

\* The timer is armed for a new epoch only.
MutantCaught(recorded, covered) ==
  /\ retry' = (retry \/ recorded)
  /\ retryTimer' = (recorded /\ ~retry /\ closing = "no")
  /\ unrecorded' = (unrecorded \/ (retry /\ ~recorded))
  /\ IF up = "starting" /\ ~recorded
     THEN GoDown
     ELSE /\ committed' = None
          /\ hints' = Join(job.batch, hints)
          /\ coverage' = covered
          /\ EndLoop(FALSE)
          /\ Settle("error", IF job.byTimer /\ ~recorded THEN "error" ELSE "none")
          /\ UNCHANGED <<notice, pending, debounce>>
  /\ UNCHANGED <<version, told, absorbed>>

\* The catch block of runOne: the batch's hints are put back; a failure that is
\* recorded is retried.
Caught(recorded, covered) ==
  /\ retry' = (retry \/ recorded)
  /\ retryTimer' = (recorded /\ closing = "no")
  /\ unrecorded' = (unrecorded \/ (retry /\ ~recorded))
  /\ IF up = "starting" /\ ~recorded
     THEN GoDown
     ELSE /\ committed' = None
          /\ hints' = Join(job.batch, hints)
          /\ coverage' = covered
          /\ EndLoop(FALSE)
          /\ Settle("error", IF job.byTimer /\ ~recorded THEN "error" ELSE "none")
          /\ UNCHANGED <<notice, pending, debounce>>
  /\ UNCHANGED <<version, told, absorbed>>

\* A failed batch is recorded when its code is one of the governed ones and the
\* journal does not have the batch, as it has that of a retry being verified.  One
\* recorded beside an unfinished publication, or as a second child of its parent,
\* is what no later start accepts.
Fails(governed) ==
  LET recorded == governed /\ job.step # "verify"
  IN  /\ tail' = (tail \/ recorded)
      /\ past' = IF recorded /\ (cut # NoCut \/ (retry /\ ~tail)) THEN "broken" ELSE past
      /\ Caught(recorded, coverage)
      /\ UNCHANGED <<gen, cut, orphan>>

-------------------------------------------------------------------------------
(* The steps of runOne *)

InStep(s) == job.step = s
Unchanged(v) == gen # None /\ Content(v) = Content(gen)
\* What the scan covers is left as it was when a hint came.
MutantCoveredBy(v) == IF job.hinted THEN coverage ELSE v
CoveredBy(v) == IF job.hinted THEN None ELSE v

\* A retry of a published vault reads the whole activation history.
HistoryRefused == job.kind = "failure" /\ gen # None /\ (cut # NoCut \/ orphan)

\* The first scan is in.  A scoped batch needs the projection index of the last
\* commit; an event whose scan is the one last committed is done; a retry whose
\* scan still matches the generation only has that written to the journal.
ScanReturns ==
  /\ InStep("scan")
  /\ \E v \in Scanned(job.snap) :
       IF job.kind = "event" /\ job.batch = "paths" /\ committed = None
       THEN /\ Fails(TRUE)
            /\ UNCHANGED faults
       ELSE IF job.kind = "event" /\ ~retry /\ v = committed /\ Unchanged(v)
       THEN /\ coverage' = CoveredBy(v)
            /\ Complete(hints, pending, debounce, "none")
            /\ UNCHANGED <<version, notice, gen, left, retryState, retryTimer, committed,
                           faults, history>>
       ELSE IF HistoryRefused
       THEN /\ Fails(FALSE)
            /\ UNCHANGED faults
       ELSE /\ job' = [job EXCEPT !.scan = v, !.snap = version,
                         !.step = IF job.kind = "failure" /\ Unchanged(v) /\ tail
                                  THEN "noop" ELSE "stage"]
            /\ UNCHANGED <<version, notice, gen, left, retryState, up, timers, queue, coverage,
                           committed, closing, req, faults, history>>

\* consumePendingRetryAuthority: a retry that resolved takes along every hint
\* that has been delivered by then, v being its last scan.
Consume(v, c) ==
  /\ retry' = FALSE /\ retryTimer' = FALSE
  /\ absorbed' = (absorbed \/ told > v)
  /\ committed' = c
  /\ coverage' = v
  /\ Complete("none", FALSE, FALSE, "ok")

\* The second scan of a retry that changes nothing, and its journal rows.
NoopReturns ==
  /\ InStep("noop")
  /\ \E v \in Scanned(job.snap) :
       IF v # job.scan
       THEN Fails(TRUE)    \* GKX_WATCHER_FAILURE_RETRY_CHANGED
       ELSE /\ tail' = FALSE
            /\ past' = IF past = "broken" THEN past ELSE "noop"
            /\ Consume(v, v)
            /\ UNCHANGED <<version, notice, gen, cut, orphan, told, unrecorded>>
  /\ UNCHANGED faults

\* What the journal holds once the batch's generation is active: a failure that was
\* found resolved by no change is validated against the pointer of that moment.
PastAfter ==
  IF past \in {"noop", "broken"} THEN "broken"
  ELSE IF job.kind = "failure" THEN "complete" ELSE "plain"

\* publishWatcherCoherentActivation is called and finds nothing in its way; a retry
\* whose parent is resolved already is refused before it.
Publishes ==
  /\ InStep("stage") /\ ~Unchanged(job.scan)
  /\ cut = NoCut /\ (job.kind = "failure" => tail)

\* The staged generation is published, unless nothing changed; a retry is then
\* verified by one more scan.
Publish ==
  /\ InStep("stage") /\ (Publishes \/ (Unchanged(job.scan) /\ ~cut.final))
  /\ gen' = IF Publishes THEN job.scan ELSE gen
  /\ past' = IF Publishes THEN PastAfter ELSE past
  /\ coverage' = CoveredBy(job.scan)
  /\ committed' = job.scan
  /\ \/ /\ job.kind = "failure"
        /\ tail' = FALSE
        /\ job' = [job EXCEPT !.step = "verify", !.snap = version]
        /\ UNCHANGED <<up, timers, queue, closing, req>>
     \/ /\ job.kind # "failure"
        /\ Complete(hints, pending, debounce, "none")
        /\ UNCHANGED <<tail, retryTimer>>
  /\ UNCHANGED <<version, notice, retry, cut, orphan, faults, history>>

\* What a publication is refused over: GKX_WATCHER_POINTER_RECOVERY_REQUIRED and
\* GKX_WATCHER_RETRY_AUTHORITY_INVALID; and one that had nothing to publish, by the
\* status it ends with, when the journal has another generation active.
PublishRefused ==
  /\ InStep("stage")
  /\ \/ ~Unchanged(job.scan) /\ ~Publishes /\ Fails(FALSE)
     \/ /\ Unchanged(job.scan) /\ cut.final
        /\ Caught(FALSE, CoveredBy(job.scan))
        /\ UNCHANGED <<gen, tail, left>>
  /\ UNCHANGED faults

VerifyReturns ==
  /\ InStep("verify")
  /\ \E v \in Scanned(job.snap) :
       IF v = job.scan
       THEN Consume(v, committed)
       ELSE /\ retry' = FALSE /\ retryTimer' = FALSE
            /\ Complete(hints, pending, debounce, "ok")
            /\ UNCHANGED <<coverage, committed, absorbed>>
  /\ UNCHANGED <<version, notice, gen, left, tail, faults, told, unrecorded>>

\* Where a publication of v stops that began and does not return, in the order of
\* its steps: before the journal has its intent; before its guard is staged; with
\* the guard, the journal not having it active or having it so; or done.
CutShort(v) ==
  \/ UNCHANGED <<gen, tail, left>>
  \/ /\ orphan' = TRUE
     /\ past' = IF job.kind = "failure" THEN "broken" ELSE past
     /\ UNCHANGED <<gen, tail, cut>>
  \/ \E final \in BOOLEAN :
       /\ cut' = [to |-> v, final |-> final]
       /\ tail' = (tail /\ ~(final /\ job.kind = "failure"))
       /\ past' = PastAfter
       /\ UNCHANGED <<gen, orphan>>
  \/ /\ gen' = v
     /\ tail' = (tail /\ job.kind # "failure")
     /\ past' = PastAfter
     /\ UNCHANGED <<cut, orphan>>

\* A scan that sees an edit, or any step that throws: with a governed code, or
\* with another one (no space, the host lock lost, a refused configuration).  The
\* journal refuses the failure of a batch it has.
StepFails ==
  /\ job # NoJob
  /\ \/ job.step # "stage" /\ Unstable(job.snap) /\ Fails(TRUE) /\ UNCHANGED faults
     \/ /\ faults < MaxFaults
        /\ faults' = faults + 1
        /\ \/ \E governed \in BOOLEAN : Fails(governed)
           \/ /\ Publishes /\ CutShort(job.scan)
              /\ \E covered \in {coverage, CoveredBy(job.scan)} :
                   /\ covered # coverage => gen' = job.scan
                   /\ Caught(FALSE, covered)

-------------------------------------------------------------------------------
(* Requests *)

\* HTTP searches are bound to the generation they began with; a search through
\* the host's own handle is not.  A stopping service answers 503.
Request(r) ==
  /\ Open /\ req[r].at = "idle"
  /\ \E as \in {"search", "status"} :
       \E e \in IF as = "search" /\ committed # None THEN {None, gen} ELSE {None} :
         req' = [req EXCEPT ![r] = [@ EXCEPT !.at = "check", !.as = as, !.born = version,
                                             !.expect = e]]
  /\ UNCHANGED <<version, notice, gen, left, retryState, up, job, timers, queue, coverage, committed,
                 closing, faults, history>>

Go(r, at) == req' = [req EXCEPT ![r] = [@ EXCEPT !.at = at, !.snap = None, !.before = None]]
End(r) == req' = [req EXCEPT ![r] = NoRequest]
KeepLoop == UNCHANGED <<job, debounce, periodic, queue>>

\* requestAuthorityIsFresh said no.
NotFresh(r) ==
  \/ /\ req[r].as = "search"
     /\ UNCHANGED coverage
     /\ IF closing # "no"
        THEN End(r) /\ KeepLoop
        ELSE /\ Go(r, IF retry THEN "waitRetry" ELSE "wait")
             /\ ReconcileEvent(hints)
             /\ periodic' = (periodic /\ (retry \/ job # NoJob))
  \/ /\ req[r].as = "status"
     /\ coverage' = None
     /\ IF req[r].at \in {"recheck", "rescan"}
        THEN End(r) /\ KeepLoop
        ELSE IF retry \/ closing # "no"
        THEN Go(r, "recheck") /\ KeepLoop
        ELSE /\ Go(r, "wait")
             /\ ReconcileEvent(hints)
             /\ periodic' = (periodic /\ job # NoJob)

Doubtful == closing # "no" \/ coverage = None \/ retry \/ pending \/ gen = None

\* requestAuthorityIsFresh up to its scan.
Check(r) ==
  /\ req[r].at \in {"check", "recheck"}
  /\ \/ Doubtful /\ NotFresh(r)
     \/ /\ ~Doubtful
        /\ req' = [req EXCEPT ![r].at = IF @ = "check" THEN "scan" ELSE "rescan",
                              ![r].snap = version, ![r].before = gen]
        /\ UNCHANGED coverage /\ KeepLoop
  /\ UNCHANGED <<version, notice, gen, left, retryState, up, retryTimer, committed, closing, faults,
                 history>>

\* getStatus says fresh; it throws while the journal has another generation active.
ReportsFresh ==
  ~cut.final /\ coverage # None /\ job = NoJob /\ ~pending /\ ~retry /\ closing = "no"

\* The evidence of the last reconciliation is taken for the scan.
MutantFresh(r, v) == v # None /\ gen = req[r].before /\ Content(coverage) = Content(gen)
Fresh(r, v) ==
  v # None /\ gen = req[r].before /\ v = coverage /\ Content(v) = Content(gen)

\* Its scan is in: v, or None when the scan failed.
CheckReturns(r) ==
  /\ req[r].at \in {"scan", "rescan"}
  /\ \E v \in Scanned(req[r].snap) \cup {w \in {None} : Unstable(req[r].snap)} :
       LET fresh == Fresh(r, v)
       IN  \/ /\ fresh /\ req[r].as = "search" /\ ~retry /\ ~pending
              /\ Go(r, "inner")
              /\ UNCHANGED coverage /\ KeepLoop
           \/ /\ fresh /\ req[r].as = "status"
              /\ IF ReportsFresh
                 THEN req' = [req EXCEPT ![r] = [@ EXCEPT !.at = "answer", !.snap = None,
                                                          !.before = None, !.answer = gen]]
                 ELSE End(r)
              /\ UNCHANGED coverage /\ KeepLoop
           \/ /\ ~fresh \/ (req[r].as = "search" /\ (retry \/ pending))
              /\ NotFresh(r)
  /\ UNCHANGED <<version, notice, gen, left, retryState, up, retryTimer, committed, closing, faults,
                 history>>

\* getCommittedProjectionSnapshot still gives the generation the request is bound to.
StillBound(r) == req[r].expect = None \/ (committed # None /\ gen = req[r].expect)

\* searchWatcherCoherentGeneration: the pointer and then a scan.
SearchBegins(r) ==
  /\ req[r].at = "inner"
  /\ req' = IF StillBound(r)
            THEN [req EXCEPT ![r].at = "innerScan", ![r].snap = version, ![r].before = gen]
            ELSE [req EXCEPT ![r] = NoRequest]
  /\ UNCHANGED <<version, notice, gen, left, retryState, up, job, timers, queue, coverage, committed,
                 closing, faults, history>>

\* A generation that does not match is waited for until the deadline.
SearchScanned(r) ==
  /\ req[r].at = "innerScan"
  /\ \/ /\ gen = req[r].before
        /\ \E v \in Scanned(req[r].snap) : Content(v) = Content(req[r].before)
        /\ req' = [req EXCEPT ![r].at = "open", ![r].snap = None]
     \/ /\ \/ gen # req[r].before \/ Unstable(req[r].snap)
           \/ \E v \in Scanned(req[r].snap) : Content(v) # Content(req[r].before)
        /\ Go(r, "inner") \/ End(r)
  /\ UNCHANGED <<version, notice, gen, left, retryState, up, job, timers, queue, coverage, committed,
                 closing, faults, history>>

\* openWatcherRetrievalCoordinator reads the pointer again and keeps what it opened.
SearchOpens(r) ==
  /\ req[r].at = "open"
  /\ \/ /\ gen = req[r].before
        /\ req' = [req EXCEPT ![r] = [@ EXCEPT !.at = "search", !.answer = gen, !.before = None]]
     \/ /\ gen # req[r].before
        /\ Go(r, "inner") \/ End(r)
  /\ UNCHANGED <<version, notice, gen, left, retryState, up, job, timers, queue, coverage, committed,
                 closing, faults, history>>

\* The search has run on it; the generation is compared once more.
SearchReturns(r) ==
  /\ req[r].at = "search"
  /\ req' = IF StillBound(r) THEN [req EXCEPT ![r].at = "answer"] ELSE [req EXCEPT ![r] = NoRequest]
  /\ UNCHANGED <<version, notice, gen, left, retryState, up, job, timers, queue, coverage, committed,
                 closing, faults, history>>

Respond(r) ==
  /\ req[r].at = "answer"
  /\ End(r)
  /\ UNCHANGED <<version, notice, gen, left, retryState, up, job, timers, queue, coverage, committed,
                 closing, faults, history>>

-------------------------------------------------------------------------------
(* Start, shutdown and death *)

\* readWatcherFailureRetryEpoch accepts what the journal holds.
Startable == past # "broken" /\ (orphan => past = "plain")

\* recoverWatcherCoherentActivation finishes what was cut short, which resolves the
\* failure it retried; then the first reconciliation, or the wait for the retry a
\* dead host left.
Start ==
  /\ up = "down" /\ Startable
  /\ gen' = IF cut = NoCut THEN gen ELSE cut.to
  /\ cut' = NoCut
  /\ tail' = (tail /\ cut = NoCut)
  /\ retry' = tail'
  /\ IF tail'
     THEN /\ up' = "open" /\ retryTimer' = TRUE /\ periodic' = TRUE
          /\ UNCHANGED <<job, debounce, queue>>
     ELSE /\ up' = "starting"
          /\ StartJob("startup", hints, FALSE)
          /\ UNCHANGED retryTimer
  /\ unrecorded' = FALSE /\ absorbed' = FALSE /\ told' = version
  /\ UNCHANGED <<version, notice, orphan, past, coverage, committed, closing, req, faults>>

\* shutdown and on_stopping, whose status throws while the journal has another
\* generation active.
Stop ==
  /\ Open /\ ~cut.final
  /\ closing' = "drain"
  /\ retryTimer' = FALSE /\ debounce' = FALSE /\ periodic' = FALSE
  /\ notice' = None
  /\ UNCHANGED <<version, gen, left, retryState, up, job, queue, coverage, committed, req, faults,
                 history>>

\* HTTP requests under way: all of /status, and the searches bound to a generation.
InFlight ==
  {r \in Requests : req[r].at # "idle"
                    /\ (req[r].as = "status" \/ req[r].expect # None)}

\* server.close waits for them.
Drained ==
  /\ closing = "drain" /\ InFlight = {}
  /\ closing' = "wait"
  /\ UNCHANGED <<version, notice, gen, left, retryState, up, job, timers, queue, coverage, committed,
                 req, faults, history>>

\* on_shutdown: after the active reconciliation, one last for what is pending or
\* still to be retried.
Flush ==
  /\ closing = "wait" /\ job = NoJob
  /\ \/ /\ pending \/ retry
        /\ closing' = "flush"
        /\ StartJob(IF retry THEN "failure" ELSE "shutdown",
                    IF retry THEN "unscoped" ELSE hints, FALSE)
        /\ UNCHANGED <<up, retry, retryTimer, coverage, committed, notice, req>>
     \/ ~pending /\ ~retry /\ GoDown /\ UNCHANGED retryTimer
  /\ UNCHANGED <<version, gen, left, tail, faults, history>>

Close ==
  /\ closing = "close"
  /\ GoDown
  /\ UNCHANGED <<version, gen, left, tail, faults, history>>

\* Ten seconds have passed: the shutdown is refused and the process must be killed.
Deadline ==
  /\ closing \in {"drain", "wait", "flush", "close"}
  /\ closing' = "failed"
  /\ UNCHANGED <<version, notice, gen, left, retryState, up, job, timers, queue, coverage, committed,
                 req, faults, history>>

\* A death that cuts a publication short counts as a fault.
Crash ==
  /\ up # "down"
  /\ GoDown
  /\ \/ UNCHANGED <<gen, tail, left, faults>>
     \/ /\ Publishes /\ faults < MaxFaults
        /\ faults' = faults + 1
        /\ CutShort(job.scan)
  /\ UNCHANGED <<version, history>>

-------------------------------------------------------------------------------
JobStep == ScanReturns \/ NoopReturns \/ Publish \/ PublishRefused \/ VerifyReturns

RequestStep(r) ==
  \/ Check(r) \/ CheckReturns(r) \/ SearchBegins(r) \/ SearchScanned(r)
  \/ SearchOpens(r) \/ SearchReturns(r) \/ Respond(r)

Next ==
  \/ Edit \/ HintArrives \/ WatcherError \/ DebounceFires \/ PeriodicFires \/ RetryFires
  \/ ScanReturns \/ NoopReturns \/ Publish \/ PublishRefused \/ VerifyReturns \/ StepFails
  \/ \E r \in Requests :
       \/ Request(r) \/ Check(r) \/ CheckReturns(r) \/ SearchBegins(r) \/ SearchScanned(r)
       \/ SearchOpens(r) \/ SearchReturns(r) \/ Respond(r)
  \/ Start \/ Stop \/ Drained \/ Flush \/ Close \/ Deadline \/ Crash

Spec == Init /\ [][Next]_vars

\* The event loop runs what is due: a scan or a publication ends, a timer that
\* stays armed fires, and somebody starts the host.
Fairness ==
  /\ WF_vars(JobStep) /\ WF_vars(DebounceFires) /\ WF_vars(PeriodicFires)
  /\ WF_vars(RetryFires) /\ WF_vars(Start)

FairSpec == Spec /\ Fairness

-------------------------------------------------------------------------------
Steps == {"scan", "noop", "stage", "verify"}
Kinds == {"event", "startup", "shutdown", "failure"}
Jobs == [step : Steps, kind : Kinds, snap : Versions, scan : Versions \cup {None},
         hinted : BOOLEAN, batch : {"none", "paths", "unscoped"}, byTimer : BOOLEAN]
Places == {"idle", "check", "recheck", "scan", "rescan", "wait", "waitRetry", "inner",
           "innerScan", "open", "search", "answer"}

\* The variables have the types the code gives them, and a stopping host has no
\* timer armed.
HostTypeOK ==
  /\ version \in Versions /\ notice \in Versions \cup {None} /\ gen \in Versions \cup {None}
  /\ cut \in [to : Versions \cup {None}, final : BOOLEAN] /\ orphan \in BOOLEAN /\ past \in Pasts
  /\ tail \in BOOLEAN /\ retry \in BOOLEAN /\ pending \in BOOLEAN
  /\ up \in {"down", "starting", "open"} /\ job \in Jobs \cup {NoJob}
  /\ retryTimer \in BOOLEAN /\ debounce \in BOOLEAN /\ periodic \in BOOLEAN
  /\ hints \in {"none", "paths", "unscoped"}
  /\ coverage \in Versions \cup {None} /\ committed \in Versions \cup {None}
  /\ closing \in {"no", "drain", "wait", "flush", "close", "failed"}
  /\ \A r \in Requests : req[r].at \in Places
  /\ closing # "no" => ~retryTimer /\ ~debounce /\ ~periodic

\* A failed batch the journal holds is retried for as long as the host runs: it
\* is never forgotten, not by a restart either, and while nothing stops the host
\* its timer is armed or its retry runs, unless a retry failed unrecorded.
FailureIsRetried ==
  /\ up = "open" /\ tail => retry
  /\ retryTimer => retry /\ job = NoJob
  /\ Open /\ retry /\ ~unrecorded =>
       retryTimer \/ (job # NoJob /\ job.kind = "failure")

\* The newest version a delivered hint was about is in the last commit, or a
\* reconciliation that scans after the hint is on its way: running or pending,
\* the retry, or hints put back for the periodic one; unless a retry took the
\* hint for one its scan had seen.
HintsReachAScan ==
  up = "open" /\ ~absorbed /\ committed < told =>
    \/ job # NoJob /\ (job.snap >= told \/ pending)
    \/ pending \/ retry \/ (hints # "none" /\ (periodic \/ closing # "no"))

\* While the projection index is ready, coverage speaks of the published
\* generation: the next scan is not compared with the evidence of another one.
CoverageIsOfTheGeneration ==
  coverage # None /\ committed # None => gen # None /\ Content(coverage) = Content(gen)

\* What a search answers from, and what a fresh status names, is a generation
\* whose content the vault had at some moment since the request began.
AnswersAreCurrent ==
  \A r \in Requests :
    req[r].at = "answer" =>
      \E v \in req[r].born .. version : Content(v) = Content(req[r].answer)

\* Whatever hints were lost, however scans and retries failed: when the host
\* stays up and the vault comes to rest, the published generation has the
\* vault's content in the end and keeps it, unless a retry failed unrecorded or
\* the files of a publication that was cut short are in the way for good.
EditsArePublished ==
  <>[](Open /\ ~unrecorded /\ cut = NoCut) =>
    <>[](gen # None /\ Content(gen) = Content(version))

\* A reconciliation that is published resolves the failure it retries: the host
\* that idles does not hold on to a retry epoch the journal has seen resolved.
ActivationClearsEpoch == up = "open" /\ job = NoJob /\ ~tail => ~retry

\* Whatever a host records or leaves behind, the next one can start from it.
NextStartIsPossible == up = "down" => Startable

\* A shutdown that drains requests does not wait for one that waits for a retry
\* whose timer the shutdown has cancelled.
DrainedRequestsMove ==
  closing = "drain" /\ job = NoJob => \A r \in InFlight : req[r].at # "waitRetry"
=============================================================================
