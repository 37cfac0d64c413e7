------------------------------ MODULE HostProofs ------------------------------
(***************************************************************************)
(* The reconciliation loop of a running watcher host retries what failed,  *)
(* scans after every hint, and answers with content the vault had, for any *)
(* number of requests, edits and faults.                                   *)
(***************************************************************************)
EXTENDS WatcherHost, TLAPS

Hints == {"none", "paths", "unscoped"}
Known == 0 .. version
Reqs == [at : Places, as : {"none", "search", "status"}, born : Nat, snap : Nat, before : Nat,
         expect : Nat, answer : Nat]

\* No version that is kept is newer than the vault's.
VersionTypes ==
  /\ version \in Versions /\ notice \in Known /\ gen \in Known
  /\ coverage \in Known /\ committed \in Known /\ told \in 1 .. version

FlagTypes ==
  /\ tail \in BOOLEAN /\ retry \in BOOLEAN /\ pending \in BOOLEAN
  /\ retryTimer \in BOOLEAN /\ debounce \in BOOLEAN /\ periodic \in BOOLEAN
  /\ absorbed \in BOOLEAN /\ unrecorded \in BOOLEAN

\* The variables of the loop have their types; a stopping host has no timer armed.
LoopTypes ==
  /\ VersionTypes /\ FlagTypes
  /\ up \in {"down", "starting", "open"} /\ job \in Jobs \cup {NoJob} /\ hints \in Hints
  /\ closing \in {"no", "drain", "wait", "flush", "close", "failed"}
  /\ closing # "no" => ~retryTimer /\ ~debounce /\ ~periodic

\* What a publication that was cut short left behind has its types.
LeftTypes == cut \in [to : Known, final : BOOLEAN] /\ orphan \in BOOLEAN /\ past \in Pasts

\* The version a reconciliation in progress will commit is at least this one.
Sight == IF job.step = "scan" THEN job.snap ELSE job.scan

\* A reconciliation retries a failure iff there is one, says of a scan only what the
\* generation bears out, and has one more pending for a hint it cannot have seen.
JobHolds ==
  job # NoJob =>
    /\ job.snap <= version
    /\ job.step # "scan" => job.scan \in 1 .. version /\ job.scan <= job.snap
    /\ job.kind = "failure" <=> retry
    /\ job.step \in {"noop", "verify"} => retry /\ Unchanged(job.scan)
    /\ job.step = "verify" => ~tail /\ committed = job.scan
    /\ job.batch # "none" \/ retry
    /\ pending \/ Sight >= told

\* What the journal holds as failed is in the retry epoch, which the timer or a
\* reconciliation serves; while one runs, the other timers wait.
RetryHolds ==
  /\ up # "down" /\ tail => retry
  /\ retryTimer => retry /\ job = NoJob
  /\ periodic => job = NoJob
  /\ Open /\ retry /\ ~unrecorded => retryTimer \/ job # NoJob

\* A host that is down has nothing under way.
DownHolds ==
  up = "down" => /\ job = NoJob /\ ~retry /\ ~pending /\ hints = "unscoped" /\ closing = "no"
                 /\ coverage = None /\ committed = None
                 /\ \A r \in Requests : req[r].at = "idle"

\* A hint that is not committed yet waits for a reconciliation.
HintsHold ==
  /\ pending => hints # "none"
  /\ up = "open" /\ ~absorbed /\ job = NoJob /\ committed < told =>
       pending \/ retry \/ (hints # "none" /\ (periodic \/ closing # "no"))

LoopInv == LoopTypes /\ JobHolds /\ RetryHolds /\ HintsHold /\ CoverageIsOfTheGeneration

\* What a request has read so far is no older than the request.
Current(r, g) == \E v \in req[r].born .. version : Content(v) = Content(g)
RequestHolds(r) ==
  /\ req[r].born <= version
  /\ req[r].at \in {"scan", "rescan", "innerScan"} => req[r].born <= req[r].snap
  /\ req[r].at \in {"scan", "rescan", "innerScan"} => req[r].snap \in 1 .. version
  /\ req[r].at = "open" => Current(r, req[r].before)
  /\ req[r].at \in {"search", "answer"} => Current(r, req[r].answer)

RequestsHold == req \in [Requests -> Reqs] /\ \A r \in Requests : RequestHolds(r)

HostInv == LoopInv /\ DownHolds /\ LeftTypes /\ RequestsHold

-------------------------------------------------------------------------------
(* The transitions of the loop *)

\* What the steps of the loop leave alone.
KeepVault == UNCHANGED <<version, gen, told, absorbed, unrecorded>>

\* No reconciliation is not a reconciliation.
LEMMA NoJobApart == NoJob \notin Jobs /\ NoJob.step = "none"
BY DEF NoJob, Jobs, Steps

\* A reconciliation that starts has seen every hint.
LEMMA JobStarts ==
    ASSUME LoopTypes, NEW k \in Kinds, NEW h \in Hints, NEW b \in BOOLEAN, StartJob(k, h, b)
    PROVE  /\ job' \in Jobs /\ job' # NoJob /\ job'.step = "scan" /\ job'.kind = k
           /\ job'.snap = version /\ job'.batch = h
           /\ hints' = "none" /\ pending' = FALSE /\ debounce' = FALSE /\ periodic' = FALSE
<1>1. job' \in Jobs
  BY DEF StartJob, Jobs, Steps, LoopTypes, VersionTypes, Hints
<1>. QED
  BY <1>1, NoJobApart DEF StartJob

\* It may start when there is none.
LEMMA LoopStarts ==
    ASSUME LoopInv, NEW k \in Kinds, NEW h \in Hints, NEW b \in BOOLEAN, StartJob(k, h, b),
           KeepVault, UNCHANGED <<closing, up, committed>>, notice' \in Known,
           tail' \in BOOLEAN, retry' \in BOOLEAN, tail' => tail, up # "down" => (tail' => retry'),
           retryTimer' = FALSE, coverage' \in {coverage, None},
           h # "none" \/ retry', k = "failure" <=> retry'
    PROVE  LoopInv'
<1>1. /\ job' \in Jobs /\ job' # NoJob /\ job'.step = "scan" /\ job'.kind = k
      /\ job'.snap = version /\ job'.batch = h
      /\ hints' = "none" /\ pending' = FALSE /\ debounce' = FALSE /\ periodic' = FALSE
  BY JobStarts DEF LoopInv
<1>2. LoopTypes'
  <2>1. VersionTypes'
    BY DEF LoopInv, LoopTypes, VersionTypes, KeepVault, Known, None, Versions
  <2>2. FlagTypes'
    BY <1>1 DEF LoopInv, LoopTypes, FlagTypes, KeepVault
  <2>. QED
    BY <1>1, <2>1, <2>2 DEF LoopInv, LoopTypes, Hints
<1>3. JobHolds'
  BY <1>1 DEF LoopInv, JobHolds, LoopTypes, VersionTypes, KeepVault, Sight, Versions
<1>4. RetryHolds' /\ HintsHold'
  BY <1>1 DEF LoopInv, RetryHolds, HintsHold, KeepVault, Open
<1>5. CoverageIsOfTheGeneration'
  BY DEF LoopInv, CoverageIsOfTheGeneration, KeepVault
<1>. QED
  BY <1>2, <1>3, <1>4, <1>5 DEF LoopInv

\* An event joins the epoch or the reconciliation there is, or starts one.
LEMMA LoopJoins ==
    ASSUME LoopInv, NEW h \in Hints, ReconcileEvent(h), KeepVault,
           UNCHANGED <<closing, up, committed, tail, retry, retryTimer>>, notice' \in Known,
           coverage' \in {coverage, None}, periodic' = (periodic /\ (retry \/ job # NoJob)),
           up # "down"
    PROVE  LoopInv'
<1>1. CASE ~retry /\ job = NoJob
  <2>. DEFINE g == IF h = "none" THEN "unscoped" ELSE h
  <2>1. StartJob("event", g, FALSE)
    BY <1>1 DEF ReconcileEvent
  <2>2. g \in Hints /\ g # "none" /\ "event" \in Kinds
    BY DEF Hints, Kinds
  <2>3. retryTimer' = FALSE
    BY <1>1 DEF LoopInv, RetryHolds, LoopTypes
  <2>4. notice' \in Known /\ tail' \in BOOLEAN /\ retry' \in BOOLEAN
    BY DEF LoopInv, LoopTypes, FlagTypes
  <2>5. (tail' => tail) /\ (up # "down" => (tail' => retry')) /\ ("event" = "failure" <=> retry')
    BY <1>1 DEF LoopInv, RetryHolds
  <2>. HIDE DEF g
  <2>. QED
    BY <2>1, <2>2, <2>3, <2>4, <2>5, LoopStarts
<1>2. CASE retry \/ job # NoJob
  <2>1. /\ pending' = TRUE /\ hints' \in Hints \ {"none"} /\ debounce' = FALSE
        /\ job' = job \/ (job # NoJob /\ job' = [job EXCEPT !.hinted = TRUE])
    BY <1>2 DEF ReconcileEvent, Hints
  <2>2. /\ job' \in Jobs \cup {NoJob} /\ (job' = NoJob <=> job = NoJob)
        /\ job # NoJob => /\ job'.snap = job.snap /\ job'.scan = job.scan /\ job'.step = job.step
                          /\ job'.kind = job.kind /\ job'.batch = job.batch
    <3>1. job # NoJob => job \in Jobs
      BY DEF LoopInv, LoopTypes
    <3>2. job # NoJob => [job EXCEPT !.hinted = TRUE] \in Jobs
      BY <3>1 DEF Jobs
    <3>3. job # NoJob => [job EXCEPT !.hinted = TRUE] # NoJob
      BY <3>2, NoJobApart
    <3>4. job \in Jobs \cup {NoJob}
      BY DEF LoopInv, LoopTypes
    <3>5. CASE job' = job
      BY <3>4, <3>5
    <3>6. CASE job # NoJob /\ job' = [job EXCEPT !.hinted = TRUE]
      BY <3>1, <3>2, <3>3, <3>6 DEF Jobs
    <3>. QED
      BY <2>1, <3>5, <3>6
  <2>3. LoopTypes'
    <3>1. VersionTypes'
      BY DEF LoopInv, LoopTypes, VersionTypes, KeepVault, Known, None, Versions
    <3>2. FlagTypes'
      BY <2>1 DEF LoopInv, LoopTypes, FlagTypes, KeepVault
    <3>. QED
      BY <2>1, <2>2, <3>1, <3>2 DEF LoopInv, LoopTypes
  <2>4. JobHolds'
    BY <2>1, <2>2 DEF LoopInv, JobHolds, KeepVault, Sight, Unchanged
  <2>5. RetryHolds' /\ HintsHold'
    BY <2>1, <2>2 DEF LoopInv, RetryHolds, HintsHold, KeepVault, Open
  <2>6. CoverageIsOfTheGeneration'
    BY DEF LoopInv, CoverageIsOfTheGeneration, KeepVault
  <2>. QED
    BY <2>3, <2>4, <2>5, <2>6 DEF LoopInv
<1>. QED
  BY <1>1, <1>2

\* A host that goes down has only what the journal and the pointer hold.
LEMMA LoopEnds ==
    ASSUME LoopInv, GoDown, version' = version, gen' \in Known, tail' \in BOOLEAN, told' = told,
           absorbed' = absorbed, unrecorded' \in BOOLEAN
    PROVE  LoopInv' /\ DownHolds'
<1>1. LoopTypes'
  <2>1. VersionTypes'
    BY DEF LoopInv, LoopTypes, VersionTypes, GoDown, Known, None, Versions
  <2>2. FlagTypes'
    BY DEF LoopInv, LoopTypes, FlagTypes, GoDown
  <2>. QED
    BY <2>1, <2>2 DEF LoopTypes, GoDown, Hints
<1>2. JobHolds' /\ RetryHolds' /\ HintsHold' /\ CoverageIsOfTheGeneration'
  BY DEF LoopInv, JobHolds, RetryHolds, HintsHold, CoverageIsOfTheGeneration, GoDown, Open
<1>3. DownHolds'
  BY DEF DownHolds, GoDown, NoRequest
<1>. QED
  BY <1>1, <1>2, <1>3 DEF LoopInv

\* A failure keeps the hints of its batch and, if the journal holds it, its retry.
LEMMA LoopCatches ==
    ASSUME LoopInv, DownHolds, NEW recorded \in BOOLEAN, NEW covered \in Known,
           Caught(recorded, covered), job # NoJob, gen' \in Known,
           tail' \in BOOLEAN, tail' => tail \/ recorded
    PROVE  LoopInv' /\ DownHolds'
<1>1. /\ retry' = (retry \/ recorded)
      /\ retryTimer' = (recorded /\ closing = "no")
      /\ unrecorded' = (unrecorded \/ (retry /\ ~recorded))
      /\ UNCHANGED <<version, told, absorbed>>
  BY DEF Caught
<1>2. CASE up = "starting" /\ ~recorded
  <2>1. GoDown
    BY <1>2 DEF Caught
  <2>2. unrecorded' \in BOOLEAN
    BY <1>1 DEF LoopInv, LoopTypes, FlagTypes
  <2>. QED
    BY <1>1, <2>1, <2>2, LoopEnds
<1>3. CASE ~(up = "starting" /\ ~recorded)
  <2>1. /\ committed' = None /\ hints' = Join(job.batch, hints) /\ coverage' = covered
        /\ job' = NoJob /\ up' = "open" /\ periodic' = (closing = "no")
        /\ closing' = ClosingAfter(FALSE)
        /\ UNCHANGED <<notice, pending, debounce>>
    BY <1>3 DEF Caught, EndLoop
  <2>2. job \in Jobs /\ job.batch \in Hints
    BY DEF LoopInv, LoopTypes, Jobs, Hints
  <2>3. /\ hints' \in Hints
        /\ job.batch # "none" \/ hints # "none" => hints' # "none"
    BY <2>1, <2>2 DEF Join, LoopInv, LoopTypes, Hints
  <2>4. /\ closing' \in {"no", "drain", "wait", "flush", "close", "failed"}
        /\ closing' = "no" <=> closing = "no"
    BY <2>1 DEF ClosingAfter, LoopInv, LoopTypes
  <2>5. LoopTypes'
    <3>1. VersionTypes'
      BY <1>1, <2>1 DEF LoopInv, LoopTypes, VersionTypes, Known, None, Versions
    <3>2. FlagTypes'
      BY <1>1, <2>1 DEF LoopInv, LoopTypes, FlagTypes
    <3>. QED
      BY <1>1, <2>1, <2>3, <2>4, <3>1, <3>2 DEF LoopInv, LoopTypes
  <2>6. JobHolds'
    BY <2>1 DEF JobHolds
  <2>7. RetryHolds'
    BY <1>1, <2>1, <2>4, DownHolds DEF LoopInv, RetryHolds, DownHolds, Open
  <2>8. HintsHold'
    <3>1. job.batch # "none" \/ retry
      BY DEF LoopInv, JobHolds
    <3>. QED
      BY <1>1, <2>1, <2>3, <2>4, <3>1 DEF LoopInv, HintsHold
  <2>9. CoverageIsOfTheGeneration' /\ DownHolds'
    BY <1>1, <2>1 DEF CoverageIsOfTheGeneration, DownHolds
  <2>. QED
    BY <2>5, <2>6, <2>7, <2>8, <2>9 DEF LoopInv
<1>. QED
  BY <1>2, <1>3

\* So does one that leaves what is published alone.
LEMMA LoopFails ==
    ASSUME LoopInv, DownHolds, NEW governed \in BOOLEAN, Fails(governed), job # NoJob
    PROVE  LoopInv' /\ DownHolds'
<1>1. PICK recorded \in BOOLEAN :
         Caught(recorded, coverage) /\ tail' = (tail \/ recorded) /\ gen' = gen
  BY DEF Fails
<1>2. coverage \in Known /\ gen' \in Known /\ tail' \in BOOLEAN
  BY <1>1 DEF LoopInv, LoopTypes, VersionTypes, FlagTypes
<1>. QED
  BY <1>1, <1>2, LoopCatches

\* A reconciliation that succeeds starts over for what is pending, or ends with every
\* hint committed.
LEMMA LoopCompletes ==
    ASSUME LoopInv, DownHolds, NEW h \in Hints, NEW p \in BOOLEAN, NEW deb \in BOOLEAN, NEW epoch,
           Complete(h, p, deb, epoch), job # NoJob,
           UNCHANGED <<version, notice, told, unrecorded>>, gen' \in Known,
           tail' = FALSE, retry' = FALSE, retryTimer' = FALSE,
           committed' \in Known, coverage' \in Known, CoverageIsOfTheGeneration',
           p => h # "none", deb => closing = "no",
           absorbed' \in BOOLEAN, p \/ absorbed' \/ committed' >= told
    PROVE  LoopInv' /\ DownHolds'
<1>0. job \in Jobs /\ up # "down"
  BY DEF LoopInv, LoopTypes, DownHolds
<1>1. VersionTypes'
  BY DEF LoopInv, LoopTypes, VersionTypes, Known
<1>2. CASE p
  <2>1. StartJob("event", h, job.byTimer) /\ UNCHANGED <<up, closing>>
    BY <1>2 DEF Complete
  <2>2. job.byTimer \in BOOLEAN /\ "event" \in Kinds
    BY <1>0 DEF Jobs, Kinds
  <2>3. /\ job' \in Jobs /\ job' # NoJob /\ job'.step = "scan" /\ job'.kind = "event"
        /\ job'.snap = version /\ job'.batch = h
        /\ hints' = "none" /\ pending' = FALSE /\ debounce' = FALSE /\ periodic' = FALSE
    BY <2>1, <2>2, JobStarts DEF LoopInv
  <2>4. FlagTypes'
    BY <2>3 DEF LoopInv, LoopTypes, FlagTypes
  <2>5. LoopTypes'
    BY <1>1, <2>1, <2>3, <2>4 DEF LoopInv, LoopTypes, Hints
  <2>6. JobHolds'
    BY <1>2, <2>3 DEF LoopInv, JobHolds, LoopTypes, VersionTypes, Sight, Versions
  <2>7. RetryHolds' /\ HintsHold' /\ DownHolds'
    BY <1>0, <2>1, <2>3 DEF RetryHolds, HintsHold, DownHolds
  <2>. QED
    BY <2>5, <2>6, <2>7 DEF LoopInv
<1>3. CASE ~p
  <2>1. /\ hints' = h /\ pending' = FALSE /\ debounce' = deb /\ job' = NoJob /\ up' = "open"
        /\ periodic' = (closing = "no") /\ closing' = ClosingAfter(TRUE)
    BY <1>3 DEF Complete, EndLoop
  <2>2. /\ closing' \in {"no", "drain", "wait", "flush", "close", "failed"}
        /\ closing' = "no" <=> closing = "no"
    BY <2>1 DEF ClosingAfter, LoopInv, LoopTypes
  <2>3. FlagTypes'
    BY <2>1 DEF LoopInv, LoopTypes, FlagTypes
  <2>4. LoopTypes'
    BY <1>1, <2>1, <2>2, <2>3 DEF LoopInv, LoopTypes
  <2>5. JobHolds' /\ RetryHolds' /\ DownHolds'
    BY <2>1 DEF JobHolds, RetryHolds, DownHolds
  <2>6. HintsHold'
    <3>1. absorbed' \/ committed' >= told
      BY <1>3
    <3>2. committed' \in Nat /\ told \in Nat /\ told' = told
      <4>1. told' = told
        OBVIOUS
      <4>2. told \in Nat
        BY DEF LoopInv, LoopTypes, VersionTypes
      <4>3. committed' \in Nat
        BY DEF Known
      <4>. QED
        BY <4>1, <4>2, <4>3
    <3>3. committed' >= told => ~ (committed' < told')
      BY <3>2
    <3>4. pending' = FALSE /\ ~pending'
      BY <2>1
    <3>5. ~absorbed' => ~ (committed' < told')
      BY <3>1, <3>3, Zenon
    <3>. QED
      BY <3>4, <3>5, Zenon DEF HintsHold
  <2>. QED
    BY <2>4, <2>5, <2>6 DEF LoopInv
<1>. QED
  BY <1>2, <1>3

-------------------------------------------------------------------------------
(* The steps of a reconciliation *)

\* A scan answers with a version the vault has had since the scan began.
LEMMA ScanTyped ==
    ASSUME VersionTypes, NEW s \in Nat, s > 0, NEW v \in Scanned(s)
    PROVE  v \in 1 .. version /\ v \in Known /\ s <= v
BY DEF Scanned, VersionTypes, Versions, Known

\* The locals of a reconciliation in progress.
LEMMA JobTyped ==
    ASSUME LoopInv, DownHolds, NEW s \in Steps, InStep(s)
    PROVE  /\ job \in Jobs /\ job # NoJob /\ job.step = s /\ up # "down"
           /\ job.snap \in 1 .. version /\ job.scan \in Nat
           /\ ~retryTimer /\ (retry <=> job.kind = "failure") /\ (tail => retry)
<1>1. job # NoJob
  BY NoJobApart DEF InStep, Steps
<1>2. job \in Jobs
  BY <1>1 DEF LoopInv, LoopTypes
<1>3. job.snap \in Nat /\ job.snap > 0 /\ job.scan \in Nat
  BY <1>2 DEF Jobs, Versions, None
<1>. QED
  BY <1>1, <1>2, <1>3 DEF InStep, LoopInv, LoopTypes, VersionTypes, Versions, JobHolds, RetryHolds, DownHolds

\* The first scan is in: it fails, ends the reconciliation or is staged.
LEMMA ScanStep ==
    ASSUME HostAssumption, LoopInv, DownHolds, ScanReturns
    PROVE  LoopInv' /\ DownHolds'
<1>1. /\ job \in Jobs /\ job # NoJob /\ job.step = "scan" /\ up # "down"
      /\ job.snap \in 1 .. version /\ job.scan \in Nat
      /\ ~retryTimer /\ (retry <=> job.kind = "failure") /\ (tail => retry)
  BY JobTyped DEF ScanReturns, Steps
<1>2. PICK v \in Scanned(job.snap) :
         IF job.kind = "event" /\ job.batch = "paths" /\ committed = None
         THEN /\ Fails(TRUE)
              /\ UNCHANGED faults
         ELSE IF job.kind = "event" /\ ~retry /\ v = committed /\ Unchanged(v)
         THEN /\ coverage' = CoveredBy(v)
              /\ Complete(hints, pending, debounce, "none")
              /\ UNCHANGED <<version, notice, gen, left, retryState, retryTimer, committed,
                             faults, history>>
         ELSE IF HistoryRefused
         THEN /\ Fails(FALSE)
              /\ UNCHANGED faults
         ELSE /\ job' = [job EXCEPT !.scan = v, !.snap = version,
                           !.step = IF job.kind = "failure" /\ Unchanged(v) /\ tail
                                    THEN "noop" ELSE "stage"]
              /\ UNCHANGED <<version, notice, gen, left, retryState, up, timers, queue, coverage,
                             committed, closing, req, faults, history>>
  BY DEF ScanReturns
<1>3. v \in 1 .. version /\ v \in Known /\ job.snap <= v
  BY <1>1, ScanTyped DEF LoopInv, LoopTypes
<1>4. pending \/ v >= told
  BY <1>1, <1>3 DEF LoopInv, JobHolds, Sight, LoopTypes, VersionTypes, Versions
<1>5. CASE job.kind = "event" /\ job.batch = "paths" /\ committed = None
  BY <1>1, <1>2, <1>5, LoopFails
<1>6. CASE /\ ~(job.kind = "event" /\ job.batch = "paths" /\ committed = None)
           /\ job.kind = "event" /\ ~retry /\ v = committed /\ Unchanged(v)
  <2>1. /\ coverage' = CoveredBy(v) /\ Complete(hints, pending, debounce, "none")
        /\ UNCHANGED <<version, notice, gen, tail, retry, retryTimer, committed, told, absorbed,
                       unrecorded>>
    BY <1>2, <1>6 DEF retryState, history
  <2>2. tail' = FALSE /\ retry' = FALSE /\ retryTimer' = FALSE
    BY <1>1, <1>6, <2>1 DEF LoopInv, LoopTypes, FlagTypes
  <2>3. /\ hints \in Hints /\ pending \in BOOLEAN /\ debounce \in BOOLEAN /\ absorbed' \in BOOLEAN
        /\ gen' \in Known /\ committed' \in Known
    <3>1. hints \in Hints /\ pending \in BOOLEAN /\ debounce \in BOOLEAN
      BY DEF LoopInv, LoopTypes, FlagTypes
    <3>2. absorbed' \in BOOLEAN
      BY <2>1 DEF LoopInv, LoopTypes, FlagTypes
    <3>3. gen' \in Known /\ committed' \in Known
      BY <2>1 DEF LoopInv, LoopTypes, VersionTypes
    <3>. QED
      BY <3>1, <3>2, <3>3
  <2>4. coverage' \in Known /\ CoverageIsOfTheGeneration'
    <3>1. coverage' \in {v, None}
      BY <2>1 DEF CoveredBy
    <3>2. None \in Known
      BY DEF LoopInv, LoopTypes, VersionTypes, Versions, Known, None
    <3>3. gen' = gen /\ gen # None /\ Content(v) = Content(gen)
      BY <1>6, <2>1 DEF Unchanged
    <3>4. CoverageIsOfTheGeneration'
      BY <3>1, <3>3 DEF CoverageIsOfTheGeneration
    <3>. QED
      BY <1>3, <3>1, <3>2, <3>4
  <2>5. (pending => hints # "none") /\ (debounce => closing = "no")
    BY DEF LoopInv, LoopTypes, HintsHold
  <2>6. pending \/ absorbed' \/ committed' >= told
    BY <1>4, <1>6, <2>1
  <2>. QED
    BY <1>1, <2>1, <2>2, <2>3, <2>4, <2>5, <2>6, LoopCompletes
<1>7. CASE /\ ~(job.kind = "event" /\ job.batch = "paths" /\ committed = None)
           /\ ~(job.kind = "event" /\ ~retry /\ v = committed /\ Unchanged(v))
           /\ ~HistoryRefused
  <2>. DEFINE s == IF job.kind = "failure" /\ Unchanged(v) /\ tail THEN "noop" ELSE "stage"
  <2>1. /\ job' = [job EXCEPT !.scan = v, !.snap = version, !.step = s]
        /\ UNCHANGED <<version, notice, gen, tail, retry, up, retryTimer, debounce, periodic,
                       pending, hints, coverage, committed, closing, req, told, absorbed, unrecorded>>
    BY <1>2, <1>7 DEF retryState, timers, queue, history
  <2>2. s \in {"noop", "stage"} /\ (s = "noop" => job.kind = "failure" /\ Unchanged(v))
    OBVIOUS
  <2>. HIDE DEF s
  <2>3. /\ job' \in Jobs /\ job'.step = s /\ job'.scan = v /\ job'.snap = version
        /\ job'.kind = job.kind /\ job'.batch = job.batch
    <3>1. v \in Versions /\ version \in Versions /\ s \in Steps
      BY <1>3, <2>2 DEF LoopInv, LoopTypes, VersionTypes, Versions, HostAssumption, Steps
    <3>. QED
      BY <1>1, <2>1, <3>1 DEF Jobs
  <2>4. job' # NoJob
    BY <2>3, NoJobApart
  <2>5. VersionTypes' /\ FlagTypes'
    BY <2>1 DEF LoopInv, LoopTypes, VersionTypes, FlagTypes, Known
  <2>6. LoopTypes'
    BY <2>1, <2>3, <2>5 DEF LoopInv, LoopTypes
  <2>7. JobHolds'
    BY <1>1, <1>3, <1>4, <2>1, <2>2, <2>3 DEF JobHolds, LoopInv, LoopTypes, VersionTypes, Versions, Sight, Unchanged
  <2>8. RetryHolds' /\ HintsHold' /\ CoverageIsOfTheGeneration' /\ DownHolds'
    BY <1>1, <2>1, <2>4 DEF LoopInv, RetryHolds, HintsHold, CoverageIsOfTheGeneration, DownHolds, Open
  <2>. QED
    BY <2>6, <2>7, <2>8 DEF LoopInv
<1>8. CASE /\ ~(job.kind = "event" /\ job.batch = "paths" /\ committed = None)
           /\ ~(job.kind = "event" /\ ~retry /\ v = committed /\ Unchanged(v))
           /\ HistoryRefused
  BY <1>1, <1>2, <1>8, LoopFails
<1>. QED
  BY <1>5, <1>6, <1>7, <1>8

\* A retry that resolved has committed every hint, or says that it took one along.
LEMMA RetryConsumes ==
    ASSUME LoopInv, DownHolds, job # NoJob, NEW v \in 1 .. version, NEW c \in Known, Consume(v, c),
           UNCHANGED <<version, notice, gen, told, unrecorded>>, tail' = FALSE,
           gen # None, Content(v) = Content(gen), v <= c
    PROVE  LoopInv' /\ DownHolds'
<1>1. /\ retry' = FALSE /\ retryTimer' = FALSE /\ committed' = c /\ coverage' = v
      /\ absorbed' = (absorbed \/ told > v) /\ Complete("none", FALSE, FALSE, "ok")
  BY DEF Consume
<1>2. "none" \in Hints /\ FALSE \in BOOLEAN /\ v \in Known
  BY DEF Hints, Known
<1>3. gen' \in Known /\ committed' \in Known /\ coverage' \in Known
  BY <1>1, <1>2 DEF LoopInv, LoopTypes, VersionTypes
<1>4. CoverageIsOfTheGeneration'
  BY <1>1 DEF CoverageIsOfTheGeneration
<1>5. absorbed' \in BOOLEAN
  BY <1>1 DEF LoopInv, LoopTypes, FlagTypes
<1>6. absorbed' \/ committed' >= told
  <2>1. told > v \/ c >= told
    BY DEF LoopInv, LoopTypes, VersionTypes, Versions, Known
  <2>. QED
    BY <1>1, <2>1, Zenon
<1>. QED
  BY <1>1, <1>2, <1>3, <1>4, <1>5, <1>6, LoopCompletes

\* The second scan of a retry that changed nothing.
LEMMA NoopStep ==
    ASSUME LoopInv, DownHolds, NoopReturns
    PROVE  LoopInv' /\ DownHolds'
<1>1. /\ job \in Jobs /\ job # NoJob /\ job.step = "noop" /\ up # "down"
      /\ job.snap \in 1 .. version /\ job.scan \in Nat
  BY JobTyped DEF NoopReturns, Steps
<1>2. PICK v \in Scanned(job.snap) :
         IF v # job.scan
         THEN Fails(TRUE)
         ELSE /\ tail' = FALSE
              /\ Consume(v, v)
              /\ UNCHANGED <<version, notice, gen, told, unrecorded>>
  BY DEF NoopReturns
<1>3. v \in 1 .. version /\ v \in Known /\ v <= v
  BY <1>1, ScanTyped DEF LoopInv, LoopTypes
<1>4. CASE v # job.scan
  BY <1>1, <1>2, <1>4, LoopFails
<1>5. CASE v = job.scan
  <2>1. gen # None /\ Content(v) = Content(gen)
    BY <1>1, <1>5 DEF LoopInv, JobHolds, Unchanged
  <2>. QED
    BY <1>1, <1>2, <1>3, <1>5, <2>1, RetryConsumes
<1>. QED
  BY <1>4, <1>5

\* The scan that verifies a retry.
LEMMA VerifyStep ==
    ASSUME LoopInv, DownHolds, VerifyReturns
    PROVE  LoopInv' /\ DownHolds'
<1>1. /\ job \in Jobs /\ job # NoJob /\ job.step = "verify" /\ up # "down"
      /\ job.snap \in 1 .. version /\ job.scan \in Nat
  BY JobTyped DEF VerifyReturns, Steps
<1>2. /\ tail = FALSE /\ committed = job.scan /\ gen # None /\ Content(job.scan) = Content(gen)
      /\ pending \/ job.scan >= told
  BY <1>1 DEF LoopInv, LoopTypes, FlagTypes, JobHolds, Unchanged, Sight
<1>3. UNCHANGED <<version, notice, gen, tail, told, unrecorded>>
  BY DEF VerifyReturns
<1>4. PICK v \in Scanned(job.snap) :
         IF v = job.scan
         THEN Consume(v, committed)
         ELSE /\ retry' = FALSE /\ retryTimer' = FALSE
              /\ Complete(hints, pending, debounce, "ok")
              /\ UNCHANGED <<coverage, committed, absorbed>>
  BY DEF VerifyReturns
<1>5. v \in 1 .. version /\ v \in Known /\ v <= v
  BY <1>1, ScanTyped DEF LoopInv, LoopTypes
<1>6. CASE v = job.scan
  BY <1>1, <1>2, <1>3, <1>4, <1>5, <1>6, RetryConsumes
<1>7. CASE v # job.scan
  <2>1. /\ retry' = FALSE /\ retryTimer' = FALSE /\ tail' = FALSE
        /\ Complete(hints, pending, debounce, "ok")
        /\ UNCHANGED <<coverage, committed, absorbed>>
    BY <1>2, <1>3, <1>4, <1>7
  <2>2. hints \in Hints /\ pending \in BOOLEAN /\ debounce \in BOOLEAN
    BY DEF LoopInv, LoopTypes, FlagTypes
  <2>3. absorbed' \in BOOLEAN
    BY <2>1 DEF LoopInv, LoopTypes, FlagTypes
  <2>4. gen' \in Known /\ committed' \in Known /\ coverage' \in Known
    BY <1>3, <2>1 DEF LoopInv, LoopTypes, VersionTypes
  <2>5. CoverageIsOfTheGeneration'
    BY <1>3, <2>1 DEF LoopInv, CoverageIsOfTheGeneration
  <2>6. (pending => hints # "none") /\ (debounce => closing = "no")
    BY DEF LoopInv, LoopTypes, HintsHold
  <2>7. pending \/ absorbed' \/ committed' >= told
    BY <1>2, <2>1
  <2>. QED
    BY <1>1, <1>3, <2>1, <2>2, <2>3, <2>4, <2>5, <2>6, <2>7, LoopCompletes
<1>. QED
  BY <1>6, <1>7

\* The staged generation is published.
LEMMA PublishStep ==
    ASSUME LoopInv, DownHolds, Publish
    PROVE  LoopInv' /\ DownHolds'
<1>1. /\ job \in Jobs /\ job # NoJob /\ job.step = "stage" /\ up # "down"
      /\ job.snap \in 1 .. version /\ job.scan \in Nat
      /\ ~retryTimer /\ (retry <=> job.kind = "failure") /\ (tail => retry)
  BY JobTyped DEF Publish, Steps
<1>2. job.scan \in 1 .. version /\ (pending \/ job.scan >= told)
  BY <1>1 DEF LoopInv, JobHolds, Sight
<1>3. /\ gen' = (IF Unchanged(job.scan) THEN gen ELSE job.scan)
      /\ coverage' = CoveredBy(job.scan) /\ committed' = job.scan
      /\ UNCHANGED <<version, notice, retry, told, absorbed, unrecorded>>
  BY DEF Publish, Publishes, history
<1>4. gen' # None /\ Content(job.scan) = Content(gen') /\ gen' \in Known
  BY <1>2, <1>3 DEF Unchanged, LoopInv, LoopTypes, VersionTypes, Known, None
<1>5. coverage' \in {job.scan, None} /\ job.scan \in Known /\ None \in Known
  <2>1. version \in Nat
    BY DEF LoopInv, LoopTypes, VersionTypes, Versions
  <2>2. job.scan \in Known /\ None \in Known
    BY <1>2, <2>1 DEF Known, None
  <2>. QED
    BY <1>3, <2>2 DEF CoveredBy
<1>6. CoverageIsOfTheGeneration' /\ coverage' \in Known /\ committed' \in Known
  BY <1>3, <1>4, <1>5 DEF CoverageIsOfTheGeneration
<1>7. CASE job.kind = "failure"
  <2>1. /\ tail' = FALSE /\ job' = [job EXCEPT !.step = "verify", !.snap = version]
        /\ UNCHANGED <<up, retryTimer, debounce, periodic, pending, hints, closing, req>>
    BY <1>7 DEF Publish, timers, queue
  <2>2. /\ job' \in Jobs /\ job'.step = "verify" /\ job'.snap = version /\ job'.scan = job.scan
        /\ job'.kind = "failure" /\ job'.batch = job.batch
    BY <1>1, <1>7, <2>1 DEF Jobs, Steps, LoopInv, LoopTypes, VersionTypes
  <2>3. job' # NoJob
    BY <2>2, NoJobApart
  <2>4. VersionTypes'
    BY <1>3, <1>4, <1>6 DEF LoopInv, LoopTypes, VersionTypes, Known
  <2>5. FlagTypes'
    BY <1>3, <2>1 DEF LoopInv, LoopTypes, FlagTypes
  <2>6. LoopTypes'
    BY <2>1, <2>2, <2>4, <2>5 DEF LoopInv, LoopTypes
  <2>7. JobHolds'
    BY <1>1, <1>2, <1>3, <1>4, <1>7, <2>1, <2>2 DEF JobHolds, Sight, Unchanged, LoopInv, LoopTypes,
                                                   VersionTypes, Versions
  <2>8. RetryHolds' /\ HintsHold' /\ DownHolds'
    BY <1>1, <1>3, <2>1, <2>3 DEF LoopInv, RetryHolds, HintsHold, DownHolds, Open
  <2>. QED
    BY <1>6, <2>6, <2>7, <2>8 DEF LoopInv
<1>8. CASE job.kind # "failure"
  <2>1. Complete(hints, pending, debounce, "none") /\ UNCHANGED <<tail, retryTimer>>
    BY <1>8 DEF Publish
  <2>2. tail' = FALSE /\ retry' = FALSE /\ retryTimer' = FALSE
    BY <1>1, <1>3, <1>8, <2>1 DEF LoopInv, LoopTypes, FlagTypes
  <2>3. hints \in Hints /\ pending \in BOOLEAN /\ debounce \in BOOLEAN
    BY DEF LoopInv, LoopTypes, FlagTypes
  <2>4. absorbed' \in BOOLEAN
    BY <1>3 DEF LoopInv, LoopTypes, FlagTypes
  <2>5. (pending => hints # "none") /\ (debounce => closing = "no")
    BY DEF LoopInv, LoopTypes, HintsHold
  <2>6. pending \/ absorbed' \/ committed' >= told
    BY <1>2, <1>3
  <2>. QED
    BY <1>1, <1>3, <1>4, <1>6, <2>1, <2>2, <2>3, <2>4, <2>5, <2>6, LoopCompletes
<1>. QED
  BY <1>7, <1>8

\* A publication that is refused.
LEMMA RefusedStep ==
    ASSUME LoopInv, DownHolds, PublishRefused
    PROVE  LoopInv' /\ DownHolds'
<1>1. /\ job \in Jobs /\ job # NoJob /\ job.step = "stage"
      /\ job.scan \in 1 .. version
  BY JobTyped DEF PublishRefused, Steps, LoopInv, JobHolds
<1>2. CASE Fails(FALSE)
  BY <1>1, <1>2, LoopFails
<1>3. CASE Caught(FALSE, CoveredBy(job.scan)) /\ UNCHANGED <<gen, tail>>
  <2>1. CoveredBy(job.scan) \in Known /\ gen' \in Known /\ tail' \in BOOLEAN
    BY <1>1, <1>3 DEF CoveredBy, LoopInv, LoopTypes, VersionTypes, FlagTypes, Versions, Known, None
  <2>. QED
    BY <1>1, <1>3, <2>1, LoopCatches
<1>. QED
  BY <1>2, <1>3 DEF PublishRefused

\* What a publication that is cut short leaves has its types, and the journal holds no
\* failure it did not hold.
LEMMA CutLeaves ==
    ASSUME LoopInv, DownHolds, LeftTypes, version' = version, Publishes, CutShort(job.scan)
    PROVE  /\ job # NoJob /\ job.scan \in 1 .. version /\ gen' \in Known
           /\ tail' \in BOOLEAN /\ (tail' => tail) /\ LeftTypes'
<1>1. job # NoJob /\ job.step = "stage" /\ job.scan \in 1 .. version
  BY JobTyped DEF Publishes, Steps, LoopInv, JobHolds
<1>2. job.scan \in Known /\ gen \in Known /\ tail \in BOOLEAN
  BY <1>1 DEF LoopInv, LoopTypes, VersionTypes, FlagTypes, Versions, Known
<1>3. PastAfter \in Pasts
  BY DEF PastAfter, Pasts
<1>4. Known' = Known
  BY DEF Known
<1>5. gen' \in Known /\ tail' \in BOOLEAN /\ (tail' => tail) /\ orphan' \in BOOLEAN
  <2>1. gen' = gen \/ gen' = job.scan
    BY DEF CutShort
  <2>2. orphan' = TRUE \/ orphan' = orphan
    BY DEF CutShort, left
  <2>3. \/ tail' = tail
        \/ tail' = (tail /\ job.kind # "failure")
        \/ \E final \in BOOLEAN : tail' = (tail /\ ~(final /\ job.kind = "failure"))
    BY DEF CutShort
  <2>4. tail' \in BOOLEAN /\ (tail' => tail)
    <3>1. CASE tail' = tail
      BY <1>2, <3>1
    <3>2. CASE tail' = (tail /\ job.kind # "failure")
      BY <1>2, <3>2
    <3>3. CASE \E final \in BOOLEAN : tail' = (tail /\ ~(final /\ job.kind = "failure"))
      <4>1. PICK final \in BOOLEAN : tail' = (tail /\ ~(final /\ job.kind = "failure"))
        BY <3>3
      <4>. QED
        BY <1>2, <4>1
    <3>. QED
      BY <2>3, <3>1, <3>2, <3>3
  <2>. QED
    BY <1>2, <2>1, <2>2, <2>4 DEF LeftTypes
<1>6. past' \in Pasts
  BY <1>3 DEF CutShort, LeftTypes, left, Pasts
<1>7. cut' \in [to : Known, final : BOOLEAN]
  <2>1. CASE cut' = cut
    BY <2>1 DEF LeftTypes
  <2>2. CASE \E final \in BOOLEAN : cut' = [to |-> job.scan, final |-> final]
    BY <1>2, <2>2
  <2>. QED
    BY <2>1, <2>2 DEF CutShort, left
<1>. QED
  BY <1>1, <1>4, <1>5, <1>6, <1>7 DEF LeftTypes

\* A reconciliation fails.
LEMMA FailStep ==
    ASSUME LoopInv, DownHolds, LeftTypes, StepFails
    PROVE  LoopInv' /\ DownHolds'
<1>1. job # NoJob
  BY DEF StepFails
<1>2. CASE \E governed \in BOOLEAN : Fails(governed)
  BY <1>1, <1>2, LoopFails
<1>3. CASE /\ Publishes /\ CutShort(job.scan)
           /\ \E covered \in {coverage, CoveredBy(job.scan)} : Caught(FALSE, covered)
  <2>1. PICK covered \in {coverage, CoveredBy(job.scan)} : Caught(FALSE, covered)
    BY <1>3
  <2>2. version' = version
    BY <2>1 DEF Caught
  <2>3. job.scan \in 1 .. version /\ gen' \in Known /\ tail' \in BOOLEAN /\ (tail' => tail)
    BY <1>3, <2>2, CutLeaves
  <2>4. covered \in Known
    BY <2>3 DEF CoveredBy, LoopInv, LoopTypes, VersionTypes, Versions, Known, None
  <2>. QED
    BY <1>1, <2>1, <2>3, <2>4, LoopCatches
<1>. QED
  BY <1>2, <1>3 DEF StepFails

-------------------------------------------------------------------------------
(* The other steps of the loop *)

\* The loop stays as it is while requests go on.
LEMMA LoopRests ==
    ASSUME LoopInv, DownHolds,
           UNCHANGED <<version, notice, gen, tail, up, job, retry, retryTimer, debounce, periodic,
                       pending, hints, committed, told, absorbed, unrecorded>>,
           coverage' \in {coverage, None},
           closing' \in {"no", "drain", "wait", "flush", "close", "failed"},
           closing' = "no" <=> closing = "no",
           up # "down" \/ (closing' = closing /\ req' = req)
    PROVE  LoopInv' /\ DownHolds'
<1>1. VersionTypes'
  BY DEF LoopInv, LoopTypes, VersionTypes, Known, Versions, None
<1>2. FlagTypes'
  BY DEF LoopInv, LoopTypes, FlagTypes
<1>3. LoopTypes'
  BY <1>1, <1>2 DEF LoopInv, LoopTypes
<1>4. JobHolds'
  BY DEF LoopInv, JobHolds, Sight, Unchanged
<1>5. RetryHolds' /\ HintsHold' /\ CoverageIsOfTheGeneration' /\ DownHolds'
  BY DEF LoopInv, RetryHolds, HintsHold, CoverageIsOfTheGeneration, DownHolds, Open
<1>. QED
  BY <1>3, <1>4, <1>5 DEF LoopInv

\* The vault changes.
LEMMA EditStep ==
    ASSUME HostAssumption, LoopInv, DownHolds, Edit
    PROVE  LoopInv' /\ DownHolds'
<1>1. /\ version \in Nat /\ version' = version + 1 /\ version' \in Versions
      /\ notice' \in {notice, version'}
      /\ UNCHANGED <<gen, tail, up, job, retry, retryTimer, debounce, periodic, pending, hints,
                     coverage, committed, closing, req, told, absorbed, unrecorded>>
  BY DEF Edit, HostAssumption, LoopInv, LoopTypes, VersionTypes, Versions, retryState, timers, queue, history
<1>2. VersionTypes'
  BY <1>1 DEF LoopInv, LoopTypes, VersionTypes, Known
<1>3. FlagTypes'
  BY <1>1 DEF LoopInv, LoopTypes, FlagTypes
<1>4. LoopTypes'
  BY <1>1, <1>2, <1>3 DEF LoopInv, LoopTypes
<1>5. JobHolds'
  <2>1. job # NoJob => job.snap \in Nat
    BY DEF LoopInv, LoopTypes, Jobs, Versions
  <2>. QED
    BY <1>1, <2>1 DEF LoopInv, JobHolds, Sight, Unchanged
<1>6. RetryHolds' /\ HintsHold' /\ CoverageIsOfTheGeneration' /\ DownHolds'
  BY <1>1 DEF LoopInv, RetryHolds, HintsHold, CoverageIsOfTheGeneration, DownHolds, Open
<1>. QED
  BY <1>4, <1>5, <1>6 DEF LoopInv

\* A hint that arrives makes a reconciliation pending.
LEMMA HintStep ==
    ASSUME LoopInv, DownHolds, HintArrives
    PROVE  LoopInv' /\ DownHolds'
<1>1. /\ Open /\ notice \in 1 .. version /\ notice' = None /\ told' = notice
      /\ hints' \in {"unscoped", "paths"} /\ job' = Hinted(job) /\ pending' = TRUE
      /\ coverage' = None /\ debounce' = TRUE
      /\ UNCHANGED <<version, gen, tail, up, retry, retryTimer, periodic, committed, closing, req,
                     absorbed, unrecorded>>
  BY DEF HintArrives, LoopInv, LoopTypes, VersionTypes, Versions, Known, None
<1>2. /\ job' \in Jobs \cup {NoJob} /\ (job' = NoJob <=> job = NoJob)
      /\ job # NoJob => /\ job'.snap = job.snap /\ job'.scan = job.scan /\ job'.step = job.step
                        /\ job'.kind = job.kind /\ job'.batch = job.batch
  <2>1. CASE job = NoJob
    BY <1>1, <2>1 DEF Hinted
  <2>2. CASE job # NoJob
    <3>1. job \in Jobs /\ job' = [job EXCEPT !.hinted = TRUE]
      BY <1>1, <2>2 DEF Hinted, LoopInv, LoopTypes
    <3>2. job' \in Jobs
      BY <3>1 DEF Jobs
    <3>3. job' # NoJob
      BY <3>2, NoJobApart
    <3>. QED
      BY <2>2, <3>1, <3>2, <3>3 DEF Jobs
  <2>. QED
    BY <2>1, <2>2
<1>3. VersionTypes'
  BY <1>1 DEF LoopInv, LoopTypes, VersionTypes, Known, Versions, None
<1>4. FlagTypes'
  BY <1>1 DEF LoopInv, LoopTypes, FlagTypes
<1>5. LoopTypes'
  BY <1>1, <1>2, <1>3, <1>4 DEF LoopInv, LoopTypes, Hints, Open
<1>6. JobHolds'
  BY <1>1, <1>2 DEF LoopInv, JobHolds, Sight, Unchanged
<1>7. RetryHolds' /\ HintsHold' /\ CoverageIsOfTheGeneration' /\ DownHolds'
  BY <1>1, <1>2 DEF LoopInv, RetryHolds, HintsHold, CoverageIsOfTheGeneration, DownHolds, Open
<1>. QED
  BY <1>5, <1>6, <1>7 DEF LoopInv

\* The timers fire.
LEMMA DebounceStep ==
    ASSUME LoopInv, DownHolds, DebounceFires
    PROVE  LoopInv' /\ DownHolds'
<1>1. /\ ReconcileEvent(hints) /\ KeepVault /\ up # "down" /\ hints \in Hints
      /\ periodic' = (periodic /\ (retry \/ job # NoJob))
      /\ UNCHANGED <<notice, coverage, closing, up, committed, tail, retry, retryTimer>>
  BY DEF DebounceFires, Open, KeepVault, history, LoopInv, LoopTypes
<1>2. notice' \in Known
  BY <1>1 DEF LoopInv, LoopTypes, VersionTypes
<1>3. LoopInv'
  BY <1>1, <1>2, LoopJoins
<1>. QED
  BY <1>1, <1>3 DEF DownHolds

\* The pending reconciliation of a retry epoch, or a new one.
LEMMA RetryOrStart ==
    ASSUME LoopInv, DownHolds, KeepVault, notice' \in Known, coverage' = None, up # "down",
           UNCHANGED <<closing, up, committed, tail, retry, retryTimer>>, periodic' \in BOOLEAN,
           periodic' => periodic,
           \/ /\ retry \/ job # NoJob
              /\ pending' = TRUE /\ hints' = "unscoped" /\ debounce' = FALSE
              /\ job' \in {job, Hinted(job)}
           \/ ~retry /\ job = NoJob /\ StartJob("event", "unscoped", FALSE)
    PROVE  LoopInv' /\ DownHolds'
<1>1. CASE ~retry /\ job = NoJob /\ StartJob("event", "unscoped", FALSE)
  <2>1. "event" \in Kinds /\ "unscoped" \in Hints /\ FALSE \in BOOLEAN /\ "unscoped" # "none"
    BY DEF Kinds, Hints
  <2>2. retryTimer' = FALSE
    BY <1>1 DEF LoopInv, RetryHolds, LoopTypes, FlagTypes
  <2>3. tail' \in BOOLEAN /\ retry' \in BOOLEAN /\ (tail' => tail)
    BY DEF LoopInv, LoopTypes, FlagTypes
  <2>4. (up # "down" => (tail' => retry')) /\ ("event" = "failure" <=> retry')
    BY <1>1 DEF LoopInv, RetryHolds
  <2>5. LoopInv'
    BY <1>1, <2>1, <2>2, <2>3, <2>4, LoopStarts
  <2>. QED
    BY <2>5 DEF DownHolds
<1>2. CASE /\ retry \/ job # NoJob
           /\ pending' = TRUE /\ hints' = "unscoped" /\ debounce' = FALSE
           /\ job' \in {job, Hinted(job)}
  <2>1. /\ job' \in Jobs \cup {NoJob} /\ (job' = NoJob <=> job = NoJob)
        /\ job # NoJob => /\ job'.snap = job.snap /\ job'.scan = job.scan /\ job'.step = job.step
                          /\ job'.kind = job.kind /\ job'.batch = job.batch
    <3>1. CASE job' = job
      BY <3>1 DEF LoopInv, LoopTypes
    <3>2. CASE job # NoJob /\ job' = [job EXCEPT !.hinted = TRUE]
      <4>1. job \in Jobs
        BY <3>2 DEF LoopInv, LoopTypes
      <4>2. job' \in Jobs
        BY <3>2, <4>1 DEF Jobs
      <4>3. job' # NoJob
        BY <4>2, NoJobApart
      <4>. QED
        BY <3>2, <4>1, <4>2, <4>3 DEF Jobs
    <3>. QED
      BY <1>2, <3>1, <3>2 DEF Hinted
  <2>2. VersionTypes'
    BY DEF LoopInv, LoopTypes, VersionTypes, KeepVault, Known, Versions, None
  <2>3. FlagTypes'
    BY <1>2 DEF LoopInv, LoopTypes, FlagTypes, KeepVault
  <2>4. LoopTypes'
    BY <1>2, <2>1, <2>2, <2>3 DEF LoopInv, LoopTypes, Hints
  <2>5. JobHolds'
    BY <1>2, <2>1 DEF LoopInv, JobHolds, KeepVault, Sight, Unchanged
  <2>6. RetryHolds' /\ HintsHold' /\ CoverageIsOfTheGeneration' /\ DownHolds'
    BY <1>2, <2>1 DEF LoopInv, RetryHolds, HintsHold, CoverageIsOfTheGeneration, KeepVault, DownHolds, Open
  <2>. QED
    BY <2>4, <2>5, <2>6 DEF LoopInv
<1>. QED
  BY <1>1, <1>2

LEMMA PeriodicStep ==
    ASSUME LoopInv, DownHolds, PeriodicFires
    PROVE  LoopInv' /\ DownHolds'
<1>1. /\ KeepVault /\ up # "down" /\ periodic' = FALSE /\ coverage' = None
      /\ UNCHANGED <<notice, closing, up, committed, tail, retry, retryTimer>>
  BY DEF PeriodicFires, Open, KeepVault, history, StartJob
<1>2. notice' \in Known
  BY <1>1 DEF LoopInv, LoopTypes, VersionTypes
<1>3. CASE retry
  <2>1. pending' = TRUE /\ hints' = "unscoped" /\ debounce' = FALSE /\ job' = job
    BY <1>3 DEF PeriodicFires
  <2>. QED
    BY <1>1, <1>2, <1>3, <2>1, RetryOrStart
<1>4. CASE ~retry /\ job = NoJob
  <2>1. StartJob("event", "unscoped", FALSE)
    BY <1>4 DEF PeriodicFires
  <2>. QED
    BY <1>1, <1>2, <1>4, <2>1, RetryOrStart
<1>5. job = NoJob
  BY DEF PeriodicFires, LoopInv, RetryHolds
<1>. QED
  BY <1>3, <1>4, <1>5

\* The native watcher fails.
LEMMA ErrorStep ==
    ASSUME LoopInv, DownHolds, WatcherError
    PROVE  LoopInv' /\ DownHolds'
<1>1. /\ KeepVault /\ up # "down" /\ notice' = None /\ coverage' = None
      /\ UNCHANGED <<closing, up, committed, tail, retry, retryTimer>>
  BY DEF WatcherError, Open, KeepVault, history
<1>2. notice' \in Known
  BY <1>1 DEF LoopInv, LoopTypes, VersionTypes, Versions, Known, None
<1>3. CASE retry
  <2>1. pending' = TRUE /\ hints' = "unscoped" /\ debounce' = FALSE /\ job' = job /\ periodic' = periodic
    BY <1>3 DEF WatcherError
  <2>2. periodic' \in BOOLEAN
    BY <2>1 DEF LoopInv, LoopTypes, FlagTypes
  <2>. QED
    BY <1>1, <1>2, <1>3, <2>1, <2>2, RetryOrStart
<1>4. CASE ~retry /\ job # NoJob
  <2>1. /\ pending' = TRUE /\ hints' = "unscoped" /\ debounce' = FALSE /\ job' = Hinted(job)
        /\ periodic' = periodic
    BY <1>4 DEF WatcherError
  <2>2. periodic' \in BOOLEAN
    BY <2>1 DEF LoopInv, LoopTypes, FlagTypes
  <2>. QED
    BY <1>1, <1>2, <1>4, <2>1, <2>2, RetryOrStart
<1>5. CASE ~retry /\ job = NoJob
  <2>1. StartJob("event", "unscoped", FALSE)
    BY <1>5 DEF WatcherError
  <2>2. periodic' = FALSE
    BY <2>1 DEF StartJob
  <2>. QED
    BY <1>1, <1>2, <1>5, <2>1, <2>2, RetryOrStart
<1>. QED
  BY <1>3, <1>4, <1>5

\* The retry timer fires.
LEMMA RetryStep ==
    ASSUME LoopInv, DownHolds, RetryFires
    PROVE  LoopInv' /\ DownHolds'
<1>1. /\ StartJob("failure", hints, TRUE) /\ KeepVault /\ retryTimer' = FALSE /\ up # "down"
      /\ UNCHANGED <<notice, coverage, closing, up, committed, tail, retry>>
  BY DEF RetryFires, Open, KeepVault, history
<1>2. retry
  BY DEF RetryFires, LoopInv, RetryHolds
<1>3. notice' \in Known
  BY <1>1 DEF LoopInv, LoopTypes, VersionTypes
<1>4. hints \in Hints /\ "failure" \in Kinds /\ TRUE \in BOOLEAN
  BY DEF LoopInv, LoopTypes, Kinds
<1>5. tail' \in BOOLEAN /\ retry' \in BOOLEAN /\ (tail' => tail)
  BY <1>1 DEF LoopInv, LoopTypes, FlagTypes
<1>6. (up # "down" => (tail' => retry')) /\ ("failure" = "failure" <=> retry') /\ (hints # "none" \/ retry')
  BY <1>1, <1>2
<1>7. LoopInv'
  BY <1>1, <1>3, <1>4, <1>5, <1>6, LoopStarts
<1>. QED
  BY <1>1, <1>7 DEF DownHolds

\* A request that cannot trust the coverage waits for a reconciliation or gives up.
LEMMA NotFreshStep ==
    ASSUME LoopInv, DownHolds, NEW r \in Requests, NotFresh(r), req[r].at # "idle",
           UNCHANGED <<version, notice, gen, retryState, up, retryTimer, committed, closing, faults,
                       history>>
    PROVE  LoopInv' /\ DownHolds'
<1>1. up # "down"
  BY DEF DownHolds
<1>2. /\ UNCHANGED <<version, notice, gen, tail, retry, up, retryTimer, committed, closing, told,
                     absorbed, unrecorded>>
      /\ KeepVault /\ coverage' \in {coverage, None}
  BY DEF retryState, history, KeepVault, NotFresh
<1>3. CASE KeepLoop
  <2>1. UNCHANGED <<job, debounce, periodic, pending, hints>>
    BY <1>3 DEF KeepLoop, queue
  <2>2. closing' \in {"no", "drain", "wait", "flush", "close", "failed"}
    BY <1>2 DEF LoopInv, LoopTypes
  <2>. QED
    BY <1>1, <1>2, <2>1, <2>2, LoopRests
<1>4. CASE ReconcileEvent(hints) /\ periodic' = (periodic /\ (retry \/ job # NoJob))
  <2>1. notice' \in Known /\ hints \in Hints
    BY <1>2 DEF LoopInv, LoopTypes, VersionTypes
  <2>2. LoopInv'
    BY <1>1, <1>2, <1>4, <2>1, LoopJoins
  <2>. QED
    BY <1>1, <1>2, <2>2 DEF DownHolds
<1>5. CASE ~retry /\ ReconcileEvent(hints) /\ periodic' = (periodic /\ job # NoJob)
  <2>1. periodic' = (periodic /\ (retry \/ job # NoJob))
    BY <1>5
  <2>. QED
    BY <1>4, <1>5, <2>1
<1>. QED
  BY <1>3, <1>4, <1>5 DEF NotFresh

\* A request finds the evidence wanting and starts a reconciliation.
LEMMA CheckStep ==
    ASSUME LoopInv, DownHolds, NEW r \in Requests, Check(r) \/ CheckReturns(r)
    PROVE  LoopInv' /\ DownHolds'
<1>1. /\ UNCHANGED <<version, notice, gen, retryState, up, retryTimer, committed, closing, faults,
                     history>>
      /\ req[r].at \in {"check", "recheck", "scan", "rescan"}
      /\ NotFresh(r) \/ (UNCHANGED coverage /\ KeepLoop)
  BY DEF Check, CheckReturns
<1>2. CASE NotFresh(r)
  BY <1>1, <1>2, NotFreshStep
<1>3. CASE UNCHANGED coverage /\ KeepLoop
  <2>1. UNCHANGED <<version, notice, gen, tail, up, job, retry, retryTimer, debounce, periodic,
                    pending, hints, committed, told, absorbed, unrecorded, coverage, closing>>
    BY <1>1, <1>3 DEF KeepLoop, queue, retryState, history
  <2>2. up # "down"
    BY <1>1 DEF DownHolds
  <2>3. closing' \in {"no", "drain", "wait", "flush", "close", "failed"}
    BY <2>1 DEF LoopInv, LoopTypes
  <2>. QED
    BY <2>1, <2>2, <2>3, LoopRests
<1>. QED
  BY <1>1, <1>2, <1>3

\* The other steps of a request leave the loop alone.
LEMMA RequestLoopStep ==
    ASSUME LoopInv, DownHolds, NEW r \in Requests,
           \/ Request(r) \/ SearchBegins(r) \/ SearchScanned(r) \/ SearchOpens(r)
           \/ SearchReturns(r) \/ Respond(r)
    PROVE  LoopInv' /\ DownHolds'
<1>1. UNCHANGED <<version, notice, gen, tail, up, job, retry, retryTimer, debounce, periodic,
                  pending, hints, committed, told, absorbed, unrecorded, coverage, closing>>
  BY DEF Request, SearchBegins, SearchScanned, SearchOpens, SearchReturns, Respond, retryState, timers, queue, history
<1>2. up # "down"
  BY DEF Request, SearchBegins, SearchScanned, SearchOpens, SearchReturns, Respond, Open, DownHolds
<1>3. closing' \in {"no", "drain", "wait", "flush", "close", "failed"}
  BY <1>1 DEF LoopInv, LoopTypes
<1>. QED
  BY <1>1, <1>2, <1>3, LoopRests

\* A host starts, with the retry a dead one left or with a first reconciliation.
LEMMA StartStep ==
    ASSUME LoopInv, DownHolds, LeftTypes, Start
    PROVE  LoopInv' /\ DownHolds'
<1>1. /\ job = NoJob /\ ~retry /\ ~pending /\ hints = "unscoped" /\ closing = "no"
      /\ coverage = None /\ committed = None
      /\ \A r \in Requests : req[r].at = "idle"
  BY DEF Start, DownHolds
<1>2. /\ retry' = tail' /\ tail' \in BOOLEAN /\ gen' \in {gen, cut.to}
      /\ absorbed' = FALSE /\ unrecorded' = FALSE /\ told' = version
      /\ UNCHANGED <<version, notice, coverage, committed, closing, req>>
  BY DEF Start, LoopInv, LoopTypes, FlagTypes
<1>3. VersionTypes'
  BY <1>2 DEF LoopInv, LoopTypes, VersionTypes, Known, Versions, LeftTypes
<1>4. CoverageIsOfTheGeneration'
  BY <1>1, <1>2 DEF CoverageIsOfTheGeneration
<1>5. CASE tail'
  <2>1. /\ up' = "open" /\ retryTimer' = TRUE /\ periodic' = TRUE
        /\ UNCHANGED <<job, debounce, pending, hints>>
    BY <1>5 DEF Start, queue
  <2>2. FlagTypes'
    BY <1>2, <2>1 DEF LoopInv, LoopTypes, FlagTypes
  <2>3. LoopTypes'
    BY <1>1, <1>2, <1>3, <2>1, <2>2 DEF LoopInv, LoopTypes
  <2>4. JobHolds' /\ RetryHolds' /\ HintsHold' /\ DownHolds'
    BY <1>1, <1>2, <1>5, <2>1 DEF JobHolds, RetryHolds, HintsHold, DownHolds
  <2>. QED
    BY <1>4, <2>3, <2>4 DEF LoopInv
<1>6. CASE ~tail'
  <2>1. up' = "starting" /\ StartJob("startup", hints, FALSE) /\ retryTimer' = retryTimer
    BY <1>6 DEF Start
  <2>2. /\ job' \in Jobs /\ job' # NoJob /\ job'.step = "scan" /\ job'.kind = "startup"
        /\ job'.snap = version /\ job'.batch = hints
        /\ hints' = "none" /\ pending' = FALSE /\ debounce' = FALSE /\ periodic' = FALSE
    <3>1. "startup" \in Kinds /\ hints \in Hints /\ FALSE \in BOOLEAN
      BY DEF Kinds, LoopInv, LoopTypes
    <3>. QED
      BY <2>1, <3>1, JobStarts DEF LoopInv
  <2>3. FlagTypes'
    BY <1>2, <2>1, <2>2 DEF LoopInv, LoopTypes, FlagTypes
  <2>4. LoopTypes'
    BY <1>1, <1>2, <1>3, <2>1, <2>2, <2>3 DEF LoopInv, LoopTypes, Hints
  <2>5. JobHolds'
    BY <1>1, <1>2, <1>6, <2>2 DEF LoopInv, LoopTypes, VersionTypes, Versions, JobHolds, Sight
  <2>6. RetryHolds' /\ HintsHold' /\ DownHolds'
    BY <1>1, <1>2, <1>6, <2>1, <2>2 DEF LoopInv, RetryHolds, HintsHold, DownHolds, Open
  <2>. QED
    BY <1>4, <2>4, <2>5, <2>6 DEF LoopInv
<1>. QED
  BY <1>5, <1>6

\* A host is down.
LEMMA CloseStep ==
    ASSUME LoopInv, DownHolds, LeftTypes, Close \/ Crash
    PROVE  LoopInv' /\ DownHolds'
<1>1. GoDown /\ UNCHANGED <<version, told, absorbed, unrecorded>>
  BY DEF Close, Crash, history
<1>2. UNCHANGED <<gen, tail>> \/ (Publishes /\ CutShort(job.scan))
  BY DEF Close, Crash
<1>3. gen' \in Known /\ tail' \in BOOLEAN /\ unrecorded' \in BOOLEAN
  BY <1>1, <1>2, CutLeaves DEF LoopInv, LoopTypes, VersionTypes, FlagTypes
<1>. QED
  BY <1>1, <1>3, LoopEnds

\* The last reconciliation of a shutdown.
LEMMA FlushStep ==
    ASSUME LoopInv, DownHolds, Flush
    PROVE  LoopInv' /\ DownHolds'
<1>1. UNCHANGED <<version, gen, tail, told, absorbed, unrecorded>> /\ job = NoJob
  BY DEF Flush, history
<1>2. CASE GoDown
  <2>1. gen' \in Known /\ tail' \in BOOLEAN /\ unrecorded' \in BOOLEAN
    BY <1>1 DEF LoopInv, LoopTypes, VersionTypes, FlagTypes
  <2>. QED
    BY <1>1, <1>2, <2>1, LoopEnds
<1>3. CASE ~GoDown
  <2>. DEFINE k == IF retry THEN "failure" ELSE "shutdown"
              h == IF retry THEN "unscoped" ELSE hints
  <2>2. /\ closing = "wait" /\ closing' = "flush" /\ StartJob(k, h, FALSE) /\ (pending \/ retry)
        /\ UNCHANGED <<up, retry, retryTimer, coverage, committed, notice, req>>
    BY <1>3 DEF Flush
  <2>3. k \in Kinds /\ h \in Hints /\ (k = "failure" <=> retry) /\ (h # "none" \/ retry)
    BY <2>2 DEF Kinds, Hints, LoopInv, LoopTypes, HintsHold
  <2>. HIDE DEF k, h
  <2>4. /\ job' \in Jobs /\ job' # NoJob /\ job'.step = "scan" /\ job'.kind = k
        /\ job'.snap = version /\ job'.batch = h
        /\ hints' = "none" /\ pending' = FALSE /\ debounce' = FALSE /\ periodic' = FALSE
    BY <2>2, <2>3, JobStarts DEF LoopInv
  <2>5. VersionTypes'
    BY <1>1, <2>2 DEF LoopInv, LoopTypes, VersionTypes, Known
  <2>6. FlagTypes'
    BY <1>1, <2>2, <2>4 DEF LoopInv, LoopTypes, FlagTypes
  <2>7. LoopTypes'
    BY <2>2, <2>4, <2>5, <2>6 DEF LoopInv, LoopTypes, Hints
  <2>8. JobHolds'
    BY <1>1, <2>2, <2>3, <2>4 DEF LoopInv, LoopTypes, VersionTypes, Versions, JobHolds, Sight
  <2>9. RetryHolds' /\ HintsHold' /\ CoverageIsOfTheGeneration' /\ DownHolds'
    BY <1>1, <2>2, <2>4 DEF LoopInv, LoopTypes, RetryHolds, HintsHold, CoverageIsOfTheGeneration, DownHolds, Open
  <2>. QED
    BY <2>7, <2>8, <2>9 DEF LoopInv
<1>. QED
  BY <1>2, <1>3

\* A shutdown begins.
LEMMA StopStep ==
    ASSUME LoopInv, DownHolds, Stop
    PROVE  LoopInv' /\ DownHolds'
<1>1. /\ closing' = "drain" /\ retryTimer' = FALSE /\ debounce' = FALSE /\ periodic' = FALSE
      /\ notice' = None /\ up # "down"
      /\ UNCHANGED <<version, gen, tail, retry, up, job, pending, hints, coverage, committed, req, told,
                     absorbed, unrecorded>>
  BY DEF Stop, Open, retryState, queue, history
<1>2. VersionTypes'
  BY <1>1 DEF LoopInv, LoopTypes, VersionTypes, Known, None, Versions
<1>3. FlagTypes'
  BY <1>1 DEF LoopInv, LoopTypes, FlagTypes
<1>4. LoopTypes'
  BY <1>1, <1>2, <1>3 DEF LoopInv, LoopTypes
<1>5. JobHolds'
  BY <1>1 DEF LoopInv, JobHolds, Sight, Unchanged
<1>6. RetryHolds' /\ HintsHold' /\ CoverageIsOfTheGeneration' /\ DownHolds'
  BY <1>1 DEF LoopInv, RetryHolds, HintsHold, CoverageIsOfTheGeneration, DownHolds, Open
<1>. QED
  BY <1>4, <1>5, <1>6 DEF LoopInv

\* A shutdown waits.
LEMMA WaitStep ==
    ASSUME LoopInv, DownHolds, Drained \/ Deadline
    PROVE  LoopInv' /\ DownHolds'
<1>1. /\ UNCHANGED <<version, notice, gen, tail, up, job, retry, retryTimer, debounce, periodic,
                     pending, hints, committed, told, absorbed, unrecorded, coverage, req>>
      /\ closing # "no" /\ closing' \in {"wait", "failed"}
  BY DEF Drained, Deadline, retryState, timers, queue, history
<1>2. up # "down"
  BY <1>1 DEF DownHolds
<1>. QED
  BY <1>1, <1>2, LoopRests

-------------------------------------------------------------------------------
(* Requests *)

Scanning == {"scan", "rescan", "innerScan"}

\* What a request has read stays current while the vault moves on.
LEMMA RequestKept ==
    ASSUME VersionTypes, NEW r \in Requests, RequestHolds(r), req[r] \in Reqs, req'[r] = req[r],
           version' \in Nat, version' >= version
    PROVE  RequestHolds(r)'
<1>1. version \in Nat /\ req[r].born \in Nat
  BY DEF VersionTypes, Versions, Reqs
<1>2. req[r].born .. version \subseteq req[r].born .. version'
  BY <1>1
<1>. QED
  BY <1>1, <1>2 DEF RequestHolds, Current

\* A request that waits or is over has read nothing.
LEMMA RequestWaits ==
    ASSUME NEW r \in Requests, req'[r].at \notin Scanning \cup {"open", "search", "answer"},
           req'[r].born <= version'
    PROVE  RequestHolds(r)'
BY DEF RequestHolds, Scanning

\* The other requests stay as they are when one goes on.
LEMMA OneRequest ==
    ASSUME VersionTypes, RequestsHold, version' = version, NEW r \in Requests, NEW q \in Reqs,
           req' = [req EXCEPT ![r] = q], RequestHolds(r)'
    PROVE  RequestsHold'
<1>1. req' \in [Requests -> Reqs]
  BY DEF RequestsHold
<1>2. ASSUME NEW s \in Requests, s # r PROVE RequestHolds(s)'
  <2>1. req'[s] = req[s] /\ req[s] \in Reqs /\ version' \in Nat /\ version' >= version
    BY <1>2 DEF RequestsHold, VersionTypes, Versions
  <2>. QED
    BY <2>1, RequestKept DEF RequestsHold
<1>. QED
  BY <1>1, <1>2 DEF RequestsHold

\* The requests do not change, the vault may.
LEMMA RequestsRest ==
    ASSUME VersionTypes, VersionTypes', RequestsHold, req' = req, version' >= version
    PROVE  RequestsHold'
<1>1. version' \in Nat
  BY DEF VersionTypes, Versions
<1>. QED
  BY <1>1, RequestKept DEF RequestsHold

\* A slot that is free.
LEMMA NoRequestTyped == NoRequest \in Reqs /\ NoRequest.at = "idle" /\ NoRequest.born = 0
BY DEF NoRequest, Reqs, Places, None

\* A request that ends.
LEMMA RequestEnds ==
    ASSUME VersionTypes, RequestsHold, version' = version, NEW r \in Requests, End(r)
    PROVE  RequestsHold'
<1>1. req' = [req EXCEPT ![r] = NoRequest] /\ req'[r] = NoRequest
  BY DEF End, RequestsHold
<1>2. RequestHolds(r)'
  BY <1>1, NoRequestTyped, RequestWaits DEF Scanning, VersionTypes, Versions
<1>. QED
  BY <1>1, <1>2, NoRequestTyped, OneRequest

\* A request that is sent back.
LEMMA RequestGoes ==
    ASSUME VersionTypes, RequestsHold, version' = version, NEW r \in Requests,
           NEW at \in {"wait", "waitRetry", "recheck", "inner"}, Go(r, at)
    PROVE  RequestsHold'
<1>. DEFINE q == [req[r] EXCEPT !.at = at, !.snap = None, !.before = None]
<1>1. req[r] \in Reqs /\ req[r].born <= version
  BY DEF RequestsHold, RequestHolds
<1>2. q \in Reqs /\ q.at = at /\ q.born = req[r].born
  BY <1>1 DEF Reqs, Places, None
<1>3. req' = [req EXCEPT ![r] = q]
  BY DEF Go
<1>. HIDE DEF q
<1>4. req'[r] = q
  BY <1>3 DEF RequestsHold
<1>5. RequestHolds(r)'
  BY <1>1, <1>2, <1>4, RequestWaits DEF Scanning
<1>. QED
  BY <1>2, <1>3, <1>5, OneRequest

\* A reconciliation that ends sends on the requests that wait for it.
LEMMA RequestsSettle ==
    ASSUME VersionTypes, RequestsHold, version' = version, NEW a, NEW e, Settle(a, e)
    PROVE  RequestsHold'
<1>1. ASSUME NEW r \in Requests
      PROVE  /\ req'[r] \in Reqs
             /\ \/ req'[r] = req[r]
                \/ req'[r].at \in {"recheck", "check", "idle"} /\ req'[r].born <= version
  <2>1. req[r] \in Reqs /\ req[r].born <= version
    BY DEF RequestsHold, RequestHolds
  <2>2. /\ [req[r] EXCEPT !.at = "recheck"] \in Reqs /\ [req[r] EXCEPT !.at = "check"] \in Reqs
        /\ [req[r] EXCEPT !.at = "recheck"].born = req[r].born
        /\ [req[r] EXCEPT !.at = "check"].born = req[r].born
        /\ [req[r] EXCEPT !.at = "recheck"].at = "recheck"
        /\ [req[r] EXCEPT !.at = "check"].at = "check"
    BY <2>1 DEF Reqs, Places
  <2>3. NoRequest.born <= version
    BY NoRequestTyped DEF VersionTypes, Versions
  <2>4. req'[r] \in {req[r], [req[r] EXCEPT !.at = "recheck"], [req[r] EXCEPT !.at = "check"], NoRequest}
    BY DEF Settle, Resume
  <2>. QED
    BY <2>1, <2>2, <2>3, <2>4, NoRequestTyped
<1>2. ASSUME NEW r \in Requests PROVE RequestHolds(r)'
  <2>1. CASE req'[r] = req[r]
    <3>1. version' \in Nat /\ version' >= version /\ req[r] \in Reqs /\ RequestHolds(r)
      BY DEF VersionTypes, Versions, RequestsHold
    <3>. QED
      BY <2>1, <3>1, RequestKept
  <2>2. CASE req'[r].at \in {"recheck", "check", "idle"} /\ req'[r].born <= version
    BY <2>2, RequestWaits DEF Scanning
  <2>. QED
    BY <1>1, <2>1, <2>2
<1>3. req' = [r \in Requests |-> req'[r]]
  BY DEF Settle
<1>. QED
  BY <1>1, <1>2, <1>3 DEF RequestsHold

\* Nobody waits for a host that is down.
LEMMA RequestsDrop ==
    ASSUME VersionTypes, version' = version, GoDown
    PROVE  RequestsHold'
<1>1. req' = [r \in Requests |-> NoRequest]
  BY DEF GoDown
<1>2. ASSUME NEW r \in Requests PROVE RequestHolds(r)'
  BY <1>1, NoRequestTyped, RequestWaits DEF Scanning, VersionTypes, Versions
<1>. QED
  BY <1>1, <1>2, NoRequestTyped DEF RequestsHold

\* A request that is not answered yet waits or ends.
LEMMA NotFreshRequest ==
    ASSUME VersionTypes, RequestsHold, version' = version, NEW r \in Requests, NotFresh(r)
    PROVE  RequestsHold'
<1>1. End(r) \/ \E at \in {"wait", "waitRetry", "recheck"} : Go(r, at)
  BY DEF NotFresh
<1>2. CASE End(r)
  BY <1>2, RequestEnds
<1>3. CASE \E at \in {"wait", "waitRetry", "recheck"} : Go(r, at)
  <2>1. PICK at \in {"wait", "waitRetry", "recheck", "inner"} : Go(r, at)
    BY <1>3
  <2>. QED
    BY <2>1, RequestGoes
<1>. QED
  BY <1>1, <1>2, <1>3

\* A request that begins is as old as the vault.
LEMMA RequestBegins ==
    ASSUME LoopInv, RequestsHold, NEW r \in Requests, Request(r)
    PROVE  RequestsHold'
<1>1. PICK as \in {"search", "status"}, e \in {None, gen} :
         req' = [req EXCEPT ![r] = [@ EXCEPT !.at = "check", !.as = as, !.born = version, !.expect = e]]
  BY DEF Request
<1>. DEFINE q == [req[r] EXCEPT !.at = "check", !.as = as, !.born = version, !.expect = e]
<1>2. version' = version
  BY DEF Request
<1>3. VersionTypes /\ version \in Nat /\ e \in Nat
  BY <1>1 DEF LoopInv, LoopTypes, VersionTypes, Versions, Known, None
<1>4. req[r] \in Reqs /\ "check" \in Places /\ as \in {"none", "search", "status"}
  BY DEF RequestsHold, Places
<1>5. q \in Reqs /\ q.at = "check" /\ q.born = version
  <2>. version \in Nat /\ e \in Nat
    BY <1>3
  <2>. QED
    BY <1>4 DEF Reqs
<1>6. req' = [req EXCEPT ![r] = q]
  BY <1>1
<1>. HIDE DEF q
<1>7. req'[r] = q
  BY <1>6 DEF RequestsHold
<1>8. RequestHolds(r)'
  BY <1>2, <1>3, <1>5, <1>7, RequestWaits DEF Scanning
<1>. QED
  BY <1>2, <1>3, <1>5, <1>6, <1>8, OneRequest

\* A request that begins to scan the vault, with a generation in hand.
LEMMA RequestScans ==
    ASSUME LoopInv, RequestsHold, version' = version, NEW r \in Requests, NEW at \in Scanning,
           req' = [req EXCEPT ![r] = [@ EXCEPT !.at = at, !.snap = version, !.before = gen]]
    PROVE  RequestsHold'
<1>. DEFINE q == [req[r] EXCEPT !.at = at, !.snap = version, !.before = gen]
<1>1. VersionTypes /\ version \in Nat /\ version > 0 /\ gen \in Nat
  BY DEF LoopInv, LoopTypes, VersionTypes, Versions, Known
<1>2. req[r] \in Reqs /\ req[r].born <= version
  BY DEF RequestsHold, RequestHolds
<1>3. q \in Reqs /\ q.at = at /\ q.born = req[r].born /\ q.snap = version
  BY <1>1, <1>2 DEF Reqs, Places, Scanning
<1>4. req' = [req EXCEPT ![r] = q]
  OBVIOUS
<1>. HIDE DEF q
<1>5. req'[r] = q
  BY <1>4 DEF RequestsHold
<1>6. RequestHolds(r)'
  BY <1>1, <1>2, <1>3, <1>5 DEF RequestHolds, Scanning
<1>. QED
  BY <1>1, <1>3, <1>4, <1>6, OneRequest

\* The version a scan answered with, and the request is still young enough for.
LEMMA ScannedCurrent ==
    ASSUME LoopInv, RequestsHold, NEW r \in Requests, req[r].at \in Scanning,
           NEW v \in Scanned(req[r].snap)
    PROVE  v \in req[r].born .. version
<1>1. /\ version \in Nat /\ req[r].born \in Nat /\ req[r].snap \in Nat
      /\ req[r].born <= req[r].snap
  BY DEF LoopInv, LoopTypes, VersionTypes, Versions, RequestsHold, RequestHolds, Reqs, Scanning
<1>. QED
  BY <1>1 DEF Scanned

\* The answer is the generation whose content a scan since the request began has seen.
LEMMA CheckRequest ==
    ASSUME LoopInv, RequestsHold, NEW r \in Requests, Check(r) \/ CheckReturns(r)
    PROVE  RequestsHold'
<1>1. version' = version
  BY DEF Check, CheckReturns
<1>2. VersionTypes
  BY DEF LoopInv, LoopTypes
<1>3. CASE NotFresh(r) \/ End(r)
  BY <1>1, <1>2, <1>3, NotFreshRequest, RequestEnds
<1>4. CASE Go(r, "inner")
  BY <1>1, <1>2, <1>4, RequestGoes
<1>5. CASE Check(r) /\ ~NotFresh(r)
  <2>1. PICK at \in Scanning : req' = [req EXCEPT ![r].at = at, ![r].snap = version, ![r].before = gen]
    BY <1>5 DEF Check, Scanning
  <2>2. req' = [req EXCEPT ![r] = [@ EXCEPT !.at = at, !.snap = version, !.before = gen]]
    BY <2>1 DEF RequestsHold
  <2>. QED
    BY <1>1, <2>2, RequestScans
<1>6. CASE /\ CheckReturns(r) /\ ~NotFresh(r) /\ ~End(r) /\ ~Go(r, "inner")
  <2>1. PICK v \in Scanned(req[r].snap) \cup {w \in {None} : Unstable(req[r].snap)} :
           /\ Fresh(r, v)
           /\ req' = [req EXCEPT ![r] = [@ EXCEPT !.at = "answer", !.snap = None,
                                                  !.before = None, !.answer = gen]]
    BY <1>6 DEF CheckReturns
  <2>2. v \in Scanned(req[r].snap) /\ Content(v) = Content(gen)
    BY <2>1 DEF Fresh
  <2>3. req[r].at \in Scanning
    BY <1>6 DEF CheckReturns, Scanning
  <2>4. v \in req[r].born .. version
    BY <2>2, <2>3, ScannedCurrent
  <2>. DEFINE q == [req[r] EXCEPT !.at = "answer", !.snap = None, !.before = None, !.answer = gen]
  <2>5. req[r] \in Reqs /\ req[r].born <= version /\ gen \in Nat
    BY DEF RequestsHold, RequestHolds, LoopInv, LoopTypes, VersionTypes, Known
  <2>6. q \in Reqs /\ q.at = "answer" /\ q.born = req[r].born /\ q.answer = gen
    BY <2>5 DEF Reqs, Places, None
  <2>7. req' = [req EXCEPT ![r] = q]
    BY <2>1
  <2>. HIDE DEF q
  <2>8. req'[r] = q
    BY <2>7 DEF RequestsHold
  <2>9. RequestHolds(r)'
    BY <1>1, <2>2, <2>4, <2>5, <2>6, <2>8 DEF RequestHolds, Current
  <2>. QED
    BY <1>1, <1>2, <2>6, <2>7, <2>9, OneRequest
<1>. QED
  BY <1>3, <1>4, <1>5, <1>6

\* The steps of a search.
LEMMA SearchRequest ==
    ASSUME LoopInv, RequestsHold, NEW r \in Requests,
           SearchBegins(r) \/ SearchScanned(r) \/ SearchOpens(r) \/ SearchReturns(r) \/ Respond(r)
    PROVE  RequestsHold'
<1>1. version' = version
  BY DEF SearchBegins, SearchScanned, SearchOpens, SearchReturns, Respond
<1>2. VersionTypes /\ gen \in Nat
  BY DEF LoopInv, LoopTypes, VersionTypes, Known
<1>3. req[r] \in Reqs /\ RequestHolds(r)
  BY DEF RequestsHold
<1>4. CASE End(r) \/ Go(r, "inner")
  BY <1>1, <1>2, <1>4, RequestEnds, RequestGoes
<1>5. CASE SearchBegins(r) /\ ~End(r)
  <2>1. req' = [req EXCEPT ![r].at = "innerScan", ![r].snap = version, ![r].before = gen]
    BY <1>5 DEF SearchBegins, End
  <2>2. req' = [req EXCEPT ![r] = [@ EXCEPT !.at = "innerScan", !.snap = version, !.before = gen]]
    BY <2>1 DEF RequestsHold
  <2>3. "innerScan" \in Scanning
    BY DEF Scanning
  <2>. QED
    BY <1>1, <2>2, <2>3, RequestScans
<1>6. CASE SearchScanned(r) /\ ~End(r) /\ ~Go(r, "inner")
  <2>1. /\ \E v \in Scanned(req[r].snap) : Content(v) = Content(req[r].before)
        /\ req' = [req EXCEPT ![r].at = "open", ![r].snap = None]
        /\ req[r].at \in Scanning
    BY <1>6 DEF SearchScanned, Scanning
  <2>2. Current(r, req[r].before)
    BY <2>1, ScannedCurrent DEF Current
  <2>. DEFINE q == [req[r] EXCEPT !.at = "open", !.snap = None]
  <2>3. q \in Reqs /\ q.at = "open" /\ q.born = req[r].born /\ q.before = req[r].before
    BY <1>3 DEF Reqs, Places, None
  <2>4. req' = [req EXCEPT ![r] = q]
    BY <2>1 DEF RequestsHold
  <2>. HIDE DEF q
  <2>5. req'[r] = q
    BY <2>4 DEF RequestsHold
  <2>6. RequestHolds(r)'
    BY <1>1, <1>3, <2>2, <2>3, <2>5 DEF RequestHolds, Current
  <2>. QED
    BY <1>1, <1>2, <2>3, <2>4, <2>6, OneRequest
<1>7. CASE SearchOpens(r) /\ ~End(r) /\ ~Go(r, "inner")
  <2>1. /\ req[r].at = "open" /\ gen = req[r].before
        /\ req' = [req EXCEPT ![r] = [@ EXCEPT !.at = "search", !.answer = gen, !.before = None]]
    BY <1>7 DEF SearchOpens
  <2>. DEFINE q == [req[r] EXCEPT !.at = "search", !.answer = gen, !.before = None]
  <2>2. q \in Reqs /\ q.at = "search" /\ q.born = req[r].born /\ q.answer = req[r].before
    BY <1>2, <1>3, <2>1 DEF Reqs, Places, None
  <2>3. req' = [req EXCEPT ![r] = q]
    BY <2>1
  <2>. HIDE DEF q
  <2>4. req'[r] = q
    BY <2>3 DEF RequestsHold
  <2>5. RequestHolds(r)'
    BY <1>1, <1>3, <2>1, <2>2, <2>4 DEF RequestHolds, Current
  <2>. QED
    BY <1>1, <1>2, <2>2, <2>3, <2>5, OneRequest
<1>8. CASE SearchReturns(r) /\ ~End(r)
  <2>1. req[r].at = "search" /\ req' = [req EXCEPT ![r].at = "answer"]
    BY <1>8 DEF SearchReturns, End
  <2>. DEFINE q == [req[r] EXCEPT !.at = "answer"]
  <2>2. q \in Reqs /\ q.at = "answer" /\ q.born = req[r].born /\ q.answer = req[r].answer
    BY <1>3 DEF Reqs, Places
  <2>3. req' = [req EXCEPT ![r] = q]
    BY <2>1 DEF RequestsHold
  <2>. HIDE DEF q
  <2>4. req'[r] = q
    BY <2>3 DEF RequestsHold
  <2>5. RequestHolds(r)'
    BY <1>1, <1>3, <2>1, <2>2, <2>4 DEF RequestHolds, Current
  <2>. QED
    BY <1>1, <1>2, <2>2, <2>3, <2>5, OneRequest
<1>. QED
  BY <1>4, <1>5, <1>6, <1>7, <1>8 DEF Respond

\* How the end of a reconciliation and the loop treat the requests.
LEMMA JobRequests ==
    ASSUME LoopInv, RequestsHold, JobStep \/ StepFails
    PROVE  RequestsHold'
<1>1. VersionTypes
  BY DEF LoopInv, LoopTypes
<1>9. ASSUME NEW recorded, NEW covered, Caught(recorded, covered) PROVE RequestsHold'
  <2>1. version' = version /\ (GoDown \/ \E a, e : Settle(a, e))
    BY <1>9 DEF Caught
  <2>. QED
    BY <1>1, <2>1, RequestsSettle, RequestsDrop
<1>2. ASSUME NEW governed, Fails(governed) PROVE RequestsHold'
  <2>1. \E recorded, covered : Caught(recorded, covered)
    BY <1>2 DEF Fails
  <2>. QED
    BY <1>9, <2>1
<1>3. ASSUME NEW h, NEW p, NEW deb, NEW epoch, Complete(h, p, deb, epoch), version' = version
      PROVE  RequestsHold'
  <2>1. \E a, e : Settle(a, e)
    BY <1>3 DEF Complete
  <2>. QED
    BY <1>1, <1>3, <2>1, RequestsSettle
<1>4. ASSUME version' = version, req' = req PROVE RequestsHold'
  <2>1. \A r \in Requests : req[r] \in Reqs /\ version' \in Nat /\ version' >= version
    BY <1>1, <1>4 DEF RequestsHold, VersionTypes, Versions
  <2>. QED
    BY <1>1, <1>4, <2>1, RequestKept DEF RequestsHold
<1>5. CASE ScanReturns
  <2>1. \/ Fails(TRUE) \/ Fails(FALSE)
        \/ version' = version /\ Complete(hints, pending, debounce, "none")
        \/ version' = version /\ req' = req
    BY <1>5 DEF ScanReturns
  <2>. QED
    BY <1>2, <1>3, <1>4, <2>1
<1>6. CASE NoopReturns \/ VerifyReturns
  <2>1. \/ Fails(TRUE)
        \/ version' = version /\ \E h, p, deb, epoch : Complete(h, p, deb, epoch)
    BY <1>6 DEF NoopReturns, VerifyReturns, Consume
  <2>. QED
    BY <1>2, <1>3, <2>1
<1>7. CASE Publish
  <2>1. version' = version /\ (req' = req \/ Complete(hints, pending, debounce, "none"))
    BY <1>7 DEF Publish
  <2>. QED
    BY <1>3, <1>4, <2>1
<1>8. CASE PublishRefused \/ StepFails
  <2>1. \/ \E governed \in BOOLEAN : Fails(governed)
        \/ \E covered : Caught(FALSE, covered)
    BY <1>8 DEF PublishRefused, StepFails
  <2>. QED
    BY <1>2, <1>9, <2>1
<1>. QED
  BY <1>5, <1>6, <1>7, <1>8 DEF JobStep

-------------------------------------------------------------------------------
(* The invariant and what it says *)

\* Every step keeps what is said of the loop.
LEMMA LoopStep ==
    ASSUME HostAssumption, HostInv, Next
    PROVE  LoopInv' /\ DownHolds'
BY ScanStep, NoopStep, PublishStep, RefusedStep, VerifyStep, FailStep, EditStep, HintStep, ErrorStep, DebounceStep,
   PeriodicStep, RetryStep, CheckStep, RequestLoopStep, StartStep, StopStep, WaitStep, FlushStep,
   CloseStep DEF HostInv, Next

\* Every step keeps the types of what cut publications left.
LEMMA LeftStep ==
    ASSUME HostInv, Next
    PROVE  LeftTypes'
<1>1. version \in Nat /\ version' \in {version, version + 1}
  <2>1. version \in Nat
    BY DEF HostInv, LoopInv, LoopTypes, VersionTypes, Versions
  <2>2. version' \in {version, version + 1}
    BY DEF Next, Edit, HintArrives, WatcherError, DebounceFires, PeriodicFires, RetryFires, ScanReturns,
           NoopReturns, Publish, PublishRefused, VerifyReturns, StepFails, Fails, Caught, Request, Check,
           CheckReturns, SearchBegins, SearchScanned, SearchOpens, SearchReturns, Respond, Start, Stop,
           Drained, Flush, Close, Deadline, Crash
  <2>. QED
    BY <2>1, <2>2
<1>2. ASSUME cut' \in {cut, NoCut}, orphan' = orphan, past' \in Pasts PROVE LeftTypes'
  <2>1. Known \subseteq Known' /\ None \in Known
    BY <1>1 DEF Known, None
  <2>2. cut \in [to : Known, final : BOOLEAN] /\ NoCut \in [to : Known, final : BOOLEAN]
    BY <2>1 DEF HostInv, LeftTypes, NoCut
  <2>3. \A c \in [to : Known, final : BOOLEAN] : c \in [to : Known', final : BOOLEAN]
    BY <2>1
  <2>. QED
    BY <1>2, <2>2, <2>3 DEF HostInv, LeftTypes
<1>3. past \in Pasts
  BY DEF HostInv, LeftTypes
<1>4. ASSUME UNCHANGED left PROVE LeftTypes'
  BY <1>2, <1>3, <1>4 DEF left
<1>5. ASSUME NEW governed, Fails(governed) PROVE LeftTypes'
  <2>1. past' \in Pasts /\ UNCHANGED <<cut, orphan>>
    BY <1>3, <1>5 DEF Fails, Pasts
  <2>. QED
    BY <1>2, <2>1
<1>6. CASE ScanReturns \/ PublishRefused
  <2>1. UNCHANGED left \/ \E governed : Fails(governed)
    BY <1>6 DEF ScanReturns, PublishRefused
  <2>. QED
    BY <1>4, <1>5, <2>1
<1>7. CASE NoopReturns
  <2>1. (past' \in {past, "noop"} /\ UNCHANGED <<cut, orphan>>) \/ \E governed : Fails(governed)
    BY <1>7 DEF NoopReturns
  <2>. QED
    BY <1>2, <1>3, <1>5, <2>1 DEF Pasts
<1>8. CASE Publish \/ Start
  <2>1. past' \in {past, PastAfter} /\ cut' \in {cut, NoCut} /\ orphan' = orphan
    BY <1>8 DEF Publish, Start
  <2>. QED
    BY <1>2, <1>3, <2>1 DEF PastAfter, Pasts
<1>9. CASE StepFails \/ Crash
  <2>1. \/ UNCHANGED left \/ \E governed : Fails(governed)
        \/ version' = version /\ Publishes /\ CutShort(job.scan)
    BY <1>9 DEF StepFails, Crash, Caught
  <2>. QED
    BY <1>4, <1>5, <2>1, CutLeaves DEF HostInv
<1>10. CASE \/ Edit \/ HintArrives \/ WatcherError \/ DebounceFires \/ PeriodicFires \/ RetryFires
            \/ VerifyReturns \/ Stop \/ Drained \/ Flush \/ Close \/ Deadline
  BY <1>4, <1>10 DEF Edit, HintArrives, WatcherError, DebounceFires, PeriodicFires, RetryFires,
                     VerifyReturns, Stop, Drained, Flush, Close, Deadline
<1>11. CASE \E r \in Requests :
              \/ Request(r) \/ Check(r) \/ CheckReturns(r) \/ SearchBegins(r) \/ SearchScanned(r)
              \/ SearchOpens(r) \/ SearchReturns(r) \/ Respond(r)
  BY <1>4, <1>11 DEF Request, Check, CheckReturns, SearchBegins, SearchScanned, SearchOpens,
                     SearchReturns, Respond
<1>. QED
  BY <1>6, <1>7, <1>8, <1>9, <1>10, <1>11 DEF Next

\* Every step keeps what is said of the requests.
LEMMA RequestsStep ==
    ASSUME HostAssumption, HostInv, Next
    PROVE  RequestsHold'
<1>1. LoopInv /\ RequestsHold /\ VersionTypes /\ VersionTypes' /\ version \in Nat
  BY LoopStep DEF HostInv, LoopInv, LoopTypes, VersionTypes, Versions
<1>2. CASE JobStep \/ StepFails
  BY <1>1, <1>2, JobRequests
<1>3. ASSUME NEW r \in Requests, Check(r) \/ CheckReturns(r) PROVE RequestsHold'
  BY <1>1, <1>3, CheckRequest
<1>4. ASSUME NEW r \in Requests,
             \/ Request(r) \/ SearchBegins(r) \/ SearchScanned(r) \/ SearchOpens(r)
           \/ SearchReturns(r) \/ Respond(r)
      PROVE  RequestsHold'
  BY <1>1, <1>4, RequestBegins, SearchRequest
<1>5. CASE \/ Edit \/ HintArrives \/ WatcherError \/ DebounceFires \/ PeriodicFires \/ RetryFires
           \/ Start \/ Stop \/ Drained \/ Deadline
  <2>1. req' = req
    BY <1>5 DEF Edit, HintArrives, WatcherError, DebounceFires, PeriodicFires, RetryFires, Start,
                Stop, Drained, Deadline
  <2>2. version' \in {version, version + 1}
    BY <1>5 DEF Edit, HintArrives, WatcherError, DebounceFires, PeriodicFires, RetryFires, Start,
                Stop, Drained, Deadline
  <2>3. version' >= version
    BY <1>1, <2>2
  <2>. QED
    BY <1>1, <2>1, <2>3, RequestsRest
<1>6. CASE Flush \/ Close \/ Crash
  <2>1. version' = version /\ (req' = req \/ GoDown)
    BY <1>6 DEF Flush, Close, Crash
  <2>2. version' >= version
    BY <1>1, <2>1
  <2>. QED
    BY <1>1, <2>1, <2>2, RequestsRest, RequestsDrop
<1>. QED
  BY <1>2, <1>3, <1>4, <1>5, <1>6 DEF Next, JobStep

\* The invariant holds initially.
LEMMA HostInit ==
    ASSUME HostAssumption, Init
    PROVE  HostInv
<1>1. VersionTypes
  BY DEF Init, VersionTypes, Versions, Known, None, HostAssumption
<1>2. FlagTypes
  BY DEF Init, FlagTypes
<1>3. LoopTypes
  BY <1>1, <1>2 DEF Init, LoopTypes, Hints
<1>4. JobHolds /\ RetryHolds /\ HintsHold /\ CoverageIsOfTheGeneration
  BY DEF Init, JobHolds, RetryHolds, HintsHold, CoverageIsOfTheGeneration, Open
<1>5. DownHolds /\ RequestsHold
  BY NoRequestTyped DEF Init, DownHolds, RequestsHold, RequestHolds
<1>6. LeftTypes
  <2>1. cut = NoCut /\ orphan = FALSE /\ past = "plain" /\ version = 1
    BY DEF Init
  <2>2. 0 \in Known
    BY <2>1 DEF Known
  <2>3. cut \in [to : Known, final : BOOLEAN]
    BY <2>1, <2>2 DEF NoCut, None
  <2>. QED
    BY <2>1, <2>3 DEF LeftTypes, Pasts
<1>. QED
  BY <1>3, <1>4, <1>5, <1>6 DEF HostInv, LoopInv

\* The invariant always holds.
LEMMA HostInvariant == ASSUME HostAssumption PROVE Spec => []HostInv
<1>1. Init => HostInv
  BY HostInit
<1>2. HostInv /\ [Next]_vars => HostInv'
  <2>1. ASSUME HostInv, Next PROVE HostInv'
    BY <2>1, LoopStep, LeftStep, RequestsStep DEF HostInv
  <2>2. ASSUME HostInv, UNCHANGED vars PROVE HostInv'
    <3>1. UNCHANGED <<version, notice, gen, tail, up, job, retry, retryTimer, debounce, periodic,
                      pending, hints, committed, told, absorbed, unrecorded, coverage, closing, req,
                      cut, orphan, past>>
      BY <2>2 DEF vars, timers, queue, history, left, retryState
    <3>2. LoopInv /\ DownHolds /\ RequestsHold /\ VersionTypes
      BY <2>2 DEF HostInv, LoopInv, LoopTypes
    <3>3. closing' \in {"no", "drain", "wait", "flush", "close", "failed"}
      BY <3>1, <3>2 DEF LoopInv, LoopTypes
    <3>4. LoopInv' /\ DownHolds'
      BY <3>1, <3>2, <3>3, LoopRests
    <3>5. VersionTypes' /\ version' >= version
      BY <3>1, <3>2, <3>4 DEF LoopInv, LoopTypes, VersionTypes, Versions
    <3>6. LeftTypes'
      BY <2>2, <3>1 DEF HostInv, LeftTypes, Known
    <3>. QED
      BY <3>1, <3>2, <3>4, <3>5, <3>6, RequestsRest DEF HostInv
  <2>. QED
    BY <2>1, <2>2
<1>. QED
  BY <1>1, <1>2, PTL DEF Spec

\* The variables of the host have their types, and a stopping host has no timer armed.
THEOREM HostTypeCorrect == ASSUME HostAssumption PROVE Spec => []HostTypeOK
<1>1. HostInv => HostTypeOK
  <2>. SUFFICES ASSUME HostInv PROVE HostTypeOK
    OBVIOUS
  <2>1. \A v \in Known : v \in Versions \cup {None}
    BY DEF HostInv, LoopInv, LoopTypes, VersionTypes, Versions, Known, None, HostAssumption
  <2>2. \A r \in Requests : req[r].at \in Places
    BY DEF HostInv, RequestsHold, Reqs
  <2>3. cut \in [to : Versions \cup {None}, final : BOOLEAN] /\ orphan \in BOOLEAN /\ past \in Pasts
    BY <2>1 DEF HostInv, LeftTypes
  <2>. QED
    BY <2>1, <2>2, <2>3 DEF HostInv, LoopInv, LoopTypes, VersionTypes, FlagTypes, Hints, HostTypeOK
<1>. QED
  BY <1>1, HostInvariant, PTL

\* A failed batch that the journal holds stays in the retry epoch, and the epoch is
\* served, through every shutdown, restart and further failure.
THEOREM FailureAlwaysRetried == ASSUME HostAssumption PROVE Spec => []FailureIsRetried
<1>1. HostInv => FailureIsRetried
  BY DEF HostInv, LoopInv, RetryHolds, JobHolds, FailureIsRetried, Open
<1>. QED
  BY <1>1, HostInvariant, PTL

\* No hint is lost between its delivery and a commit, whatever was running, pending
\* or failing when it came, but for one that a resolved retry took along.
THEOREM HintsAlwaysReachAScan == ASSUME HostAssumption PROVE Spec => []HintsReachAScan
<1>1. HostInv => HintsReachAScan
  <2>. SUFFICES ASSUME HostInv, up = "open", ~absorbed, committed < told
                PROVE  \/ job # NoJob /\ (job.snap >= told \/ pending)
                       \/ pending \/ retry \/ (hints # "none" /\ (periodic \/ closing # "no"))
    BY DEF HintsReachAScan
  <2>1. CASE job = NoJob
    BY <2>1 DEF HostInv, LoopInv, HintsHold
  <2>2. CASE job # NoJob
    <3>1. pending \/ Sight >= told
      BY <2>2 DEF HostInv, LoopInv, JobHolds
    <3>2. job.snap \in Nat /\ told \in Nat /\ (job.step # "scan" => job.scan \in Nat)
      BY <2>2 DEF HostInv, LoopInv, LoopTypes, VersionTypes, Versions, Jobs, JobHolds
    <3>3. job.step # "scan" => job.scan <= job.snap
      BY <2>2 DEF HostInv, LoopInv, JobHolds
    <3>. QED
      BY <2>2, <3>1, <3>2, <3>3 DEF Sight
  <2>. QED
    BY <2>1, <2>2
<1>. QED
  BY <1>1, HostInvariant, PTL

\* Coverage never speaks of another generation than the published one.
THEOREM CoverageAlwaysOfTheGeneration == ASSUME HostAssumption PROVE Spec => []CoverageIsOfTheGeneration
<1>1. HostInv => CoverageIsOfTheGeneration
  BY DEF HostInv, LoopInv
<1>. QED
  BY <1>1, HostInvariant, PTL

\* Searches and fresh statuses answer with content the vault has had since they began,
\* for any number of requests.
THEOREM AnswersAlwaysCurrent == ASSUME HostAssumption PROVE Spec => []AnswersAreCurrent
<1>1. HostInv => AnswersAreCurrent
  BY DEF HostInv, RequestsHold, RequestHolds, Current, AnswersAreCurrent
<1>. QED
  BY <1>1, HostInvariant, PTL
================================================================================
