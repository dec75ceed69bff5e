# Verification of technician

Technician is a synthetic-monitoring worker: it runs network checks on cron
schedules, exposes the results as metrics and on a status page, keeps a short
history on disk and sends webhook notifications. This directory holds TLA+
models of its core, TLC configurations that check them on small instances, and
proofs that TLAPS checks for every value of the parameters.

Paths below are relative to the repository root.

## 1. The system

### Components, their state and operations

| Component | Source | State | Operations |
|---|---|---|---|
| Scheduler | `internal/scheduler/scheduler.go`, `stagger.go` | WaitGroup, bounded results channel, one recurring and one one-shot goroutine per check | `Start`, `runLoop`, `runInitial`, `execute`, `RunWithRetry`, the closer goroutine |
| Notifier | `internal/notify/notify.go` | `checkStates`, `failCounts`, `notifiedDown`, `budgetStates`, `certStates`, `lastSent`, semaphore, WaitGroup, sending goroutines | `HandleResult`, `HandleBudgetViolation`, `HandleCertResult`, `dispatch`, `Wait` |
| Status store | `internal/status/store.go`, summaries in `handler.go` | a ring of 90 entries per check, `order`, `downSince`, budget counters, snapshot cache | `Push`, `RecordBudgetCheck`, `Reconcile`, `Snapshot` |
| Status persistence | `internal/status/store.go` | `status.json`, its temporary file, dated backups, write-failure counter | `Save`, `SaveBackup`, `load`, `WriteHealthy` |
| Worker | `cmd/worker.go` | the goroutines that connect the parts | drain loop, save ticker, signal and shutdown sequence, `/health` |
| History | `internal/history/history.go` | buffered channel, batch, SQLite table | `Record`, `run`, `flush`, `pruneOld`, `Close` |
| Budgets | `internal/budget/` | none | `LoadBudgets`, `Evaluate`, `EvaluateAll` |
| Configuration | `internal/config/` | none after start | `LoadChecks`, `convertCheck`, `CheckFilter` |
| Metrics | `internal/metrics/` | Prometheus registry, cardinality guard, OTLP exporters | `RecordResult`, `RecordBudgetViolation`, ... |
| Remote write | `internal/remotewrite/` | push loop | `Run`, `push` |
| Checkers | `internal/check/*.go`, `internal/playwright/` | connections and bodies of a run; BGP remembers prefixes, Playwright has a semaphore | `Run` of the fourteen types |
| Exporter, page, senders, artifacts, gzip, commands | `internal/exporter`, `internal/status/handler.go`, `internal/notify/*.go`, `internal/artifact`, `internal/server`, `cmd/` | none | request handlers and command lines |

### How they interact

`runWorker` builds everything and calls `Scheduler.Start`. Each check goroutine
runs its checker with retries, records the result in the metrics and offers it,
without blocking, to the results channel. One drain goroutine takes results
from the channel and, one after the other, pushes them into the status store
(which hands them to the history), calls the notifier, evaluates budgets and
updates the budget counters. HTTP handlers read snapshots concurrently. A
ticker goroutine saves the store every minute and makes the daily backup. On a
signal `runWorker` waits for the webhooks, saves the store, cancels the context
and shuts the HTTP server down; cancelling ends the check goroutines, and when
the last has returned the closer goroutine closes the channel.

### What is hard about it

* closing a channel that many goroutines send to, while they retry, wait for
  timers or are still being launched;
* two goroutines of one check running at the same time after boot;
* notification state (debouncing, cooldowns) that decides for ever whether an
  alarm or a recovery is sent, and sends that are slower than the cooldown;
* a temporary file and a rename shared by two savers, with the process killed
  or the disk full in between;
* a circular buffer whose errors show only after the wrap-around, whose array
  readers use after the lock is released;
* a snapshot cache that is filled outside the lock that invalidates it;
* the order of the shutdown steps over notifier, store and history;
* fourteen checkers that wait for somebody else, each with its own idea of
  what ends the wait, and that must release what they hold on every way out;
* a retry of a check whose first attempt has changed what the checker
  remembers.

`PROJECT.json` lists these and the other hazards at their lines, with the
properties that watch each of them.

## 2. Plan

Done, in this order: `Scheduler`, `Notify`, `StatusFile`; `Ring` and
`SlidingWindow` under `StatusStore`; `History` and `Metrics` under `Worker`,
which composes them with the drain goroutine and the shutdown; `CheckConfig`
and `CheckerSteps` under `Checkers`. Each of the six has a module of proofs.
Three abstract specifications, `SlidingWindow`, `ResultStream` and
`DurableStore`, say what a component promises to its users, and the detailed
modules are proved to implement them.

Left:

1. An abstract specification of alerting (per webhook: what it has been told)
   that `Notify` is shown to implement, with an endpoint that receives the
   sends, so that their order can be stated.
2. The evaluation of budgets and the exit codes of `technician validate` as
   operators checked against a reference definition.
3. The caches of the checkers (`getClient`, `getConn`, `getResolver`), which
   concurrent runs of different checks share.
4. An abstract specification of the history (results accepted, stored, lost)
   for `Worker`.

## 3. The modules

### Scheduler (`ResultStream`, `Scheduler`, `MCScheduler`, `SchedulerProofs`)

A process is a pair of kind ("loop" for `runLoop`, "initial" for `runInitial`)
and check; `pc` says where its goroutine is. `Start` is sequential code that
runs concurrently with the goroutines it has already launched, hence the
actions `StartLoop`, `BeginInitial`, `RunInitial`, `StartCloser`, with `todo`
for the rest of the loop it is in. `execute` is `RunReturns`, `BackoffElapses`
or `CancelledInBackoff` (the retry loop), `RecordMetrics`, `Send`. The closer
goroutine is `CloserSeesCancel`, `CloseResults`; the drain goroutine is
`DrainStarts`, `DrainTakes`, `DrainEnds`.

Abstracted: durations (a timer fires at some later moment), the checker's
result (up, slow, fail), the schedule (accepted by `IsValid` or not, with or
without a next tick), the stagger hash (positive or not). The only bounds are
the constants.

`ResultStream` is what the scheduler promises whoever ranges over `Results()`:
a bounded queue that busy workers fill, that loses only what finds it full,
that is closed once, when no worker is left, and that its reader leaves when it
is closed and empty. The mapping takes the live goroutines for the busy
workers and the channel for the queue of the goroutines that sent to it
(`Offerers`); retries, timers, metrics and the WaitGroup itself disappear.

### Notifier (`Notify`, `MCNotify`, `NotifyProofs`)

The handlers hold the Manager's mutex throughout and are one action each, with
`Dispatch` inside. A sending goroutine is identified by webhook, name, event
type and the time it was accepted, and moves through `Acquire`,
`SendSucceeds` or `SendFails`, `Resend`, `ResendReturns`. Time is a logical
clock, bounded by `MaxClock`; `MaxFails` bounds the failures in a row. The
variables `streak`, `raisedAt`, `alarmedAt` and `certLevel` are history
variables for the properties. `DaysRemaining` is the conversion of `tls_cert.go`, which
truncates towards zero.

### Status store (`Ring`, `SlidingWindow`, `StatusStore`, `MCStatusStore`, `StatusStoreProofs`)

`Ring` has `push`, `ordered` and the reload after a restart as operators on a
record. `Reconcile` filters `order` in place, the function `Kept`.
`StatusStore` has a ring per check key, `order`, `down` (the checks
with `downSince` set) and the budget counters by name, and four actors. The
drain goroutine does `Push`, `RecordBudgetCheck` (a metric with a budget is or
is not violated) and, at the crossing of the threshold, `Announce`: the
notifier sends unless it holds the budget to be violated already (`told`). The
history variable `reported` has the budgets whose latest crossing got that far
or came from the file. A request
for the page does `Snapshot` and, after the lock is released, `SnapshotStore`.
The save loop does `SaveRings` (under `mu`), `SaveBudgets` (under `budgetMu`)
and `SaveEnds`, which writes the image or fails; `ordered` hands out the
ring's own array when it can, so a `Push` in between may change the image: it
keeps the old element or gets the new one. `Restart` loads the file and
reconciles it with the checks configured then; the file is missing or what a
save wrote, never one that somebody has edited. `SlidingWindow` is what the
store promises its readers: the last `MaxHistory` entries of every check,
oldest first; the refinement mapping is `window <- Ordered(ring)`.

Assumption: a save reads its copy within fewer than `MaxHistory` results
(`Push` has the guard). With 90 results during one marshalling, a wrapped
array could be saved out of order.

Abstracted: an entry is up, down or an infrastructure error; a snapshot is a
status per check and a severity per budget. Bounds: `MaxResults`,
`MaxRestarts`, each per scenario.

### Status persistence (`DurableStore`, `StatusFile`, `MCStatusFile`, `StatusFileProofs`)

The content of the store is its version, the number of results in it. Files
are inodes with names, because a goroutine that has opened `status.json.tmp`
goes on writing to it when another has renamed it. `Save` is one action per
system call: `SaveCopies`, `SaveOpens` (which truncates), `SaveWrites` or
`SaveWriteFails`, `SaveRenames`, `SaveReturns`, with `SaveFails` for the other
errors. The "ticker" saver also makes backups (`BackupReads`, `BackupOpens`,
`BackupWrites` with the pruning, `BackupFails`); the "main" saver saves once,
after a signal. `Crash` may come at any moment and stands for a kill and for
the return of `runWorker`; `Start` loads as `load` does. A crash of the
machine, which can lose writes that were not synced, is not modelled.

Bounds: `MaxVersion`, `MaxDay`, `MaxRestarts`; the failure counter stops at
its threshold, beyond which the code does not look.

`DurableStore` is what the rest of the worker may rely on: one value on disk
that a save replaces in a single step, by what the store held when the save
began, and that the next process continues from. The mapping takes what a load
would recover now (`Recovered`) for the value on disk, and the copies of the
savers under way for what is about to be stored (`Pending`); files, inodes and
backups disappear. Two consequences are stated in `StatusFile` and proved on
their own: `AckedSurvives` and `RecoveryNeverRegresses`.

### Worker (`CheckResults`, `History`, `Metrics`, `Worker`, `MCWorker`, `WorkerProofs`)

`History` is the buffer, the writer goroutine (one action per case of its
`select`, `flush` as one transaction) and the two steps of `Close`. `Metrics`
is `RecordResult` in three steps, since only the cardinality guard has a lock.
`Worker` composes them: a check goroutine records and queues its result, the
drain goroutine pushes it to history and store (`DrainPush`), then notifies
and logs (`DrainNotify`, which ends the process when no origin is configured,
because the log line dereferences it), the ticker saves in two steps, and the
main goroutine goes through signal, `notifier.Wait`, the last save with
`cancel()` and the server's shutdown, and the deferred `Close`.

Abstracted: the scheduler's goroutines, the notifier's sends and the status
store are reduced to the sets of results that have reached them; their own
modules have the details. Buffer, queue and batch are sets, since order makes
no difference here. The history database is always enabled. The only bounds
are the constants; each result happens once.

### Checkers (`CheckConfig`, `CheckerSteps`, `Checkers`, `MCCheckers`, `CheckersProofs`)

`CheckConfig` is the way from an entry of checks.yml to a check that runs:
validation, defaults, filter and flags; and the configuration `/probe` builds
without validation. An entry is its type, group, tags, the set of settings it
has (or has wrong), TLS versions, one number and its assertions.

`CheckerSteps` writes each of the fourteen `Run` methods as the sequence of
its calls that can fail or block. A step says what ends the wait when nobody
answers (the check's timeout, the caller's context, or nothing), how the run
may end there, what the step acquires, what it defers, and what it closes by
hand when it fails. A deadline that the code sets on the connection or the
request counts as the timeout of all the steps it covers. Timers are
over-approximated: one that is set may fire at any moment, and a negative
timeout, which the dialers and contexts take as one that has passed, matters
only to `http.Client`, which takes it for none (`ClientEnds`). `MaxAlloc` is
the largest buffer Go's `make` provides: a longer one panics like a negative
one.

`Checkers` runs them: `Load` and `Start`, then `Proceeds`, `Fails`,
`TimesOut`, `Cancelled`, `Panics`, `ObserveMoreSpecifics` for one attempt,
`Retry` as in `RunWithRetry`, and `RunsAgain` for the next tick of a BGP check.
The caller decides whether there are retries (worker, validate), whether runs
overlap (worker, probe) and whether the context ends (worker, probe). A
WebSocket dial that its attempt abandoned lives on in `dialing`, and may end
up as an open connection that nobody closes. `Advance` and `Fails` stand for
the code between the calls of all fourteen checkers; the map names one place
for them, and the lines of each checker beside its steps. `routes` are the more-specific
prefixes announced, an environment that may change at any moment; `known` is
the memory of the BGP checker for one check name.

Abstracted: what is sent and received. The judgement of an answer is a step
that may go either way.

## 4. What the runs check

| Run | Instance | Shows |
|---|---|---|
| `scheduler_safety` | 3 checks: one staggered with a retry, one without next tick and with a degraded threshold, one without checker; channel of 2 | `TypeOK`, `NoSendOnClosed`, `WgCountsLive`, `FailureExhaustsRetries`, `ImplementsStream` |
| `scheduler_liveness` | 2 checks, one with a refused schedule; channel of 1 | `ShutdownCompletes`, `LoopNeverStalls`, `EveryCheckReports` |
| `notify_alarms` | 2 checks with one name (symmetric) and 1 with its own, a pager with cooldown 2, threshold 2, clock to 2 | `DebounceBounds`, `SendsSpaced`, `AlarmReachesSubscribers` |
| `notify_slots` | all event types, 2 webhooks, 1 slot, sends that fail | `SlotsAccounted`, `SendsFinish` |
| `status_store` | 2 checks of different types with one name, rings of 2, threshold 2; a reader and 5 results, or a saver, 3 results and 1 restart with both checks or one | `RingsOK`, `OrderIndexesChecks`, `DownMarked`, `FailReported`, `SummariesAgree`, `ImplementsWindow`, `PagesCatchUp` |
| `status_file_crash` | one saver, 3 versions, 3 days, 2 restarts | `MainWhole`, `ImplementsDurable` |
| `status_file_liveness` | one saver, damage and wiping allowed, 1 restart | `HealthFollowsDisk`, `PushesPersist`, `DamageHeals` |
| `worker` | a result of each of 2 checks, one of them older than the retention; queue and buffer of 1, batches of 2, 1 check name allowed; with and without an origin | `TypeOK`, `SeriesBounded`, `StoredOnce`, `CloseFlushes`, `DrainedIsSaved`, `AlarmsFinish`, `FlushedInTime`, `WorkerStops` |
| `checkers` | 2 checks at a time: every type with its settings beside a DNS check, 2 Playwright checks for 1 browser, 2 BGP runs of one name, refused entries, filters and flags; 4 callers, 1 retry | `TypeOK`, `ReleasedOnReturn`, `AuthOverTLS`, `KnownWasReported`, `PanicsFromBadSize`, `BoundedRunsEnd` |

The bounds are enough for the cases that matter to happen: the channel
overflows, both goroutines of a check are in flight at shutdown, retries run
out, checks with one name and with two alarm within a cooldown, a send outlives its
cooldown, sends queue for the semaphore, a ring wraps, is saved while it does
and is loaded again, a snapshot is cached after the push that made it stale, a
counter crosses its threshold through two checks and once more after a
recovery, every stage of a save and of a backup is crashed, backups are pruned, queue and history buffer are full, a
batch is closed half full, a second name meets the cardinality limit, a run
waits for a browser slot, a prefix appears between two attempts. Different
checks meet only at the browser slots and in the memory of the BGP checker,
which is why the other types run beside a DNS check. In `status_store` a
behaviour has a reader or a saver, not both: they share nothing but what both
read. Every property also has a mutant of the model, a plausible mistake in
the code, that violates it (`PROJECT.json`).

`DebounceBounds` allows one failure more than the threshold: the first result
of a check after boot only sets the baseline (notify.go 157-161 and
`TestFirstResultEstablishesBaseline`), which docs/alerting.md 83 does not
mention.

`LoopNeverStalls` and `EveryCheckReports` hold although nobody is obliged to
read the channel: a blocking send would violate them.

`FailReported` is about the store: each time its counter crosses the threshold
the notifier is told, once, also after a recovery and when two checks share the
counter. That the notifier sends is another matter, see below.

`ReleasedOnReturn` names its exception: when the context ends while a WebSocket
check waits for its dial, the dial stays behind, and with it a connection that
nobody closes (websocket.go 76-86).

`AlarmReachesSubscribers` is about checks whose name is their own: a webhook
misses their alarm only within a cooldown of an alarm of the same check. For
checks that share a name it would be false, see below.

`BoundedRunsEnd` excludes, by name, the runs that can wait for ever in a worker
whose context ends only at shutdown: SMTP after connecting (no deadline, no
context), the TLS handshakes of the `tls` check and of `tcp` with TLS (only the
context), the WebSocket upgrade, writes of `tcp` and `websocket` to a stalled
peer, the resolution of the host of an ICMP check (icmp.go 68: neither timeout
nor context), and BGP and domain checks with a negative timeout, which
validation accepts.

Runs that are expected to find a violation, each a statement of the repository
that the code does not keep:

| Run | Statement | What happens |
|---|---|---|
| `notify_cert_day_zero` | docs/alerting.md 86: `cert_expiring` on entering the critical window | a certificate on day 0 with an invalid chain is taken for "no cert data" |
| `status_file_concurrent` | store.go 660: `Save` is safe to call concurrently | an older copy is renamed over a newer one that was reported written |
| `bgp_retry_masks` | docs/alerting.md 185: a more-specific that is new since the last successful check is flagged | the failing attempt makes it known, the retry succeeds and only the success is published |

Other places where the code and its documentation part, seen while modelling
and not the subject of a run:

* the cooldown is promised between notifications of "the same check+event"
  (docs/alerting.md 77), but its key has the name without the type (notify.go
  317): of two checks with one name, which store.go 229-230 allows, the second
  to alarm within the cooldown is silenced for the whole outage;
* `budget_violation` is promised when a metric "becomes newly violated"
  (docs/alerting.md 85), and `TestBudgetViolationRefiresAfterRecovery` has the
  notifier send again after a recovery, but the worker never reports a recovery
  (worker.go 189-190), so only the first violation of a process is sent
  (`Announce` models this: a later crossing is reported and dropped);
* websocket.go 69-70 says that `Dialer.Timeout` keeps the dial from outliving
  the check, but it bounds connecting only: abandoned in the upgrade, the
  goroutine waits as long as the peer is silent (`DialMoves`);
* the startup run and the first scheduled run of a check can leave metrics and
  status page with different last outcomes until the next run (scheduler.go
  157, called harmless at 166);
* a recovery within the cooldown of an earlier one is dropped and never repeated
  (notify.go 318, docs/alerting.md 90);
* the clean-slate commands of docs/migrating.md 22-28 do not match the dated
  backups, and the next start loads one;
* the gauges of infrastructure errors and of budget violations are set outside
  the cardinality guard (prometheus.go 19-23, 352-362).

### Fairness

* Scheduler: weak fairness of every goroutine (the Go scheduler runs what can
  run, timers fire) and of `Start` and the closer; strong fairness of the
  `ctx.Done()` branch of a `select`, which Go chooses at random among the ready
  ones. None for the signal and none for the drain goroutine, which only the
  second half of `ShutdownCompletes` takes as a premise. That a checker returns is an
  assumption of this module; `BoundedRunsEnd` says for which checkers it is
  justified.
* Notifier: weak fairness of each sending goroutine (both its sends share a
  30 s timeout); strong fairness of acquiring the semaphore, since Go serves
  the goroutines blocked on a channel in order.
* Persistence: weak fairness of a save or backup that has begun; strong
  fairness of starting the ticker's next save, since `select` serves it even
  when the backup ticker is ready too. None for signals, crashes, restarts or
  the disk.
* Status store: weak fairness of the drain goroutine's work on the result it
  has taken, of the expiry of the cache, and of the requests for the page
  (`PagesCatchUp` is about a page that is asked for). None for results, saves
  or restarts.
* Worker: weak fairness of the history's writer, of the sends (`SendsFinish`)
  and of the main goroutine; strong fairness of `NotifierWaited`, because
  `WaitGroup.Wait` is woken when the count reaches zero, whether or not a new
  send follows. None for results, the ticker or the signal.
* Checkers: weak fairness of the steps a run takes by itself, of timeouts
  (that of an abandoned dial too), of the reaction to the end of the context, of the next attempt, and of the
  deadline of `/probe`. None for the peers, and none for the shutdown.

## 5. What is proved

All proofs are for arbitrary constants under the named assumptions of the
modules (`ASSUME`), which say that sets of checks or webhooks are finite,
functions have the right domains and capacities are positive. Every invariant
and every action property that a passing run checks is also a theorem, and so
are the three refinements.

* `SchedulerProofs`: `TypeCorrect`; `CloseIsSafe`, by the inductive invariant
  `CloseInv` that the WaitGroup equals the number of live goroutines, that no
  goroutine is launched once the closer exists, that a goroutine still to be
  launched has `pc` "none", and that a closed channel means no live goroutine,
  with its corollary `WgExact`; `FailuresAreFinal`, which needs the same
  property of a result that is recorded but not yet sent;
  `SchedulerImplementsStream`, where `CloseInv` supplies what the abstract
  `Close`, `Begin` and `Offer` demand and the lemmas `OfferersAppend` and
  `OfferersTail` relate the channel to the queue.
* `NotifyProofs`: `TypeCorrect`; `DebounceCorrect`, by an invariant that ties
  `failCounts` to `streak` (equal, or one behind when the first result was a
  failure); `SendsCorrect`, by an invariant on the cardinalities of the
  holding and the running goroutines and on their acceptance times, which are
  never later than `lastSent`, with its corollary `SpacingCorrect`;
  `AlarmsDelivered`, by `OwnCooldown`: for a check with a name of its own the
  cooldown of alarms is that of its own alarms.
* `StatusFileProofs`: `CrashSafe` (with `AckedKept`), `NeverRegresses` and
  `FilesImplementDurable`, under the hypotheses that one goroutine saves and
  that nobody else touches the files. The invariant says that a saver that
  writes has the temporary file for itself, that what it writes is at least as
  new as what is on disk, and that there are no backups before the first save.
  In the refinement the rename is the one step that commits; every other
  system call of a save or a backup is a stutter, except the copy that begins
  a save, its failure and its return. The hypothesis of a single saver is
  needed: `status_file_concurrent` is the counterexample without it. In the
  worker it holds until the shutdown save begins.
* `StatusStoreProofs`: `RingsInvariant` and the refinement
  `StoreImplementsWindow`, from lemmas on which entry is at which position of
  the ordered view and on what a push does to it. Their invariant `Storage`
  adds that image and file hold well-formed histories. `DownMarkedInvariant`
  needs much more (`Marks`): while a save is under way, the last element of an
  image that shares the ring's array has not been overwritten, because fewer
  than `MaxHistory` results have been pushed since, and so the image agrees
  with the down marks copied with it. `FailReportedInvariant` is
  inductive by itself; `SummariesInvariant` holds of every state. `OrderInvariant` carries `Indexed`, that order and
  checks name the same keys, through the image and the file as well, since the
  next start reads them back; that filtering in place keeps exactly the
  configured keys is shown by induction over the length of the list. It says
  nothing of a file edited by hand: `tryLoadData` does not compare its parts.
* `WorkerProofs`: `TypeCorrect`; `SeriesInvariant` (a recorder past the guard
  has its name admitted); `StoredOnceInvariant` (a result is in one place at a
  time: still to be recorded, in the queue, in the buffer, in the batch or in
  the table); `CloseInvariant` (what was accepted before `Close` is still on
  its way, in the table or lost with a failed transaction, and the writer
  stops with nothing in hand); `DrainedInvariant` and `AlarmsInvariant`, from
  one invariant on the main goroutine's progress; `InfraInvariant`.
* `CheckersProofs`: one lemma per checker says of which steps it consists, and
  that of the SMTP checker that an AUTH step is preceded by STARTTLS for every
  entry that validation accepts. The invariant `RunShape` (a run that is under
  way has a sound entry and a position inside its steps) carries them through
  the actions, for `AuthInvariant` and `TypeCorrect`. `KnownInvariant` is
  inductive by itself.
  `ReleaseInvariant` rests on `Covered`: at every position of every checker,
  what the run holds is deferred or closed by hand should the step fail; the
  lemmas on the steps of each checker give this for its steps (`RunReleases`),
  with `HandOverSteps` for SMTP and WebSocket, where the connection changes
  owner. `PanicInvariant` needs that only the buffer of the UDP checker can
  panic, and with which sizes. `WaitsTimedInvariant` is the safety part of
  `BoundedRunsEnd`: a bounded run that waits is at a step with a deadline.
  `SurpriseInvariant` says that only a retry turns a run that met a new
  more-specific into a success, by `SurpriseFails`: a run that met a new more-specific
  has failed, waits to retry, or has retried.

Some theorems draw the line around a finding. `NewRouteFailsWithoutRetries`
proves, for `Retries = 0`, the very property that `bgp_retry_masks` violates,
and `CertsRaisedOutsideDayZero` the property that `notify_cert_day_zero`
violates when no certificate is looked at within a day of its expiry;
`FilesImplementDurable` has the single saver that `status_file_concurrent` lacks. `AlarmsDelivered` and `FailReportedInvariant` do the same for two
divergences of section 4: only a shared name lets one check silence another, and
a budget's second crossing is lost behind `HandleBudgetViolation`, not before.

Induction. The library's induction theorems take an operator as parameter,
which the provers here cannot instantiate. `StatusStoreProofs` therefore
states induction for a set of naturals (`SetInduction`, from the
well-foundedness of the order), with the set of the numbers that have the
property as its instance.

Only model-checked: the liveness properties `ShutdownCompletes`,
`LoopNeverStalls`, `EveryCheckReports`, `SendsFinish`, `PagesCatchUp`,
`HealthFollowsDisk`, `PushesPersist`, `DamageHeals`, `FlushedInTime`,
`WorkerStops` and `BoundedRunsEnd`, because reasoning with fairness and
ENABLED is beyond the prover used here.

## 6. What is not modelled

The contents of messages and answers, payload formats, rendering, the HTTP
server, tracing and metric export, artifacts, the Prometheus rules and
dashboards, deployment; YAML parsing and the rest of config.go; the script that
drives the browser. Remote write is a loop that gathers, encodes and sends
without any state that outlives a push. The evaluation of budgets is a choice
wherever its verdict is used. A crash of the machine, which can lose writes
that were not synced, is left out of the file system model.
