# Verification of seo_monitor

`seo_monitor` is a Go server that collects the SEO weights of a list of domains once a
day from two sites (Aizhan and Chinaz), checks their TLS certificates and page titles,
keeps everything in MongoDB, and serves it over HTTP; a Python daemon reports weight
changes. This directory holds TLA+ models of its concurrent core, the TLC
configurations that check them and proofs, checked by TLAPS, of what matters most.

Line references are to `src/`. Run the tools in this directory:

    tlc -workers 2 -config JobQueue_aizhan.cfg MCJobQueue
    tlapm JobQueueProofs.tla

## 1. Inventory

| Component | State | Operations | Talks to |
|---|---|---|---|
| **Collection queue** (`internal/store/mongo.go` 544-800, `store/job_recovery.go`, `collector/`) | one `jobs` collection per source; `Store.inflight`; each worker's claimed job | queue, claim, retry, fail, save, release, recover, cancel | metrics collection, scrapers, domains |
| **Three sources** (`store/sources.go`, `store/weight_snapshots.go`, `store/weight_source.go`) | one metric document per domain and day with a snapshot per source | source writes, projection of the preferred source, migration of old documents | three queues |
| **Scrapers** (`internal/scraper`) | Aizhan: pacing, cooldown, failures; Chinaz: one request slot, pacing and circuit shared by two queues | WaitReady, Fetch, FetchAttempt | the sites, remote agents |
| **Title and certificate refresh** (`internal/title`, `internal/certificate`) | `refreshing` flag, progress counters, per-domain documents and history | RefreshAsync, workers, cleanup | domains file, agents |
| **Domains** (`mongo.go` 384-542, `cmd/server/main.go` 103-147) | domains with `active` and `certificate_active` | create, update, archive, synchronise with the file | queue, refreshes |
| **Daily collection** (`mongo.go` 544-578, 802-834, `store/sources.go`, `cmd/server/main.go`) | what the three queues and the documents of all days hold | start-up, scheduled trigger, QueueAll over three queues, backfill of split jobs, retention | domains, queues, HTTP, cron |
| **Authentication** (`mongo.go` 189-338, `internal/httpapi`) | users, sessions, login failure buckets | login, logout, change password, rate limit | every HTTP handler |
| **Process** (`cmd/server/main.go`) | rootCtx, goroutines, cron | start-up order, shutdown, daily queueing and cleanup | everything |
| **Change notifier** (`weight_change_notifier.py`) | the time of its next run; nothing on disk | compare two days, build pages, post them, retry | the server's HTTP API, webhooks |
| **Agent checkers** (`title/agent_checker.go`, `certificate/agent_checker.go`) | round robin counter, slots of each agent | Check | refreshes, remote agents |

What makes them correct, and what is hard about it:

* **Queue.** A day has one open job; a claimed job belongs to one worker until it is
  settled; an interruption never costs a retry; what is settled stays settled; nothing
  stays open for ever. Hard because MongoDB operations are the only atomic steps, final
  writes address a job by `_id` alone, registrations live in memory, and workers, a
  periodic sweep, HTTP calls, archives, shutdowns and crashes interleave.
* **Sources.** The displayed weights are Aizhan's if valid, else Chinaz's, whatever the
  order of the writes; no source destroys what another has saved.
* **Scrapers.** No request inside a cooldown or closer than the promised gap; the
  circuit shared by two queues.
* **Daily collection.** A batch that reports success has queued every domain in every queue;
  what a crash left between two queues is repaired; retention leaves nothing half deleted.
* **Refreshes.** One at a time, and progress that adds up.
* **Authentication.** The counters of concurrent attempts neither leak nor overshoot.
* **Notifier.** Each change between comparable results is on exactly one page of a run, a
  run that calls itself a success has delivered every page, and no day is left out without
  a reason or, unless the clock is put back, reported twice.
* **Agents.** A check fails only after every agent has failed it, and no slot is lost.

The hazards, each at its line, are listed in `PROJECT.json`.

## 2. Plan

Order of the work. All of these modules are here, and the proofs about each of them.

1. **JobQueue**, with `JobQueueInv` (the inductive invariant), `JobLifecycle` as its
   abstract specification, `MCJobQueue` and `JobQueueProofs`.
2. **DailyMetric**, the document three sources share.
3. **LoginLimiter**.
4. **RefreshService**, and **TitleRefresh** and **CertificateRefresh** which extend it.
5. **AizhanSource** and **ChinazSource**, the two rate limited sources, on **SourceCircuit**,
   the doubled cooldown they share.
6. **Notifier**, the daemon that reports changes.
7. **AgentRefresh**: a refresh whose workers share the remote agents; it extends RefreshService.
8. **Collection**: the domains, the three queues seen from outside, the documents, and the
   start-up, trigger and requests that act on all of them.

The proofs are in modules beside the models: `JobQueueProofs`, `DailyMetricProofs`,
`LoginLimiterProofs`, `SourceProofs` (both sources), `RefreshProofs` (what the steps of every
refresh preserve, and on it the agents, the titles and the certificates), `NotifierProofs`
and `CollectionProofs`. `Induction` has the lemmas about natural numbers that three of them use.

Every safety property that a passing run checks is also the statement of a theorem. What
the plan has left is liveness, which the runs check, and the hazards of `PROJECT.json` that
have a note instead of a property.

## 3. Modules and code

Every definition that stands for code is listed with its lines in `PROJECT.json` ("map").
Definitions whose comment starts with "Slip" are no part of a specification: each is a
plausible mistake in the definition below it, kept there to show that a property notices it.

### JobQueue - the durable queue (`store/mongo.go`, `store/job_recovery.go`, `collector/`)

The model is one of the three queues; the constant `Source` says which, because the refund
of a crash, the exhausted mark and the invalidation of weights depend on it. In legacy mode
(`SOURCE_PROVIDER=chinaz`) the store has no metric source and behaves as the queue "chinaz".

| Model | Code |
|---|---|
| `jobs[j]` (status, attempt, claim, due, stale, dedupe, exhausted) | a document of the jobs collection; `claim` numbers the claims and stands for `started_at`, `due` for `available_at <= now`, `stale` for `started_at` before the cutoff |
| `stored` | days whose metric document has a valid result of this source |
| `inflight` | `Store.inflight` |
| `worker[w]` | the goroutine of `runWorker`, with its position in `collectJob` and its copy of the job |
| `sweep` | the recovery goroutine: the registered jobs and the cutoff are read, then `UpdateMany` runs |
| `caller[c]` | a call of `queueDomain`, operation by operation |
| `canceling` | `ArchiveDomain` between its two operations |
| `process` | up, stopping (rootCtx canceled), or down |

One database operation is one step. Its outcome is "ok", "lost" (applied, the answer lost)
or "failed"; a canceled context produces the last two for free, other errors spend
`MaxErrors`. An operation in flight when the process dies has taken effect before or never
does. A loop over domains (`QueueAll`) is the separate calls it makes. The recovery of the
parent store recovers its children first; a child's error is a failed sweep of the parent.

Three assumptions about time: the shortest retry delay is longer than the moment between
`RetryJob`'s write and `ForgetClaim`; STALE_JOB_AFTER (at least 5 minutes) is longer than
the moment between the write of a claim and `inflight.Store`; a fetch ends (HTTP timeouts).

### DailyMetric - one document of one day (`store/weight_source.go`, `weight_snapshots.go`, `sources.go`)

An aggregation pipeline is one step, its stages are operators on the document. The fields
of a response are one value `Metric` (whose, which response, usable); the provenance fields
are apart from them, because updates treat them differently. A worker's write is an update
that may match nothing, an insert that may lose the race for the unique key, and the
update again. The two start-up migrations read a document in one step and write in a later
one. In legacy mode the saved result may lack the Baidu weights: it is then not valid,
although the job succeeds.

### LoginLimiter (`httpapi/login_protection.go`, `server.go` 121-154)

Two tables of buckets, each `Start`, `Failure`, `Success` and `Cancel` one locked section.
A request reads the clock before it takes the lock, so `now` is a field of the request and
may be old. The tables live in memory; a restart, which empties them, is not modelled.

### RefreshService, TitleRefresh, CertificateRefresh (`title/service.go`, `certificate/service.go`, `mongo.go` 400-440, 860-985, 1140-1230)

RefreshService is what the two services share: the compare-and-swap, the progress under its
own lock, the goroutine that hands domains over an unbuffered channel, workers that return
when the channel is closed. It is not checked by itself: AgentRefresh, TitleRefresh and
CertificateRefresh EXTEND it, reuse its
actions, and add what listing and saving do in the database, one operation per step. The
domains file of the certificate service may become any non-empty set whenever it is loaded. A
refresh under way when the server stops is not waited for: `Restart` may cut it anywhere.
`main` synchronises the certificate flags once more at start-up, before the service exists.
Days are numbered so that a check of day d is out of retention on day n iff
d + RetentionDays < n.

### AizhanSource (`scraper/aizhan.go`, `aizhan_agent.go`) and ChinazSource (`scraper/supplement.go`, `weight_fallback.go`, `hybrid.go`, `chinaz.go`)

Both have a clock. Time passes only where the code waits (`Tick` requires that every
caller does), so code between two waits takes no time and timers fire on time. What an
answer is - parsed, refused, failed, with a Retry-After - is an input; parsing pages is pure
data. AizhanSource has two callers although the server runs one worker (`config.go:175`),
because the scraper promises its pacing to concurrent callers and is tested that way
(`aizhan_test.go:159`). ChinazSource composes the two workers' gates (`runWorker`,
`waitSupplementReady`), their fetches with a deadline each, and the slot, pace and circuit
they share. `WeightFallback` and `Hybrid` are not constructed by the server. A canceled
context (the process is ending) is left out of both. How often a block doubles the cooldown
is the same in both (`supplement.go` 81-87, `aizhan.go` 167-174), so it is in SourceCircuit;
it is a recursive function, since theorems are proved about it.

### Notifier (`weight_change_notifier.py`)

The daemon has one thread but for the pool that asks the API, so a run is: list the domains,
ask for two days of each in any order, compare, build the pages, post page after page to
webhook after webhook with one retry each. What the API says of a day (`Snapshots`) and how a webhook answers ("ok",
"lost": delivered but not acknowledged, "failed") are inputs. A page is a sequence of lines
of which only the lengths and the kinds are kept: a line about domain d is d long, any
other 1. The changes are sorted by a choice of the sequence that `Before` orders, since no two of them
tie; what has been written after each number of them is a recursive function (`Books`), as is
the length of a page (`Size`).
`NotifierAssumption` says that a page has room for its first line, a label and a change:
the configuration requires 500 characters, and a name has at most 253. The memory is lost
when the process ends. It also says that a day whose weights are marked valid names their source,
as every write does that marks them so (`model/weight_source.go` 30-34, `weight_snapshots.go` 93),
and that the clock begins between two scheduled times. `--once` and `--dry-run` are left out.

| Model | Code |
|---|---|
| `clock` | `datetime.now(config.timezone)`: what the clock on the wall of the configured zone reads; the scheduled time of day k is `k * Day` on it |
| `daemon.next`, `daemon.timer` | `scheduled_at`, and what is left of `stopped.wait(delay)` |
| `Tick` | a moment passes: the clock goes on and the wait gets shorter, at any moment, so that a run may take longer than a day and a timer may be late |
| `ChangeClock` | the wall clock is set, because the zone changes its offset or by hand (`ClockChanges` says from where to where); the timer goes on as before |
| `Fire` | the wait is over, and `run_check` begins for `scheduled_at.date()` without another look at the clock |

`Delay` is a difference on the wall clock: Python subtracts two times of one `tzinfo` without
their offsets. It is not what the timer will have to wait if the clock is set meanwhile, so a run
may begin before its scheduled time or long after it. `missed` remembers the days whose
scheduled time came, or was skipped, while the daemon was at work, away, or waiting for
another day; `setbacks` counts how often the clock was put back.

### AgentRefresh (`title/agent_checker.go`, `certificate/agent_checker.go`, on RefreshService)

The two checkers are the same round robin; `localFirst` says which one it is. The
certificate's tries the TLS handshake itself first, and goes on to the agents that are left
although the context is done; the title's stops. A slot is an element of a buffered
channel, and a `select` with both branches ready may take either. The worker of a refresh
is in a check from the hand-over of its domain to the record of its outcome, so a slot that
is lost would hang the refresh, and with it every later one. A save may fail after a good
check; what it writes is in TitleRefresh and CertificateRefresh.

### Collection (`cmd/server/main.go`, `mongo.go` 384-578, 802-834, `sources.go` 32-88, `server.go` 238-441)

The collection as a whole, one database operation per step. Main's goroutine runs the
start-up in its order (cleanup, domains file, the children's queues enabled and filled,
workers, QUEUE_ON_START or not, then HTTP and cron), and after that the scheduled trigger
(cleanup, domains file, QueueAll). A call is a record `call[c]` of its stage, what its loop
has left, and the next of the queues its body goes through. Requests create, change, archive
and collect domains while it runs.

| Model | Code |
|---|---|
| `domain[d]` | the domain's document: none, `active` or archived |
| `jobs[q][k]` | what the latest job of queue q for domain and day k has come to: "exhausted" for a failed job with `retry_exhausted`, "ended" for any other end |
| `docs` | domains and days with a metric document |
| `call[c]`, `process` | `queueToday`, `main` and the handlers, operation by operation |
| `worker[q]` | a worker between its claim and its last write |

JobQueue has a queue's operations in full; here `Queued` is the outcome of `queueDomain` for
a call that is not forced, and a failed attempt goes back to the queue or ends. The parent of
the queues knows no children until the start-up has enabled them, so the start-up's cleanup
deletes the parent's jobs and the documents only (`CleanedNext`). An operation may fail
anywhere (`MaxErrors`), and the process may end and start again anywhere (`MaxRestarts`).
Two assumptions about time: a call ends on the day it began or on the next, and a trigger
has ended when the next one comes. A write by `_id` of a job that the retention has deleted
matches nothing, but the document's upsert asks for no job: `late` remembers these.

## 4. Runs

| Run | Asks | Bounds | Shows |
|---|---|---|---|
| `aizhan` | 6 safety properties, `ResultBeforeSuccess`, `ImplementsLifecycle` | 1 worker (the code's number for aizhan), 1 day with 2 jobs, 2 rechecks, 2 requests, and one each of restart, error, toggle | claims stay exclusive, attempts are charged once, settled stays settled, the queue implements its lifecycle |
| `chinaz` | `IInv`, `EveryJobSettles` | 2 workers, 1 recheck, no toggle, otherwise the same | the inductive invariant under concurrent workers, so also OneOpenJobPerKey and what the proofs derive from it; no job is left open |
| `rebuild` | `ExhaustedDayIsNotRebuilt` (violated) | no errors or restarts needed | the finding of section 6 |
| `daily_metric` | `PreferredIsShown`, `WeightsAreAttributed`, `LatestAttemptDecides`, `LegacyIsKept`, `SourcesKeepApart` | 3 fetches, 1 restart, every legacy document, both providers | any order of writes, failures, migrations |
| `login` | `IInv`, `TablesAreBounded`, `LockoutLasts` | 2 requests, 2 addresses, 2 accounts, limits 2 and 1, tables of 1 and 2, 4 units of time | stale clocks, full tables, lockouts |
| `refresh` | `OneRefresh`, `ProgressAddsUp`, `FailureIsUnanimous`, `EveryRefreshEnds` | 2 callers, 2 workers, 2 domains, 2 agents with 1 slot, 2 refreshes, 1 restart, both checkers | one refresh, a true progress; every agent is asked before a check fails; no slot is lost and every refresh ends |
| `title` | `ReadIsCurrent`, `HistoryIsTheChange` | 2 domains, 2 titles, 3 refreshes, 1 restart | read-then-write saves are safe; history, count and title agree |
| `certificate` | `ListIsTheFile`, `LatestIsCurrent`, `OldChecksAreGone`, `RecentChecksAreKept` | 2 domains, 2 refreshes, 3 days, retention 1 | the list is the file, the cleanup deletes exactly what is old |
| `aizhan_source` | `SpacingIsKept`, `AizhanBlocksAreObeyed` | 2 callers, attempts 1, 2 and 4, 14 units of time | gaps and cooldowns in spite of rechecks, retries, agent |
| `chinaz_source` | `OutageCostsOneAttempt`, `ChinazBlocksAreObeyed`, `RequestsArePaced` | 2 queues, 9 units of time, deadlines that do and do not elapse | two queues and one circuit |
| `notifier` | `EveryChangeIsReported`, `PagesAreReadable`, `SuccessMeansDelivered`, `EveryDayIsAccountedFor` | 2 domains, 2 fields, 6 things the API may say of a day, 2 webhooks, pages of 4, 5 and 7, days of 2 units, a clock that reads 0 to 4 and is set back once, or forward, 1 stop or crash | complete reports, honest results; no day lost in silence, none reported twice but after a setback |
| `collection` | `QueueAllIsComplete`, `ExpiredIsGone`, `SplitIsRepaired` | 2 domains, with or without a file, 1 request beside main, days 0 and 2 with a retention of 1, 2 calls, 1 claim, 1 error, 1 restart | complete batches, complete and ordered retention, repaired splits |

Why the bounds are enough. A job of the queue can be claimed again after a retry, a
release, a recovery; two jobs of one day are what the dedupe key is about; one error and
one restart at any step meet every position of every actor, and the proofs hold for any
number of each. Three fetches give every order of two sources and the supplement, or one
source twice around the other. Login limits of 2 and 1 let a burst reach the limit and try
to pass it, and tables smaller than the keys force evictions. Three refreshes let one refresh
overlap the end of the one before and follow a restart. In the sources the units are
scaled: a cooldown longer than a gap, doubled once before the cap of an hour; 14 and 9 units
let a block, its cooldown, a request after it and a second block happen. Two domains with
two fields give up to four changes, rising, falling or both, that fill pages of 4, 5 and 7
units at every point of both sections. The clock may repeat the unit before a scheduled
time, or skip two scheduled times, while the daemon waits, works or is down; that is enough for a
run before its time and for a day that is past when its run begins, and the proof holds for
all changes of the clock. Two workers, two domains and two
agents of one slot make a worker wait for a slot while it is its turn, fall back to the agent
the other one holds, and meet a second refresh and a restart with a check under way.
In the collection the days 0 and 2 with a retention of 1 make the first day's jobs expire while a call
or a worker still has them; one claim is a worker that holds one job over all of that; two
calls are a trigger and a request that overlap, or two triggers, one of which repairs what
an error or a restart made of the other.

Symmetry is used for callers, requests, addresses, accounts, titles and domains where the module
treats them alike, and only in runs without liveness. `CHECK_DEADLOCK FALSE` is set where
a bound may be spent or the queue be empty, so that the system rests; each cfg says which.

### Fairness

* `EveryJobSettles`: weak fairness of each worker, of the passing of time for each job, of
  the recovery goroutine's two steps, and of the end and the restart of the process. The goroutines
  are scheduled by Go's runtime, each blocking call has a timeout, and the recovery loop
  ticks for as long as the process lives. `Restart=on-failure` in `deploy/seo-monitor.service` restarts a crashed
  process; a stop is taken to be an administrator's restart. No fairness is assumed of
  callers, archives, or of successful database answers: `MaxErrors` bounds the errors instead.
* `EveryRefreshEnds`: weak fairness of each refresh's goroutine and of its workers' steps: the
  handshake, the request to an agent and a save have time limits. Strong fairness of taking
  a slot, since a Go channel serves those who wait for it in order. Nothing is assumed of
  callers, cancellation or restarts.

## 5. Proofs

Every theorem holds for any value of the constants that the named assumption of its model
allows. An assumption says what the code validates or fixes (limits, periods and base cooldowns
are at least 1, `MinDelay <= MaxDelay <= MaxDuration`, an agent has a slot), that bounds are
natural numbers, that what is counted is finite (callers, workers, domains, requests,
addresses, accounts), and that a value such as `NoItem` or `Nobody` is none of those it stands
in for. So the number of workers, domains, jobs, days, requests, errors and restarts, the
limits, delays, cooldowns and retention periods are arbitrary. An invariant `Inv` that a run
checks is derived from an inductive one: `Init => IInv`, `IInv /\ [Next]_vars => IInv'` with
one step per action, `IInv => Inv`; an action property from a step that keeps `IInv`.

| Module | Proved | Inductive invariant |
|---|---|---|
| `JobQueueProofs` | `OneOpenJobPerKey`, `ExclusiveClaim`, `AttemptsAreCharged`, `ExhaustionIsEarned`, `AutomaticCallGivesUp`, `SettledStaysSettled`, `ImplementsLifecycle`; with one worker `ResultBeforeSuccess` | `IInv` in `JobQueueInv`, checked by `chinaz` |
| `DailyMetricProofs` | `PreferredIsShown`, `WeightsAreAttributed`, `LatestAttemptDecides`, `LegacyIsKept`, `SourcesKeepApart` | `Whole` of the document, `SeenInv` of the migrations, `WritersEmployed` |
| `LoginLimiterProofs` | `IInv`, `TablesAreBounded`, `LockoutLasts` | `IInv` in `LoginLimiter`, checked by `login` |
| `SourceProofs` | Aizhan: `SpacingIsKept`, `AizhanBlocksAreObeyed`. Chinaz: `RequestsArePaced`, `ChinazBlocksAreObeyed`, `OutageCostsOneAttempt` | `AizhanInv`; `ChinazInv` |
| `RefreshProofs` | Agents: `OneRefresh`, `ProgressAddsUp`, `FailureIsUnanimous`; that slots taken are requests under way. Titles: `ReadIsCurrent`, `HistoryIsTheChange`. Certificates: `ListIsTheFile`, `LatestIsCurrent`, `OldChecksAreGone`, `RecentChecksAreKept` | `ServiceInv` of all three; `CheckInv`, `SaveInv`, `CertInv`, `AppendedInv` |
| `NotifierProofs` | `EveryChangeIsReported`, `PagesAreReadable`, `SuccessMeansDelivered`, `EveryDayIsAccountedFor`; `OnceADay` where the clock is never put back | `NInv`: `DaysInv`, `RunInv`; and `BookInv` of the pages |
| `CollectionProofs` | `QueueAllIsComplete`, `ExpiredIsGone`, `SplitIsRepaired` | `Control`, `LoopsComplete`, `CleanSoFar`, `Repaired` |

Each also proves `TypeOK`, the sources and the notifier as a part of their invariants.

`Induction` proves, from the well-foundedness of the natural numbers, that a set of them with
0 and every successor has them all (`Induct`), that a set that has one has a least one
(`Least`), and that a recursive definition over them has exactly one solution, which takes the
steps it says (`Recursion`). The lemmas take sets and functions where the library's induction
theorems take operators, which is what the provers at hand can instantiate; so what a
recursive function computes can be proved for any number of steps.

**The queue.** The final writes address a job by `_id` alone, so their safety is a fact
about who may hold a job. `ExclusiveClaim` alone is not inductive: that the sweep will not
match a claimed job depends on what the sweep has read before. `IInv` therefore says

* the dedupe key marks exactly the open jobs (`DedupeMatchesOpen`): the unique index works;
* no two workers hold the same claim number, and none is ahead of the database (`ClaimsAreApart`);
* at each position a worker still owns its claim, or, where it is about to fail a job, that its own success
  was saved and not heard of (`WorkerKnows`);
* while the process is up, a worker's job is registered, and a registered job has one
  holder and cannot be claimed (`InflightCoversWorkers`); while it is stopping, a job that has
  been released may be claimed again, but by a new claim number;
* a sweep under way cannot match the claim of any worker (`SweepSparesWorkers`), because
  it skips what was registered, or claimed after its cutoff;
* attempts cover charges (`AttemptsCoverCharges`, `AttemptsAreCharged`), exhausted marks are
  earned, callers know what they have counted, memory does not outlive the process.

The proof has one lemma per conjunct, and under it one step per group of actions. A job
changes in few ways (`JobChange`), shown once for all actions by `NextChangesJobs`; the lemmas
about jobs, and the refinement, go by the change instead of by the action. `JobLifecycle` has
no variable of the implementation's memory; the mapping forgets everything but the jobs'
statuses and the charged failures. `ResultBeforeSuccess` has the hypothesis that there is one
worker, as every queue has when aizhan is the provider (`config.go` 174, `main.go` 205-211):
between a worker's two last writes (`ResultSaved`) only another worker could invalidate its result.

**The document.** A pipeline breaks `PreferredIsShown` between two of its stages and restores it
in the last. `Base` is what every stage preserves (the label is none or names the site of the
weights shown; a snapshot is what its source's latest attempt made of it; the legacy result is
known until it has a snapshot), `Whole` what the last stage restores. What a migration has
read is still true of the legacy result when it writes (`SeenInv`), and its filter misses a
document that has moved on.

**The login limiter.** Both tables obey one set of rules, so everything is proved about a table,
a limit and the number of reservations each key should hold. That number is the cardinality
of the set of requests under way for the key; a key without a bucket has none. From it a
bucket is never given back more than it lent, failures and reservations stay within
the limit, and pruning, which spares reserved buckets, evicts nothing a request will settle.

**The sources.** The slot makes everything after it sequential: who is past the slot has it.
In Aizhan, `next` is never before a gap promised, and the silence a block asks for is
over, covered by `cooldown`, or about to be reported by the one who has the slot. In Chinaz a block
closes the circuit in two steps, the first before the slot is released, the second, longer
one, when the result is recorded without the slot. `ChinazInv` says that between the two
nobody is past the check, that one block at a time is being recorded, and for a queue that has been
refused (`Spared`) that it cannot reach the check again before the circuit opens: it is at a gate
whose time covers the cooldown, or so early that it will read the final one. That a
cooldown, however often it is doubled, never falls below its base is by `Recursion` and `Induct`.

**The refreshes.** `ServiceInv` says that workers and domains left belong to a refresh, that no
domain has two workers, and that progress is what has been recorded; every step is one
of the service or leaves its variables alone, so this is proved once. On it rest: a check has been
failed by exactly the agents from its turn on up to the present, and N turns reach all of
N agents; the title a worker has found is still there when it writes, since it alone has the
domain; no check is added while a cleanup runs, since the workers of its refresh have returned
and there is no other refresh, so what the cleanup has dealt with stays clean; what is being saved
belongs to the latest run. What a save has appended stays in the history or is out of its retention
(`AppendedInv`), for no cleanup deletes more: so is what it then shows as the latest state.
That a domain has a newest success is shown like `Least`.

**The collection.** A loop of a call is described by what it has left: what it has listed and
not left is in every queue, and its present item in the queues before the present one
(`LoopsComplete`); the same with "open or succeeded" for the start-up (`Repaired`), and
for the position of a cleanup (`CleanSoFar`). Nothing is added to what a loop has
dealt with, since days do not go back, a call lasts until the next day at most, and only the
cleanup deletes.

**The notifier.** A report is proved right in three parts, each for any finite set of changes.

* *Order.* Any finite set of changes of one direction can be sorted (`Sortable`, by induction
  over its size, inserting a change where it belongs), so `Sorted`, a choice, is one that
  exists, and what the items of both sections say is what has changed, each once, rising before
  falling (`ItemsAreRight`).
* *Pages.* `BookInv` speaks of the pages after n items: what is on them is
  exactly the first n changes in their order, every page that is full can be read, and the
  page under way keeps the limit and has, after its last line, the label of that line's section.
  An item either fits (`ItemFits`) or turns the page (`ItemTurnsThePage`), and a fresh page with a
  label and one line is within every limit the configuration allows; `BooksAreRight` is
  the induction over n.
* *Delivery.* While a run sends, the number of posts behind it follows from the page, the
  webhook and the attempt it is at (`Sending`), and a page nobody has heard of has made the run
  a failure. So at the last post of the last page it has tried as many as there are, and calls
  itself a success only if all were heard.

`EveryDayIsAccountedFor` relates the clock, the day waited for and the days reported, and no step
changes all of them. `DaysInv` says that the runs reported are in order, and the day
waited for is after them, each time unless a setback came between (`InOrder`); that what has
come is reported, missed or waited for, and nothing is missed before its time
(`Accounted`, `MissedArePast`); and that, for as long as nothing was put back since the wait was set,
the clock has gone at least as far as the timer, so that a wait that is over is over on the
clock as well (`WaitIsLong`, `RunsArePast`). Then the next run, whose time is strictly after the
clock's, is for a later day. `OnceWithoutSetback` draws the conclusion for a clock that
is never put back, however often it is set forward.

Only model-checked: liveness (`EveryJobSettles`, `EveryRefreshEnds`), which is out of this
prover's reach, as is ENABLED; and `ExhaustedDayIsNotRebuilt`, which does not hold (section 6).

## 6. Finding

**An exhausted day can be rebuilt** (run `rebuild`). `queueDomain` counts the exhausted
jobs of the day and inserts in separate operations (`mongo.go` 592-642). A job that is marked
exhausted in between is followed by a new automatic job, contrary to
`docs/aizhan-source.md:52`. What does hold, and is proved: a call that begins after the day
was exhausted gives up (`AutomaticCallGivesUp`).

Noticed, with no run of their own:

* **A day can be reported twice.** The notifier's wait is a difference on the wall clock, and
  when it is over the run begins whatever the clock says (`weight_change_notifier.py` 691-701). On a
  day of 25 hours in `WEIGHT_ALERT_TIMEZONE`, or after the clock has been put back by hand, it
  begins before the scheduled time; when it is done, `next_run` gives the same time again, and the
  "每日" (daily) notification of line 711 comes twice. Asia/Shanghai, the default, has no such
  days. With `OnceADay` as another invariant in `Notifier.cfg`, TLC shows it in seven states: the clock is
  put from 1 back to 0 while the timer waits for 2, and fires at 1. What does hold, and is
  proved: no day is reported twice if the clock is never put back (`OnceWithoutSetback`), and
  otherwise only after a setback (`DaysAccounted`).
* `runWorker` passes `WaitReady` and then claims, and `waitSupplementReady` does not look again
  after its sleep, so a Chinaz worker may claim inside a cooldown that was opened meanwhile,
  although `docs/aizhan-source.md:48` has workers claim after their source's cooldown. The
  cost is bounded: `OutageCostsOneAttempt` holds.
* The comment at `mongo.go:589-591` speaks of "allowing manual retries", but a manual request
  that is not forced is refused on an exhausted day.
* A job retried, released or queued after `ArchiveDomain`'s cancel stays queued and is
  collected for an archived domain; the code promises nothing else.
* Without an agent, a failure that is a network error and carries a Retry-After (a 200
  whose body cannot be read) is retried after the normal gap and opens no cooldown
  (`aizhan.go:266`, `308`). `README.md:209` has network errors retried and a failed response
  suspend the source, and does not say which comes first.
* The cleanup at start-up runs before the children's queues are enabled (`main.go:89`, `150`),
  so it leaves their expired jobs to the next scheduled one, although `README.md:174` has
  metrics and job records cleaned at start-up. `ExpiredIsGone` speaks of the scheduled cleanup.
* `QueueAll` stops at the first domain that fails, so one archived since the list was read leaves
  the rest of the day to the next trigger or request (`mongo.go:551`). It says so by its
  error: a batch without an error is complete (`QueueAllIsComplete`).
* A domain archived over HTTP that is still in the domains file is active again after the next
  trigger or start.
* A worker whose job has expired and been deleted saves its document all the same; the next
  cleanup deletes it (`late` in Collection has those that are still there).
* A Chinaz success is recorded without the slot and may reset the count of blocks
  while the other queue's cooldown is open.

## 7. Not modelled

* Parsing of pages, files and configuration, formatting, listings and search: no state.
* Users and sessions: each operation is a call or two on one document, and what concurrent
  requests share is the login limiter.
* HTTP handlers as such: login is in LoginLimiter, those of domains and collection in
  Collection, the refreshes in RefreshService; the others only read.
* In Collection: forced calls, and the workers' recovery and lost answers, which JobQueue has. A job
  that stays running because an attempt's final write failed is there as the job of a
  worker that a restart has cut off; JobQueue has it in full.
* Several server processes on one database: the documentation allows one.
* `WeightFallback` and `Hybrid`, which the server does not construct, and the probe command.
