------------------------------ MODULE JobQueue ------------------------------
(***************************************************************************)
(* The durable collection queue of ONE source (aizhan, chinaz or           *)
(* chinaz_supplement): the jobs collection in MongoDB, the collector       *)
(* workers that claim, fetch and settle jobs, the recovery sweep that      *)
(* requeues what a dead process left running, the callers that queue       *)
(* domains (HTTP, scheduler, startup) and the archiving of domains.        *)
(*                                                                         *)
(* A database operation is one step.  It may be applied and acknowledged,  *)
(* applied with the acknowledgement lost, or not applied.  A handler that  *)
(* issues several operations is several steps, one pc value per operation, *)
(* so every interleaving of the actors' database operations is explored.   *)
(* Time is abstracted by flags: `due` (available_at <= now) and `stale`    *)
(* (started_at older than STALE_JOB_AFTER), raised by actions of their own.*)
(*                                                                         *)
(* A definition marked "Slip" is no part of the specification: it is a     *)
(* plausible mistake in the definition below it, that a property notices.  *)
(***************************************************************************)
EXTENDS Naturals, FiniteSets

CONSTANTS
    Source,        \* metricSource of the store: which of the three queues this is
    Domains,       \* domain ids
    Keys,          \* dedupe keys: one per domain and snapshot date
    DomainOf,      \* the domain of each key
    Jobs,          \* ids an inserted job may get
    KeyOf,         \* domain_id and snapshot_date of a job, fixed at insertion
    Workers,       \* collector goroutines
    Callers,       \* goroutines that call QueueDomain
    NoJob, NoKey,  \* the absence of a job or a key
    MaxRetries,    \* len(retryDelays)
    MaxRequests,   \* bound on the QueueDomain calls
    MaxRestarts,   \* bound on shutdowns and crashes
    MaxErrors,     \* bound on database errors outside a shutdown
    MaxToggles     \* bound on changes to the domains' active flags

ASSUME ConstantsAssumption ==
    /\ Source \in {"aizhan", "chinaz", "chinaz_supplement"}
    /\ DomainOf \in [Keys -> Domains]
    /\ KeyOf \in [Jobs -> Keys]
    /\ NoJob \notin Jobs
    /\ NoKey \notin Keys
    /\ {MaxRetries, MaxRequests, MaxRestarts, MaxErrors, MaxToggles} \subseteq Nat

VARIABLES
    \* --- MongoDB
    jobs,       \* the jobs collection of this source
    stored,     \* keys whose metric document holds a valid result of this source
    active,     \* domains with active = true
    \* --- the process, lost with it
    process,    \* "up", "stopping" (rootCtx canceled) or "down"
    inflight,   \* Store.inflight: ids the recovery sweep must not touch
    worker,     \* each worker's position in collectJob and its copy of the job
    sweep,      \* the recovery goroutine
    caller,     \* each caller's position in queueDomain
    canceling,  \* domains whose ArchiveDomain has still to cancel queued jobs
    \* --- bookkeeping of the model
    charged,    \* ghost: failed attempts that RetryJob put on record, per job
    used        \* how much of each bound is spent

database == <<jobs, stored, active>>
memory   == <<process, inflight, worker, sweep, caller, canceling>>
vars     == <<jobs, stored, active, process, inflight, worker, sweep, caller,
              canceling, charged, used>>

(***************************************************************************)
(* Types                                                                   *)
(***************************************************************************)
Statuses    == {"absent", "queued", "running", "succeeded", "failed", "canceled"}
Open        == {"queued", "running"}
Terminal    == {"succeeded", "failed", "canceled"}
WorkerPCs   == {"idle", "claimed", "fetch", "retryMetric", "retryJob", "failMetric",
                "failJob", "saveMetric", "saveJob", "finish", "forget", "off"}
CallerPCs   == {"idle", "exhausted", "succeeded", "snapshot", "insert"}
Outcomes    == {"ok", "lost", "failed"}

\* claim counts the claims of a job and stands for started_at: the field is set
\* by a claim, and unset or ignored outside status running.
JobType == [status : Statuses, attempt : Nat, claim : Nat, due : BOOLEAN,
            stale : BOOLEAN, dedupe : BOOLEAN, exhausted : BOOLEAN]
WorkerType == [pc : WorkerPCs, job : Jobs \cup {NoJob}, attempt : Nat,
               claim : Nat, exhausted : BOOLEAN]
SweepType  == [pc : {"idle", "update"}, skip : SUBSET Jobs, old : SUBSET (Jobs \X Nat)]
\* hopeless is a ghost: the day was already exhausted when the call began.
CallerType == [pc : CallerPCs, key : Keys \cup {NoKey}, force : BOOLEAN,
               hopeless : BOOLEAN]
UsedType   == [requests : Nat, restarts : Nat, errors : Nat, toggles : Nat]

TypeOK ==
    /\ jobs \in [Jobs -> JobType]
    /\ stored \in SUBSET Keys
    /\ active \in SUBSET Domains
    /\ process \in {"up", "stopping", "down"}
    /\ inflight \in SUBSET Jobs
    /\ worker \in [Workers -> WorkerType]
    /\ sweep \in SweepType
    /\ caller \in [Callers -> CallerType]
    /\ canceling \in SUBSET Domains
    /\ charged \in [Jobs -> Nat]
    /\ used \in UsedType

AbsentJob == [status |-> "absent", attempt |-> 0, claim |-> 0, due |-> FALSE,
              stale |-> FALSE, dedupe |-> FALSE, exhausted |-> FALSE]
Unemployed(pc) == [pc |-> pc, job |-> NoJob, attempt |-> 0, claim |-> 0,
                   exhausted |-> FALSE]
NoSweep  == [pc |-> "idle", skip |-> {}, old |-> {}]
NoCall   == [pc |-> "idle", key |-> NoKey, force |-> FALSE, hopeless |-> FALSE]

Init ==
    /\ jobs = [j \in Jobs |-> AbsentJob]
    /\ stored = {}
    /\ active = Domains
    /\ process = "up"
    /\ inflight = {}
    /\ worker = [w \in Workers |-> Unemployed("idle")]
    /\ sweep = NoSweep
    /\ caller = [c \in Callers |-> NoCall]
    /\ canceling = {}
    /\ charged = [j \in Jobs |-> 0]
    /\ used = [requests |-> 0, restarts |-> 0, errors |-> 0, toggles |-> 0]

(***************************************************************************)
(* Helpers                                                                 *)
(***************************************************************************)
\* Only the aizhan scraper implements FetchAttempt, which makes its retries
\* progressive and marks a job that used them all up.
Progressive == Source = "aizhan"

\* Slips: the plan loses its last delay, or gains one.
HasRetryTooFew(attempt)  == attempt \in 1..(MaxRetries - 1)
HasRetryTooMany(attempt) == attempt \in 1..(MaxRetries + 1)

\* retryDelay: the n-th failed attempt has a delay to wait for iff n is in range.
HasRetry(attempt) == attempt \in 1..MaxRetries

\* Outcome o of one database operation under a context that is canceled or not:
\* a canceled context fails operations for free, other errors spend the bound.
Db(o, canceled) ==
    /\ o \in Outcomes
    /\ IF o = "ok" \/ canceled
       THEN UNCHANGED used
       ELSE /\ used.errors < MaxErrors
            /\ used' = [used EXCEPT !.errors = @ + 1]

Applied(o) == o \in {"ok", "lost"}
Canceled   == process = "stopping"

SetJob(j, record) == jobs' = [jobs EXCEPT ![j] = record]
Goto(w, pc) == worker' = [worker EXCEPT ![w].pc = pc]

\* Where the worker loop continues: it returns once its context is canceled.
AfterWork == Unemployed(IF Canceled THEN "off" ELSE "idle")

(***************************************************************************)
(* What each database update makes of a job                                *)
(***************************************************************************)
NewJob       == [AbsentJob EXCEPT !.status = "queued", !.due = TRUE, !.dedupe = TRUE]
Claimed(job) == [job EXCEPT !.status = "running", !.attempt = @ + 1, !.claim = @ + 1,
                            !.stale = FALSE]
\* Slip: the dedupe key is released with the worker.
RetriedUnkeyed(job) == [job EXCEPT !.status = "queued", !.due = FALSE, !.dedupe = FALSE]

Retried(job) == [job EXCEPT !.status = "queued", !.due = FALSE]
Failed(job, exhausted) ==
    [job EXCEPT !.status = "failed", !.dedupe = FALSE, !.exhausted = @ \/ exhausted]
Succeeded(job) ==
    [job EXCEPT !.status = "succeeded", !.dedupe = FALSE, !.exhausted = FALSE]
CanceledJob(job) == [job EXCEPT !.status = "canceled", !.dedupe = FALSE]

\* Back to the queue at once, with n attempts on the count.
Requeued(job, n) == [job EXCEPT !.status = "queued", !.due = TRUE, !.attempt = n]
Refunded(n) == IF n > 0 THEN n - 1 ELSE n

\* An administrator's restart is not a failed attempt of any source.
Released(job) == Requeued(job, Refunded(job.attempt))

\* Slip: the crashed attempt stays on the count of every queue.
RecoveredUnrefunded(job) == Requeued(job, job.attempt)

\* A crash proves no request: aizhan refunds the attempt, the other queues do not.
Recovered(job) ==
    Requeued(job, IF Source = "aizhan" THEN Refunded(job.attempt) ELSE job.attempt)

(***************************************************************************)
(* The worker: runWorker and collectJob                                    *)
(***************************************************************************)
\* FindOneAndUpdate on a queued job whose available_at has passed.  A claim
\* started before the context was canceled may complete after it.
ClaimNextJob(w, j) ==
    /\ process # "down"
    /\ worker[w].pc = "idle"
    /\ jobs[j].status = "queued" /\ jobs[j].due
    /\ \E o \in {"ok", "lost"} :
        /\ Db(o, Canceled)
        /\ SetJob(j, Claimed(jobs[j]))
        /\ worker' = [worker EXCEPT ![w] =
               IF o = "ok"
               THEN [pc |-> "claimed", job |-> j, attempt |-> jobs[j].attempt + 1,
                     claim |-> jobs[j].claim + 1, exhausted |-> FALSE]
               ELSE AfterWork]
    /\ UNCHANGED <<stored, active, process, inflight, sweep, caller, canceling, charged>>

\* ClaimNextJob's inflight.Store, after the database has answered.
RegisterClaim(w) ==
    /\ worker[w].pc = "claimed"
    /\ inflight' = inflight \cup {worker[w].job}
    /\ Goto(w, "fetch")
    /\ UNCHANGED <<database, process, sweep, caller, canceling, charged, used>>

\* Fetch or FetchAttempt returns; nothing is recorded under a canceled context.
FetchReturns(w) ==
    /\ worker[w].pc = "fetch"
    /\ \/ Canceled /\ Goto(w, "finish")
       \/ ~Canceled /\ Goto(w, "saveMetric")
       \/ ~Canceled /\ HasRetry(worker[w].attempt) /\ Goto(w, "retryMetric")
       \/ /\ ~Canceled /\ ~HasRetry(worker[w].attempt)
          /\ worker' = [worker EXCEPT ![w] = [@ EXCEPT !.pc = "failMetric",
                                                       !.exhausted = Progressive]]
    /\ UNCHANGED <<database, process, inflight, sweep, caller, canceling, charged, used>>

\* invalidateWeightAttempt, first half of RetryJob and MarkJobFailed: the day's
\* result of this source stops being valid.  A supplement has no weights.
InvalidateWeightAttempt(w) ==
    /\ worker[w].pc \in {"retryMetric", "failMetric"}
    /\ \E o \in Outcomes :
        /\ Db(o, Canceled)
        /\ Source = "chinaz_supplement" => o = "ok"
        /\ stored' = IF Applied(o) /\ Source # "chinaz_supplement"
                     THEN stored \ {KeyOf[worker[w].job]} ELSE stored
        /\ Goto(w, IF o # "ok" THEN "finish"
                   ELSE IF worker[w].pc = "retryMetric" THEN "retryJob" ELSE "failJob")
    /\ UNCHANGED <<jobs, active, process, inflight, sweep, caller, canceling, charged>>

\* RetryJob: back to the queue until the backoff elapses, only if still running.
RetryJob(w) ==
    LET j == worker[w].job IN
    /\ worker[w].pc = "retryJob"
    /\ \E o \in Outcomes :
        /\ Db(o, Canceled)
        /\ IF Applied(o) /\ jobs[j].status = "running"
           THEN /\ SetJob(j, Retried(jobs[j]))
                /\ charged' = [charged EXCEPT ![j] = @ + 1]
           ELSE UNCHANGED <<jobs, charged>>
    /\ Goto(w, "finish")
    /\ UNCHANGED <<stored, active, process, inflight, sweep, caller, canceling>>

\* MarkJobFailed: by _id alone, whatever the job's status is.
MarkJobFailed(w) ==
    LET j == worker[w].job IN
    /\ worker[w].pc = "failJob"
    /\ \E o \in Outcomes :
        /\ Db(o, Canceled)
        /\ IF Applied(o) THEN SetJob(j, Failed(jobs[j], worker[w].exhausted))
                         ELSE UNCHANGED jobs
    /\ Goto(w, "finish")
    /\ UNCHANGED <<stored, active, process, inflight, sweep, caller, canceling, charged>>

\* An error of SaveJobResult ends in MarkJobFailed unless the context is canceled.
SaveFailed(w) == Goto(w, IF Canceled THEN "finish" ELSE "failMetric")

\* Slip: the error of the metric update is not looked at.
SaveMetricUnchecked(w) ==
    /\ worker[w].pc = "saveMetric"
    /\ \E o \in Outcomes :
        /\ Db(o, Canceled)
        /\ stored' = IF Applied(o) THEN stored \cup {KeyOf[worker[w].job]} ELSE stored
    /\ Goto(w, "saveJob")
    /\ UNCHANGED <<jobs, active, process, inflight, sweep, caller, canceling, charged>>

\* SaveJobResult, first the metric document...
SaveMetric(w) ==
    /\ worker[w].pc = "saveMetric"
    /\ \E o \in Outcomes :
        /\ Db(o, Canceled)
        /\ stored' = IF Applied(o) THEN stored \cup {KeyOf[worker[w].job]} ELSE stored
        /\ IF o = "ok" THEN Goto(w, "saveJob") ELSE SaveFailed(w)
    /\ UNCHANGED <<jobs, active, process, inflight, sweep, caller, canceling, charged>>

\* ... then the job, by _id alone.
SaveJobResult(w) ==
    LET j == worker[w].job IN
    /\ worker[w].pc = "saveJob"
    /\ \E o \in Outcomes :
        /\ Db(o, Canceled)
        /\ IF Applied(o) THEN SetJob(j, Succeeded(jobs[j])) ELSE UNCHANGED jobs
        /\ IF o = "ok" THEN Goto(w, "finish") ELSE SaveFailed(w)
    /\ UNCHANGED <<stored, active, process, inflight, sweep, caller, canceling, charged>>

\* Slip: one worker's end clears every worker's registration.
ForgetClaimAll(w) ==
    /\ \/ worker[w].pc = "finish" /\ process = "up"
       \/ worker[w].pc = "forget"
    /\ inflight' = {}
    /\ worker' = [worker EXCEPT ![w] = AfterWork]
    /\ UNCHANGED <<database, process, sweep, caller, canceling, charged, used>>

\* collectJob returns with its context alive: ForgetClaim, then the next job.
ForgetClaim(w) ==
    /\ \/ worker[w].pc = "finish" /\ process = "up"
       \/ worker[w].pc = "forget"
    /\ inflight' = inflight \ {worker[w].job}
    /\ worker' = [worker EXCEPT ![w] = AfterWork]
    /\ UNCHANGED <<database, process, sweep, caller, canceling, charged, used>>

\* interruptedJobUpdate's filter: the job is still running under this very claim.
OwnClaim(w) ==
    LET job == jobs[worker[w].job] IN
    /\ job.status = "running"
    /\ job.attempt = worker[w].attempt
    /\ job.claim = worker[w].claim

\* collectJob returns under a canceled context: the claim is handed back and its
\* attempt refunded, with a context of its own.
ReleaseInterruptedJob(w) ==
    LET j == worker[w].job IN
    /\ worker[w].pc = "finish" /\ Canceled
    /\ \E o \in Outcomes :
        /\ Db(o, FALSE)
        /\ IF Applied(o) /\ OwnClaim(w) THEN SetJob(j, Released(jobs[j]))
                                        ELSE UNCHANGED jobs
    /\ Goto(w, "forget")
    /\ UNCHANGED <<stored, active, process, inflight, sweep, caller, canceling, charged>>

\* runWorker sees the canceled context at the top of its loop or in a wait.
WorkerReturns(w) ==
    /\ worker[w].pc = "idle" /\ Canceled
    /\ Goto(w, "off")
    /\ UNCHANGED <<database, process, inflight, sweep, caller, canceling, charged, used>>

WorkerStep(w) ==
    \/ \E j \in Jobs : ClaimNextJob(w, j)
    \/ RegisterClaim(w) \/ FetchReturns(w)
    \/ InvalidateWeightAttempt(w) \/ RetryJob(w) \/ MarkJobFailed(w)
    \/ SaveMetric(w) \/ SaveJobResult(w)
    \/ ReleaseInterruptedJob(w) \/ ForgetClaim(w) \/ WorkerReturns(w)

(***************************************************************************)
(* The passage of time                                                     *)
(***************************************************************************)
\* available_at passes.  Assumption on time: the shortest delay is longer than
\* the moment between RetryJob's write and the same worker's ForgetClaim.
BackoffElapses(j) ==
    /\ jobs[j].status = "queued" /\ ~jobs[j].due
    /\ j \notin inflight
    /\ SetJob(j, [jobs[j] EXCEPT !.due = TRUE])
    /\ UNCHANGED <<stored, active, memory, charged, used>>

\* started_at falls behind the threshold.  Assumption on time: STALE_JOB_AFTER
\* (minutes) is longer than the moment between a claim's write and inflight.Store.
JobGrowsStale(j) ==
    /\ jobs[j].status = "running" /\ ~jobs[j].stale
    /\ \A w \in Workers : ~(worker[w].pc = "claimed" /\ worker[w].job = j)
    /\ SetJob(j, [jobs[j] EXCEPT !.stale = TRUE])
    /\ UNCHANGED <<stored, active, memory, charged, used>>

(***************************************************************************)
(* Recovery: RunRecovery and RecoverStaleJobs                              *)
(***************************************************************************)
\* staleJobFilter: the cutoff and the ids to skip are fixed before the update is
\* sent.  A sweep that finds nothing changes nothing and is left out.
StaleJobFilter ==
    LET old == {<<j, jobs[j].claim>> : j \in {i \in Jobs : /\ jobs[i].status = "running"
                                                           /\ jobs[i].stale}}
    IN
    /\ process = "up"
    /\ sweep.pc = "idle"
    /\ old # {}
    /\ sweep' = [pc |-> "update", skip |-> inflight, old |-> old]
    /\ UNCHANGED <<database, process, inflight, worker, caller, canceling, charged, used>>

\* Slips: the update does not skip the registered jobs, or spares the last attempt.
MatchedBySweepAll ==
    {j \in Jobs : jobs[j].status = "running" /\ <<j, jobs[j].claim>> \in sweep.old}
MatchedBySweepRetryable ==
    {j \in Jobs : /\ jobs[j].status = "running"
                  /\ <<j, jobs[j].claim>> \in sweep.old
                  /\ j \notin sweep.skip
                  /\ HasRetry(jobs[j].attempt)}

\* The jobs the update matches: still running since before the cutoff, not skipped.
MatchedBySweep ==
    {j \in Jobs : /\ jobs[j].status = "running"
                  /\ <<j, jobs[j].claim>> \in sweep.old
                  /\ j \notin sweep.skip}

RecoverStaleJobs ==
    /\ process # "down"
    /\ sweep.pc = "update"
    /\ \E o \in Outcomes :
        /\ Db(o, Canceled)
        /\ jobs' = [j \in Jobs |-> IF Applied(o) /\ j \in MatchedBySweep
                                   THEN Recovered(jobs[j]) ELSE jobs[j]]
    /\ sweep' = NoSweep
    /\ UNCHANGED <<stored, active, process, inflight, worker, caller, canceling, charged>>

(***************************************************************************)
(* Queueing: queueDomain, one call per caller                              *)
(***************************************************************************)
JobsOf(k, status) == {j \in Jobs : KeyOf[j] = k /\ jobs[j].status = status}

\* The first count of queueDomain: the day failed with every recheck used up.
DayExhausted(k) == \E j \in JobsOf(k, "failed") : jobs[j].exhausted

\* GetDomain finds the domain active; an archived one ends the call at once.
QueueDomain(c, k, force) ==
    /\ process = "up"
    /\ caller[c].pc = "idle"
    /\ used.requests < MaxRequests
    /\ DomainOf[k] \in active
    /\ caller' = [caller EXCEPT ![c] =
           [pc |-> IF force THEN "insert"
                   ELSE IF Source = "aizhan" THEN "exhausted" ELSE "succeeded",
            key |-> k, force |-> force, hopeless |-> DayExhausted(k)]]
    /\ used' = [used EXCEPT !.requests = @ + 1]
    /\ UNCHANGED <<database, process, inflight, worker, sweep, canceling, charged>>

CallReturns(c) == caller' = [caller EXCEPT ![c] = NoCall]
CallGoto(c, pc) == caller' = [caller EXCEPT ![c].pc = pc]

\* Slip: the exhausted count is not looked at.
CountExhaustedIgnored(c) ==
    /\ caller[c].pc = "exhausted"
    /\ CallGoto(c, "succeeded")
    /\ UNCHANGED <<database, process, inflight, worker, sweep, canceling, charged, used>>

CountExhausted(c) ==
    /\ caller[c].pc = "exhausted"
    /\ IF DayExhausted(caller[c].key) THEN CallReturns(c) ELSE CallGoto(c, "succeeded")
    /\ UNCHANGED <<database, process, inflight, worker, sweep, canceling, charged, used>>

\* An old aizhan job may have succeeded with another source's weights: only a
\* valid aizhan snapshot proves the day done.
CountSucceeded(c) ==
    /\ caller[c].pc = "succeeded"
    /\ IF JobsOf(caller[c].key, "succeeded") = {} THEN CallGoto(c, "insert")
       ELSE IF Source = "aizhan" THEN CallGoto(c, "snapshot") ELSE CallReturns(c)
    /\ UNCHANGED <<database, process, inflight, worker, sweep, canceling, charged, used>>

CountSnapshots(c) ==
    /\ caller[c].pc = "snapshot"
    /\ IF caller[c].key \in stored THEN CallReturns(c) ELSE CallGoto(c, "insert")
    /\ UNCHANGED <<database, process, inflight, worker, sweep, canceling, charged, used>>

\* InsertOne under the unique sparse index on dedupe_key.
InsertJob(c) ==
    LET k == caller[c].key IN
    /\ caller[c].pc = "insert"
    /\ IF \E i \in Jobs : KeyOf[i] = k /\ jobs[i].dedupe
       THEN UNCHANGED jobs
       ELSE \E j \in JobsOf(k, "absent") : SetJob(j, NewJob)
    /\ CallReturns(c)
    /\ UNCHANGED <<stored, active, process, inflight, worker, sweep, canceling,
                   charged, used>>

\* An error of any of the calls, or the end of the request.
CallFails(c) ==
    /\ caller[c].pc # "idle"
    /\ CallReturns(c)
    /\ UNCHANGED <<database, process, inflight, worker, sweep, canceling, charged, used>>

CallerStep(c) ==
    \/ \E k \in Keys, force \in BOOLEAN : QueueDomain(c, k, force)
    \/ CountExhausted(c) \/ CountSucceeded(c) \/ CountSnapshots(c)
    \/ InsertJob(c) \/ CallFails(c)

(***************************************************************************)
(* Domains: ArchiveDomain, UpdateDomain, ActivateMetricDomain              *)
(***************************************************************************)
Toggle ==
    /\ process = "up"
    /\ used.toggles < MaxToggles
    /\ used' = [used EXCEPT !.toggles = @ + 1]

\* The domain first...
ArchiveDomain(d) ==
    /\ Toggle
    /\ active' = active \ {d}
    /\ canceling' = canceling \cup {d}
    /\ UNCHANGED <<jobs, stored, process, inflight, worker, sweep, caller, charged>>

\* Slip: the cancel forgets the status.
CancelableAnyStatus(j, d) == DomainOf[KeyOf[j]] = d /\ jobs[j].status # "absent"
Cancelable(j, d) == DomainOf[KeyOf[j]] = d /\ jobs[j].status = "queued"

\* ... then its queued jobs; an error of this second update is ignored.
CancelQueuedJobs(d) ==
    /\ d \in canceling
    /\ \E applied \in BOOLEAN :
        jobs' = [j \in Jobs |->
            IF applied /\ Cancelable(j, d) THEN CanceledJob(jobs[j]) ELSE jobs[j]]
    /\ canceling' = canceling \ {d}
    /\ UNCHANGED <<stored, active, process, inflight, worker, sweep, caller, charged, used>>

\* PATCH active, or the domains file: the flag alone, no job is canceled.
UpdateDomain(d) ==
    /\ Toggle
    /\ active' \in {active \cup {d}, active \ {d}} \ {active}
    /\ UNCHANGED <<jobs, stored, memory, charged>>

DomainStep(d) == ArchiveDomain(d) \/ CancelQueuedJobs(d) \/ UpdateDomain(d)

(***************************************************************************)
(* The process: shutdown, crash and restart                                *)
(***************************************************************************)
\* SIGTERM cancels rootCtx.
Shutdown ==
    /\ process = "up"
    /\ used.restarts < MaxRestarts
    /\ used' = [used EXCEPT !.restarts = @ + 1]
    /\ process' = "stopping"
    /\ UNCHANGED <<database, inflight, worker, sweep, caller, canceling, charged>>

LoseMemory ==
    /\ process' = "down"
    /\ inflight' = {}
    /\ worker' = [w \in Workers |-> Unemployed("off")]
    /\ sweep' = NoSweep
    /\ caller' = [c \in Callers |-> NoCall]
    /\ canceling' = {}

Crash ==
    /\ process # "down"
    /\ used.restarts < MaxRestarts
    /\ used' = [used EXCEPT !.restarts = @ + 1]
    /\ LoseMemory
    /\ UNCHANGED <<database, charged>>

\* main returns after every worker has.
Exit ==
    /\ Canceled
    /\ \A w \in Workers : worker[w].pc = "off"
    /\ LoseMemory
    /\ UNCHANGED <<database, charged, used>>

Restart ==
    /\ process = "down"
    /\ process' = "up"
    /\ worker' = [w \in Workers |-> Unemployed("idle")]
    /\ UNCHANGED <<database, inflight, sweep, caller, canceling, charged, used>>

ProcessStep == Shutdown \/ Crash \/ Exit \/ Restart

(***************************************************************************)
(* The specification                                                       *)
(***************************************************************************)
Next ==
    \/ \E w \in Workers : WorkerStep(w)
    \/ \E j \in Jobs : BackoffElapses(j) \/ JobGrowsStale(j)
    \/ StaleJobFilter \/ RecoverStaleJobs
    \/ \E c \in Callers : CallerStep(c)
    \/ \E d \in Domains : DomainStep(d)
    \/ ProcessStep

Spec == Init /\ [][Next]_vars

\* The worker goroutines and the recovery goroutine run on, time passes, and a
\* process that ended is started again: the service manager restarts a crashed
\* one (Restart=on-failure), a stop is an administrator's restart.
Fairness ==
    /\ \A w \in Workers : WF_vars(WorkerStep(w))
    /\ \A j \in Jobs : WF_vars(BackoffElapses(j)) /\ WF_vars(JobGrowsStale(j))
    /\ WF_vars(StaleJobFilter) /\ WF_vars(RecoverStaleJobs)
    /\ WF_vars(Exit) /\ WF_vars(Restart)

FairSpec == Spec /\ Fairness

(***************************************************************************)
(* Safety                                                                  *)
(***************************************************************************)
\* A domain and day never has two open jobs: the unique dedupe key is held from
\* the insertion, through every retry, release and recovery, to the last write.
OneOpenJobPerKey ==
    \A i, j \in Jobs :
        /\ jobs[i].status \in Open /\ jobs[j].status \in Open
        /\ KeyOf[i] = KeyOf[j]
        => i = j

\* The positions at which a worker still has to decide its job's fate.
Undecided == {"claimed", "fetch", "retryMetric", "retryJob", "saveMetric", "saveJob"}

\* The positions at which a worker may still write its job by _id.
Settling == Undecided \cup {"failMetric", "failJob"}

\* While a worker has still to decide its job's fate, the job is running under
\* that worker's own claim, and no two workers are ever settling the same job:
\* neither the recovery sweep, nor an archive, nor another claim takes a job from
\* an active worker.  This is what makes the writes by _id alone of SaveJobResult
\* and MarkJobFailed safe.
ExclusiveClaim ==
    \A w \in Workers :
        /\ worker[w].pc \in Undecided => OwnClaim(w)
        /\ worker[w].pc \in Settling =>
              \A v \in Workers : worker[v].pc \in Settling
                                   /\ worker[v].job = worker[w].job => v = w

\* No interruption, crash, lost answer or recovery costs the aizhan queue an
\* attempt or gains it one: attempt_count is the number of recorded failures,
\* plus one while the job runs, and a job fails at most MaxRetries times before
\* its last attempt.
AttemptsAreCharged ==
    \A j \in Jobs :
        /\ charged[j] <= MaxRetries
        /\ Source = "aizhan" /\ jobs[j].status \in Open =>
              jobs[j].attempt = charged[j] + (IF jobs[j].status = "running" THEN 1 ELSE 0)

\* retry_exhausted is only ever seen on a failed job that really went through
\* every recheck of the plan, and only on the aizhan queue.
ExhaustionIsEarned ==
    \A j \in Jobs : jobs[j].exhausted =>
        /\ Source = "aizhan"
        /\ jobs[j].status = "failed"
        /\ charged[j] = MaxRetries

\* An automatic call that began after the day was exhausted never gets to insert
\* a job, whatever forced calls and workers do to the day in the meantime.
AutomaticCallGivesUp ==
    \A c \in Callers :
        Source = "aizhan" /\ caller[c].pc = "insert" /\ ~caller[c].force
            => ~caller[c].hopeless

\* A settled job is never reopened by a late retry, release, recovery or cancel;
\* the only later change is a success whose answer was lost, marked as failed.
SettledStaysSettled ==
    [][\A j \in Jobs : jobs[j].status \in Terminal =>
          \/ jobs'[j].status = jobs[j].status
          \/ jobs[j].status = "succeeded" /\ jobs'[j].status = "failed"]_vars

\* A job becomes succeeded only when the day's document holds its result.
ResultBeforeSuccess ==
    [][\A j \in Jobs :
          jobs[j].status # "succeeded" /\ jobs'[j].status = "succeeded"
              => KeyOf[j] \in stored]_vars

(***************************************************************************)
(* Liveness                                                                *)
(***************************************************************************)
\* Every queued or running job is settled in the end, whatever shutdowns,
\* crashes and database errors (finitely many) leave it running or queued.
EveryJobSettles ==
    \A j \in Jobs : jobs[j].status \in Open ~> jobs[j].status \in Terminal

(***************************************************************************)
(* What the documentation says and the code does not do                    *)
(***************************************************************************)
\* docs/aizhan-source.md: automatic queueing of the same day does not rebuild an
\* exhausted job.
ExhaustedDayIsNotRebuilt ==
    [][\A c \in Callers, j \in Jobs :
          /\ caller[c].pc = "insert" /\ ~caller[c].force
          /\ caller[c].key = KeyOf[j] /\ caller'[c].pc = "idle"
          /\ jobs[j].status = "absent" /\ jobs'[j].status = "queued"
          => ~DayExhausted(KeyOf[j])]_vars
=============================================================================
