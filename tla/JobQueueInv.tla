---------------------------- MODULE JobQueueInv ----------------------------
(***************************************************************************)
(* The inductive invariant behind the safety properties of JobQueue: what  *)
(* TLC checks on small instances here is proved in JobQueueProofs; and the *)
(* abstract specification that JobQueue implements.                        *)
(***************************************************************************)
EXTENDS JobQueue

Holding(w) == worker[w].pc \notin {"idle", "off"}

\* Dedupe keys mark exactly the open jobs, so the unique index does its work.
DedupeMatchesOpen == \A j \in Jobs : jobs[j].dedupe <=> jobs[j].status \in Open

\* Claims are numbered apart, and a worker's copy is never ahead of the database.
ClaimsAreApart ==
    \A w \in Workers : Holding(w) =>
        /\ worker[w].job \in Jobs
        /\ jobs[worker[w].job].status # "absent"
        /\ worker[w].claim <= jobs[worker[w].job].claim
        /\ \A v \in Workers : Holding(v) /\ worker[v].job = worker[w].job
                                /\ worker[v].claim = worker[w].claim => v = w

\* The worker's own success was saved, but the answer was lost.
SavedUnheard(w) ==
    /\ jobs[worker[w].job].status = "succeeded"
    /\ jobs[worker[w].job].claim = worker[w].claim
    /\ ~worker[w].exhausted

\* What each position of a worker knows of its job.
Knows(w) ==
    /\ worker[w].pc \in Undecided => OwnClaim(w)
    /\ worker[w].pc \in {"failMetric", "failJob"} => OwnClaim(w) \/ SavedUnheard(w)
    /\ worker[w].pc = "claimed" => ~jobs[worker[w].job].stale
    /\ worker[w].pc \in {"retryMetric", "retryJob"} => HasRetry(worker[w].attempt)
    /\ worker[w].exhausted =>
          /\ Source = "aizhan"
          /\ worker[w].attempt > MaxRetries
          /\ worker[w].pc \in {"failMetric", "failJob", "finish", "forget"}

WorkerKnows == \A w \in Workers : Knows(w)

\* While the process is not stopping, inflight is exactly what its workers have
\* registered, each job has one holder, and no registered job can be claimed.
InflightCoversWorkers ==
    process = "up" =>
        /\ \A w \in Workers : Holding(w) =>
              /\ worker[w].pc # "claimed" => worker[w].job \in inflight
              /\ jobs[worker[w].job].status = "running" => OwnClaim(w)
              /\ \A v \in Workers : Holding(v) /\ worker[v].job = worker[w].job => v = w
        /\ \A j \in inflight :
              /\ \E w \in Workers : Holding(w) /\ worker[w].job = j /\ worker[w].pc # "claimed"
              /\ jobs[j].status = "queued" => ~jobs[j].due

\* A sweep under way cannot match the current claim of any worker.
SweepSparesWorkers ==
    sweep.pc = "update" =>
        /\ \A p \in sweep.old : p[2] <= jobs[p[1]].claim
        /\ \A w \in Workers : Holding(w) /\ OwnClaim(w) =>
              worker[w].job \notin MatchedBySweep

\* The attempt counters of every source, of which AttemptsAreCharged is a part.
AttemptsCoverCharges ==
    \A j \in Jobs :
        /\ charged[j] <= MaxRetries
        /\ jobs[j].status = "absent" => jobs[j] = AbsentJob /\ charged[j] = 0
        /\ jobs[j].status = "queued" => jobs[j].attempt >= charged[j]
        /\ jobs[j].status = "running" => jobs[j].attempt >= charged[j] + 1

\* What each position of a caller knows of its day.
CallersKnow ==
    \A c \in Callers : caller[c].pc # "idle" =>
        /\ caller[c].key \in Keys
        /\ caller[c].hopeless => DayExhausted(caller[c].key)
        /\ Source = "aizhan" /\ caller[c].hopeless /\ ~caller[c].force =>
              caller[c].pc = "exhausted"

\* Nothing in memory outlives the process.
MemoryIsLost ==
    process = "down" =>
        /\ inflight = {}
        /\ sweep.pc = "idle"
        /\ \A w \in Workers : ~Holding(w)
        /\ \A c \in Callers : caller[c].pc = "idle"

IInv ==
    /\ TypeOK
    /\ DedupeMatchesOpen
    /\ OneOpenJobPerKey
    /\ ClaimsAreApart
    /\ WorkerKnows
    /\ InflightCoversWorkers
    /\ SweepSparesWorkers
    /\ AttemptsCoverCharges
    /\ AttemptsAreCharged
    /\ ExhaustionIsEarned
    /\ CallersKnow
    /\ MemoryIsLost

(***************************************************************************)
(* The promise JobQueue keeps, seen through its jobs collection.           *)
(***************************************************************************)
StateOf(status) ==
    CASE status = "absent"  -> "absent"
      [] status = "queued"  -> "waiting"
      [] status = "running" -> "working"
      [] OTHER              -> "done"

Lifecycle == INSTANCE JobLifecycle WITH
                 state <- [j \in Jobs |-> StateOf(jobs[j].status)], failures <- charged

\* The queue implements JobLifecycle: no interleaving of workers, sweep, callers,
\* archives, errors and restarts does to a job what its lifecycle does not allow.
ImplementsLifecycle == Lifecycle!LifecycleSpec
=============================================================================
