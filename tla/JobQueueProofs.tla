--------------------------- MODULE JobQueueProofs ---------------------------
(***************************************************************************)
(* Proofs about JobQueue: its type invariant, the safety properties that   *)
(* follow from the inductive invariant IInv, SettledStaysSettled, and that *)
(* the queue implements JobLifecycle.                                      *)
(***************************************************************************)
EXTENDS JobQueueInv, TLAPS

USE ConstantsAssumption

-----------------------------------------------------------------------------
(***************************************************************************)
(* What the updates of a record yield.  They are proved once, field by     *)
(* field, and the definitions stay closed afterwards.                      *)
(***************************************************************************)

\* The fields an update of a job sets, and those it leaves alone.
LEMMA NewJobFields ==
    /\ NewJob \in JobType
    /\ NewJob.status = "queued" /\ NewJob.due /\ NewJob.dedupe /\ ~NewJob.exhausted
    /\ NewJob.attempt = 0 /\ NewJob.claim = 0
BY DEF NewJob, AbsentJob, JobType, Statuses

\* Every field of a job has its type.
LEMMA JobFieldsType ==
    ASSUME NEW job \in JobType
    PROVE  /\ job.status \in Statuses
           /\ job.attempt \in Nat /\ job.claim \in Nat
           /\ job.due \in BOOLEAN /\ job.stale \in BOOLEAN
           /\ job.dedupe \in BOOLEAN /\ job.exhausted \in BOOLEAN
BY DEF JobType

\* A claim counts an attempt and numbers itself.
LEMMA ClaimedFields ==
    ASSUME NEW job \in JobType
    PROVE  /\ Claimed(job) \in JobType
           /\ Claimed(job).status = "running" /\ ~Claimed(job).stale
           /\ Claimed(job).attempt = job.attempt + 1
           /\ Claimed(job).claim = job.claim + 1
           /\ Claimed(job).dedupe = job.dedupe
           /\ Claimed(job).exhausted = job.exhausted
<1>1. ASSUME NEW s \in Statuses, NEW a \in Nat, NEW c \in Nat
      PROVE  [job EXCEPT !.status = s, !.attempt = a, !.claim = c, !.stale = FALSE] \in JobType
  BY DEF JobType
<1>2. job.attempt + 1 \in Nat /\ job.claim + 1 \in Nat /\ "running" \in Statuses
  BY DEF JobType, Statuses
<1>3. Claimed(job) \in JobType
  BY <1>1, <1>2 DEF Claimed
<1> QED
  BY <1>3 DEF Claimed, JobType

\* A retry only changes the status and the due flag.
LEMMA RetriedFields ==
    ASSUME NEW job \in JobType
    PROVE  /\ Retried(job) \in JobType
           /\ Retried(job).status = "queued" /\ ~Retried(job).due
           /\ Retried(job).attempt = job.attempt
           /\ Retried(job).claim = job.claim
           /\ Retried(job).dedupe = job.dedupe
           /\ Retried(job).exhausted = job.exhausted
BY DEF Retried, JobType, Statuses

\* A failure closes the job and adds the exhausted mark, if any.
LEMMA FailedFields ==
    ASSUME NEW job \in JobType, NEW exhausted \in BOOLEAN
    PROVE  /\ Failed(job, exhausted) \in JobType
           /\ Failed(job, exhausted).status = "failed"
           /\ ~Failed(job, exhausted).dedupe
           /\ Failed(job, exhausted).exhausted = (job.exhausted \/ exhausted)
           /\ Failed(job, exhausted).attempt = job.attempt
           /\ Failed(job, exhausted).claim = job.claim
<1>1. ASSUME NEW e \in BOOLEAN
      PROVE  [job EXCEPT !.status = "failed", !.dedupe = FALSE, !.exhausted = e] \in JobType
  BY DEF JobType, Statuses
<1>2. (job.exhausted \/ exhausted) \in BOOLEAN
  OBVIOUS
<1>3. Failed(job, exhausted) \in JobType
  BY <1>1, <1>2 DEF Failed
<1> QED
  BY <1>3 DEF Failed, JobType

\* A success closes the job and clears the exhausted mark.
LEMMA SucceededFields ==
    ASSUME NEW job \in JobType
    PROVE  /\ Succeeded(job) \in JobType
           /\ Succeeded(job).status = "succeeded"
           /\ ~Succeeded(job).dedupe /\ ~Succeeded(job).exhausted
           /\ Succeeded(job).attempt = job.attempt
           /\ Succeeded(job).claim = job.claim
BY DEF Succeeded, JobType, Statuses

\* A cancel closes the job and keeps everything else.
LEMMA CanceledFields ==
    ASSUME NEW job \in JobType
    PROVE  /\ CanceledJob(job) \in JobType
           /\ CanceledJob(job).status = "canceled"
           /\ ~CanceledJob(job).dedupe
           /\ CanceledJob(job).exhausted = job.exhausted
           /\ CanceledJob(job).attempt = job.attempt
           /\ CanceledJob(job).claim = job.claim
BY DEF CanceledJob, JobType, Statuses

\* A requeued job keeps its claim number, dedupe key and mark.
LEMMA RequeuedFields ==
    ASSUME NEW job \in JobType, NEW n \in Nat
    PROVE  /\ Requeued(job, n) \in JobType
           /\ Requeued(job, n).status = "queued" /\ Requeued(job, n).due
           /\ Requeued(job, n).attempt = n
           /\ Requeued(job, n).claim = job.claim
           /\ Requeued(job, n).dedupe = job.dedupe
           /\ Requeued(job, n).exhausted = job.exhausted
BY DEF Requeued, JobType, Statuses

\* A refund takes back the attempt of a running job, once.
LEMMA RefundedRange ==
    ASSUME NEW n \in Nat
    PROVE  Refunded(n) \in Nat /\ (n > 0 => Refunded(n) = n - 1)
BY DEF Refunded

\* A release refunds the attempt of the claim.
LEMMA ReleasedFields ==
    ASSUME NEW job \in JobType
    PROVE  /\ Released(job) \in JobType
           /\ Released(job).status = "queued"
           /\ job.attempt > 0 => Released(job).attempt = job.attempt - 1
           /\ Released(job).claim = job.claim
           /\ Released(job).dedupe = job.dedupe
           /\ Released(job).exhausted = job.exhausted
<1>1. job.attempt \in Nat /\ Refunded(job.attempt) \in Nat
  BY JobFieldsType, RefundedRange
<1>2. job.attempt > 0 => Refunded(job.attempt) = job.attempt - 1
  BY <1>1, RefundedRange
<1> QED
  BY <1>1, <1>2, RequeuedFields DEF Released

\* A recovery refunds the attempt on the aizhan queue only.
LEMMA RecoveredFields ==
    ASSUME NEW job \in JobType
    PROVE  /\ Recovered(job) \in JobType
           /\ Recovered(job).status = "queued"
           /\ job.attempt > 0 =>
                Recovered(job).attempt =
                    IF Source = "aizhan" THEN job.attempt - 1 ELSE job.attempt
           /\ Recovered(job).claim = job.claim
           /\ Recovered(job).dedupe = job.dedupe
           /\ Recovered(job).exhausted = job.exhausted
<1> DEFINE n == IF Source = "aizhan" THEN Refunded(job.attempt) ELSE job.attempt
<1>1. job.attempt \in Nat /\ n \in Nat
  BY JobFieldsType, RefundedRange
<1>2. job.attempt > 0 => n = IF Source = "aizhan" THEN job.attempt - 1 ELSE job.attempt
  BY <1>1, RefundedRange
<1>3. Recovered(job) = Requeued(job, n)
  BY DEF Recovered
<1> HIDE DEF n
<1>4. /\ Requeued(job, n) \in JobType
      /\ Requeued(job, n).status = "queued"
      /\ Requeued(job, n).attempt = n
      /\ Requeued(job, n).claim = job.claim
      /\ Requeued(job, n).dedupe = job.dedupe
      /\ Requeued(job, n).exhausted = job.exhausted
  BY <1>1, RequeuedFields
<1> QED
  BY <1>2, <1>3, <1>4

\* The passage of time raises a flag and keeps the rest of the job.
LEMMA FlagFields ==
    ASSUME NEW job \in JobType,
           NEW new \in {[job EXCEPT !.due = TRUE], [job EXCEPT !.stale = TRUE]}
    PROVE  /\ new \in JobType
           /\ new.status = job.status
           /\ new.attempt = job.attempt
           /\ new.claim = job.claim
           /\ new.dedupe = job.dedupe
           /\ new.exhausted = job.exhausted
BY DEF JobType

\* One job of the collection changes.
LEMMA SetJobEffect ==
    ASSUME jobs \in [Jobs -> JobType], NEW j \in Jobs, NEW record \in JobType,
           SetJob(j, record)
    PROVE  /\ jobs' \in [Jobs -> JobType]
           /\ jobs'[j] = record
           /\ \A i \in Jobs : i # j => jobs'[i] = jobs[i]
BY DEF SetJob

\* One worker moves on with the same job in hand.
LEMMA GotoEffect ==
    ASSUME worker \in [Workers -> WorkerType], NEW w \in Workers, NEW pc \in WorkerPCs,
           Goto(w, pc)
    PROVE  /\ worker' \in [Workers -> WorkerType]
           /\ worker'[w].pc = pc
           /\ worker'[w].job = worker[w].job
           /\ worker'[w].attempt = worker[w].attempt
           /\ worker'[w].claim = worker[w].claim
           /\ worker'[w].exhausted = worker[w].exhausted
           /\ \A v \in Workers : v # w => worker'[v] = worker[v]
BY DEF Goto, WorkerType

\* A worker with no job is of its type.
LEMMA UnemployedType ==
    ASSUME NEW pc \in WorkerPCs
    PROVE  Unemployed(pc) \in WorkerType /\ Unemployed(pc).pc = pc
BY DEF Unemployed, WorkerType

\* A worker that has finished is idle or off, and holds no job.
LEMMA AfterWorkFields ==
    /\ AfterWork \in WorkerType
    /\ AfterWork.pc \in {"idle", "off"}
    /\ ~AfterWork.exhausted
BY UnemployedType DEF AfterWork, Unemployed, WorkerPCs

\* The bounds are natural numbers.
LEMMA ConstantTypes ==
    AbsentJob \in JobType /\ NoSweep \in SweepType /\ NoCall \in CallerType
BY DEF AbsentJob, JobType, Statuses, NoSweep, SweepType, NoCall, CallerType, CallerPCs

\* A database operation keeps the bookkeeping of the bounds well typed.
LEMMA DbType ==
    ASSUME used \in UsedType, NEW o, NEW canceled, Db(o, canceled)
    PROVE  used' \in UsedType
BY DEF Db, UsedType

-----------------------------------------------------------------------------
(***************************************************************************)
(* Type correctness                                                        *)
(***************************************************************************)
\* The initial state is well typed.
LEMMA InitTypeOK == Init => TypeOK
BY ConstantTypes, UnemployedType DEF Init, TypeOK, WorkerPCs, UsedType

\* A worker that is at work has the record of a job in hand.
WorkerJobTyped == \A w \in Workers : Holding(w) => worker[w].job \in Jobs

\* Every step of a worker keeps the types.
LEMMA WorkerTypeOK ==
    ASSUME TypeOK, WorkerJobTyped, NEW w \in Workers, WorkerStep(w)
    PROVE  TypeOK'
<1> USE DEF TypeOK
<1>w. worker[w] \in WorkerType /\ worker[w].exhausted \in BOOLEAN
  BY DEF WorkerType
<1>j. Holding(w) => worker[w].job \in Jobs /\ jobs[worker[w].job] \in JobType
  BY DEF WorkerJobTyped
<1>1. ASSUME NEW j \in Jobs, ClaimNextJob(w, j) PROVE TypeOK'
  <2>1. Claimed(jobs[j]) \in JobType /\ jobs[j].attempt + 1 \in Nat /\ jobs[j].claim + 1 \in Nat
    BY ClaimedFields, JobFieldsType
  <2>2. jobs' \in [Jobs -> JobType] /\ used' \in UsedType
    BY <1>1, <2>1, SetJobEffect, DbType DEF ClaimNextJob
  <2>3. [pc |-> "claimed", job |-> j, attempt |-> jobs[j].attempt + 1,
         claim |-> jobs[j].claim + 1, exhausted |-> FALSE] \in WorkerType
    BY <2>1 DEF WorkerType, WorkerPCs
  <2>4. worker' \in [Workers -> WorkerType]
    BY <1>1, <2>3, AfterWorkFields DEF ClaimNextJob
  <2> QED
    BY <1>1, <2>2, <2>4 DEF ClaimNextJob
<1>2. CASE RegisterClaim(w)
  BY <1>2, <1>j, GotoEffect DEF RegisterClaim, Holding, WorkerPCs, database
<1>3. CASE FetchReturns(w)
  <2>1. [worker[w] EXCEPT !.pc = "failMetric", !.exhausted = Progressive] \in WorkerType
    BY <1>w DEF WorkerType, WorkerPCs, Progressive
  <2>2. worker' \in [Workers -> WorkerType]
    BY <1>3, <2>1, GotoEffect DEF FetchReturns, WorkerPCs
  <2> QED
    BY <1>3, <2>2 DEF FetchReturns, database
<1>4. CASE InvalidateWeightAttempt(w)
  <2>1. worker' \in [Workers -> WorkerType] /\ used' \in UsedType
    BY <1>4, GotoEffect, DbType DEF InvalidateWeightAttempt, WorkerPCs
  <2> QED
    BY <1>4, <2>1 DEF InvalidateWeightAttempt
<1>5. CASE RetryJob(w)
  <2>1. worker' \in [Workers -> WorkerType] /\ used' \in UsedType
    BY <1>5, GotoEffect, DbType DEF RetryJob, WorkerPCs
  <2>2. jobs' \in [Jobs -> JobType] /\ charged' \in [Jobs -> Nat]
    BY <1>5, <1>j, SetJobEffect, RetriedFields DEF RetryJob, Holding
  <2> QED
    BY <1>5, <2>1, <2>2 DEF RetryJob
<1>6. CASE MarkJobFailed(w)
  <2>1. worker' \in [Workers -> WorkerType] /\ used' \in UsedType
    BY <1>6, GotoEffect, DbType DEF MarkJobFailed, WorkerPCs
  <2>2. jobs' \in [Jobs -> JobType]
    BY <1>6, <1>j, <1>w, SetJobEffect, FailedFields DEF MarkJobFailed, Holding
  <2> QED
    BY <1>6, <2>1, <2>2 DEF MarkJobFailed
<1>7. CASE SaveMetric(w)
  <2>1. worker' \in [Workers -> WorkerType] /\ used' \in UsedType
    BY <1>7, GotoEffect, DbType DEF SaveMetric, SaveFailed, WorkerPCs
  <2>2. stored' \in SUBSET Keys
    BY <1>7, <1>j DEF SaveMetric, Holding
  <2> QED
    BY <1>7, <2>1, <2>2 DEF SaveMetric
<1>8. CASE SaveJobResult(w)
  <2>1. worker' \in [Workers -> WorkerType] /\ used' \in UsedType
    BY <1>8, GotoEffect, DbType DEF SaveJobResult, SaveFailed, WorkerPCs
  <2>2. jobs' \in [Jobs -> JobType]
    BY <1>8, <1>j, SetJobEffect, SucceededFields DEF SaveJobResult, Holding
  <2> QED
    BY <1>8, <2>1, <2>2 DEF SaveJobResult
<1>9. CASE ReleaseInterruptedJob(w)
  <2>1. worker' \in [Workers -> WorkerType] /\ used' \in UsedType
    BY <1>9, GotoEffect, DbType DEF ReleaseInterruptedJob, WorkerPCs
  <2>2. jobs' \in [Jobs -> JobType]
    BY <1>9, <1>j, SetJobEffect, ReleasedFields DEF ReleaseInterruptedJob, Holding
  <2> QED
    BY <1>9, <2>1, <2>2 DEF ReleaseInterruptedJob
<1>10. CASE ForgetClaim(w)
  BY <1>10, AfterWorkFields DEF ForgetClaim, database
<1>11. CASE WorkerReturns(w)
  BY <1>11, GotoEffect DEF WorkerReturns, WorkerPCs, database
<1> QED
  BY <1>1, <1>2, <1>3, <1>4, <1>5, <1>6, <1>7, <1>8, <1>9, <1>10, <1>11 DEF WorkerStep

\* The passage of time keeps the types.
LEMMA TimeTypeOK ==
    ASSUME TypeOK, NEW j \in Jobs, BackoffElapses(j) \/ JobGrowsStale(j)
    PROVE  TypeOK'
<1> USE DEF TypeOK
<1>1. /\ [jobs[j] EXCEPT !.due = TRUE] \in JobType
      /\ [jobs[j] EXCEPT !.stale = TRUE] \in JobType
  BY FlagFields
<1>2. jobs' \in [Jobs -> JobType]
  BY <1>1, SetJobEffect DEF BackoffElapses, JobGrowsStale
<1> QED
  BY <1>2 DEF BackoffElapses, JobGrowsStale, memory

\* Both steps of the recovery sweep keep the types.
LEMMA SweepTypeOK ==
    ASSUME TypeOK, StaleJobFilter \/ RecoverStaleJobs
    PROVE  TypeOK'
<1> USE DEF TypeOK
<1>1. CASE StaleJobFilter
  <2> DEFINE old == {<<j, jobs[j].claim>> : j \in {i \in Jobs : /\ jobs[i].status = "running"
                                                               /\ jobs[i].stale}}
  <2>1. old \in SUBSET (Jobs \X Nat)
    BY JobFieldsType
  <2>2. sweep' = [pc |-> "update", skip |-> inflight, old |-> old]
    BY <1>1 DEF StaleJobFilter
  <2> HIDE DEF old
  <2>3. sweep' \in SweepType
    BY <2>1, <2>2 DEF SweepType
  <2> QED
    BY <1>1, <2>3 DEF StaleJobFilter, database
<1>2. CASE RecoverStaleJobs
  <2>1. jobs' \in [Jobs -> JobType]
    BY <1>2, RecoveredFields DEF RecoverStaleJobs
  <2>2. sweep' \in SweepType /\ used' \in UsedType
    BY <1>2, ConstantTypes, DbType DEF RecoverStaleJobs
  <2> QED
    BY <1>2, <2>1, <2>2 DEF RecoverStaleJobs
<1> QED
  BY <1>1, <1>2

\* A caller moves on, or returns.
LEMMA CallerMoves ==
    ASSUME TypeOK, NEW c \in Callers
    PROVE  /\ CallReturns(c) => /\ caller' \in [Callers -> CallerType]
                                /\ caller'[c].pc = "idle"
                                /\ \A b \in Callers : b # c => caller'[b] = caller[b]
           /\ \A pc \in CallerPCs : CallGoto(c, pc) =>
                /\ caller' \in [Callers -> CallerType]
                /\ caller'[c].pc = pc
                /\ caller'[c].key = caller[c].key
                /\ caller'[c].force = caller[c].force
                /\ caller'[c].hopeless = caller[c].hopeless
                /\ \A b \in Callers : b # c => caller'[b] = caller[b]
<1> USE DEF TypeOK
<1>1. NoCall.pc = "idle"
  BY DEF NoCall
<1>2. ASSUME CallReturns(c)
      PROVE  /\ caller' \in [Callers -> CallerType]
             /\ caller'[c].pc = "idle"
             /\ \A b \in Callers : b # c => caller'[b] = caller[b]
  BY <1>1, <1>2, ConstantTypes DEF CallReturns
<1>3. ASSUME NEW pc \in CallerPCs, CallGoto(c, pc)
      PROVE  /\ caller' \in [Callers -> CallerType]
             /\ caller'[c].pc = pc
             /\ caller'[c].key = caller[c].key
             /\ caller'[c].force = caller[c].force
             /\ caller'[c].hopeless = caller[c].hopeless
             /\ \A b \in Callers : b # c => caller'[b] = caller[b]
  BY <1>3 DEF CallGoto, CallerType
<1> QED
  BY <1>2, <1>3

\* Every step of a caller keeps the types.
LEMMA CallerTypeOK ==
    ASSUME TypeOK, NEW c \in Callers, CallerStep(c)
    PROVE  TypeOK'
<1> USE DEF TypeOK
<1>1. ASSUME NEW k \in Keys, NEW force \in BOOLEAN, QueueDomain(c, k, force)
      PROVE  TypeOK'
  <2>1. DayExhausted(k) \in BOOLEAN
    BY DEF DayExhausted
  <2>2. [pc |-> IF force THEN "insert"
                ELSE IF Source = "aizhan" THEN "exhausted" ELSE "succeeded",
         key |-> k, force |-> force, hopeless |-> DayExhausted(k)] \in CallerType
    BY <2>1 DEF CallerType, CallerPCs
  <2>3. caller' \in [Callers -> CallerType]
    BY <1>1, <2>2 DEF QueueDomain
  <2>4. used' \in UsedType
    BY <1>1 DEF QueueDomain, UsedType
  <2> QED
    BY <1>1, <2>3, <2>4 DEF QueueDomain, database
<1>2. CASE CountExhausted(c)
  BY <1>2, CallerMoves DEF CountExhausted, CallerPCs, database
<1>3. CASE CountSucceeded(c)
  BY <1>3, CallerMoves DEF CountSucceeded, CallerPCs, database
<1>4. CASE CountSnapshots(c)
  BY <1>4, CallerMoves DEF CountSnapshots, CallerPCs, database
<1>5. CASE InsertJob(c)
  <2>1. jobs' \in [Jobs -> JobType]
    BY <1>5, SetJobEffect, NewJobFields DEF InsertJob, JobsOf
  <2> QED
    BY <1>5, <2>1, CallerMoves DEF InsertJob
<1>6. CASE CallFails(c)
  BY <1>6, CallerMoves DEF CallFails, database
<1> QED
  BY <1>1, <1>2, <1>3, <1>4, <1>5, <1>6 DEF CallerStep

\* Archiving and updating a domain keep the types.
LEMMA DomainTypeOK ==
    ASSUME TypeOK, NEW d \in Domains, DomainStep(d)
    PROVE  TypeOK'
<1> USE DEF TypeOK
<1>1. CASE ArchiveDomain(d)
  BY <1>1 DEF ArchiveDomain, Toggle, UsedType
<1>2. CASE CancelQueuedJobs(d)
  <2>1. jobs' \in [Jobs -> JobType]
    BY <1>2, CanceledFields DEF CancelQueuedJobs, Cancelable
  <2> QED
    BY <1>2, <2>1 DEF CancelQueuedJobs, Cancelable
<1>3. CASE UpdateDomain(d)
  BY <1>3 DEF UpdateDomain, Toggle, UsedType, memory
<1> QED
  BY <1>1, <1>2, <1>3 DEF DomainStep

\* Shutdown, crash, exit and restart keep the types.
LEMMA ProcessTypeOK ==
    ASSUME TypeOK, ProcessStep
    PROVE  TypeOK'
<1> USE DEF TypeOK
<1>1. Unemployed("off") \in WorkerType /\ Unemployed("idle") \in WorkerType
  BY UnemployedType DEF WorkerPCs
<1>2. CASE Shutdown
  BY <1>2 DEF Shutdown, UsedType, database
<1>3. CASE Crash
  <2>1. used' \in UsedType
    BY <1>3 DEF Crash, UsedType
  <2> QED
    BY <1>3, <1>1, <2>1, ConstantTypes DEF Crash, LoseMemory, database
<1>4. CASE Exit
  BY <1>4, <1>1, ConstantTypes DEF Exit, LoseMemory, database
<1>5. CASE Restart
  BY <1>5, <1>1 DEF Restart, database
<1> QED
  BY <1>2, <1>3, <1>4, <1>5 DEF ProcessStep

\* TypeOK is inductive on its own.
LEMMA NextTypeOK ==
    ASSUME TypeOK, WorkerJobTyped, [Next]_vars
    PROVE  TypeOK'
<1>1. CASE UNCHANGED vars
  BY <1>1 DEF vars, TypeOK
<1> QED
  BY <1>1, WorkerTypeOK, TimeTypeOK, SweepTypeOK, CallerTypeOK, DomainTypeOK, ProcessTypeOK
     DEF Next

-----------------------------------------------------------------------------
(***************************************************************************)
(* What a step does to a job.  The worker's knowledge (WorkerKnows) turns  *)
(* the writes by _id alone into changes of a job that was still running.   *)
(***************************************************************************)
Untouched(j) == jobs'[j] = jobs[j] /\ charged'[j] = charged[j]

Inserted(j) ==
    /\ jobs[j].status = "absent"
    /\ \A i \in Jobs : KeyOf[i] = KeyOf[j] => ~jobs[i].dedupe
    /\ jobs'[j] = NewJob
    /\ \A i \in Jobs : i # j => jobs'[i] = jobs[i]

WasRetried(j) ==
    /\ jobs[j].status = "running"
    /\ jobs[j].attempt \in 1..MaxRetries
    /\ jobs'[j] = Retried(jobs[j])
    /\ charged'[j] = charged[j] + 1

WasFailed(j) ==
    \E exhausted \in BOOLEAN :
        /\ jobs[j].status \in {"running", "succeeded"}
        /\ exhausted => /\ Source = "aizhan"
                        /\ jobs[j].status = "running"
                        /\ jobs[j].attempt > MaxRetries
        /\ jobs'[j] = Failed(jobs[j], exhausted)

ChangedAlone(j) ==
    \/ jobs[j].status = "queued" /\ jobs'[j] \in {Claimed(jobs[j]), CanceledJob(jobs[j])}
    \/ jobs[j].status = "running" /\ jobs'[j] \in {Succeeded(jobs[j]), Released(jobs[j]),
                                                   Recovered(jobs[j])}
    \/ jobs[j].status \in Open /\ jobs'[j] \in {[jobs[j] EXCEPT !.due = TRUE],
                                                [jobs[j] EXCEPT !.stale = TRUE]}

JobChange(j) ==
    \/ Untouched(j)
    \/ WasRetried(j)
    \/ charged'[j] = charged[j] /\ (Inserted(j) \/ WasFailed(j) \/ ChangedAlone(j))

\* A step changes at most one job, requeues swept jobs, or cancels queued ones.
OneJobChange ==
    \/ UNCHANGED <<jobs, charged>>
    \/ \E j \in Jobs : JobChange(j) /\ \A i \in Jobs : i # j => Untouched(i)

SweptChange ==
    /\ charged' = charged
    /\ \A j \in Jobs :
          \/ jobs'[j] = jobs[j]
          \/ jobs[j].status = "running" /\ jobs'[j] = Recovered(jobs[j])

CancelChange ==
    /\ charged' = charged
    /\ \A j \in Jobs :
          \/ jobs'[j] = jobs[j]
          \/ jobs[j].status = "queued" /\ jobs'[j] = CanceledJob(jobs[j])

\* A worker changes at most one job, in one of the ways JobChange lists.
LEMMA WorkerChangesJobs ==
    ASSUME TypeOK, ClaimsAreApart, WorkerKnows, NEW w \in Workers, WorkerStep(w)
    PROVE  OneJobChange
<1> USE DEF TypeOK
<1>j. Holding(w) => worker[w].job \in Jobs /\ jobs[worker[w].job] \in JobType
  BY DEF ClaimsAreApart
<1>1. ASSUME NEW j \in Jobs, ClaimNextJob(w, j) PROVE OneJobChange
  <2>1. /\ jobs[j].status = "queued" /\ jobs'[j] = Claimed(jobs[j])
        /\ \A i \in Jobs : i # j => jobs'[i] = jobs[i]
        /\ charged' = charged
    BY <1>1, ClaimedFields, SetJobEffect DEF ClaimNextJob
  <2> QED
    BY <2>1 DEF OneJobChange, JobChange, Untouched, ChangedAlone
<1>2. CASE RegisterClaim(w) \/ FetchReturns(w) \/ InvalidateWeightAttempt(w)
           \/ SaveMetric(w) \/ ForgetClaim(w) \/ WorkerReturns(w)
  BY <1>2 DEF OneJobChange, RegisterClaim, FetchReturns, InvalidateWeightAttempt, SaveMetric,
     ForgetClaim, WorkerReturns, database
<1>3. CASE RetryJob(w)
  <2> DEFINE j == worker[w].job
  <2>1. j \in Jobs /\ jobs[j] \in JobType
    BY <1>3, <1>j DEF RetryJob, Holding
  <2>2. jobs[j].status = "running" /\ jobs[j].attempt \in 1..MaxRetries
    BY <1>3 DEF RetryJob, WorkerKnows, Knows, Undecided, OwnClaim, HasRetry
  <2>3. CASE SetJob(j, Retried(jobs[j])) /\ charged' = [charged EXCEPT ![j] = @ + 1]
    <3>1. /\ jobs'[j] = Retried(jobs[j]) /\ charged'[j] = charged[j] + 1
          /\ \A i \in Jobs : i # j => jobs'[i] = jobs[i] /\ charged'[i] = charged[i]
      BY <2>1, <2>3, RetriedFields, SetJobEffect
    <3> QED
      BY <2>1, <2>2, <3>1 DEF OneJobChange, JobChange, WasRetried, Untouched
  <2>4. CASE UNCHANGED <<jobs, charged>>
    BY <2>4 DEF OneJobChange
  <2> QED
    BY <1>3, <2>3, <2>4 DEF RetryJob
<1>4. CASE MarkJobFailed(w)
  <2> DEFINE j == worker[w].job
             e == worker[w].exhausted
  <2>1. j \in Jobs /\ jobs[j] \in JobType /\ e \in BOOLEAN
    BY <1>4, <1>j DEF MarkJobFailed, Holding, WorkerType
  <2>2. /\ jobs[j].status \in {"running", "succeeded"}
        /\ e => /\ Source = "aizhan" /\ jobs[j].status = "running"
                /\ jobs[j].attempt > MaxRetries
    BY <1>4 DEF MarkJobFailed, WorkerKnows, Knows, OwnClaim, SavedUnheard
  <2>3. CASE SetJob(j, Failed(jobs[j], e))
    <3>1. /\ jobs'[j] = Failed(jobs[j], e)
          /\ \A i \in Jobs : i # j => jobs'[i] = jobs[i]
          /\ charged' = charged
      BY <1>4, <2>1, <2>3, FailedFields, SetJobEffect DEF MarkJobFailed
    <3>2. WasFailed(j)
      BY <2>1, <2>2, <3>1 DEF WasFailed
    <3> QED
      BY <2>1, <3>1, <3>2 DEF OneJobChange, JobChange, Untouched
  <2>4. CASE UNCHANGED jobs
    BY <1>4, <2>4 DEF OneJobChange, MarkJobFailed
  <2> QED
    BY <1>4, <2>3, <2>4 DEF MarkJobFailed
<1>5. CASE SaveJobResult(w)
  <2> DEFINE j == worker[w].job
  <2>1. j \in Jobs /\ jobs[j] \in JobType
    BY <1>5, <1>j DEF SaveJobResult, Holding
  <2>2. jobs[j].status = "running"
    BY <1>5 DEF SaveJobResult, WorkerKnows, Knows, Undecided, OwnClaim
  <2>3. CASE SetJob(j, Succeeded(jobs[j]))
    <3>1. /\ jobs'[j] = Succeeded(jobs[j])
          /\ \A i \in Jobs : i # j => jobs'[i] = jobs[i]
          /\ charged' = charged
      BY <1>5, <2>1, <2>3, SucceededFields, SetJobEffect DEF SaveJobResult
    <3> QED
      BY <2>1, <2>2, <3>1 DEF OneJobChange, JobChange, ChangedAlone, Untouched
  <2>4. CASE UNCHANGED jobs
    BY <1>5, <2>4 DEF OneJobChange, SaveJobResult
  <2> QED
    BY <1>5, <2>3, <2>4 DEF SaveJobResult
<1>6. CASE ReleaseInterruptedJob(w)
  <2> DEFINE j == worker[w].job
  <2>1. j \in Jobs /\ jobs[j] \in JobType
    BY <1>6, <1>j DEF ReleaseInterruptedJob, Holding
  <2>2. CASE OwnClaim(w) /\ SetJob(j, Released(jobs[j]))
    <3>1. /\ jobs'[j] = Released(jobs[j])
          /\ \A i \in Jobs : i # j => jobs'[i] = jobs[i]
          /\ charged' = charged
      BY <1>6, <2>1, <2>2, ReleasedFields, SetJobEffect DEF ReleaseInterruptedJob
    <3>2. jobs[j].status = "running"
      BY <2>2 DEF OwnClaim
    <3> QED
      BY <2>1, <3>1, <3>2 DEF OneJobChange, JobChange, ChangedAlone, Untouched
  <2>3. CASE UNCHANGED jobs
    BY <1>6, <2>3 DEF OneJobChange, ReleaseInterruptedJob
  <2> QED
    BY <1>6, <2>2, <2>3 DEF ReleaseInterruptedJob
<1> QED
  BY <1>1, <1>2, <1>3, <1>4, <1>5, <1>6 DEF WorkerStep

\* A step changes one job, or is a sweep's recovery or an archive's cancel of several.
LEMMA NextShape ==
    ASSUME TypeOK, ClaimsAreApart, WorkerKnows, CallersKnow, [Next]_vars
    PROVE  OneJobChange \/ SweptChange \/ CancelChange
<1> USE DEF TypeOK
<1>1. ASSUME NEW j \in Jobs, BackoffElapses(j) \/ JobGrowsStale(j)
      PROVE  OneJobChange
  <2>1. /\ jobs[j].status \in Open
        /\ jobs'[j] \in {[jobs[j] EXCEPT !.due = TRUE], [jobs[j] EXCEPT !.stale = TRUE]}
        /\ \A i \in Jobs : i # j => jobs'[i] = jobs[i]
        /\ charged' = charged
    BY <1>1, FlagFields, SetJobEffect DEF BackoffElapses, JobGrowsStale, Open
  <2> QED
    BY <2>1 DEF OneJobChange, JobChange, ChangedAlone, Untouched
<1>2. CASE RecoverStaleJobs
  BY <1>2 DEF RecoverStaleJobs, MatchedBySweep, SweptChange
<1>3. ASSUME NEW c \in Callers, InsertJob(c)
      PROVE  OneJobChange
  <2>1. CASE UNCHANGED jobs
    BY <1>3, <2>1 DEF OneJobChange, InsertJob
  <2>2. ASSUME NEW j \in JobsOf(caller[c].key, "absent"), SetJob(j, NewJob),
               ~\E i \in Jobs : KeyOf[i] = caller[c].key /\ jobs[i].dedupe
        PROVE  OneJobChange
    <3>1. j \in Jobs /\ KeyOf[j] = caller[c].key /\ jobs[j].status = "absent"
      BY DEF JobsOf
    <3>2. Inserted(j)
      BY <2>2, <3>1, NewJobFields, SetJobEffect DEF Inserted
    <3>3. charged' = charged
      BY <1>3 DEF InsertJob
    <3> QED
      BY <3>1, <3>2, <3>3 DEF OneJobChange, JobChange, Untouched, Inserted
  <2> QED
    BY <1>3, <2>1, <2>2 DEF InsertJob
<1>4. ASSUME NEW d \in Domains, CancelQueuedJobs(d)
      PROVE  CancelChange
  BY <1>4 DEF CancelQueuedJobs, Cancelable, CancelChange
<1>5. CASE StaleJobFilter \/ ProcessStep \/ UNCHANGED vars
           \/ (\E d \in Domains : ArchiveDomain(d) \/ UpdateDomain(d))
  BY <1>5 DEF OneJobChange, StaleJobFilter, ProcessStep, Shutdown, Crash, Exit, Restart,
     ArchiveDomain, UpdateDomain, vars, database
<1>6. ASSUME NEW c \in Callers, CallerStep(c), ~InsertJob(c)
      PROVE  OneJobChange
  BY <1>6 DEF OneJobChange, CallerStep, QueueDomain, CountExhausted, CountSucceeded,
     CountSnapshots, CallFails, database
<1> QED
  BY <1>1, <1>2, <1>3, <1>4, <1>5, <1>6, WorkerChangesJobs DEF Next, DomainStep

\* In any case each job changes in one of the ways JobChange lists.
LEMMA NextChangesJobs ==
    ASSUME TypeOK, ClaimsAreApart, WorkerKnows, CallersKnow, [Next]_vars
    PROVE  \A j \in Jobs : JobChange(j)
<1>1. CASE OneJobChange
  BY <1>1 DEF OneJobChange, JobChange, Untouched
<1>2. CASE SweptChange \/ CancelChange
  BY <1>2 DEF SweptChange, CancelChange, JobChange, ChangedAlone, Untouched
<1> QED
  BY <1>1, <1>2, NextShape

-----------------------------------------------------------------------------
(***************************************************************************)
(* The invariants of the jobs alone, from what a step does to each job.    *)
(***************************************************************************)

\* The fields of a job after a step, case by case.
LEMMA ChangeOfFields ==
    ASSUME TypeOK, NEW j \in Jobs, JobChange(j)
    PROVE  \/ /\ jobs'[j] = jobs[j] /\ charged'[j] = charged[j]
           \/ /\ Inserted(j) /\ charged'[j] = charged[j]
              /\ jobs'[j].status = "queued" /\ jobs'[j].attempt = 0
              /\ jobs'[j].dedupe /\ ~jobs'[j].exhausted
           \/ /\ jobs[j].status = "queued" /\ jobs'[j].status = "running"
              /\ jobs'[j].attempt = jobs[j].attempt + 1 /\ charged'[j] = charged[j]
              /\ jobs'[j].dedupe = jobs[j].dedupe
              /\ jobs'[j].exhausted = jobs[j].exhausted
           \/ /\ jobs[j].status \in Open /\ jobs'[j].status = jobs[j].status
              /\ jobs'[j].attempt = jobs[j].attempt /\ charged'[j] = charged[j]
              /\ jobs'[j].dedupe = jobs[j].dedupe
              /\ jobs'[j].exhausted = jobs[j].exhausted
           \/ /\ jobs[j].status = "running" /\ jobs'[j].status = "queued"
              /\ jobs[j].attempt \in 1..MaxRetries
              /\ jobs'[j].attempt = jobs[j].attempt /\ charged'[j] = charged[j] + 1
              /\ jobs'[j].dedupe = jobs[j].dedupe
              /\ jobs'[j].exhausted = jobs[j].exhausted
           \/ /\ jobs[j].status = "running" /\ jobs'[j].status = "queued"
              /\ jobs[j].attempt > 0 => jobs'[j].attempt \in {jobs[j].attempt - 1, jobs[j].attempt}
              /\ Source = "aizhan" /\ jobs[j].attempt > 0 => jobs'[j].attempt = jobs[j].attempt - 1
              /\ jobs'[j].attempt \in Nat
              /\ charged'[j] = charged[j]
              /\ jobs'[j].dedupe = jobs[j].dedupe
              /\ jobs'[j].exhausted = jobs[j].exhausted
           \/ /\ jobs[j].status \in {"queued", "running"}
              /\ jobs'[j].status \in {"succeeded", "canceled"}
              /\ ~jobs'[j].dedupe /\ jobs'[j].exhausted => jobs[j].exhausted
              /\ ~jobs'[j].dedupe
              /\ charged'[j] = charged[j]
           \/ /\ jobs[j].status \in {"running", "succeeded"} /\ jobs'[j].status = "failed"
              /\ ~jobs'[j].dedupe /\ charged'[j] = charged[j]
              /\ jobs'[j].exhausted =>
                    \/ jobs[j].exhausted
                    \/ /\ Source = "aizhan" /\ jobs[j].status = "running"
                       /\ jobs[j].attempt > MaxRetries
<1>j. jobs[j] \in JobType
  BY DEF TypeOK
<1>1. CASE Untouched(j)
  BY <1>1 DEF Untouched
<1>2. CASE WasRetried(j)
  BY <1>2, <1>j, RetriedFields DEF WasRetried
<1>3. CASE charged'[j] = charged[j] /\ Inserted(j)
  BY <1>3, NewJobFields DEF Inserted
<1>4. CASE charged'[j] = charged[j] /\ WasFailed(j)
  <2>1. PICK e \in BOOLEAN : /\ jobs[j].status \in {"running", "succeeded"}
                             /\ e => /\ Source = "aizhan"
                                     /\ jobs[j].status = "running"
                                     /\ jobs[j].attempt > MaxRetries
                             /\ jobs'[j] = Failed(jobs[j], e)
    BY <1>4 DEF WasFailed
  <2>2. /\ jobs'[j].status = "failed" /\ ~jobs'[j].dedupe
        /\ jobs'[j].exhausted = (jobs[j].exhausted \/ e)
    BY <2>1, <1>j, FailedFields
  <2> QED
    BY <1>4, <2>1, <2>2
<1>5. CASE charged'[j] = charged[j] /\ ChangedAlone(j)
  <2>1. CASE jobs[j].status = "queued" /\ jobs'[j] = Claimed(jobs[j])
    BY <1>5, <2>1, <1>j, ClaimedFields
  <2>2. CASE jobs[j].status = "queued" /\ jobs'[j] = CanceledJob(jobs[j])
    BY <1>5, <2>2, <1>j, CanceledFields
  <2>3. CASE jobs[j].status = "running" /\ jobs'[j] = Succeeded(jobs[j])
    BY <1>5, <2>3, <1>j, SucceededFields
  <2>4. CASE jobs[j].status = "running" /\ jobs'[j] = Released(jobs[j])
    BY <1>5, <2>4, <1>j, ReleasedFields, JobFieldsType
  <2>5. CASE jobs[j].status = "running" /\ jobs'[j] = Recovered(jobs[j])
    BY <1>5, <2>5, <1>j, RecoveredFields, JobFieldsType
  <2>6. CASE /\ jobs[j].status \in Open
             /\ jobs'[j] \in {[jobs[j] EXCEPT !.due = TRUE], [jobs[j] EXCEPT !.stale = TRUE]}
    BY <1>5, <2>6, <1>j, FlagFields
  <2> QED
    BY <1>5, <2>1, <2>2, <2>3, <2>4, <2>5, <2>6 DEF ChangedAlone
<1> QED
  BY <1>1, <1>2, <1>3, <1>4, <1>5 DEF JobChange

\* The dedupe keys go on marking exactly the open jobs.
LEMMA DedupeKept ==
    ASSUME TypeOK, DedupeMatchesOpen, \A j \in Jobs : JobChange(j)
    PROVE  DedupeMatchesOpen'
<1> SUFFICES ASSUME NEW j \in Jobs
             PROVE  jobs'[j].dedupe <=> jobs'[j].status \in Open
  BY DEF DedupeMatchesOpen
<1>1. JobChange(j) /\ (jobs[j].dedupe <=> jobs[j].status \in Open)
  BY DEF DedupeMatchesOpen
<1> QED
  BY <1>1, ChangeOfFields DEF Open

\* The unique index keeps a second open job of a day out.
LEMMA OneOpenJobKept ==
    ASSUME TypeOK, DedupeMatchesOpen, OneOpenJobPerKey, \A j \in Jobs : JobChange(j)
    PROVE  OneOpenJobPerKey'
<1> SUFFICES ASSUME NEW i \in Jobs, NEW j \in Jobs,
                    jobs'[i].status \in Open, jobs'[j].status \in Open,
                    KeyOf[i] = KeyOf[j]
             PROVE  i = j
  BY DEF OneOpenJobPerKey
<1>1. \A h \in Jobs : jobs'[h].status \in Open => jobs[h].status \in Open \/ Inserted(h)
  BY ChangeOfFields DEF Open
<1>2. ASSUME NEW g \in Jobs, NEW h \in Jobs, Inserted(g), g # h, KeyOf[g] = KeyOf[h],
             jobs'[h].status \in Open
      PROVE  FALSE
  <2>1. jobs[h].status \in Open /\ ~jobs[h].dedupe
    BY <1>2 DEF Inserted
  <2> QED
    BY <2>1 DEF DedupeMatchesOpen
<1> QED
  BY <1>1, <1>2 DEF OneOpenJobPerKey

\* The attempts go on covering the charges.
LEMMA AttemptsKept ==
    ASSUME TypeOK, AttemptsCoverCharges, AttemptsAreCharged, \A j \in Jobs : JobChange(j)
    PROVE  AttemptsCoverCharges' /\ AttemptsAreCharged'
<1>1. ASSUME NEW j \in Jobs
      PROVE  /\ charged'[j] <= MaxRetries
             /\ jobs'[j].status = "absent" => jobs'[j] = AbsentJob /\ charged'[j] = 0
             /\ jobs'[j].status = "queued" => jobs'[j].attempt >= charged'[j]
             /\ jobs'[j].status = "running" => jobs'[j].attempt >= charged'[j] + 1
             /\ Source = "aizhan" /\ jobs'[j].status \in Open =>
                  jobs'[j].attempt = charged'[j] + (IF jobs'[j].status = "running" THEN 1 ELSE 0)
  <2>1. /\ jobs[j].attempt \in Nat /\ charged[j] \in Nat /\ MaxRetries \in Nat
        /\ jobs[j].status \in Statuses
    BY JobFieldsType DEF TypeOK
  <2>2. /\ charged[j] <= MaxRetries
        /\ jobs[j].status = "absent" => jobs[j] = AbsentJob /\ charged[j] = 0
        /\ jobs[j].status = "queued" => jobs[j].attempt >= charged[j]
        /\ jobs[j].status = "running" => jobs[j].attempt >= charged[j] + 1
        /\ Source = "aizhan" /\ jobs[j].status \in Open =>
             jobs[j].attempt = charged[j] + (IF jobs[j].status = "running" THEN 1 ELSE 0)
    BY DEF AttemptsCoverCharges, AttemptsAreCharged
  <2>3. Inserted(j) => jobs[j].status = "absent"
    BY DEF Inserted
  <2> QED
    BY <2>1, <2>2, <2>3, ChangeOfFields DEF Open
<1> QED
  BY <1>1 DEF AttemptsCoverCharges, AttemptsAreCharged

\* An exhausted mark is only ever set on a failed job that used up its plan.
LEMMA ExhaustionKept ==
    ASSUME TypeOK, AttemptsCoverCharges, AttemptsAreCharged, ExhaustionIsEarned,
           \A j \in Jobs : JobChange(j)
    PROVE  ExhaustionIsEarned'
<1> SUFFICES ASSUME NEW j \in Jobs, jobs'[j].exhausted
             PROVE  Source = "aizhan" /\ jobs'[j].status = "failed" /\ charged'[j] = MaxRetries
  BY DEF ExhaustionIsEarned
<1>1. /\ jobs[j].attempt \in Nat /\ charged[j] \in Nat /\ MaxRetries \in Nat
  BY JobFieldsType DEF TypeOK
<1>2. /\ charged[j] <= MaxRetries
      /\ Source = "aizhan" /\ jobs[j].status = "running" => jobs[j].attempt = charged[j] + 1
      /\ jobs[j].exhausted => /\ Source = "aizhan" /\ jobs[j].status = "failed"
                              /\ charged[j] = MaxRetries
  BY DEF AttemptsAreCharged, ExhaustionIsEarned, Open
<1>3. \/ jobs'[j] = jobs[j] /\ charged'[j] = charged[j]
      \/ /\ jobs'[j].status = "failed" /\ charged'[j] = charged[j]
         /\ Source = "aizhan" /\ jobs[j].status = "running" /\ jobs[j].attempt > MaxRetries
  BY <1>2, ChangeOfFields DEF Open
<1> QED
  BY <1>1, <1>2, <1>3

-----------------------------------------------------------------------------
(***************************************************************************)
(* What a step does to the workers' hands: the job, the attempt and the    *)
(* claim a worker holds change only when it claims a job.                  *)
(***************************************************************************)
HandKept(w) ==
    Holding(w)' => /\ Holding(w)
                   /\ worker'[w].job = worker[w].job
                   /\ worker'[w].attempt = worker[w].attempt
                   /\ worker'[w].claim = worker[w].claim

FreshClaim(w, j) ==
    /\ jobs[j].status = "queued" /\ jobs[j].due
    /\ jobs' = [jobs EXCEPT ![j] = Claimed(jobs[j])]
    /\ ~Holding(w)
    /\ worker'[w].pc = "claimed"
    /\ worker'[w].job = j
    /\ worker'[w].attempt = jobs[j].attempt + 1
    /\ worker'[w].claim = jobs[j].claim + 1
    /\ ~worker'[w].exhausted

\* A worker's own step touches no other worker, and nothing of the other actors.
LEMMA WorkerHand ==
    ASSUME TypeOK, NEW w \in Workers, WorkerStep(w)
    PROVE  /\ \A v \in Workers : v # w => worker'[v] = worker[v]
           /\ HandKept(w) \/ \E j \in Jobs : FreshClaim(w, j)
           /\ process' = process /\ sweep' = sweep /\ caller' = caller
<1> USE DEF TypeOK
<1>1. ASSUME NEW j \in Jobs, ClaimNextJob(w, j)
      PROVE  /\ \A v \in Workers : v # w => worker'[v] = worker[v]
             /\ HandKept(w) \/ FreshClaim(w, j)
             /\ process' = process /\ sweep' = sweep /\ caller' = caller
  BY <1>1, AfterWorkFields DEF ClaimNextJob, HandKept, FreshClaim, Holding, SetJob
<1>2. CASE FetchReturns(w)
  <2>1. ASSUME worker' = [worker EXCEPT ![w] = [@ EXCEPT !.pc = "failMetric",
                                                         !.exhausted = Progressive]]
        PROVE  HandKept(w)
    BY <1>2, <2>1 DEF FetchReturns, HandKept, Holding, WorkerType
  <2>2. ASSUME NEW pc \in WorkerPCs, Goto(w, pc) PROVE HandKept(w)
    BY <1>2, <2>2, GotoEffect DEF FetchReturns, HandKept, Holding
  <2>3. \A v \in Workers : v # w => worker'[v] = worker[v]
    BY <1>2 DEF FetchReturns, Goto
  <2> QED
    BY <1>2, <2>1, <2>2, <2>3 DEF FetchReturns, WorkerPCs
<1>3. CASE ForgetClaim(w)
  BY <1>3, AfterWorkFields DEF ForgetClaim, HandKept, Holding
<1>4. CASE WorkerReturns(w)
  BY <1>4, GotoEffect DEF WorkerReturns, HandKept, Holding, WorkerPCs
<1>5. ASSUME NEW pc \in WorkerPCs, Goto(w, pc), Holding(w),
             process' = process /\ sweep' = sweep /\ caller' = caller
      PROVE  /\ \A v \in Workers : v # w => worker'[v] = worker[v]
             /\ HandKept(w)
             /\ process' = process /\ sweep' = sweep /\ caller' = caller
  BY <1>5, GotoEffect DEF HandKept
<1>6. CASE RegisterClaim(w) \/ InvalidateWeightAttempt(w)
  BY <1>5, <1>6 DEF RegisterClaim, InvalidateWeightAttempt, Holding, WorkerPCs
<1>7. CASE RetryJob(w) \/ MarkJobFailed(w) \/ ReleaseInterruptedJob(w)
  BY <1>5, <1>7 DEF RetryJob, MarkJobFailed, ReleaseInterruptedJob, Holding, WorkerPCs
<1>8. CASE SaveMetric(w) \/ SaveJobResult(w)
  BY <1>5, <1>8 DEF SaveMetric, SaveJobResult, SaveFailed, Holding, WorkerPCs
<1> QED
  BY <1>1, <1>2, <1>3, <1>4, <1>6, <1>7, <1>8 DEF WorkerStep, FetchReturns

\* The other actors leave the workers alone, or take them all down.
LEMMA OtherHand ==
    ASSUME TypeOK, [Next]_vars, \A w \in Workers : ~WorkerStep(w)
    PROVE  \/ worker' = worker
           \/ \A w \in Workers : ~Holding(w)' /\ ~worker'[w].exhausted
<1>1. CASE Crash \/ Exit \/ Restart
  BY <1>1 DEF Crash, Exit, Restart, LoseMemory, Unemployed, Holding
<1>2. CASE Shutdown \/ UNCHANGED vars \/ StaleJobFilter \/ RecoverStaleJobs
  BY <1>2 DEF Shutdown, vars, StaleJobFilter, RecoverStaleJobs
<1>3. ASSUME NEW j \in Jobs, BackoffElapses(j) \/ JobGrowsStale(j) PROVE worker' = worker
  BY <1>3 DEF BackoffElapses, JobGrowsStale, memory
<1>4. ASSUME NEW c \in Callers, CallerStep(c) PROVE worker' = worker
  BY <1>4 DEF CallerStep, QueueDomain, CountExhausted, CountSucceeded, CountSnapshots,
     InsertJob, CallFails
<1>5. ASSUME NEW d \in Domains, DomainStep(d) PROVE worker' = worker
  BY <1>5 DEF DomainStep, ArchiveDomain, CancelQueuedJobs, Cancelable, UpdateDomain, memory
<1> QED
  BY <1>1, <1>2, <1>3, <1>4, <1>5 DEF Next, ProcessStep

\* Either way, each hand is kept or holds a fresh claim.
LEMMA EveryHand ==
    ASSUME TypeOK, [Next]_vars
    PROVE  \A w \in Workers : HandKept(w) \/ \E j \in Jobs : FreshClaim(w, j)
<1>1. ASSUME NEW v \in Workers, WorkerStep(v)
      PROVE  \A w \in Workers : HandKept(w) \/ \E j \in Jobs : FreshClaim(w, j)
  BY <1>1, WorkerHand DEF HandKept, Holding
<1>2. ASSUME \A w \in Workers : ~WorkerStep(w)
      PROVE  \A w \in Workers : HandKept(w)
  BY <1>2, OtherHand DEF HandKept, Holding
<1> QED
  BY <1>1, <1>2

\* The claim number of a job only grows, and a running job has become running by a
\* fresh claim or was running under the same claim and attempt.
LEMMA ClaimGrows ==
    ASSUME TypeOK, AttemptsCoverCharges, NEW j \in Jobs, JobChange(j)
    PROVE  /\ jobs'[j].claim >= jobs[j].claim
           /\ jobs[j].status # "absent" => jobs'[j].status # "absent"
           /\ jobs'[j].status = "running" =>
                 \/ jobs'[j].claim = jobs[j].claim + 1
                 \/ /\ jobs[j].status = "running"
                    /\ jobs'[j].claim = jobs[j].claim
                    /\ jobs'[j].attempt = jobs[j].attempt
<1>j. jobs[j] \in JobType /\ jobs[j].claim \in Nat
  BY JobFieldsType DEF TypeOK
<1>1. CASE Untouched(j)
  BY <1>1, <1>j DEF Untouched
<1>2. CASE WasRetried(j)
  BY <1>2, <1>j, RetriedFields DEF WasRetried
<1>3. CASE Inserted(j)
  <2>1. jobs[j].claim = 0
    BY <1>3 DEF Inserted, AttemptsCoverCharges, AbsentJob
  <2> QED
    BY <1>3, <2>1, NewJobFields DEF Inserted
<1>4. CASE WasFailed(j)
  BY <1>4, <1>j, FailedFields DEF WasFailed
<1>5. CASE ChangedAlone(j)
  <2>1. CASE jobs[j].status = "queued" /\ jobs'[j] \in {Claimed(jobs[j]), CanceledJob(jobs[j])}
    BY <2>1, <1>j, ClaimedFields, CanceledFields
  <2>2. CASE /\ jobs[j].status = "running"
             /\ jobs'[j] \in {Succeeded(jobs[j]), Released(jobs[j]), Recovered(jobs[j])}
    BY <2>2, <1>j, SucceededFields, ReleasedFields, RecoveredFields
  <2>3. CASE /\ jobs[j].status \in Open
             /\ jobs'[j] \in {[jobs[j] EXCEPT !.due = TRUE], [jobs[j] EXCEPT !.stale = TRUE]}
    <3>1. /\ jobs'[j].status = jobs[j].status /\ jobs'[j].claim = jobs[j].claim
          /\ jobs'[j].attempt = jobs[j].attempt
      BY <2>3, <1>j, FlagFields
    <3> QED
      BY <3>1, <1>j
  <2> QED
    BY <1>5, <2>1, <2>2, <2>3 DEF ChangedAlone
<1> QED
  BY <1>1, <1>2, <1>3, <1>4, <1>5 DEF JobChange

\* Claims stay numbered apart.
LEMMA ClaimsKept ==
    ASSUME TypeOK, AttemptsCoverCharges, ClaimsAreApart, \A j \in Jobs : JobChange(j), [Next]_vars
    PROVE  ClaimsAreApart'
<1>c. \A j \in Jobs : jobs[j] \in JobType /\ jobs[j].claim \in Nat
  BY JobFieldsType DEF TypeOK
<1>d. \A v \in Workers : worker[v].claim \in Nat
  BY DEF TypeOK, WorkerType
<1>f. ASSUME NEW w \in Workers, NEW j \in Jobs, FreshClaim(w, j)
      PROVE  /\ jobs'[j].claim = jobs[j].claim + 1 /\ jobs'[j].status = "running"
             /\ worker'[w].job = j /\ worker'[w].claim = jobs[j].claim + 1
  BY <1>c, <1>f, ClaimedFields DEF FreshClaim, TypeOK
<1>h. \A w \in Workers : HandKept(w) \/ \E j \in Jobs : FreshClaim(w, j)
  BY EveryHand
<1>1. ASSUME NEW w \in Workers, Holding(w)'
      PROVE  /\ worker'[w].job \in Jobs
             /\ jobs'[worker'[w].job].status # "absent"
             /\ worker'[w].claim <= jobs'[worker'[w].job].claim
  <2>1. CASE HandKept(w)
    <3>1. /\ worker'[w].job = worker[w].job /\ worker'[w].claim = worker[w].claim
          /\ worker[w].job \in Jobs /\ jobs[worker[w].job].status # "absent"
          /\ worker[w].claim <= jobs[worker[w].job].claim
      BY <1>1, <2>1 DEF HandKept, ClaimsAreApart
    <3>2. /\ jobs'[worker[w].job].status # "absent"
          /\ jobs'[worker[w].job].claim >= jobs[worker[w].job].claim
      BY <3>1, ClaimGrows
    <3>3. jobs'[worker[w].job].claim \in Nat
      BY <3>1, NextTypeOK, JobFieldsType DEF TypeOK, WorkerJobTyped, ClaimsAreApart
    <3> QED
      BY <3>1, <3>2, <3>3, <1>c, <1>d
  <2>2. ASSUME NEW j \in Jobs, FreshClaim(w, j)
        PROVE  /\ worker'[w].job \in Jobs
               /\ jobs'[worker'[w].job].status # "absent"
               /\ worker'[w].claim <= jobs'[worker'[w].job].claim
    BY <2>2, <1>f, <1>c
  <2> QED
    BY <2>1, <2>2, <1>h
<1>2. ASSUME NEW v \in Workers, NEW w \in Workers, Holding(v)', Holding(w)',
             worker'[v].job = worker'[w].job, worker'[v].claim = worker'[w].claim, v # w
      PROVE  FALSE
  <2>2. ASSUME NEW x \in Workers, NEW y \in Workers, NEW j \in Jobs, FreshClaim(x, j),
               Holding(y)', x # y, worker'[y].job = j
        PROVE  worker'[y].claim # worker'[x].claim
    <3>1. worker'[y] = worker[y]
      <4>1. CASE \A z \in Workers : ~WorkerStep(z)
        BY <4>1, <2>2, OtherHand DEF FreshClaim, Holding
      <4>2. ASSUME NEW z \in Workers, WorkerStep(z) PROVE worker'[y] = worker[y]
        BY <4>2, <2>2, WorkerHand DEF FreshClaim, Holding
      <4> QED
        BY <4>1, <4>2
    <3>2. worker[y].claim <= jobs[j].claim
      BY <3>1, <2>2 DEF ClaimsAreApart, Holding
    <3> QED
      BY <3>1, <3>2, <2>2, <1>f, <1>c, <1>d
  <2>3. HandKept(v) /\ HandKept(w)
    BY <2>2, <1>2, <1>h, <1>f
  <2> QED
    BY <2>3, <1>2 DEF HandKept, ClaimsAreApart
<1> QED
  BY <1>1, <1>2 DEF ClaimsAreApart

-----------------------------------------------------------------------------
(***************************************************************************)
(* What a worker knows of its job survives the steps of everybody else.    *)
(***************************************************************************)
Secure(w) == OwnClaim(w) \/ /\ jobs[worker[w].job].status = "succeeded"
                            /\ jobs[worker[w].job].claim = worker[w].claim

\* Another worker never writes the job this worker still owns, or has saved.
LEMMA OtherWorkersSpare ==
    ASSUME TypeOK, ClaimsAreApart, WorkerKnows, NEW w \in Workers, NEW v \in Workers,
           v # w, WorkerStep(v), Holding(w), Secure(w)
    PROVE  jobs'[worker[w].job] = jobs[worker[w].job]
<1> DEFINE j == worker[w].job
           i == worker[v].job
<1>j. /\ Holding(w) => j \in Jobs /\ jobs[j] \in JobType
      /\ Holding(v) => i \in Jobs /\ jobs[i] \in JobType
  BY DEF ClaimsAreApart, TypeOK
<1>t. jobs \in [Jobs -> JobType] /\ worker[v].exhausted \in BOOLEAN
  BY DEF TypeOK, WorkerType
<1>c. jobs[j].claim = worker[w].claim /\ jobs[j].status \in {"running", "succeeded"}
  BY DEF Secure, OwnClaim
<1>1. ASSUME NEW k \in Jobs, ClaimNextJob(v, k) PROVE jobs'[j] = jobs[j]
  <2>1. jobs[k].status = "queued" /\ \A h \in Jobs : h # k => jobs'[h] = jobs[h]
    BY <1>1, <1>t, ClaimedFields, SetJobEffect DEF ClaimNextJob
  <2> QED
    BY <2>1, <1>c, <1>j
<1>2. ASSUME Holding(v), NEW new \in JobType, SetJob(i, new),
             jobs[i].claim = worker[v].claim
      PROVE  jobs'[j] = jobs[j]
  <2>1. \A h \in Jobs : h # i => jobs'[h] = jobs[h]
    BY <1>2, <1>j, <1>t, SetJobEffect
  <2>2. i # j
    BY <1>2, <1>c DEF ClaimsAreApart
  <2> QED
    BY <2>1, <2>2, <1>j
<1>3. CASE RetryJob(v) \/ SaveJobResult(v)
  <2>1. Holding(v) /\ jobs[i].claim = worker[v].claim
    BY <1>3 DEF RetryJob, SaveJobResult, Holding, WorkerKnows, Knows, Undecided, OwnClaim
  <2>2. /\ RetryJob(v) => jobs' = jobs \/ SetJob(i, Retried(jobs[i]))
        /\ SaveJobResult(v) => jobs' = jobs \/ SetJob(i, Succeeded(jobs[i]))
    BY DEF RetryJob, SaveJobResult
  <2>3. Retried(jobs[i]) \in JobType /\ Succeeded(jobs[i]) \in JobType
    BY <2>1, <1>j, RetriedFields, SucceededFields
  <2> QED
    BY <1>3, <2>1, <2>2, <2>3, <1>2
<1>4. CASE MarkJobFailed(v)
  <2>1. Holding(v) /\ jobs[i].claim = worker[v].claim
    BY <1>4 DEF MarkJobFailed, Holding, WorkerKnows, Knows, OwnClaim, SavedUnheard
  <2>2. jobs' = jobs \/ SetJob(i, Failed(jobs[i], worker[v].exhausted))
    BY <1>4 DEF MarkJobFailed
  <2>3. Failed(jobs[i], worker[v].exhausted) \in JobType
    BY <2>1, <1>j, <1>t, FailedFields
  <2> QED
    BY <2>1, <2>2, <2>3, <1>2
<1>5. CASE ReleaseInterruptedJob(v)
  <2>1. Holding(v)
    BY <1>5 DEF ReleaseInterruptedJob, Holding
  <2>2. jobs' = jobs \/ (OwnClaim(v) /\ SetJob(i, Released(jobs[i])))
    BY <1>5 DEF ReleaseInterruptedJob
  <2>3. Released(jobs[i]) \in JobType
    BY <2>1, <1>j, ReleasedFields
  <2> QED
    BY <2>1, <2>2, <2>3, <1>2 DEF OwnClaim
<1>6. CASE RegisterClaim(v) \/ FetchReturns(v) \/ InvalidateWeightAttempt(v)
           \/ SaveMetric(v) \/ ForgetClaim(v) \/ WorkerReturns(v)
  BY <1>6 DEF RegisterClaim, FetchReturns, InvalidateWeightAttempt, SaveMetric,
     ForgetClaim, WorkerReturns, database
<1> QED
  BY <1>1, <1>3, <1>4, <1>5, <1>6 DEF WorkerStep

\* Neither time nor the sweep nor a caller nor an archive settles it.
LEMMA WorldSpares ==
    ASSUME TypeOK, ClaimsAreApart, SweepSparesWorkers, [Next]_vars,
           \A v \in Workers : ~WorkerStep(v), NEW w \in Workers, Holding(w), Secure(w)
    PROVE  LET j == worker[w].job
           IN  /\ jobs'[j].status = jobs[j].status
               /\ jobs'[j].attempt = jobs[j].attempt
               /\ jobs'[j].claim = jobs[j].claim
               /\ worker[w].pc = "claimed" => jobs'[j].stale = jobs[j].stale
<1> DEFINE j == worker[w].job
<1>j. j \in Jobs /\ jobs[j] \in JobType /\ jobs \in [Jobs -> JobType]
  BY DEF ClaimsAreApart, TypeOK
<1>c. jobs[j].status \in {"running", "succeeded"}
  BY DEF Secure, OwnClaim
<1>1. ASSUME NEW i \in Jobs, BackoffElapses(i) PROVE jobs'[j] = jobs[j]
  BY <1>1, <1>j, <1>c, FlagFields, SetJobEffect, ZenonT(30) DEF BackoffElapses
<1>2. ASSUME NEW i \in Jobs, JobGrowsStale(i)
      PROVE  /\ jobs'[j].status = jobs[j].status
             /\ jobs'[j].attempt = jobs[j].attempt
             /\ jobs'[j].claim = jobs[j].claim
             /\ worker[w].pc = "claimed" => jobs'[j].stale = jobs[j].stale
  <2>1. jobs'[i] = [jobs[i] EXCEPT !.stale = TRUE] /\ \A h \in Jobs : h # i => jobs'[h] = jobs[h]
    BY <1>2, <1>j, FlagFields, SetJobEffect DEF JobGrowsStale
  <2>2. worker[w].pc = "claimed" => i # j
    BY <1>2 DEF JobGrowsStale
  <2>3. CASE i = j
    BY <2>1, <2>2, <2>3, <1>j, FlagFields, ZenonT(30)
  <2> QED
    BY <2>1, <2>3, <1>j
<1>3. CASE RecoverStaleJobs
  <2>1. jobs[j].status = "running" => OwnClaim(w)
    BY DEF Secure
  <2>2. j \notin MatchedBySweep
    BY <1>3, <2>1 DEF SweepSparesWorkers, MatchedBySweep, RecoverStaleJobs
  <2> QED
    BY <1>3, <2>2, <1>j DEF RecoverStaleJobs
<1>4. ASSUME NEW c \in Callers, CallerStep(c) PROVE jobs'[j] = jobs[j]
  <2>1. CASE InsertJob(c)
    BY <1>j, <1>c, <2>1, NewJobFields, SetJobEffect DEF InsertJob, JobsOf
  <2>2. CASE ~InsertJob(c)
    BY <1>4, <2>2 DEF CallerStep, QueueDomain, CountExhausted, CountSucceeded,
       CountSnapshots, CallFails, database
  <2> QED
    BY <2>1, <2>2
<1>5. ASSUME NEW d \in Domains, DomainStep(d) PROVE jobs'[j] = jobs[j]
  BY <1>5, <1>j, <1>c DEF DomainStep, ArchiveDomain, CancelQueuedJobs, Cancelable, UpdateDomain
<1>6. CASE ProcessStep \/ StaleJobFilter \/ UNCHANGED vars
  BY <1>6 DEF ProcessStep, Shutdown, Crash, Exit, Restart, StaleJobFilter, vars, database
<1> QED
  BY <1>1, <1>2, <1>3, <1>4, <1>5, <1>6 DEF Next

\* Neither another worker nor the world writes the job a worker owns or has saved.
LEMMA JobSpared ==
    ASSUME TypeOK, ClaimsAreApart, WorkerKnows, SweepSparesWorkers, [Next]_vars,
           NEW w \in Workers, ~WorkerStep(w), Holding(w), Holding(w)', Secure(w)
    PROVE  LET j == worker[w].job
           IN  /\ worker'[w] = worker[w]
               /\ jobs'[j].status = jobs[j].status
               /\ jobs'[j].attempt = jobs[j].attempt
               /\ jobs'[j].claim = jobs[j].claim
               /\ worker[w].pc = "claimed" => jobs'[j].stale = jobs[j].stale
<1>1. ASSUME NEW v \in Workers, WorkerStep(v)
      PROVE  worker'[w] = worker[w] /\ jobs'[worker[w].job] = jobs[worker[w].job]
  BY <1>1, WorkerHand, OtherWorkersSpare
<1>2. ASSUME \A v \in Workers : ~WorkerStep(v) PROVE worker'[w] = worker[w]
  BY <1>2, OtherHand
<1> QED
  BY <1>1, <1>2, WorldSpares

\* A worker that goes on with an untouched job in hand knows of it what it knew.
LEMMA SameHand ==
    ASSUME TypeOK, NEW w \in Workers, NEW pc \in WorkerPCs, Goto(w, pc),
           jobs'[worker[w].job] = jobs[worker[w].job]
    PROVE  /\ worker'[w].pc = pc
           /\ OwnClaim(w)' <=> OwnClaim(w)
           /\ SavedUnheard(w)' <=> SavedUnheard(w)
           /\ worker'[w].attempt = worker[w].attempt
           /\ worker'[w].exhausted = worker[w].exhausted
BY GotoEffect DEF TypeOK, OwnClaim, SavedUnheard

\* Where a worker's own step leads, it knows what the position requires.
LEMMA OwnStepKnows ==
    ASSUME TypeOK, ClaimsAreApart, WorkerKnows, AttemptsCoverCharges,
           NEW w \in Workers, WorkerStep(w)
    PROVE  Knows(w)'
<1> DEFINE j == worker[w].job
<1>j. Holding(w) => j \in Jobs /\ jobs[j] \in JobType
  BY DEF ClaimsAreApart, TypeOK
<1>t. /\ jobs \in [Jobs -> JobType] /\ worker \in [Workers -> WorkerType]
      /\ worker[w].attempt \in Nat /\ worker[w].exhausted \in BOOLEAN
  BY DEF TypeOK, WorkerType
<1>k. Knows(w)
  BY DEF WorkerKnows
<1>1. ASSUME NEW i \in Jobs, ClaimNextJob(w, i) PROVE Knows(w)'
  <2>1. jobs'[i] = Claimed(jobs[i])
    BY <1>1, <1>t, ClaimedFields, SetJobEffect DEF ClaimNextJob
  <2>2. /\ jobs'[i].status = "running" /\ ~jobs'[i].stale
        /\ jobs'[i].attempt = jobs[i].attempt + 1
        /\ jobs'[i].claim = jobs[i].claim + 1
    BY <2>1, <1>t, ClaimedFields
  <2>3. CASE worker' = [worker EXCEPT ![w] =
                 [pc |-> "claimed", job |-> i, attempt |-> jobs[i].attempt + 1,
                  claim |-> jobs[i].claim + 1, exhausted |-> FALSE]]
    <3>1. /\ worker'[w].pc = "claimed" /\ worker'[w].job = i /\ ~worker'[w].exhausted
          /\ worker'[w].attempt = jobs[i].attempt + 1
          /\ worker'[w].claim = jobs[i].claim + 1
      BY <2>3, <1>t
    <3> QED
      BY <3>1, <2>2 DEF Knows, OwnClaim
  <2>4. CASE worker' = [worker EXCEPT ![w] = AfterWork]
    BY <2>4, <1>t, AfterWorkFields DEF Knows, Undecided
  <2> QED
    BY <1>1, <2>3, <2>4 DEF ClaimNextJob
<1>2. CASE RegisterClaim(w)
  BY <1>2, <1>k, SameHand DEF RegisterClaim, Knows, Undecided, WorkerPCs, database
<1>3. CASE FetchReturns(w)
  <2>1. OwnClaim(w) /\ jobs' = jobs /\ ~worker[w].exhausted
    BY <1>3, <1>k DEF FetchReturns, Knows, Undecided, database
  <2>2. worker[w].attempt >= 1 /\ MaxRetries \in Nat
    <3>1. charged[j] \in Nat /\ worker[w].attempt >= charged[j] + 1
      BY <1>j, <1>3, <2>1 DEF FetchReturns, Holding, TypeOK, AttemptsCoverCharges, OwnClaim
    <3> QED
      BY <3>1, <1>t
  <2>3. CASE /\ ~HasRetry(worker[w].attempt)
             /\ worker' = [worker EXCEPT ![w] = [@ EXCEPT !.pc = "failMetric",
                                                          !.exhausted = Progressive]]
    <3>1. worker[w] \in WorkerType
      BY <1>t
    <3>2. /\ worker'[w].pc = "failMetric" /\ worker'[w].exhausted = Progressive
          /\ worker'[w].job = j /\ worker'[w].attempt = worker[w].attempt
          /\ worker'[w].claim = worker[w].claim
      BY <2>3, <3>1, <1>t DEF WorkerType
    <3>3. worker[w].attempt > MaxRetries
      BY <2>2, <2>3, <1>t DEF HasRetry
    <3> QED
      BY <3>2, <3>3, <2>1 DEF Knows, Undecided, OwnClaim, Progressive
  <2>4. CASE \/ Goto(w, "finish") \/ Goto(w, "saveMetric")
             \/ HasRetry(worker[w].attempt) /\ Goto(w, "retryMetric")
    BY <2>1, <2>4, SameHand DEF Knows, Undecided, WorkerPCs
  <2> QED
    BY <1>3, <2>3, <2>4 DEF FetchReturns
<1>4. CASE InvalidateWeightAttempt(w)
  <2>1. jobs' = jobs
    BY <1>4 DEF InvalidateWeightAttempt
  <2>2. \/ Goto(w, "finish")
        \/ worker[w].pc = "retryMetric" /\ Goto(w, "retryJob")
        \/ worker[w].pc = "failMetric" /\ Goto(w, "failJob")
    BY <1>4 DEF InvalidateWeightAttempt
  <2>3. worker[w].pc \in {"retryMetric", "failMetric"}
    BY <1>4 DEF InvalidateWeightAttempt
  <2> QED
    BY <2>1, <2>2, <2>3, <1>k, SameHand DEF Knows, Undecided, WorkerPCs
<1>5. CASE RetryJob(w) \/ MarkJobFailed(w)
  <2>1. worker'[w].pc = "finish" /\ worker'[w].attempt = worker[w].attempt
        /\ worker'[w].exhausted = worker[w].exhausted
    BY <1>5, <1>t, GotoEffect DEF RetryJob, MarkJobFailed, WorkerPCs
  <2> QED
    BY <2>1, <1>k DEF Knows, Undecided
<1>6. CASE ReleaseInterruptedJob(w)
  <2>1. worker'[w].pc = "forget" /\ worker'[w].attempt = worker[w].attempt
        /\ worker'[w].exhausted = worker[w].exhausted
    BY <1>6, <1>t, GotoEffect DEF ReleaseInterruptedJob, WorkerPCs
  <2> QED
    BY <2>1, <1>k DEF Knows, Undecided
<1>7. CASE SaveMetric(w)
  <2>1. jobs' = jobs /\ OwnClaim(w) /\ ~worker[w].exhausted
    BY <1>7, <1>k DEF SaveMetric, Knows, Undecided
  <2>2. Goto(w, "saveJob") \/ Goto(w, "finish") \/ Goto(w, "failMetric")
    BY <1>7 DEF SaveMetric, SaveFailed
  <2> QED
    BY <2>1, <2>2, SameHand DEF Knows, Undecided, WorkerPCs
<1>8. CASE SaveJobResult(w)
  <2>1. OwnClaim(w) /\ ~worker[w].exhausted /\ j \in Jobs /\ jobs[j] \in JobType
    BY <1>8, <1>k, <1>j DEF SaveJobResult, Knows, Undecided, Holding
  <2>2. Goto(w, "finish") \/ Goto(w, "failMetric")
    BY <1>8 DEF SaveJobResult, SaveFailed
  <2>3. CASE jobs' = jobs
    BY <2>1, <2>2, <2>3, SameHand DEF Knows, Undecided, WorkerPCs
  <2>4. CASE SetJob(j, Succeeded(jobs[j]))
    <3>1. jobs'[j].status = "succeeded" /\ jobs'[j].claim = worker[w].claim
      BY <2>1, <2>4, <1>t, SucceededFields, SetJobEffect DEF OwnClaim
    <3>2. /\ worker'[w].pc \in {"finish", "failMetric"} /\ ~worker'[w].exhausted
          /\ worker'[w].job = j /\ worker'[w].claim = worker[w].claim
      BY <2>1, <2>2, <1>t, GotoEffect DEF WorkerPCs
    <3> QED
      BY <3>1, <3>2 DEF Knows, Undecided, SavedUnheard
  <2> QED
    BY <1>8, <2>3, <2>4 DEF SaveJobResult
<1>9. CASE ForgetClaim(w)
  BY <1>9, <1>t, AfterWorkFields DEF ForgetClaim, Knows, Undecided
<1>10. CASE WorkerReturns(w)
  BY <1>10, <1>t, <1>k, GotoEffect DEF WorkerReturns, Knows, Undecided, WorkerPCs
<1> QED
  BY <1>1, <1>2, <1>3, <1>4, <1>5, <1>6, <1>7, <1>8, <1>9, <1>10 DEF WorkerStep

\* No step makes a worker's knowledge of its job wrong.
LEMMA KnowledgeKept ==
    ASSUME TypeOK, ClaimsAreApart, WorkerKnows, SweepSparesWorkers, AttemptsCoverCharges,
           [Next]_vars
    PROVE  WorkerKnows'
<1> SUFFICES ASSUME NEW w \in Workers PROVE Knows(w)'
  BY DEF WorkerKnows
<1>k. Knows(w)
  BY DEF WorkerKnows
<1>1. CASE WorkerStep(w)
  BY <1>1, OwnStepKnows
<1>2. CASE ~WorkerStep(w) /\ ~Holding(w)'
  <2>1. worker'[w] = worker[w] \/ ~worker'[w].exhausted
    BY <1>2, WorkerHand, OtherHand
  <2>2. ~worker'[w].exhausted
    BY <2>1, <1>2, <1>k DEF Knows, Holding
  <2> QED
    BY <1>2, <2>2 DEF Knows, Holding, Undecided
<1>3. CASE ~WorkerStep(w) /\ Holding(w)'
  <2>1. worker'[w] = worker[w] /\ Holding(w)
    BY <1>3, WorkerHand, OtherHand DEF Holding
  <2>2. CASE Secure(w)
    BY <1>3, <2>1, <2>2, <1>k, JobSpared DEF Knows, Secure, OwnClaim, SavedUnheard
  <2>3. CASE ~Secure(w)
    BY <2>1, <2>3, <1>k DEF Knows, Secure, SavedUnheard, Undecided
  <2> QED
    BY <2>2, <2>3
<1> QED
  BY <1>1, <1>2, <1>3

\* A worker that keeps its hand owns its claim after a step only if it did before.
LEMMA OwnedBefore ==
    ASSUME TypeOK, AttemptsCoverCharges, ClaimsAreApart, \A j \in Jobs : JobChange(j),
           NEW w \in Workers, Holding(w), HandKept(w), Holding(w)', OwnClaim(w)'
    PROVE  /\ OwnClaim(w)
           /\ worker'[w].job = worker[w].job
           /\ jobs'[worker[w].job].claim = jobs[worker[w].job].claim
<1> DEFINE j == worker[w].job
<1>1. /\ j \in Jobs /\ worker[w].claim <= jobs[j].claim
      /\ worker'[w].job = j /\ worker'[w].claim = worker[w].claim
      /\ worker'[w].attempt = worker[w].attempt
  BY DEF HandKept, ClaimsAreApart
<1>2. jobs[j].claim \in Nat /\ worker[w].claim \in Nat
  BY <1>1, JobFieldsType DEF TypeOK, WorkerType
<1>3. /\ jobs'[j].status = "running"
      /\ jobs'[j].attempt = worker[w].attempt /\ jobs'[j].claim = worker[w].claim
  BY <1>1 DEF OwnClaim
<1>4. jobs[j].status = "running" /\ jobs'[j].claim = jobs[j].claim
      /\ jobs'[j].attempt = jobs[j].attempt
  BY <1>1, <1>2, <1>3, ClaimGrows
<1> QED
  BY <1>1, <1>3, <1>4 DEF OwnClaim

\* A sweep under way goes on missing every job a worker owns.
LEMMA SweepKept ==
    ASSUME TypeOK, AttemptsCoverCharges, ClaimsAreApart, WorkerKnows, InflightCoversWorkers,
           SweepSparesWorkers, \A j \in Jobs : JobChange(j), [Next]_vars, TypeOK'
    PROVE  SweepSparesWorkers'
<1> SUFFICES ASSUME sweep'.pc = "update" PROVE SweepSparesWorkers'
  BY DEF SweepSparesWorkers
<1>1. CASE StaleJobFilter
  <2> DEFINE old == {<<j, jobs[j].claim>> : j \in {i \in Jobs : /\ jobs[i].status = "running"
                                                               /\ jobs[i].stale}}
  <2>1. /\ process = "up" /\ sweep' = [pc |-> "update", skip |-> inflight, old |-> old]
        /\ jobs' = jobs /\ worker' = worker
    BY <1>1 DEF StaleJobFilter, database
  <2>2. \A p \in old : p[2] <= jobs[p[1]].claim
    <3>1. \A j \in Jobs : jobs[j].claim \in Nat
      BY JobFieldsType DEF TypeOK
    <3> QED
      BY <3>1
  <2>3. ASSUME NEW w \in Workers, Holding(w), OwnClaim(w),
               worker[w].job \notin inflight,
               <<worker[w].job, jobs[worker[w].job].claim>> \in old
        PROVE  FALSE
    <3>1. worker[w].pc = "claimed"
      BY <2>1, <2>3 DEF InflightCoversWorkers
    <3>2. ~jobs[worker[w].job].stale
      BY <3>1 DEF WorkerKnows, Knows
    <3> QED
      BY <2>3, <3>2
  <2> HIDE DEF old
  <2> QED
    BY <2>1, <2>2, <2>3 DEF SweepSparesWorkers, MatchedBySweep, Holding, OwnClaim
<1>2. CASE ~StaleJobFilter
  <2>1. sweep' = sweep
    <3>1. ASSUME NEW w \in Workers, WorkerStep(w) PROVE sweep' = sweep
      BY <3>1, WorkerHand
    <3>2. ASSUME NEW c \in Callers, CallerStep(c) PROVE sweep' = sweep
      BY <3>2 DEF CallerStep, QueueDomain, CountExhausted, CountSucceeded, CountSnapshots,
         InsertJob, CallFails
    <3>3. ASSUME NEW d \in Domains, DomainStep(d) PROVE sweep' = sweep
      BY <3>3 DEF DomainStep, ArchiveDomain, CancelQueuedJobs, Cancelable, UpdateDomain, memory
    <3>4. ASSUME NEW j \in Jobs, BackoffElapses(j) \/ JobGrowsStale(j) PROVE sweep' = sweep
      BY <3>4 DEF BackoffElapses, JobGrowsStale, memory
    <3>5. NoSweep.pc # "update"
      BY DEF NoSweep
    <3>6. CASE ProcessStep \/ RecoverStaleJobs \/ UNCHANGED vars
      BY <3>5, <3>6 DEF ProcessStep, Shutdown, Crash, Exit, Restart, LoseMemory,
         RecoverStaleJobs, vars
    <3> QED
      BY <1>2, <3>1, <3>2, <3>3, <3>4, <3>6 DEF Next
  <2>2. sweep.old \in SUBSET (Jobs \X Nat)
    BY DEF TypeOK, SweepType
  <2>3. ASSUME NEW p \in sweep.old PROVE p[2] <= jobs'[p[1]].claim
    <3>1. p[1] \in Jobs /\ p[2] \in Nat
      BY <2>2
    <3>2. p[2] <= jobs[p[1]].claim
      BY <2>1 DEF SweepSparesWorkers
    <3>3. jobs'[p[1]].claim >= jobs[p[1]].claim
      BY <3>1, ClaimGrows
    <3>4. jobs[p[1]].claim \in Nat /\ jobs'[p[1]].claim \in Nat
      BY <3>1, JobFieldsType DEF TypeOK
    <3> QED
      BY <3>1, <3>2, <3>3, <3>4
  <2>4. ASSUME NEW w \in Workers, Holding(w)', OwnClaim(w)',
               worker'[w].job \in MatchedBySweep'
        PROVE  FALSE
    <3> DEFINE j == worker'[w].job
    <3>1. j \in Jobs /\ <<j, jobs'[j].claim>> \in sweep.old /\ j \notin sweep.skip
      BY <2>1, <2>4 DEF MatchedBySweep
    <3>2. <<j, jobs'[j].claim>>[2] <= jobs[<<j, jobs'[j].claim>>[1]].claim
      BY <2>1, <3>1 DEF SweepSparesWorkers
    <3>3. ASSUME NEW i \in Jobs, FreshClaim(w, i) PROVE FALSE
      <4>1. i = j /\ jobs'[i].claim = jobs[i].claim + 1 /\ jobs[i].claim \in Nat
        BY <3>3, ClaimedFields, JobFieldsType DEF FreshClaim, TypeOK
      <4> QED
        BY <4>1, <3>2
    <3>4. CASE HandKept(w)
      <4>1. Holding(w)
        BY <3>4, <2>4 DEF HandKept
      <4>2. /\ OwnClaim(w) /\ worker[w].job = j
            /\ jobs'[j].claim = jobs[j].claim
        BY <4>1, <3>4, <2>4, OwnedBefore
      <4>3. j \in MatchedBySweep
        BY <4>2, <3>1 DEF MatchedBySweep, OwnClaim
      <4> QED
        BY <4>1, <4>2, <4>3, <2>1 DEF SweepSparesWorkers
    <3> QED
      BY <3>3, <3>4, EveryHand
  <2> QED
    BY <2>1, <2>3, <2>4 DEF SweepSparesWorkers
<1> QED
  BY <1>1, <1>2

\* What a caller knows of its day stays true: an exhausted job never changes.
LEMMA CallersKept ==
    ASSUME TypeOK, CallersKnow, ExhaustionIsEarned, \A j \in Jobs : JobChange(j), [Next]_vars
    PROVE  CallersKnow'
<1>d. ASSUME NEW k, DayExhausted(k) PROVE DayExhausted(k)'
  <2>1. PICK j \in Jobs : KeyOf[j] = k /\ jobs[j].status = "failed" /\ jobs[j].exhausted
    BY <1>d DEF DayExhausted, JobsOf
  <2>2. jobs'[j] = jobs[j]
    BY <2>1, ChangeOfFields DEF Open, Inserted
  <2> QED
    BY <2>1, <2>2 DEF DayExhausted, JobsOf
<1> DEFINE CallerKnows(c) ==
       caller[c].pc # "idle" =>
          /\ caller[c].key \in Keys
          /\ caller[c].hopeless => DayExhausted(caller[c].key)
          /\ Source = "aizhan" /\ caller[c].hopeless /\ ~caller[c].force =>
                caller[c].pc = "exhausted"
<1>c. \A c \in Callers : CallerKnows(c)
  BY DEF CallersKnow
<1>s. ASSUME NEW c \in Callers, caller'[c] = caller[c] \/ caller'[c].pc = "idle"
      PROVE  CallerKnows(c)'
  BY <1>s, <1>c, <1>d
<1>1. ASSUME NEW c \in Callers, CallerStep(c) PROVE \A b \in Callers : CallerKnows(b)'
  <2>1. ASSUME NEW k \in Keys, NEW force \in BOOLEAN, QueueDomain(c, k, force)
        PROVE  CallerKnows(c)' /\ \A b \in Callers : b # c => caller'[b] = caller[b]
    <3>1. /\ caller'[c] = [pc |-> IF force THEN "insert"
                                 ELSE IF Source = "aizhan" THEN "exhausted" ELSE "succeeded",
                          key |-> k, force |-> force, hopeless |-> DayExhausted(k)]
          /\ \A b \in Callers : b # c => caller'[b] = caller[b]
      BY <2>1 DEF QueueDomain, TypeOK
    <3>2. /\ caller'[c].key = k /\ caller'[c].force = force
          /\ caller'[c].hopeless = DayExhausted(k)
          /\ Source = "aizhan" /\ ~force => caller'[c].pc = "exhausted"
      BY <3>1
    <3> QED
      BY <3>1, <3>2, <1>d
  <2>2. ASSUME NEW pc \in CallerPCs, CallGoto(c, pc), caller[c].pc # "idle",
               ~(Source = "aizhan" /\ caller[c].hopeless /\ ~caller[c].force)
        PROVE  CallerKnows(c)' /\ \A b \in Callers : b # c => caller'[b] = caller[b]
    <3>1. /\ caller'[c].pc = pc /\ caller'[c].key = caller[c].key
          /\ caller'[c].force = caller[c].force /\ caller'[c].hopeless = caller[c].hopeless
          /\ \A b \in Callers : b # c => caller'[b] = caller[b]
      BY <2>2, CallerMoves
    <3> QED
      BY <3>1, <2>2, <1>c, <1>d
  <2>3. ASSUME CallReturns(c)
        PROVE  caller'[c].pc = "idle" /\ \A b \in Callers : b # c => caller'[b] = caller[b]
    BY <2>3, CallerMoves
  <2>4. CASE CountExhausted(c)
    <3>1. caller[c].pc = "exhausted" /\ (CallReturns(c) \/ (/\ ~DayExhausted(caller[c].key)
                                                           /\ CallGoto(c, "succeeded")))
      BY <2>4 DEF CountExhausted
    <3> QED
      BY <3>1, <2>2, <2>3, <1>c, <1>s DEF CallerPCs
  <2>5. CASE CountSucceeded(c) \/ CountSnapshots(c)
    <3>1. /\ caller[c].pc \in {"succeeded", "snapshot"}
          /\ CallReturns(c) \/ CallGoto(c, "snapshot") \/ CallGoto(c, "insert")
      BY <2>5 DEF CountSucceeded, CountSnapshots
    <3> QED
      BY <3>1, <2>2, <2>3, <1>c, <1>s DEF CallerPCs
  <2>6. CASE InsertJob(c) \/ CallFails(c)
    BY <2>6, <2>3, <1>s DEF InsertJob, CallFails
  <2> QED
    BY <1>1, <2>1, <2>4, <2>5, <2>6, <1>s DEF CallerStep
<1>2. CASE \A c \in Callers : ~CallerStep(c)
  <2>1. caller' = caller \/ \A c \in Callers : caller'[c].pc = "idle"
    <3>1. ASSUME NEW w \in Workers, WorkerStep(w) PROVE caller' = caller
      BY <3>1, WorkerHand
    <3>2. ASSUME NEW d \in Domains, DomainStep(d) PROVE caller' = caller
      BY <3>2 DEF DomainStep, ArchiveDomain, CancelQueuedJobs, Cancelable, UpdateDomain, memory
    <3>3. ASSUME NEW j \in Jobs, BackoffElapses(j) \/ JobGrowsStale(j) PROVE caller' = caller
      BY <3>3 DEF BackoffElapses, JobGrowsStale, memory
    <3>4. NoCall.pc = "idle"
      BY DEF NoCall
    <3>5. CASE ProcessStep \/ StaleJobFilter \/ RecoverStaleJobs \/ UNCHANGED vars
      BY <3>4, <3>5 DEF ProcessStep, Shutdown, Crash, Exit, Restart, LoseMemory,
         StaleJobFilter, RecoverStaleJobs, vars
    <3> QED
      BY <1>2, <3>1, <3>2, <3>3, <3>5 DEF Next
  <2> QED
    BY <2>1, <1>s DEF CallersKnow
<1> QED
  BY <1>1, <1>2 DEF CallersKnow

\* What the registered claims cover after a step of a worker while the process is up.
LEMMA InflightKeptByWorker ==
    ASSUME TypeOK, ClaimsAreApart, WorkerKnows, InflightCoversWorkers, process = "up",
           NEW w \in Workers, WorkerStep(w)
    PROVE  InflightCoversWorkers'
<1> DEFINE j == worker[w].job
<1>t. /\ jobs \in [Jobs -> JobType] /\ worker \in [Workers -> WorkerType]
      /\ inflight \in SUBSET Jobs
  BY DEF TypeOK
<1>j. Holding(w) => j \in Jobs /\ jobs[j] \in JobType
  BY DEF ClaimsAreApart, TypeOK
<1>i. /\ \A v \in Workers : Holding(v) =>
            /\ worker[v].pc # "claimed" => worker[v].job \in inflight
            /\ jobs[worker[v].job].status = "running" => OwnClaim(v)
            /\ \A u \in Workers : Holding(u) /\ worker[u].job = worker[v].job => u = v
      /\ \A h \in inflight :
            /\ \E v \in Workers : Holding(v) /\ worker[v].job = h /\ worker[v].pc # "claimed"
            /\ jobs[h].status = "queued" => ~jobs[h].due
  BY DEF InflightCoversWorkers
<1>v. \A v \in Workers : v # w => worker'[v] = worker[v]
  BY WorkerHand
<1>1. ASSUME NEW i \in Jobs, ClaimNextJob(w, i) PROVE InflightCoversWorkers'
  <2>1. /\ jobs[i].status = "queued" /\ jobs[i].due /\ inflight' = inflight
        /\ jobs'[i] = Claimed(jobs[i])
        /\ \A h \in Jobs : h # i => jobs'[h] = jobs[h]
    BY <1>1, <1>t, ClaimedFields, SetJobEffect DEF ClaimNextJob
  <2>2. ASSUME NEW v \in Workers, Holding(v) PROVE worker[v].job # i /\ worker[v].job \in Jobs
    BY <2>1, <2>2, <1>i DEF ClaimsAreApart, WorkerKnows, Knows, Undecided, OwnClaim
  <2>3. i \notin inflight
    BY <2>2, <1>i
  <2>4. ~Holding(w)
    BY <1>1 DEF ClaimNextJob, Holding
  <2>5. CASE ~Holding(w)'
    <3>1. \A v \in Workers : Holding(v)' => /\ v # w /\ Holding(v) /\ worker'[v] = worker[v]
                                           /\ jobs'[worker[v].job] = jobs[worker[v].job]
      BY <2>1, <2>2, <2>5, <1>v DEF Holding
    <3>2. \A v \in Workers : Holding(v) => v # w /\ Holding(v)' /\ worker'[v] = worker[v]
      BY <2>4, <1>v DEF Holding
    <3>3. \A h \in inflight : jobs'[h] = jobs[h]
      BY <2>1, <2>3, <1>t
    <3> QED
      BY <3>1, <3>2, <3>3, <2>1, <1>i DEF InflightCoversWorkers, OwnClaim
  <2>6. CASE worker' = [worker EXCEPT ![w] =
                 [pc |-> "claimed", job |-> i, attempt |-> jobs[i].attempt + 1,
                  claim |-> jobs[i].claim + 1, exhausted |-> FALSE]]
    <3>1. /\ worker'[w].pc = "claimed" /\ worker'[w].job = i
          /\ worker'[w].attempt = jobs[i].attempt + 1
          /\ worker'[w].claim = jobs[i].claim + 1
      BY <2>6, <1>t
    <3>2. OwnClaim(w)'
      BY <3>1, <2>1, <1>t, ClaimedFields DEF OwnClaim
    <3>3. \A v \in Workers \ {w} : /\ worker'[v] = worker[v]
                                   /\ Holding(v)' <=> Holding(v)
                                   /\ Holding(v) => worker[v].job # i
                                   /\ Holding(v) => jobs'[worker[v].job] = jobs[worker[v].job]
      BY <2>1, <2>2, <1>v DEF Holding
    <3>4. \A h \in inflight : jobs'[h] = jobs[h]
      BY <2>1, <2>3, <1>t
    <3>5. ASSUME NEW v \in Workers, Holding(v)'
          PROVE  /\ worker'[v].pc # "claimed" => worker'[v].job \in inflight'
                 /\ jobs'[worker'[v].job].status = "running" => OwnClaim(v)'
                 /\ \A u \in Workers : Holding(u)' /\ worker'[u].job = worker'[v].job => u = v
      <4>1. CASE v = w
        BY <4>1, <3>1, <3>2, <3>3
      <4>2. CASE v # w
        BY <4>2, <3>1, <3>3, <3>5, <2>1, <1>i DEF OwnClaim
      <4> QED
        BY <4>1, <4>2
    <3>6. ASSUME NEW h \in inflight'
          PROVE  /\ \E v \in Workers :
                        Holding(v)' /\ worker'[v].job = h /\ worker'[v].pc # "claimed"
                 /\ jobs'[h].status = "queued" => ~jobs'[h].due
      BY <3>3, <3>4, <2>1, <2>4, <1>i
    <3> QED
      BY <3>5, <3>6 DEF InflightCoversWorkers
  <2>7. CASE worker' = [worker EXCEPT ![w] = AfterWork]
    BY <2>5, <2>7, <1>t, AfterWorkFields DEF Holding
  <2> QED
    BY <1>1, <2>6, <2>7 DEF ClaimNextJob
<1>2. CASE ForgetClaim(w)
  <2>1. /\ Holding(w) /\ inflight' = inflight \ {j} /\ jobs' = jobs
        /\ ~Holding(w)'
    BY <1>2, <1>t, AfterWorkFields DEF ForgetClaim, Holding, database
  <2>2. \A v \in Workers \ {w} : worker'[v] = worker[v] /\ (Holding(v)' <=> Holding(v))
    BY <1>v DEF Holding
  <2>3. ASSUME NEW v \in Workers, Holding(v)'
        PROVE  /\ worker'[v].pc # "claimed" => worker'[v].job \in inflight'
               /\ jobs'[worker'[v].job].status = "running" => OwnClaim(v)'
               /\ \A u \in Workers : Holding(u)' /\ worker'[u].job = worker'[v].job => u = v
    BY <2>1, <2>2, <2>3, <1>i DEF OwnClaim
  <2>4. ASSUME NEW h \in inflight'
        PROVE  /\ \E v \in Workers : Holding(v)' /\ worker'[v].job = h /\ worker'[v].pc # "claimed"
               /\ jobs'[h].status = "queued" => ~jobs'[h].due
    BY <2>1, <2>2, <1>i
  <2> QED
    BY <2>3, <2>4 DEF InflightCoversWorkers
<1>3. ASSUME Holding(w), Holding(w)',
             worker'[w].job = j, worker'[w].pc # "claimed",
             worker'[w].attempt = worker[w].attempt, worker'[w].claim = worker[w].claim,
             \/ inflight' = inflight /\ worker[w].pc # "claimed"
             \/ inflight' = inflight \cup {j},
             \A h \in Jobs : h # j => jobs'[h] = jobs[h],
             jobs'[j].status = "running" => jobs'[j] = jobs[j],
             jobs'[j].status = "queued" => ~jobs'[j].due
      PROVE  InflightCoversWorkers'
  <2>1. j \in inflight' /\ inflight \subseteq inflight' /\ inflight' \subseteq inflight \cup {j}
    BY <1>3, <1>i
  <2>2. \A v \in Workers \ {w} : /\ worker'[v] = worker[v]
                                 /\ Holding(v)' <=> Holding(v)
                                 /\ Holding(v) => /\ worker[v].job # j
                                                  /\ jobs'[worker[v].job] = jobs[worker[v].job]
    BY <1>3, <1>v, <1>i DEF Holding, ClaimsAreApart
  <2>3. ASSUME NEW v \in Workers, Holding(v)'
        PROVE  /\ worker'[v].pc # "claimed" => worker'[v].job \in inflight'
               /\ jobs'[worker'[v].job].status = "running" => OwnClaim(v)'
               /\ \A u \in Workers : Holding(u)' /\ worker'[u].job = worker'[v].job => u = v
    <3>1. CASE v = w
      <4>1. jobs'[j].status = "running" => OwnClaim(w)'
        BY <1>3, <1>i DEF OwnClaim
      <4> QED
        BY <4>1, <3>1, <2>1, <2>2, <1>3
    <3>2. CASE v # w
      BY <3>2, <2>1, <2>2, <2>3, <1>3, <1>i DEF OwnClaim
    <3> QED
      BY <3>1, <3>2
  <2>4. ASSUME NEW h \in inflight'
        PROVE  /\ \E v \in Workers : Holding(v)' /\ worker'[v].job = h /\ worker'[v].pc # "claimed"
               /\ jobs'[h].status = "queued" => ~jobs'[h].due
    <3>1. CASE h = j
      BY <3>1, <1>3
    <3>2. CASE h # j
      <4>1. h \in inflight /\ jobs'[h] = jobs[h]
        BY <3>2, <2>1, <1>3, <1>t
      <4>2. PICK v \in Workers : Holding(v) /\ worker[v].job = h /\ worker[v].pc # "claimed"
        BY <4>1, <1>i
      <4>3. v # w
        BY <3>2, <4>2
      <4> QED
        BY <4>1, <4>2, <4>3, <2>2, <1>i
    <3> QED
      BY <3>1, <3>2
  <2> QED
    BY <2>3, <2>4 DEF InflightCoversWorkers
<1>4. ASSUME NEW pc \in WorkerPCs \ {"claimed", "idle", "off"}, Goto(w, pc), Holding(w)
      PROVE  /\ Holding(w)' /\ worker'[w].job = j /\ worker'[w].pc # "claimed"
             /\ worker'[w].attempt = worker[w].attempt /\ worker'[w].claim = worker[w].claim
  BY <1>4, <1>t, GotoEffect DEF Holding
<1>5. CASE RegisterClaim(w)
  <2>1. Holding(w) /\ jobs' = jobs /\ inflight' = inflight \cup {j} /\ Goto(w, "fetch")
    BY <1>5 DEF RegisterClaim, Holding, database
  <2>2. jobs[j].status = "running"
    BY <1>5 DEF RegisterClaim, WorkerKnows, Knows, Undecided, OwnClaim
  <2>3. "fetch" \in WorkerPCs \ {"claimed", "idle", "off"}
    BY DEF WorkerPCs
  <2> QED
    BY <2>1, <2>2, <2>3, <1>3, <1>4
<1>6. CASE FetchReturns(w)
  <2>1. Holding(w) /\ worker[w].pc # "claimed" /\ jobs' = jobs /\ inflight' = inflight
    BY <1>6 DEF FetchReturns, Holding, database
  <2>2. jobs[j].status = "running"
    BY <1>6 DEF FetchReturns, WorkerKnows, Knows, Undecided, OwnClaim
  <2>3. /\ Holding(w)' /\ worker'[w].job = j /\ worker'[w].pc # "claimed"
        /\ worker'[w].attempt = worker[w].attempt /\ worker'[w].claim = worker[w].claim
    <3>1. CASE worker' = [worker EXCEPT ![w] = [@ EXCEPT !.pc = "failMetric",
                                                        !.exhausted = Progressive]]
      BY <3>1, <1>t DEF Holding, WorkerType
    <3>2. CASE Goto(w, "finish") \/ Goto(w, "saveMetric") \/ Goto(w, "retryMetric")
      BY <3>2, <2>1, <1>4 DEF WorkerPCs
    <3> QED
      BY <1>6, <3>1, <3>2 DEF FetchReturns
  <2> QED
    BY <2>1, <2>2, <2>3, <1>3
<1>7. CASE InvalidateWeightAttempt(w) \/ SaveMetric(w)
  <2>1. /\ Holding(w) /\ worker[w].pc # "claimed" /\ jobs' = jobs /\ inflight' = inflight
    BY <1>7 DEF InvalidateWeightAttempt, SaveMetric, Holding
  <2>2. jobs[j].status = "queued" => ~jobs[j].due
    BY <2>1, <1>i
  <2>3. \E pc \in WorkerPCs \ {"claimed", "idle", "off"} : Goto(w, pc)
    BY <1>7 DEF InvalidateWeightAttempt, SaveMetric, SaveFailed, WorkerPCs
  <2> QED
    BY <2>1, <2>2, <2>3, <1>3, <1>4
<1>8. CASE RetryJob(w) \/ MarkJobFailed(w) \/ SaveJobResult(w)
  <2>1. /\ Holding(w) /\ worker[w].pc # "claimed" /\ inflight' = inflight
    BY <1>8 DEF RetryJob, MarkJobFailed, SaveJobResult, Holding
  <2>2. j \in Jobs /\ jobs[j] \in JobType /\ worker[w].exhausted \in BOOLEAN
    BY <2>1, <1>j, <1>t DEF WorkerType
  <2>3. jobs[j].status = "queued" => ~jobs[j].due
    BY <2>1, <1>i
  <2>4. \E pc \in WorkerPCs \ {"claimed", "idle", "off"} : Goto(w, pc)
    BY <1>8 DEF RetryJob, MarkJobFailed, SaveJobResult, SaveFailed, WorkerPCs
  <2>5. \/ jobs' = jobs
        \/ \E new \in {Retried(jobs[j]), Failed(jobs[j], worker[w].exhausted),
                       Succeeded(jobs[j])} : SetJob(j, new)
    BY <1>8 DEF RetryJob, MarkJobFailed, SaveJobResult
  <2>6. \A new \in {Retried(jobs[j]), Failed(jobs[j], worker[w].exhausted),
                    Succeeded(jobs[j])} :
          new \in JobType /\ new.status # "running" /\ (new.status = "queued" => ~new.due)
    BY <2>2, RetriedFields, FailedFields, SucceededFields
  <2>7. /\ \A h \in Jobs : h # j => jobs'[h] = jobs[h]
        /\ jobs'[j].status = "running" => jobs'[j] = jobs[j]
        /\ jobs'[j].status = "queued" => ~jobs'[j].due
    BY <2>2, <2>3, <2>5, <2>6, <1>t, SetJobEffect
  <2> QED
    BY <2>1, <2>4, <2>7, <1>3, <1>4
<1>9. CASE ReleaseInterruptedJob(w) \/ WorkerReturns(w)
  BY <1>9 DEF ReleaseInterruptedJob, WorkerReturns, Canceled
<1> QED
  BY <1>1, <1>2, <1>5, <1>6, <1>7, <1>8, <1>9 DEF WorkerStep

\* What the registered claims cover after a step of any other actor, or a restart.
LEMMA InflightKept ==
    ASSUME TypeOK, ClaimsAreApart, WorkerKnows, InflightCoversWorkers, SweepSparesWorkers,
           MemoryIsLost, [Next]_vars
    PROVE  InflightCoversWorkers'
<1>t. jobs \in [Jobs -> JobType] /\ inflight \in SUBSET Jobs
  BY DEF TypeOK
<1> SUFFICES ASSUME process' = "up" PROVE InflightCoversWorkers'
  BY DEF InflightCoversWorkers
<1>1. ASSUME NEW w \in Workers, WorkerStep(w) PROVE InflightCoversWorkers'
  BY <1>1, WorkerHand, InflightKeptByWorker
<1>2. CASE Restart
  <2>1. inflight' = {} /\ \A w \in Workers : ~Holding(w)'
    BY <1>2 DEF Restart, MemoryIsLost, Holding, Unemployed
  <2> QED
    BY <2>1 DEF InflightCoversWorkers
<1>3. ASSUME process = "up", UNCHANGED <<worker, inflight>>,
             \A w \in Workers : Holding(w) =>
                LET j == worker[w].job
                IN  /\ jobs'[j].status = "running" => /\ jobs[j].status = "running"
                                                      /\ jobs'[j].attempt = jobs[j].attempt
                                                      /\ jobs'[j].claim = jobs[j].claim
                    /\ jobs'[j].status = "queued" => jobs'[j] = jobs[j]
      PROVE  InflightCoversWorkers'
  <2>1. /\ \A w \in Workers : Holding(w) =>
              /\ worker[w].pc # "claimed" => worker[w].job \in inflight
              /\ jobs[worker[w].job].status = "running" => OwnClaim(w)
              /\ \A v \in Workers : Holding(v) /\ worker[v].job = worker[w].job => v = w
        /\ \A h \in inflight :
              /\ \E w \in Workers : Holding(w) /\ worker[w].job = h /\ worker[w].pc # "claimed"
              /\ jobs[h].status = "queued" => ~jobs[h].due
    BY <1>3 DEF InflightCoversWorkers
  <2>2. \A w \in Workers : Holding(w)' <=> Holding(w)
    BY <1>3 DEF Holding
  <2>3. \A w \in Workers : Holding(w) /\ jobs'[worker[w].job].status = "running" => OwnClaim(w)'
    BY <1>3, <2>1 DEF OwnClaim
  <2>4. \A h \in inflight : jobs'[h].status = "queued" => ~jobs'[h].due
    BY <1>3, <2>1
  <2> QED
    BY <1>3, <2>1, <2>2, <2>3, <2>4 DEF InflightCoversWorkers
<1>h. \A w \in Workers : Holding(w) => worker[w].job \in Jobs
                                       /\ jobs[worker[w].job].status # "absent"
  BY DEF ClaimsAreApart
<1>4. ASSUME NEW i \in Jobs, BackoffElapses(i) PROVE InflightCoversWorkers'
  <2>1. /\ process = "up" /\ UNCHANGED <<worker, inflight>>
        /\ jobs[i].status = "queued" /\ i \notin inflight
        /\ \A h \in Jobs : h # i => jobs'[h] = jobs[h]
    BY <1>4, <1>t, FlagFields, SetJobEffect DEF BackoffElapses, memory
  <2>2. \A w \in Workers : Holding(w) => worker[w].job # i
    BY <2>1 DEF InflightCoversWorkers, WorkerKnows, Knows, Undecided, OwnClaim
  <2> QED
    BY <2>1, <2>2, <1>3, <1>h
<1>5. ASSUME NEW i \in Jobs, JobGrowsStale(i) PROVE InflightCoversWorkers'
  <2>0. process' = process
    BY <1>5 DEF JobGrowsStale, memory
  <2>1. /\ process = "up" /\ UNCHANGED <<worker, inflight>>
        /\ jobs[i].status = "running" /\ jobs'[i].status = "running"
        /\ jobs'[i].attempt = jobs[i].attempt /\ jobs'[i].claim = jobs[i].claim
        /\ \A h \in Jobs : h # i => jobs'[h] = jobs[h]
    <3>1. /\ process = "up" /\ UNCHANGED <<worker, inflight>>
          /\ jobs[i].status = "running" /\ SetJob(i, [jobs[i] EXCEPT !.stale = TRUE])
      BY <1>5, <2>0 DEF JobGrowsStale, memory
    <3>2. /\ jobs'[i] = [jobs[i] EXCEPT !.stale = TRUE]
          /\ \A h \in Jobs : h # i => jobs'[h] = jobs[h]
      BY <3>1, <1>t, FlagFields, SetJobEffect
    <3> QED
      BY <3>1, <3>2, <1>t, FlagFields
  <2> QED
    BY <2>1, <1>3, <1>h
<1>6. CASE RecoverStaleJobs
  <2>1. /\ process = "up" /\ UNCHANGED <<worker, inflight>> /\ sweep.pc = "update"
        /\ \A h \in Jobs : h \notin MatchedBySweep => jobs'[h] = jobs[h]
    BY <1>6 DEF RecoverStaleJobs
  <2>2. \A w \in Workers : Holding(w) => worker[w].job \notin MatchedBySweep
    BY <2>1 DEF SweepSparesWorkers, InflightCoversWorkers, MatchedBySweep
  <2> QED
    BY <2>1, <2>2, <1>3, <1>h
<1>7. ASSUME NEW c \in Callers, CallerStep(c) PROVE InflightCoversWorkers'
  <2>1. process = "up" /\ UNCHANGED <<worker, inflight>>
    BY <1>7 DEF CallerStep, QueueDomain, CountExhausted, CountSucceeded, CountSnapshots,
       InsertJob, CallFails
  <2>2. \A h \in Jobs : jobs[h].status # "absent" => jobs'[h] = jobs[h]
    <3>1. CASE InsertJob(c)
      BY <3>1, <1>t, NewJobFields, SetJobEffect DEF InsertJob, JobsOf
    <3>2. CASE ~InsertJob(c)
      BY <1>7, <3>2 DEF CallerStep, QueueDomain, CountExhausted, CountSucceeded,
         CountSnapshots, CallFails, database
    <3> QED
      BY <3>1, <3>2
  <2> QED
    BY <2>1, <2>2, <1>3, <1>h
<1>8. ASSUME NEW d \in Domains, DomainStep(d) PROVE InflightCoversWorkers'
  <2>1. process = "up" /\ UNCHANGED <<worker, inflight>>
    BY <1>8
    DEF DomainStep, ArchiveDomain, CancelQueuedJobs, Cancelable, UpdateDomain, Toggle, memory
  <2>2. \A h \in Jobs : jobs'[h] = jobs[h] \/ jobs'[h] = CanceledJob(jobs[h])
    BY <1>8 DEF DomainStep, ArchiveDomain, CancelQueuedJobs, Cancelable, UpdateDomain
  <2>3. \A h \in Jobs : CanceledJob(jobs[h]).status = "canceled"
    BY <1>t, CanceledFields
  <2> QED
    BY <2>1, <2>2, <2>3, <1>3, <1>h
<1>9. CASE StaleJobFilter \/ UNCHANGED vars
  <2>1. process = "up" /\ UNCHANGED <<worker, inflight, jobs>>
    BY <1>9 DEF StaleJobFilter, vars, database
  <2> QED
    BY <2>1, <1>3, <1>h
<1>10. CASE Shutdown \/ Crash \/ Exit
  BY <1>10 DEF Shutdown, Crash, Exit, LoseMemory
<1> QED
  BY <1>1, <1>2, <1>4, <1>5, <1>6, <1>7, <1>8, <1>9, <1>10 DEF Next, ProcessStep

\* While the process is down no goroutine of it moves.
LEMMA MemoryKept ==
    ASSUME TypeOK, MemoryIsLost, [Next]_vars
    PROVE  MemoryIsLost'
<1> SUFFICES ASSUME process' = "down" PROVE MemoryIsLost'
  BY DEF MemoryIsLost
<1>1. CASE Crash \/ Exit
  BY <1>1 DEF Crash, Exit, LoseMemory, MemoryIsLost, NoSweep, NoCall, Unemployed, Holding
<1>2. CASE process = "down" /\ UNCHANGED <<inflight, sweep, worker, caller>>
  BY <1>2 DEF MemoryIsLost, Holding
<1>3. ASSUME NEW w \in Workers, WorkerStep(w), process = "down" PROVE FALSE
  BY <1>3 DEF MemoryIsLost, Holding, WorkerStep, ClaimNextJob, RegisterClaim, FetchReturns,
     InvalidateWeightAttempt, RetryJob, MarkJobFailed, SaveMetric, SaveJobResult,
     ReleaseInterruptedJob, ForgetClaim, WorkerReturns, Canceled
<1>4. ASSUME NEW w \in Workers, WorkerStep(w) PROVE process' = process
  BY <1>4, WorkerHand
<1>5. ASSUME NEW c \in Callers, CallerStep(c) PROVE FALSE
  BY <1>5 DEF MemoryIsLost, CallerStep, QueueDomain, CountExhausted, CountSucceeded,
     CountSnapshots, InsertJob, CallFails
<1>6. ASSUME NEW d \in Domains, DomainStep(d)
      PROVE  process = "down" /\ UNCHANGED <<inflight, sweep, worker, caller>>
  BY <1>6 DEF DomainStep, ArchiveDomain, CancelQueuedJobs, Cancelable, UpdateDomain, memory
<1>7. ASSUME NEW j \in Jobs, BackoffElapses(j) \/ JobGrowsStale(j)
      PROVE  process = "down" /\ UNCHANGED <<inflight, sweep, worker, caller>>
  BY <1>7 DEF BackoffElapses, JobGrowsStale, memory
<1>8. ~Shutdown /\ ~Restart /\ ~StaleJobFilter /\ ~RecoverStaleJobs
  BY DEF Shutdown, Restart, StaleJobFilter, RecoverStaleJobs
<1>9. UNCHANGED vars => process = "down" /\ UNCHANGED <<inflight, sweep, worker, caller>>
  BY DEF vars
<1> QED
  BY <1>1, <1>2, <1>3, <1>4, <1>5, <1>6, <1>7, <1>8, <1>9 DEF Next, ProcessStep

-----------------------------------------------------------------------------
(***************************************************************************)
(* The induction                                                           *)
(***************************************************************************)
\* The initial state satisfies the inductive invariant.
LEMMA InitIInv == Init => IInv
<1> SUFFICES ASSUME Init PROVE IInv
  OBVIOUS
<1>1. TypeOK
  BY InitTypeOK
<1>2. \A j \in Jobs : /\ jobs[j] = AbsentJob /\ jobs[j].status = "absent"
                      /\ ~jobs[j].dedupe /\ ~jobs[j].exhausted /\ charged[j] = 0
  BY DEF Init, AbsentJob
<1>3. \A w \in Workers : worker[w].pc = "idle" /\ ~worker[w].exhausted /\ ~Holding(w)
  BY DEF Init, Unemployed, Holding
<1>4. /\ sweep.pc = "idle" /\ inflight = {} /\ process = "up"
      /\ \A c \in Callers : caller[c].pc = "idle"
  BY DEF Init, NoSweep, NoCall
<1>5. DedupeMatchesOpen /\ OneOpenJobPerKey /\ ExhaustionIsEarned
  BY <1>2 DEF DedupeMatchesOpen, OneOpenJobPerKey, ExhaustionIsEarned, Open
<1>6. AttemptsCoverCharges /\ AttemptsAreCharged
  BY <1>2 DEF AttemptsCoverCharges, AttemptsAreCharged, Open
<1>7. ClaimsAreApart /\ WorkerKnows /\ InflightCoversWorkers
  BY <1>3, <1>4 DEF ClaimsAreApart, WorkerKnows, Knows, Undecided, InflightCoversWorkers
<1>8. SweepSparesWorkers /\ CallersKnow /\ MemoryIsLost
  BY <1>4 DEF SweepSparesWorkers, CallersKnow, MemoryIsLost
<1> QED
  BY <1>1, <1>5, <1>6, <1>7, <1>8 DEF IInv

\* Every step, and every stutter, keeps the inductive invariant.
LEMMA NextIInv == IInv /\ [Next]_vars => IInv'
<1> SUFFICES ASSUME IInv, [Next]_vars PROVE IInv'
  OBVIOUS
<1>i. /\ TypeOK /\ DedupeMatchesOpen /\ OneOpenJobPerKey /\ ClaimsAreApart /\ WorkerKnows
      /\ InflightCoversWorkers /\ SweepSparesWorkers /\ AttemptsCoverCharges
      /\ AttemptsAreCharged /\ ExhaustionIsEarned /\ CallersKnow /\ MemoryIsLost
  BY DEF IInv
<1>1. TypeOK'
  BY <1>i, NextTypeOK DEF WorkerJobTyped, ClaimsAreApart
<1>2. \A j \in Jobs : JobChange(j)
  BY <1>i, NextChangesJobs
<1>3. DedupeMatchesOpen' /\ OneOpenJobPerKey'
  BY <1>i, <1>2, DedupeKept, OneOpenJobKept
<1>4. AttemptsCoverCharges' /\ AttemptsAreCharged' /\ ExhaustionIsEarned'
  BY <1>i, <1>2, AttemptsKept, ExhaustionKept
<1>5. ClaimsAreApart' /\ WorkerKnows'
  BY <1>i, <1>2, ClaimsKept, KnowledgeKept
<1>6. InflightCoversWorkers' /\ SweepSparesWorkers'
  BY <1>i, <1>1, <1>2, InflightKept, SweepKept
<1>7. CallersKnow' /\ MemoryIsLost'
  BY <1>i, <1>2, CallersKept, MemoryKept
<1> QED
  BY <1>1, <1>3, <1>4, <1>5, <1>6, <1>7 DEF IInv

\* IInv is an invariant: the strengthening every safety property below rests on.
THEOREM Invariance == Spec => []IInv
<1>1. Init => IInv
  BY InitIInv
<1>2. IInv /\ [Next]_vars => IInv'
  BY NextIInv
<1> QED
  BY <1>1, <1>2, PTL DEF Spec

\* Every variable keeps its type, for any number of workers, callers, jobs and days.
THEOREM TypeCorrect == Spec => []TypeOK
<1>1. IInv => TypeOK
  BY DEF IInv
<1> QED
  BY <1>1, Invariance, PTL

\* A domain and day never has two open jobs, whoever queues it and whatever fails.
THEOREM OneOpenJob == Spec => []OneOpenJobPerKey
<1>1. IInv => OneOpenJobPerKey
  BY DEF IInv
<1> QED
  BY <1>1, Invariance, PTL

\* An active worker owns the job it is about to settle, and is alone in doing so:
\* the writes by _id alone of SaveJobResult and MarkJobFailed hit no other claim.
THEOREM ClaimsAreExclusive == Spec => []ExclusiveClaim
<1>1. IInv => ExclusiveClaim
  <2> SUFFICES ASSUME IInv, NEW w \in Workers
               PROVE  /\ worker[w].pc \in Undecided => OwnClaim(w)
                      /\ worker[w].pc \in Settling =>
                            \A v \in Workers :
                               worker[v].pc \in Settling /\ worker[v].job = worker[w].job
                                   => v = w
    BY DEF ExclusiveClaim
  <2>1. WorkerKnows /\ ClaimsAreApart
    BY DEF IInv
  <2>2. \A v \in Workers : worker[v].pc \in Settling =>
            Holding(v) /\ worker[v].claim = jobs[worker[v].job].claim
    BY <2>1 DEF WorkerKnows, Knows, Settling, Undecided, Holding, OwnClaim, SavedUnheard
  <2>3. worker[w].pc \in Settling =>
            \A v \in Workers :
               worker[v].pc \in Settling /\ worker[v].job = worker[w].job => v = w
    BY <2>1, <2>2 DEF ClaimsAreApart
  <2> QED
    BY <2>1, <2>3 DEF WorkerKnows, Knows
<1> QED
  BY <1>1, Invariance, PTL

\* No restart, crash or lost answer costs the aizhan queue an attempt or gives it one.
THEOREM AttemptsAddUp == Spec => []AttemptsAreCharged
<1>1. IInv => AttemptsAreCharged
  BY DEF IInv
<1> QED
  BY <1>1, Invariance, PTL

\* A job is marked exhausted only after every recheck of the plan has failed.
THEOREM ExhaustionEarned == Spec => []ExhaustionIsEarned
<1>1. IInv => ExhaustionIsEarned
  BY DEF IInv
<1> QED
  BY <1>1, Invariance, PTL

\* An automatic call that starts on an exhausted day never reaches its insert.
THEOREM HopelessCallGivesUp == Spec => []AutomaticCallGivesUp
<1>1. IInv => AutomaticCallGivesUp
  BY DEF IInv, CallersKnow, AutomaticCallGivesUp
<1> QED
  BY <1>1, Invariance, PTL

\* A settled job is settled for good, but for a success nobody heard of.
THEOREM SettledJobsStay == Spec => SettledStaysSettled
<1> DEFINE Stays == \A j \in Jobs : jobs[j].status \in Terminal =>
               \/ jobs'[j].status = jobs[j].status
               \/ jobs[j].status = "succeeded" /\ jobs'[j].status = "failed"
<1>1. IInv /\ [Next]_vars => Stays
  <2> SUFFICES ASSUME IInv, [Next]_vars, NEW j \in Jobs, jobs[j].status \in Terminal
               PROVE  \/ jobs'[j].status = jobs[j].status
                      \/ jobs[j].status = "succeeded" /\ jobs'[j].status = "failed"
    OBVIOUS
  <2>1. TypeOK /\ JobChange(j)
    BY NextChangesJobs DEF IInv
  <2> QED
    BY <2>1, ChangeOfFields DEF Terminal, Open, Inserted
<1>2. IInv /\ [Next]_vars => [Stays]_vars
  BY <1>1
<1> QED
  BY <1>2, Invariance, PTL DEF Spec, SettledStaysSettled

-----------------------------------------------------------------------------
(***************************************************************************)
(* A queue with one worker saves a result before it reports a success.     *)
(***************************************************************************)

\* The worker that reports a success has saved the result, and nobody has invalidated it.
ResultSaved ==
    \A w \in Workers : worker[w].pc = "saveJob" => KeyOf[worker[w].job] \in stored

\* A job succeeds by SaveJobResult alone.
LEMMA SuccessIsReported ==
    ASSUME TypeOK, ClaimsAreApart, WorkerKnows, CallersKnow, [Next]_vars, NEW j \in Jobs,
           jobs[j].status # "succeeded", jobs'[j].status = "succeeded"
    PROVE  \E w \in Workers : worker[w].pc = "saveJob" /\ worker[w].job = j
<1> USE DEF TypeOK
<1>1. PICK job \in JobType : job = jobs[j]
  OBVIOUS
<1>2. ASSUME NEW w \in Workers, WorkerStep(w)
      PROVE  worker[w].pc = "saveJob" /\ worker[w].job = j
  <2>1. Holding(w) => worker[w].job \in Jobs /\ jobs[worker[w].job] \in JobType
    BY DEF ClaimsAreApart
  <2>2. ASSUME NEW i \in Jobs, NEW record \in JobType, SetJob(i, record)
        PROVE  i = j /\ record.status = "succeeded"
    BY <2>2, SetJobEffect
  <2>3. ~\E i \in Jobs : ClaimNextJob(w, i)
    <3>1. ASSUME NEW i \in Jobs, ClaimNextJob(w, i)
          PROVE  FALSE
      <4>1. /\ Claimed(jobs[i]) \in JobType /\ Claimed(jobs[i]).status = "running"
            /\ SetJob(i, Claimed(jobs[i]))
        BY <3>1, ClaimedFields DEF ClaimNextJob
      <4> QED
        BY <2>2, <4>1
    <3> QED
      BY <3>1
  <2>4. ~(RegisterClaim(w) \/ FetchReturns(w) \/ InvalidateWeightAttempt(w) \/ SaveMetric(w)
          \/ ForgetClaim(w) \/ WorkerReturns(w))
    BY DEF RegisterClaim, FetchReturns, InvalidateWeightAttempt, SaveMetric, ForgetClaim,
           WorkerReturns, database
  <2>5. ~RetryJob(w)
    <3>1. ASSUME RetryJob(w)
          PROVE  FALSE
      <4>1. worker[w].job \in Jobs /\ SetJob(worker[w].job, Retried(jobs[worker[w].job]))
        BY <2>1, <3>1 DEF RetryJob, Holding
      <4> QED
        BY <2>1, <2>2, <3>1, <4>1, RetriedFields DEF RetryJob, Holding
    <3> QED
      BY <3>1
  <2>6. ~MarkJobFailed(w)
    <3>1. ASSUME MarkJobFailed(w)
          PROVE  FALSE
      <4>1. /\ worker[w].job \in Jobs /\ jobs[worker[w].job] \in JobType
            /\ worker[w].exhausted \in BOOLEAN
            /\ SetJob(worker[w].job, Failed(jobs[worker[w].job], worker[w].exhausted))
        BY <2>1, <3>1 DEF MarkJobFailed, Holding, WorkerType
      <4> QED
        BY <2>2, <4>1, FailedFields
    <3> QED
      BY <3>1
  <2>7. ~ReleaseInterruptedJob(w)
    <3>1. ASSUME ReleaseInterruptedJob(w)
          PROVE  FALSE
      <4>1. /\ worker[w].job \in Jobs /\ jobs[worker[w].job] \in JobType
            /\ SetJob(worker[w].job, Released(jobs[worker[w].job]))
        BY <2>1, <3>1 DEF ReleaseInterruptedJob, Holding
      <4> QED
        BY <2>2, <4>1, ReleasedFields
    <3> QED
      BY <3>1
  <2>8. SaveJobResult(w)
    BY <1>2, <2>3, <2>4, <2>5, <2>6, <2>7 DEF WorkerStep
  <2>9. /\ worker[w].job \in Jobs /\ jobs[worker[w].job] \in JobType
        /\ SetJob(worker[w].job, Succeeded(jobs[worker[w].job]))
    BY <2>1, <2>8 DEF SaveJobResult, Holding
  <2> QED
    BY <2>2, <2>8, <2>9, SucceededFields DEF SaveJobResult
<1>3. ASSUME NEW i \in Jobs
      PROVE  ~(BackoffElapses(i) \/ JobGrowsStale(i))
  <2>1. ASSUME BackoffElapses(i) \/ JobGrowsStale(i)
        PROVE  FALSE
    <3>1. /\ jobs'[i] \in {[jobs[i] EXCEPT !.due = TRUE], [jobs[i] EXCEPT !.stale = TRUE]}
          /\ \A k \in Jobs : k # i => jobs'[k] = jobs[k]
      BY <2>1, FlagFields, SetJobEffect DEF BackoffElapses, JobGrowsStale
    <3>2. jobs'[i].status = jobs[i].status
      BY <3>1, FlagFields
    <3> QED
      BY <3>1, <3>2
  <2> QED
    BY <2>1
<1>4. ~(StaleJobFilter \/ RecoverStaleJobs)
  BY <1>1, RecoveredFields DEF StaleJobFilter, RecoverStaleJobs, MatchedBySweep, database
<1>5. ASSUME NEW c \in Callers
      PROVE  ~CallerStep(c)
  <2>1. ~InsertJob(c)
    BY NewJobFields, SetJobEffect DEF InsertJob, JobsOf
  <2> QED
    BY <2>1 DEF CallerStep, QueueDomain, CountExhausted, CountSucceeded, CountSnapshots,
                CallFails, database
<1>6. ASSUME NEW d \in Domains
      PROVE  ~DomainStep(d)
  BY <1>1, CanceledFields DEF DomainStep, ArchiveDomain, UpdateDomain, CancelQueuedJobs
<1>7. ~ProcessStep /\ ~UNCHANGED vars
  BY DEF ProcessStep, Shutdown, Crash, Exit, Restart, vars, database
<1> QED
  BY <1>2, <1>3, <1>4, <1>5, <1>6, <1>7 DEF Next

\* The only worker invalidates no result but that of an attempt that has failed.
LEMMA ResultStays ==
    ASSUME TypeOK, ClaimsAreApart, ResultSaved, [Next]_vars, \A v, w \in Workers : v = w
    PROVE  ResultSaved'
<1> USE DEF TypeOK
<1>1. SUFFICES ASSUME NEW w \in Workers, worker'[w].pc = "saveJob"
               PROVE  KeyOf[worker'[w].job] \in stored'
  BY DEF ResultSaved
<1>2. CASE WorkerStep(w)
  <2>1. ASSUME NEW pc \in WorkerPCs, Goto(w, pc)
        PROVE  pc = "saveJob" /\ worker'[w].job = worker[w].job
    BY <1>1, <2>1, GotoEffect
  <2>2. ~\E i \in Jobs : ClaimNextJob(w, i)
    BY <1>1, AfterWorkFields DEF ClaimNextJob
  <2>3. ~(RegisterClaim(w) \/ RetryJob(w) \/ MarkJobFailed(w) \/ ReleaseInterruptedJob(w)
          \/ WorkerReturns(w))
    BY <2>1 DEF RegisterClaim, RetryJob, MarkJobFailed, ReleaseInterruptedJob, WorkerReturns,
                WorkerPCs
  <2>4. ~FetchReturns(w)
    <3>1. ~(Goto(w, "finish") \/ Goto(w, "saveMetric") \/ Goto(w, "retryMetric"))
      BY <2>1 DEF WorkerPCs
    <3>2. ASSUME NEW b, worker' = [worker EXCEPT ![w] = [@ EXCEPT !.pc = "failMetric",
                                                                  !.exhausted = b]]
          PROVE  worker'[w].pc = "failMetric"
      BY <3>2 DEF WorkerType
    <3> QED
      BY <1>1, <3>1, <3>2 DEF FetchReturns
  <2>5. ~InvalidateWeightAttempt(w)
    BY <2>1 DEF InvalidateWeightAttempt, WorkerPCs
  <2>6. ~SaveJobResult(w)
    BY <2>1 DEF SaveJobResult, SaveFailed, WorkerPCs
  <2>7. ~ForgetClaim(w)
    BY <1>1, AfterWorkFields DEF ForgetClaim
  <2>8. SaveMetric(w)
    BY <1>2, <2>2, <2>3, <2>4, <2>5, <2>6, <2>7 DEF WorkerStep
  <2>9. Goto(w, "saveJob") /\ stored' = stored \cup {KeyOf[worker[w].job]}
    BY <2>1, <2>8 DEF SaveMetric, SaveFailed, Applied, WorkerPCs
  <2> QED
    BY <2>1, <2>9 DEF WorkerPCs
<1>3. CASE ~WorkerStep(w)
  <2>1. \A v \in Workers : ~WorkerStep(v)
    BY <1>3
  <2>2. ~ProcessStep \/ Shutdown
    BY <1>1, UnemployedType DEF ProcessStep, Crash, Exit, LoseMemory, Restart, WorkerPCs
  <2>3. UNCHANGED <<worker, stored>>
    BY <2>1, <2>2
    DEF Next, vars, memory, database, BackoffElapses, JobGrowsStale, StaleJobFilter,
        RecoverStaleJobs, CallerStep, QueueDomain, CountExhausted, CountSucceeded,
        CountSnapshots, InsertJob, CallFails, DomainStep, ArchiveDomain, CancelQueuedJobs,
        UpdateDomain, Shutdown
  <2> QED
    BY <1>1, <2>3 DEF ResultSaved
<1> QED
  BY <1>2, <1>3

\* With one worker, as the code runs the aizhan queue, no job is succeeded before the
\* document of its day holds a result.
THEOREM ResultIsSavedFirst ==
    (\A v, w \in Workers : v = w) => (Spec => ResultBeforeSuccess)
<1> SUFFICES ASSUME \A v, w \in Workers : v = w
             PROVE  Spec => ResultBeforeSuccess
  OBVIOUS
<1> DEFINE Before == \A j \in Jobs :
               jobs[j].status # "succeeded" /\ jobs'[j].status = "succeeded"
                   => KeyOf[j] \in stored
<1>1. Init => ResultSaved
  BY DEF Init, Unemployed, ResultSaved
<1>2. IInv /\ ResultSaved /\ [Next]_vars => ResultSaved'
  BY ResultStays DEF IInv
<1>3. IInv /\ ResultSaved /\ [Next]_vars => [Before]_vars
  BY SuccessIsReported DEF IInv, ResultSaved
<1> QED
  BY <1>1, <1>2, <1>3, Invariance, PTL DEF Spec, ResultBeforeSuccess

-----------------------------------------------------------------------------
(***************************************************************************)
(* JobQueue implements JobLifecycle: every step of a worker, of the sweep, *)
(* of a caller, of an archive or of the process is one step of a job's     *)
(* lifecycle, or none.                                                     *)
(***************************************************************************)

\* The refinement mapping's view of the jobs.
View == [j \in Jobs |-> StateOf(jobs[j].status)]

\* One job moves from one view to another, the rest look the same.
LEMMA OneJobBecomes ==
    ASSUME NEW j \in Jobs, NEW s, StateOf(jobs'[j].status) = s,
           \A i \in Jobs : i # j => Untouched(i)
    PROVE  Lifecycle!Become({j}, s)
BY DEF Lifecycle!Become, Untouched

\* A job in view of a step that changes it alone.
LEMMA OneJobStepRefines ==
    ASSUME TypeOK, AttemptsCoverCharges, AttemptsAreCharged, DedupeMatchesOpen, TypeOK',
           AttemptsCoverCharges',
           NEW j \in Jobs, JobChange(j), \A i \in Jobs : i # j => Untouched(i)
    PROVE  Lifecycle!LifecycleNext \/ UNCHANGED <<View, charged>>
<1> DEFINE old == jobs[j].status
           new == jobs'[j].status
<1>t. charged \in [Jobs -> Nat] /\ charged' \in [Jobs -> Nat] /\ MaxRetries \in Nat
  BY ConstantsAssumption DEF TypeOK
<1>o. \A i \in Jobs : i # j => charged'[i] = charged[i]
  BY DEF Untouched
<1>c. charged'[j] = charged[j] => charged' = charged
  BY <1>o, <1>t
<1>1. CASE StateOf(new) = StateOf(old) /\ charged'[j] = charged[j]
  BY <1>1, <1>c DEF View, Untouched
<1>2. CASE Inserted(j) /\ new = "queued" /\ charged'[j] = charged[j]
  <2>1. old = "absent" /\ \A i \in Jobs : KeyOf[i] = KeyOf[j] => jobs[i].status \notin Open
    BY <1>2 DEF Inserted, DedupeMatchesOpen
  <2>2. \A i \in Jobs : jobs[i].status \in Statuses
    BY JobFieldsType DEF TypeOK
  <2>3. \A i \in Jobs : KeyOf[i] = KeyOf[j] => StateOf(jobs[i].status) \in {"absent", "done"}
    BY <2>1, <2>2 DEF StateOf, Open, Statuses
  <2>4. Lifecycle!Become({j}, "waiting")
    BY <1>2, OneJobBecomes DEF StateOf
  <2>5. Lifecycle!Submit(j)
    BY <1>2, <1>c, <2>1, <2>3, <2>4 DEF Lifecycle!Submit, StateOf
  <2> QED
    BY <2>5 DEF Lifecycle!LifecycleNext
<1>3. CASE old = "queued" /\ new = "running" /\ charged'[j] = charged[j]
  <2>1. Lifecycle!Take(j)
    BY <1>3, <1>c, OneJobBecomes DEF Lifecycle!Take, StateOf
  <2> QED
    BY <2>1 DEF Lifecycle!LifecycleNext
<1>4. CASE old = "running" /\ new = "queued" /\ charged'[j] = charged[j] + 1
  <2>1. charged'[j] <= MaxRetries
    BY DEF AttemptsCoverCharges
  <2>2. charged[j] < MaxRetries
    BY <1>4, <1>t, <2>1
  <2>3. charged' = [charged EXCEPT ![j] = @ + 1]
    BY <1>4, <1>o, <1>t
  <2>4. Lifecycle!ChargeFailure(j)
    BY <1>4, <2>2, <2>3, OneJobBecomes DEF Lifecycle!ChargeFailure, StateOf
  <2> QED
    BY <2>4 DEF Lifecycle!LifecycleNext
<1>5. CASE old = "running" /\ new = "queued" /\ charged'[j] = charged[j]
  <2>1. Lifecycle!GiveBack({j})
    BY <1>5, <1>c, OneJobBecomes DEF Lifecycle!GiveBack, StateOf
  <2> QED
    BY <2>1 DEF Lifecycle!LifecycleNext
<1>6. CASE old = "running" /\ new \in Terminal /\ charged'[j] = charged[j]
  <2>1. Lifecycle!Settle(j)
    BY <1>6, <1>c, OneJobBecomes DEF Lifecycle!Settle, StateOf, Terminal
  <2> QED
    BY <2>1 DEF Lifecycle!LifecycleNext
<1>7. CASE old = "queued" /\ new \in Terminal /\ charged'[j] = charged[j]
  <2>1. Lifecycle!Drop({j})
    BY <1>7, <1>c, OneJobBecomes DEF Lifecycle!Drop, StateOf, Terminal
  <2> QED
    BY <2>1 DEF Lifecycle!LifecycleNext
<1>8. CASE old = "succeeded" /\ new = "failed" /\ charged'[j] = charged[j]
  BY <1>1, <1>8 DEF StateOf
<1> QED
  BY <1>1, <1>2, <1>3, <1>4, <1>5, <1>6, <1>7, <1>8, ChangeOfFields DEF Open, Terminal

\* A sweep gives back the jobs it matched, an archive drops the queued ones.
LEMMA ManyJobsStepRefines ==
    ASSUME TypeOK, SweptChange \/ CancelChange
    PROVE  Lifecycle!LifecycleNext
<1>t. \A j \in Jobs : jobs[j] \in JobType
  BY DEF TypeOK
<1>1. CASE SweptChange
  <2> DEFINE S == {j \in Jobs : jobs'[j] # jobs[j]}
  <2>1. \A j \in S : jobs[j].status = "running" /\ jobs'[j].status = "queued"
    BY <1>1, <1>t, RecoveredFields DEF SweptChange
  <2>2. Lifecycle!GiveBack(S)
    BY <1>1, <2>1 DEF SweptChange, Lifecycle!GiveBack, Lifecycle!Become, StateOf
  <2> QED
    BY <2>2 DEF Lifecycle!LifecycleNext
<1>2. CASE CancelChange
  <2> DEFINE S == {j \in Jobs : jobs'[j] # jobs[j]}
  <2>1. \A j \in S : jobs[j].status = "queued" /\ jobs'[j].status = "canceled"
    BY <1>2, <1>t, CanceledFields DEF CancelChange
  <2>2. Lifecycle!Drop(S)
    BY <1>2, <2>1 DEF CancelChange, Lifecycle!Drop, Lifecycle!Become, StateOf
  <2> QED
    BY <2>2 DEF Lifecycle!LifecycleNext
<1> QED
  BY <1>1, <1>2

\* The queue keeps the promise of JobLifecycle for any number of workers, callers,
\* jobs and days, and with any number of errors, restarts and archives.
THEOREM Implementation == Spec => ImplementsLifecycle
<1>1. Init => Lifecycle!LifecycleInit
  BY DEF Init, Lifecycle!LifecycleInit, AbsentJob, StateOf
<1>2. IInv /\ IInv' /\ [Next]_vars => [Lifecycle!LifecycleNext]_(Lifecycle!lifecycle)
  <2> SUFFICES ASSUME IInv, IInv', [Next]_vars
               PROVE  Lifecycle!LifecycleNext \/ UNCHANGED Lifecycle!lifecycle
    OBVIOUS
  <2>1. OneJobChange \/ SweptChange \/ CancelChange
    BY NextShape DEF IInv
  <2>2. CASE OneJobChange
    <3>1. Lifecycle!LifecycleNext \/ UNCHANGED <<View, charged>>
      BY <2>2, OneJobStepRefines DEF IInv, OneJobChange, View
    <3> QED
      BY <3>1 DEF View, Lifecycle!lifecycle
  <2>3. CASE SweptChange \/ CancelChange
    BY <2>3, ManyJobsStepRefines DEF IInv
  <2> QED
    BY <2>1, <2>2, <2>3
<1> QED
  BY <1>1, <1>2, Invariance, PTL DEF Spec, ImplementsLifecycle, Lifecycle!LifecycleSpec
=============================================================================
