----------------------------- MODULE Collection -----------------------------
(***************************************************************************)
(* The daily collection as a whole: the domains, the three queues (aizhan, *)
(* the parent, and its children chinaz and chinaz_supplement), the days'   *)
(* metric documents, and who acts on all of them: main's start-up, the     *)
(* scheduled trigger (retention, domains file, QueueAll) and the requests  *)
(* that create, change, archive and collect domains.                       *)
(*                                                                         *)
(* A queue is seen from outside here, as what its jobs come to; JobQueue   *)
(* has its workers, recovery and lost answers in full.  No call is forced. *)
(* Each operation on one collection is a step, and may fail.               *)
(*                                                                         *)
(* A definition marked "Slip" is no part of the specification: it is a     *)
(* plausible mistake in the definition below it, that a property notices.  *)
(***************************************************************************)
EXTENDS Naturals, FiniteSets

CONSTANTS
    Domains,
    FileDomains,    \* the domains of DOMAINS_FILE
    Requests,       \* HTTP requests that may be under way at a time
    Main,           \* main's goroutine, then the cron's
    RetentionDays,
    NoItem,         \* nothing is being worked on
    Days,           \* bounds: the days on which something happens,
    MaxCalls,       \* triggers and requests,
    MaxClaims,      \* claims of the workers,
    MaxErrors,      \* failing operations,
    MaxRestarts     \* and restarts of the server

\* config.go validates the retention.
ASSUME CollectionAssumption ==
    /\ IsFiniteSet(Domains) /\ FileDomains \subseteq Domains
    /\ Main \notin Requests /\ NoItem \notin Domains \X Days
    /\ RetentionDays \in Nat \ {0}
    /\ Days \subseteq Nat /\ 0 \in Days
    /\ {MaxCalls, MaxClaims, MaxErrors, MaxRestarts} \subseteq Nat

VARIABLES
    \* --- MongoDB
    domain,     \* of each domain: "absent", "archived" or "active"
    jobs,       \* per queue, domain and day, what its latest job has come to
    docs,       \* the domains and days with a metric document
    \* --- the process
    process,    \* "starting", "queueing" (QUEUE_ON_START, workers run) or "serving"
    call,       \* what Main and the requests are doing
    worker,     \* per queue, the worker's position and the job it holds
    \* --- the clock, and bookkeeping of the model
    today,
    reported,   \* ghost: domains and days a QueueAll listed that returned no error
    cleaned,    \* ghost: the day of the last scheduled cleanup without an error
    late,       \* ghost: documents there are that a worker wrote whose job was gone
    used        \* how much of each bound is spent

vars == <<domain, jobs, docs, process, call, worker, today, reported, cleaned, late, used>>

Keys  == Domains \X Days        \* the domain and day of a job or a document
Queue == <<"aizhan", "chinaz", "chinaz_supplement">>
Queues   == {"aizhan", "chinaz", "chinaz_supplement"}
Children == Queues \ {"aizhan"}

Open     == {"queued", "running"}
Statuses == {"absent", "succeeded", "exhausted", "ended"} \cup Open

CallType ==
    [pc : {"idle", "clean", "sync", "backfill", "list", "queue", "archive"},
     left : SUBSET Keys,        \* what a loop has still to do
     item : Keys \cup {NoItem}, \* what its body is doing
     at : 1..4,                 \* the next collection of that body, 4 the documents
     day : Days,                \* the day when it began
     listed : SUBSET Keys]      \* ghost: what left was at the start of QueueAll
NoCall == [pc |-> "idle", left |-> {}, item |-> NoItem, at |-> 1, day |-> 0, listed |-> {}]

NoWork == [pc |-> "idle", key |-> NoItem]

Init ==
    /\ domain = [d \in Domains |-> "absent"]
    /\ jobs = [q \in Queues |-> [k \in Keys |-> "absent"]]
    /\ docs = {}
    /\ process = "starting"
    /\ call = [c \in Requests \cup {Main} |-> NoCall]
    /\ worker = [q \in Queues |-> NoWork]
    /\ today = 0
    /\ reported = {} /\ cleaned = 0 /\ late = {}
    /\ used = [calls |-> 0, claims |-> 0, errors |-> 0, restarts |-> 0]

Spend(what, max) == used[what] < max /\ used' = [used EXCEPT ![what] = @ + 1]
Fail == Spend("errors", MaxErrors)

\* The snapshot date is before the cutoff of a cleanup on this day.
Expired(k, day) == k[2] + RetentionDays < day

Set(q, k, status) == jobs' = [jobs EXCEPT ![q][k] = status]

CallIs(c, next) == call' = [call EXCEPT ![c] = next]
Ends(c) == CallIs(c, NoCall)

(***************************************************************************)
(* CleanupBefore                                                           *)
(***************************************************************************)
\* The secondary stores do not exist before EnableIndependentSources.
CleanedNext(at) == IF process = "starting" /\ at = 1 THEN 4 ELSE at + 1

\* The documents, or the jobs of queue q, that have expired.
DeleteDocs(day)    ==
    /\ docs' = {k \in docs : ~Expired(k, day)}
    /\ late' = late \cap docs'
    /\ UNCHANGED jobs
DeleteJobs(q, day) ==
    /\ jobs' = [jobs EXCEPT ![q] =
          [k \in Keys |-> IF Expired(k, day) THEN "absent" ELSE jobs[q][k]]]
    /\ UNCHANGED <<docs, late>>

\* Slip: the documents go first, and the parent's jobs last.
DeleteOutOfOrder(at, day) ==
    IF at = 1 THEN DeleteDocs(day) ELSE DeleteJobs(IF at = 4 THEN "aizhan" ELSE Queue[at], day)

\* One DeleteMany.
Delete(at, day) == IF at = 4 THEN DeleteDocs(day) ELSE DeleteJobs(Queue[at], day)

\* After the cleanup, whether it succeeds or not, comes the domains file, or none.
Sync(c, day) ==
    \E file \in {FileDomains, {}} :
        CallIs(c, [NoCall EXCEPT !.pc = "sync", !.day = day, !.left = file \X {day}])

CleanupBefore(c) ==
    LET at == call[c].at IN
    /\ call[c].pc = "clean"
    /\ \/ /\ Delete(at, call[c].day)
          /\ IF at = 4 THEN Sync(c, call[c].day)
                       ELSE CallIs(c, [call[c] EXCEPT !.at = CleanedNext(at)])
          /\ cleaned' = IF at = 4 /\ process = "serving" THEN call[c].day ELSE cleaned
          /\ UNCHANGED used
       \/ Fail /\ Sync(c, call[c].day) /\ UNCHANGED <<jobs, docs, late, cleaned>>
    /\ UNCHANGED <<domain, process, worker, today, reported>>

(***************************************************************************)
(* The domains file                                                        *)
(***************************************************************************)
ActivateMetricDomain(c) ==
    /\ call[c].pc = "sync"
    /\ \E k \in call[c].left :
        /\ domain' = [domain EXCEPT ![k[1]] = "active"]
        /\ CallIs(c, [call[c] EXCEPT !.left = @ \ {k}])
    /\ UNCHANGED <<jobs, docs, process, worker, today, reported, cleaned, late, used>>

\* A file that cannot be read or stored ends the trigger; at start-up, the process.
SyncFails(c) ==
    /\ call[c].pc = "sync"
    /\ Fail /\ Ends(c)
    /\ UNCHANGED <<domain, jobs, docs, process, worker, today, reported, cleaned, late>>

(***************************************************************************)
(* QueueDomain: the parent's queue, then each child's                      *)
(***************************************************************************)
\* A job proves the day done for this queue.  Unforced, aizhan's valid snapshot and its
\* succeeded job are the same: no later attempt invalidates one.
Proven(q) == IF q = "aizhan" THEN {"succeeded", "exhausted"} ELSE {"succeeded"}

\* queueDomain of one store for an active domain: a new job, unless one is open or
\* proves the day done.
Queued(q, k) == jobs' = IF jobs[q][k] \in Open \cup Proven(q) THEN jobs
                        ELSE [jobs EXCEPT ![q][k] = "queued"]

\* The items that a loop may go on with.
Turn(c) == IF call[c].item = NoItem THEN call[c].left ELSE {call[c].item}

\* Slip: the children follow the parent only if it has added a job.
AfterQueueIfAdded(c, k) ==
    IF call[c].at = 3 \/ (call[c].at = 1 /\ jobs["aizhan"][k] \in Open \cup Proven("aizhan"))
    THEN [call[c] EXCEPT !.left = @ \ {k}, !.item = NoItem, !.at = 1]
    ELSE [call[c] EXCEPT !.item = k, !.at = @ + 1]

\* The next queue, or, after the last, the next item.
AfterQueue(c, k) ==
    IF call[c].at = 3 THEN [call[c] EXCEPT !.left = @ \ {k}, !.item = NoItem, !.at = 1]
                      ELSE [call[c] EXCEPT !.item = k, !.at = @ + 1]

QueueDomain(c) ==
    /\ call[c].pc = "queue"
    /\ \E k \in Turn(c) :
        /\ domain[k[1]] = "active"
        /\ Queued(Queue[call[c].at], k)
        /\ CallIs(c, AfterQueue(c, k))
    /\ UNCHANGED <<domain, docs, process, worker, today, reported, cleaned, late, used>>

\* The domain has been archived, or an operation fails: QueueAll leaves out the rest.
QueueDomainFails(c) ==
    /\ call[c].pc = "queue"
    /\ \E k \in Turn(c) : IF domain[k[1]] = "active" THEN Fail ELSE UNCHANGED used
    /\ Ends(c)
    /\ UNCHANGED <<domain, jobs, docs, process, worker, today, reported, cleaned, late>>

\* QueueAll, or a single QueueDomain, is done with what it listed.
QueueReturns(c) ==
    /\ call[c].pc = "queue" /\ call[c].left = {}
    /\ reported' = reported \cup call[c].listed
    /\ Ends(c)
    /\ UNCHANGED <<domain, jobs, docs, process, worker, today, cleaned, late, used>>

Queueing(keys, day) ==
    [NoCall EXCEPT !.pc = "queue", !.left = keys, !.day = day, !.listed = keys]

QueueAll(c) ==
    /\ call[c].pc = "list"
    /\ \/ /\ CallIs(c, Queueing({d \in Domains : domain[d] = "active"} \X {call[c].day},
                              call[c].day))
          /\ UNCHANGED used
       \/ Fail /\ Ends(c)
    /\ UNCHANGED <<domain, jobs, docs, process, worker, today, reported, cleaned, late>>

(***************************************************************************)
(* Main: start-up and the scheduled trigger                                *)
(***************************************************************************)
\* Start-up begins with a cleanup.
Start ==
    /\ process = "starting" /\ call[Main].pc = "idle"
    /\ CallIs(Main, [NoCall EXCEPT !.pc = "clean", !.day = today])
    /\ UNCHANGED <<domain, jobs, docs, process, worker, today, reported, cleaned, late, used>>

\* Slip: a running job is left to its worker.
SplitQueued == {k \in Keys : jobs["aizhan"][k] = "queued"}

\* The parent's open jobs that BackfillSupplementJobs finds.
Split == {k \in Keys : jobs["aizhan"][k] \in Open}

\* The file is in the database: start-up goes on to enable and fill the children's
\* queues, the trigger to QueueAll.
SyncEnds(c) ==
    /\ call[c].pc = "sync" /\ call[c].left = {}
    /\ CallIs(c, IF process = "starting"
                 THEN [NoCall EXCEPT !.pc = "backfill", !.left = Split, !.at = 2, !.day = today]
                 ELSE [NoCall EXCEPT !.pc = "list", !.day = today])
    /\ UNCHANGED <<domain, jobs, docs, process, worker, today, reported, cleaned, late, used>>

\* A child's job for an open parent job; that of an archived domain is passed over.
BackfillSupplementJobs(c) ==
    /\ call[c].pc = "backfill"
    /\ \E k \in Turn(c) :
        IF domain[k[1]] = "active"
        THEN /\ Queued(Queue[call[c].at], k)
             /\ CallIs(c, IF call[c].at = 3
                          THEN [call[c] EXCEPT !.left = @ \ {k}, !.item = NoItem, !.at = 2]
                          ELSE [call[c] EXCEPT !.item = k, !.at = 3])
        ELSE /\ CallIs(c, [call[c] EXCEPT !.left = @ \ {k}]) /\ UNCHANGED jobs
    /\ UNCHANGED <<domain, docs, process, worker, today, reported, cleaned, late, used>>

\* Any other error of the start-up ends the process, that is started again.
BackfillFails(c) ==
    /\ call[c].pc = "backfill"
    /\ Fail /\ Ends(c)
    /\ UNCHANGED <<domain, jobs, docs, process, worker, today, reported, cleaned, late>>

\* The workers start; with QUEUE_ON_START, QueueAll comes before the cron and HTTP.
WorkersStart(c) ==
    /\ call[c].pc = "backfill" /\ call[c].left = {}
    /\ \/ process' = "serving" /\ Ends(c)
       \/ process' = "queueing" /\ CallIs(c, [NoCall EXCEPT !.pc = "list", !.day = today])
    /\ UNCHANGED <<domain, jobs, docs, worker, today, reported, cleaned, late, used>>

Serve ==
    /\ process = "queueing" /\ call[Main].pc = "idle"
    /\ process' = "serving"
    /\ UNCHANGED <<domain, jobs, docs, call, worker, today, reported, cleaned, late, used>>

\* COLLECT_CRON.  Assumption on time: a trigger has ended when the next one comes.
Trigger ==
    /\ process = "serving" /\ call[Main].pc = "idle"
    /\ Spend("calls", MaxCalls)
    /\ CallIs(Main, [NoCall EXCEPT !.pc = "clean", !.day = today])
    /\ UNCHANGED <<domain, jobs, docs, process, worker, today, reported, cleaned, late>>

\* A crash, or a stop; what the workers held stays running until it is recovered.
Restart ==
    /\ Spend("restarts", MaxRestarts)
    /\ process' = "starting"
    /\ call' = [c \in Requests \cup {Main} |-> NoCall]
    /\ worker' = [q \in Queues |-> NoWork]
    /\ UNCHANGED <<domain, jobs, docs, today, reported, cleaned, late>>

(***************************************************************************)
(* Requests                                                                *)
(***************************************************************************)
Request(c) == process = "serving" /\ call[c].pc = "idle" /\ Spend("calls", MaxCalls)

\* POST /domains, and each of the bulk request's domains; an archived one is a conflict.
CreateDomain(c, d) ==
    /\ Request(c) /\ domain[d] = "absent"
    /\ domain' = [domain EXCEPT ![d] = "active"]
    /\ UNCHANGED <<jobs, docs, process, call, worker, today, reported, cleaned, late>>

\* PATCH active
UpdateDomain(c, d) ==
    /\ Request(c) /\ domain[d] # "absent"
    /\ \E s \in {"active", "archived"} \ {domain[d]} : domain' = [domain EXCEPT ![d] = s]
    /\ UNCHANGED <<jobs, docs, process, call, worker, today, reported, cleaned, late>>

\* DELETE: the domain, ...
ArchiveDomain(c, d) ==
    /\ Request(c) /\ domain[d] # "absent"
    /\ domain' = [domain EXCEPT ![d] = "archived"]
    /\ CallIs(c, [NoCall EXCEPT !.pc = "archive", !.item = <<d, today>>, !.day = today])
    /\ UNCHANGED <<jobs, docs, process, worker, today, reported, cleaned, late>>

\* ... then its queued jobs of any day, queue by queue; only a child's error is returned.
CancelQueuedJobs(c) ==
    LET at == call[c].at
        q  == Queue[at]
    IN  /\ call[c].pc = "archive"
        /\ \/ /\ jobs' = [jobs EXCEPT ![q] = [k \in Keys |->
                    IF k[1] = call[c].item[1] /\ jobs[q][k] = "queued" THEN "ended"
                    ELSE jobs[q][k]]]
              /\ UNCHANGED used
              /\ IF at = 3 THEN Ends(c) ELSE CallIs(c, [call[c] EXCEPT !.at = @ + 1])
           \/ /\ Fail /\ UNCHANGED jobs
              /\ IF at = 1 THEN CallIs(c, [call[c] EXCEPT !.at = 2]) ELSE Ends(c)
        /\ UNCHANGED <<domain, docs, process, worker, today, reported, cleaned, late>>

\* POST /domains/{id}/collect
CollectDomain(c, d) ==
    /\ Request(c) /\ domain[d] # "absent"
    /\ CallIs(c, Queueing({<<d, today>>}, today))
    /\ UNCHANGED <<domain, jobs, docs, process, worker, today, reported, cleaned, late>>

\* POST /collect
CollectAll(c) ==
    /\ Request(c)
    /\ CallIs(c, [NoCall EXCEPT !.pc = "list", !.day = today])
    /\ UNCHANGED <<domain, jobs, docs, process, worker, today, reported, cleaned, late>>

(***************************************************************************)
(* The queues, from outside                                                *)
(***************************************************************************)
ClaimNextJob(q) ==
    /\ process # "starting" /\ worker[q].pc = "idle"
    /\ Spend("claims", MaxClaims)
    /\ \E k \in Keys :
        /\ jobs[q][k] = "queued"
        /\ Set(q, k, "running")
        /\ worker' = [worker EXCEPT ![q] = [pc |-> "fetch", key |-> k]]
    /\ UNCHANGED <<domain, docs, process, call, today, reported, cleaned, late>>

\* A write of the job by _id: it matches nothing once the job is deleted.
Settle(q, k, status) ==
    IF jobs[q][k] = "running" THEN Set(q, k, status) ELSE UNCHANGED jobs

\* SaveJobResult: the document, an upsert that asks for no job, ...
SaveMetric(q) ==
    LET k == worker[q].key IN
    /\ worker[q].pc = "fetch"
    /\ docs' = docs \cup {k}
    /\ late' = IF jobs[q][k] = "running" THEN late ELSE late \cup {k}
    /\ worker' = [worker EXCEPT ![q].pc = "saved"]
    /\ UNCHANGED <<domain, jobs, process, call, today, reported, cleaned, used>>

\* ... and the job.
SaveJobResult(q) ==
    /\ worker[q].pc = "saved"
    /\ Settle(q, worker[q].key, "succeeded")
    /\ worker' = [worker EXCEPT ![q] = NoWork]
    /\ UNCHANGED <<domain, docs, process, call, today, reported, cleaned, late, used>>

\* RetryJob, or MarkJobFailed after the last attempt or a failing write.
AttemptFails(q) ==
    /\ worker[q].pc # "idle"
    /\ \E status \in {"queued", "exhausted", "ended"} :
        /\ status = "exhausted" => q = "aizhan"
        /\ worker[q].pc = "saved" => status = "ended"
        /\ Settle(q, worker[q].key, status)
    /\ worker' = [worker EXCEPT ![q] = NoWork]
    /\ UNCHANGED <<domain, docs, process, call, today, reported, cleaned, late, used>>

\* What a former process has left running.
RecoverStaleJobs(q) ==
    /\ process # "starting"
    /\ \E k \in Keys :
        /\ jobs[q][k] = "running" /\ worker[q].key # k
        /\ Set(q, k, "queued")
    /\ UNCHANGED <<domain, docs, process, call, worker, today, reported, cleaned, late, used>>

\* Assumption on time: a call ends on the day it began, or the next.
NextDay ==
    /\ \E day \in Days :
        /\ day > today
        /\ \A c \in DOMAIN call : call[c].pc = "idle" \/ call[c].day + 1 >= day
        /\ today' = day
    /\ UNCHANGED <<domain, jobs, docs, process, call, worker, reported, cleaned, late, used>>

(***************************************************************************)
(* The specification                                                       *)
(***************************************************************************)
MainStep(c) ==
    \/ CleanupBefore(c) \/ ActivateMetricDomain(c) \/ SyncFails(c) \/ SyncEnds(c)
    \/ BackfillSupplementJobs(c) \/ BackfillFails(c) \/ WorkersStart(c)

CallStep(c) ==
    QueueAll(c) \/ QueueDomain(c) \/ QueueDomainFails(c) \/ QueueReturns(c) \/ CancelQueuedJobs(c)

RequestStep(c) ==
    \/ \E d \in Domains :
        CreateDomain(c, d) \/ UpdateDomain(c, d) \/ ArchiveDomain(c, d) \/ CollectDomain(c, d)
    \/ CollectAll(c)

WorkerStep(q) ==
    \/ ClaimNextJob(q) \/ SaveMetric(q) \/ SaveJobResult(q) \/ AttemptFails(q)
    \/ RecoverStaleJobs(q)

Next ==
    \/ Start \/ Serve \/ Trigger \/ Restart \/ NextDay
    \/ MainStep(Main)
    \/ \E c \in Requests \cup {Main} : CallStep(c)
    \/ \E c \in Requests : RequestStep(c)
    \/ \E q \in Queues : WorkerStep(q)

Spec == Init /\ [][Next]_vars

(***************************************************************************)
(* Properties                                                              *)
(***************************************************************************)
TypeOK ==
    /\ domain \in [Domains -> {"absent", "archived", "active"}]
    /\ jobs \in [Queues -> [Keys -> Statuses]]
    /\ docs \subseteq Keys
    /\ process \in {"starting", "queueing", "serving"}
    /\ call \in [Requests \cup {Main} -> CallType]
    /\ worker \in [Queues -> [pc : {"idle", "fetch", "saved"}, key : Keys \cup {NoItem}]]
    /\ today \in Days /\ cleaned \in Days
    /\ reported \subseteq Keys /\ late \subseteq Keys
    /\ used \in [calls : 0..MaxCalls, claims : 0..MaxClaims, errors : 0..MaxErrors,
                 restarts : 0..MaxRestarts]

\* A QueueAll, or a QueueDomain, that returns no error has left every domain it listed
\* with a job of the day in each of the three queues, until the retention deletes it:
\* whatever an earlier call that broke off between two queues has left, the workers
\* have done meanwhile, or an archive has canceled.
QueueAllIsComplete ==
    \A k \in reported, q \in Queues : ~Expired(k, today) => jobs[q][k] # "absent"

\* A scheduled cleanup that returned no error leaves nothing of the days before its
\* cutoff, whatever the workers had claimed of them: no job of any queue, and no
\* document but one that a worker has saved since its job was deleted.  At no time
\* does a cleanup leave a succeeded aizhan job whose document is gone.
ExpiredIsGone ==
    /\ \A k \in Keys : Expired(k, cleaned) =>
        /\ \A q \in Queues : jobs[q][k] = "absent"
        /\ k \in docs => k \in late
    /\ \A k \in Keys : jobs["aizhan"][k] = "succeeded" => k \in docs

\* When the workers start, the children have a job, open or succeeded, for each open
\* job of the parent whose domain is active, whatever a call or a start-up that a crash
\* or an error cut short has left, and whether the parent's job was waiting or running.
SplitIsRepaired ==
    [][process = "starting" /\ process' # "starting" =>
          \A k \in Keys, q \in Children :
              jobs["aizhan"][k] \in Open /\ domain[k[1]] = "active"
                  => jobs[q][k] \in Open \cup {"succeeded"}]_vars
=============================================================================
