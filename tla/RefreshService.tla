-------------------------- MODULE RefreshService --------------------------
(***************************************************************************)
(* What the title and the certificate service have in common: RefreshAsync *)
(* lets one refresh through at a time; its goroutine lists the domains and *)
(* hands them over an unbuffered channel to workers, that record progress. *)
(* Start-up, the scheduler and HTTP requests call RefreshAsync at will.    *)
(*                                                                         *)
(* What listing, checking and saving do is left open here: AgentRefresh,   *)
(* TitleRefresh and CertificateRefresh extend this module and say it.      *)
(*                                                                         *)
(* A definition marked "Slip" is no part of the specification: it is a     *)
(* plausible mistake in the definition below it, that a property notices.  *)
(***************************************************************************)
EXTENDS Naturals, FiniteSets

CONSTANTS
    Callers,        \* callers of RefreshAsync, each with the goroutine it starts
    Workers,        \* the workers of one refresh
    Domains,
    NoDomain,       \* what a worker without a domain has
    MaxRuns,        \* bound on the refreshes
    MaxRestarts     \* bound on the restarts of the server

ASSUME RefreshAssumption ==
    /\ IsFiniteSet(Callers) /\ IsFiniteSet(Domains) /\ NoDomain \notin Domains
    /\ IsFiniteSet(Workers) /\ Workers # {}
    /\ MaxRuns \in Nat /\ MaxRestarts \in Nat

VARIABLES
    refreshing,     \* the flag of the compare-and-swap
    progress,       \* what Progress returns
    run,            \* each caller's refresh: its position, and the domains left to hand out
    worker,         \* the workers of each refresh
    canceled,       \* the root context is done
    used            \* how much of each bound is spent

serviceVars == <<refreshing, progress, run, worker, canceled, used>>

Count == 0..Cardinality(Domains)
Progress ==
    [running : BOOLEAN, total : Count, completed : Count, succeeded : Count, failed : Count]
NoProgress ==
    [running |-> FALSE, total |-> 0, completed |-> 0, succeeded |-> 0, failed |-> 0]

RunType ==
    [pc : {"idle", "reset", "list", "handing", "waiting", "finish", "release"},
     left : SUBSET Domains]
NoRun == [pc |-> "idle", left |-> {}]

\* "none": not started, or returned.
WorkerType == [pc : {"none", "ready", "busy"}, domain : Domains \cup {NoDomain}]
NoWorker    == [pc |-> "none", domain |-> NoDomain]
ReadyWorker == [pc |-> "ready", domain |-> NoDomain]
Pool == Callers \X Workers

ServiceInit ==
    /\ refreshing = FALSE
    /\ progress = NoProgress
    /\ run = [c \in Callers |-> NoRun]
    /\ worker = [x \in Pool |-> NoWorker]
    /\ canceled = FALSE
    /\ used = [runs |-> 0, restarts |-> 0]

\* Slip: the flag is read first and set later.
RefreshAsyncUnguarded(c) ==
    /\ run[c].pc = "idle" /\ used.runs < MaxRuns
    /\ refreshing' = TRUE
    /\ run' = [run EXCEPT ![c].pc = "reset"]
    /\ used' = [used EXCEPT !.runs = @ + 1]
    /\ UNCHANGED <<progress, worker, canceled>>

\* The compare-and-swap succeeds; a call that finds it set changes nothing.
RefreshAsync(c) ==
    /\ run[c].pc = "idle" /\ used.runs < MaxRuns
    /\ ~refreshing
    /\ refreshing' = TRUE
    /\ run' = [run EXCEPT ![c].pc = "reset"]
    /\ used' = [used EXCEPT !.runs = @ + 1]
    /\ UNCHANGED <<progress, worker, canceled>>

\* The progress starts anew, and the goroutine is started.
ResetProgress(c) ==
    /\ run[c].pc = "reset"
    /\ progress' = [NoProgress EXCEPT !.running = TRUE]
    /\ run' = [run EXCEPT ![c].pc = "list"]
    /\ UNCHANGED <<refreshing, worker, canceled, used>>

\* refreshAll has listed the domains, and starts its workers.
Listed(c, domains) ==
    /\ run[c].pc = "list"
    /\ progress' = [progress EXCEPT !.total = Cardinality(domains)]
    /\ run' = [run EXCEPT ![c] = [pc |-> "handing", left |-> domains]]
    /\ worker' = [x \in Pool |-> IF x[1] = c THEN ReadyWorker ELSE worker[x]]
    /\ UNCHANGED <<refreshing, canceled, used>>

ListingFails(c) ==
    /\ run[c].pc = "list"
    /\ run' = [run EXCEPT ![c].pc = "finish"]
    /\ UNCHANGED <<refreshing, progress, worker, canceled, used>>

\* A worker that is ready takes the next domain from the unbuffered channel.
Hand(c, w) ==
    /\ run[c].pc = "handing" /\ worker[<<c, w>>].pc = "ready"
    /\ \E d \in run[c].left :
        /\ run' = [run EXCEPT ![c].left = @ \ {d}]
        /\ worker' = [worker EXCEPT ![<<c, w>>] = [pc |-> "busy", domain |-> d]]
    /\ UNCHANGED <<refreshing, progress, canceled, used>>

\* Everything is handed out, or the context is done: the channel is closed.
CloseJobs(c) ==
    /\ run[c].pc = "handing"
    /\ run[c].left = {} \/ canceled
    /\ run' = [run EXCEPT ![c] = [pc |-> "waiting", left |-> {}]]
    /\ UNCHANGED <<refreshing, progress, worker, canceled, used>>

\* Slip: a failure returns before the domain is counted as completed.
RecordIncompletely(c, w, ok) ==
    /\ worker[<<c, w>>].pc = "busy"
    /\ progress' = IF ok THEN [progress EXCEPT !.completed = @ + 1, !.succeeded = @ + 1]
                   ELSE [progress EXCEPT !.failed = @ + 1]
    /\ worker' = [worker EXCEPT ![<<c, w>>] = ReadyWorker]
    /\ UNCHANGED <<refreshing, run, canceled, used>>

\* recordProgress, after a check and a save.
Record(c, w, ok) ==
    /\ worker[<<c, w>>].pc = "busy"
    /\ progress' = [progress EXCEPT !.completed = @ + 1,
                                    !.succeeded = IF ok THEN @ + 1 ELSE @,
                                    !.failed = IF ok THEN @ ELSE @ + 1]
    /\ worker' = [worker EXCEPT ![<<c, w>>] = ReadyWorker]
    /\ UNCHANGED <<refreshing, run, canceled, used>>

\* A worker returns when it finds the channel closed.
Return(c, w) ==
    /\ worker[<<c, w>>].pc = "ready" /\ run[c].pc = "waiting"
    /\ worker' = [worker EXCEPT ![<<c, w>>] = NoWorker]
    /\ UNCHANGED <<refreshing, progress, run, canceled, used>>

\* Slip: the goroutine does not wait for its workers.
WaitForNone(c) ==
    /\ run[c].pc = "waiting"
    /\ run' = [run EXCEPT ![c].pc = "finish"]
    /\ UNCHANGED <<refreshing, progress, worker, canceled, used>>

\* waitGroup.Wait
Wait(c) ==
    /\ run[c].pc = "waiting"
    /\ \A w \in Workers : worker[<<c, w>>].pc = "none"
    /\ run' = [run EXCEPT ![c].pc = "finish"]
    /\ UNCHANGED <<refreshing, progress, worker, canceled, used>>

\* The deferred finishProgress...
FinishProgress(c) ==
    /\ run[c].pc = "finish"
    /\ progress' = [progress EXCEPT !.running = FALSE]
    /\ run' = [run EXCEPT ![c].pc = "release"]
    /\ UNCHANGED <<refreshing, worker, canceled, used>>

\* ... and, only then, the deferred release of the flag.
Release(c) ==
    /\ run[c].pc = "release"
    /\ refreshing' = FALSE
    /\ run' = [run EXCEPT ![c] = NoRun]
    /\ UNCHANGED <<progress, worker, canceled, used>>

\* A stop of the server is announced; nobody waits for the refreshes.
Cancel ==
    /\ ~canceled
    /\ canceled' = TRUE
    /\ UNCHANGED <<refreshing, progress, run, worker, used>>

\* A crash or the end of a stop, and the next start.
RestartService ==
    /\ used.restarts < MaxRestarts
    /\ used' = [used EXCEPT !.restarts = @ + 1]
    /\ refreshing' = FALSE
    /\ progress' = NoProgress
    /\ run' = [c \in Callers |-> NoRun]
    /\ worker' = [x \in Pool |-> NoWorker]
    /\ canceled' = FALSE

\* The goroutine of a refresh but for Hand, which a module that extends this one joins
\* with the beginning of a check.
List(c)      == \/ \E domains \in SUBSET Domains : Listed(c, domains)
                \/ ListingFails(c)
Goroutine(c) == \/ ResetProgress(c) \/ List(c) \/ CloseJobs(c) \/ Wait(c)
                \/ FinishProgress(c) \/ Release(c)

(***************************************************************************)
(* Properties                                                              *)
(***************************************************************************)
ServiceTypeOK ==
    /\ refreshing \in BOOLEAN
    /\ progress \in Progress
    /\ run \in [Callers -> RunType]
    /\ worker \in [Pool -> WorkerType]
    /\ canceled \in BOOLEAN
    /\ used \in [runs : 0..MaxRuns, restarts : 0..MaxRestarts]

Busy(c) == {w \in Workers : worker[<<c, w>>].pc = "busy"}

\* However many callers there are, one refresh is under way, and no two workers ever
\* have the same domain: the saves, that read before they write, rely on it.
OneRefresh ==
    /\ \A c \in Callers : run[c].pc # "idle" =>
          refreshing /\ \A b \in Callers \ {c} : run[b].pc = "idle"
    /\ \A x, y \in Pool : x # y /\ worker[x].pc = "busy" /\ worker[y].pc = "busy" =>
          worker[x].domain # worker[y].domain
    /\ \A c \in Callers, w \in Workers : worker[<<c, w>>].pc = "busy" =>
          run[c].pc \in {"handing", "waiting"} /\ worker[<<c, w>>].domain \notin run[c].left

\* The progress adds up, and says of a refresh under way how much of it is done;
\* what is missing at its end was left out because the context was done.
ProgressAddsUp ==
    /\ progress.completed = progress.succeeded + progress.failed
    /\ progress.completed <= progress.total
    /\ \A c \in Callers :
        LET rest == Cardinality(run[c].left) + Cardinality(Busy(c)) IN
        /\ run[c].pc \in {"list", "handing", "waiting", "finish"} => progress.running
        /\ run[c].pc \in {"handing", "waiting"} => progress.completed + rest <= progress.total
        /\ run[c].pc \in {"handing", "waiting", "finish"} /\ ~canceled =>
              progress.completed + rest = progress.total

\* Every refresh ends, and lets the next one through.
EveryRefreshEnds == refreshing ~> ~refreshing
=============================================================================
