--------------------------- MODULE ChinazSource ---------------------------
(***************************************************************************)
(* Chinaz, asked by the workers of two queues: the weights and the         *)
(* supplement.  They share one request slot, one pace and one circuit, the *)
(* time cooldownUntil before which no request may leave.  A block closes   *)
(* the circuit twice: readShared does it before it releases the slot, and  *)
(* recordResult, without the slot, makes it longer when blocks repeat.     *)
(*                                                                         *)
(* A definition marked "Slip" is no part of the specification: it is a     *)
(* plausible mistake in the definition below it, that a property notices.  *)
(***************************************************************************)
EXTENDS SourceCircuit

CONSTANTS
    Queues,               \* one worker each
    Requests,             \* how many requests a fetch of the queue makes at most
    Timeout               \* how long it may take: 2 and 3 minutes in the code

ASSUME ChinazAssumption ==
    /\ Nobody \notin Queues
    /\ Requests \in [Queues -> Nat \ {0}] /\ Timeout \in [Queues -> Nat \ {0}]

VARIABLES
    requestSlot,    \* whose request is under way; Nobody
    nextRequest,    \* when the next request may leave; time 0 is the zero time
    cooldownUntil,
    supplementFailures,
    worker,         \* each worker's position and what it knows
    lastRequest,    \* history: when the last request left
    refusals        \* history: the fetches this outage has cost each queue

source  == <<requestSlot, nextRequest, cooldownUntil, supplementFailures>>
chinazHistory == <<lastRequest, quietUntil, refusals>>
chinazVars == <<clock, source, worker, chinazHistory>>

IdleWorker == [pc |-> "idle", left |-> 0, wake |-> 0, deadline |-> 0,
               result |-> "ok", after |-> 0]

ChinazInit ==
    /\ clock = 1
    /\ requestSlot = Nobody
    /\ nextRequest = 0 /\ cooldownUntil = 0 /\ supplementFailures = 0
    /\ worker = [q \in Queues |-> IdleWorker]
    /\ lastRequest = 0 /\ quietUntil = 0 /\ refusals = [q \in Queues |-> 0]

ChinazTypeOK ==
    /\ clock \in Nat
    /\ requestSlot \in Queues \cup {Nobody}
    /\ nextRequest \in Nat /\ cooldownUntil \in Nat /\ supplementFailures \in Nat
    /\ worker \in [Queues ->
          [pc : {"idle", "gate", "claim", "ready", "hold", "begin", "slot", "check", "wait", "pace",
                 "request", "release", "merge", "record"},
           left : Nat, wake : Nat, deadline : Nat,
           result : {"ok", "failed", "blocked"}, after : Nat]]
    /\ lastRequest \in Nat /\ quietUntil \in Nat /\ refusals \in [Queues -> Nat]

(***************************************************************************)
(* Time                                                                    *)
(***************************************************************************)
Expired(q) == clock >= worker[q].deadline
WorkerWaits(q) ==
    \/ worker[q].pc = "idle"
    \/ worker[q].pc \in {"gate", "hold"} /\ clock < worker[q].wake
    \/ worker[q].pc = "slot" /\ requestSlot # Nobody /\ ~Expired(q)
    \/ worker[q].pc = "pace" /\ clock < worker[q].wake /\ ~Expired(q)
    \/ worker[q].pc = "request" /\ ~Expired(q)

ChinazTick ==
    /\ clock < MaxTime
    /\ \A q \in Queues : WorkerWaits(q)
    /\ clock' = clock + 1
    /\ UNCHANGED <<source, worker, chinazHistory>>

WorkerGoto(q, pc) == worker' = [worker EXCEPT ![q].pc = pc]

\* Reads until once and sleeps, or goes on; the time is not read again after the sleep.
Await(q, until, sleep, then) ==
    worker' = [worker EXCEPT ![q].pc   = IF until > clock THEN sleep ELSE then,
                             ![q].wake = IF until > clock THEN until ELSE 0]

Woken(q, sleep, then) ==
    /\ worker[q].pc = sleep
    /\ clock >= worker[q].wake
    /\ WorkerGoto(q, then)
    /\ UNCHANGED <<clock, source, chinazHistory>>

(***************************************************************************)
(* The worker: the gate, the claim, and the gate of Fetch again            *)
(***************************************************************************)
GateBeforeClaim(q) ==
    /\ worker[q].pc = "idle"
    /\ Await(q, cooldownUntil, "gate", "claim")
    /\ UNCHANGED <<clock, source, chinazHistory>>

GateOpens(q) == Woken(q, "gate", "claim")

\* ClaimNextJob finds a job, or the worker polls again later.
Claim(q) ==
    /\ worker[q].pc = "claim"
    /\ \/ WorkerGoto(q, "ready")
       \/ WorkerGoto(q, "idle")
    /\ UNCHANGED <<clock, source, chinazHistory>>

\* Slip: the worker has been at the gate already.
WaitReadySkipped(q) ==
    /\ worker[q].pc = "ready"
    /\ WorkerGoto(q, "begin")
    /\ UNCHANGED <<clock, source, chinazHistory>>

ChinazWaitReady(q) ==
    /\ worker[q].pc = "ready"
    /\ Await(q, cooldownUntil, "hold", "begin")
    /\ UNCHANGED <<clock, source, chinazHistory>>

Ready(q) == Woken(q, "hold", "begin")

\* The deadline of the fetch counts from here.
Begin(q) ==
    /\ worker[q].pc = "begin"
    /\ worker' = [worker EXCEPT ![q] = [IdleWorker EXCEPT !.pc = "slot", !.left = Requests[q],
                                                        !.deadline = clock + Timeout[q]]]
    /\ UNCHANGED <<clock, source, chinazHistory>>

(***************************************************************************)
(* readShared                                                              *)
(***************************************************************************)
\* The deadline of the fetch passes while it waits.
Expire(q) ==
    /\ worker[q].pc \in {"slot", "pace"}
    /\ Expired(q)
    /\ requestSlot' = IF requestSlot = q THEN Nobody ELSE requestSlot
    /\ worker' = [worker EXCEPT ![q].pc = "record", ![q].result = "failed", ![q].wake = 0]
    /\ UNCHANGED <<clock, nextRequest, cooldownUntil, supplementFailures, chinazHistory>>

TakeRequestSlot(q) ==
    /\ worker[q].pc = "slot"
    /\ requestSlot = Nobody
    /\ requestSlot' = q
    /\ WorkerGoto(q, "check")
    /\ UNCHANGED <<clock, nextRequest, cooldownUntil, supplementFailures, chinazHistory>>

\* Inside a cooldown the fetch is refused: an ordinary failure that costs an attempt.
CheckCircuit(q) ==
    /\ worker[q].pc = "check"
    /\ IF cooldownUntil > clock
       THEN /\ requestSlot' = Nobody
            /\ worker' = [worker EXCEPT ![q].pc = "record", ![q].result = "failed"]
            /\ refusals' = [refusals EXCEPT ![q] = @ + 1]
       ELSE /\ WorkerGoto(q, "wait")
            /\ UNCHANGED <<requestSlot, refusals>>
    /\ UNCHANGED <<clock, nextRequest, cooldownUntil, supplementFailures, lastRequest, quietUntil>>

\* Slip: the pace is counted from now, not from when this request will leave.
ReservedFromNow(delay) == clock + delay

Reserved(delay) == Later(clock, nextRequest) + delay

\* waitForSlot reserves the time after this request before it waits for its own.
WaitForSlot(q) ==
    /\ worker[q].pc = "wait"
    /\ \E delay \in MinDelay..MaxDelay : nextRequest' = Reserved(delay)
    /\ worker' = [worker EXCEPT ![q].pc = "pace", ![q].wake = Later(clock, nextRequest)]
    /\ UNCHANGED <<clock, requestSlot, cooldownUntil, supplementFailures, chinazHistory>>

Send(q) ==
    /\ worker[q].pc = "pace"
    /\ clock >= worker[q].wake /\ ~Expired(q)
    /\ worker' = [worker EXCEPT ![q].pc = "request", ![q].left = @ - 1, ![q].wake = 0]
    /\ lastRequest' = clock
    /\ UNCHANGED <<clock, source, quietUntil, refusals>>

\* sourceBlocked: 403, 429, a challenge, or an error with a Retry-After.
ChinazRespond(q) ==
    /\ worker[q].pc = "request"
    /\ \/ \E r \in {"ok", "failed"} :
            /\ worker' = [worker EXCEPT ![q].pc = "release", ![q].result = r]
            /\ UNCHANGED <<quietUntil, refusals>>
       \/ \E s \in RetryAfters :
            LET after == IF s = 0 THEN 0 ELSE clock + s IN
            /\ worker' = [worker EXCEPT ![q].pc = "release", ![q].result = "blocked",
                                        ![q].after = after]
            /\ quietUntil' = Later(quietUntil, Later(clock + BaseCooldown, after))
            /\ refusals' = [p \in Queues |-> 0]
    /\ UNCHANGED <<clock, source, lastRequest>>

\* Slip: the circuit is left to recordResult.
ClosedByRecordOnly(q) == cooldownUntil

ClosedBy(q) ==
    IF worker[q].result = "blocked" THEN Later(clock + BaseCooldown, worker[q].after)
    ELSE cooldownUntil

\* A block closes the circuit before the slot is released.
ReleaseSlot(q) ==
    /\ worker[q].pc = "release"
    /\ cooldownUntil' = ClosedBy(q)
    /\ requestSlot' = Nobody
    /\ WorkerGoto(q, IF worker[q].result = "ok" THEN "merge" ELSE "record")
    /\ UNCHANGED <<clock, nextRequest, supplementFailures, chinazHistory>>

(***************************************************************************)
(* fetchWeights and fetchSupplement after each answer, and recordResult    *)
(***************************************************************************)
\* The answer is parsed: it may be malformed, suffice, or call for another request.
Merge(q) ==
    /\ worker[q].pc = "merge"
    /\ \/ worker[q].left > 0 /\ WorkerGoto(q, "slot")
       \/ \E r \in {"ok", "failed"} :
            worker' = [worker EXCEPT ![q].pc = "record", ![q].result = r]
    /\ UNCHANGED <<clock, source, chinazHistory>>

RecordResult(q) ==
    /\ worker[q].pc = "record"
    /\ CASE worker[q].result = "ok" ->
              supplementFailures' = 0 /\ UNCHANGED cooldownUntil
         [] worker[q].result = "failed" ->
              UNCHANGED <<supplementFailures, cooldownUntil>>
         [] worker[q].result = "blocked" ->
              /\ supplementFailures' = supplementFailures + 1
              /\ cooldownUntil' = Later(clock + CooldownAfter(supplementFailures + 1),
                                        worker[q].after)
    /\ worker' = [worker EXCEPT ![q] = IdleWorker]
    /\ UNCHANGED <<clock, requestSlot, nextRequest, chinazHistory>>

ChinazNext ==
    \/ ChinazTick
    \/ \E q \in Queues :
        \/ GateBeforeClaim(q) \/ GateOpens(q) \/ Claim(q) \/ ChinazWaitReady(q) \/ Ready(q)
        \/ Begin(q) \/ Expire(q) \/ TakeRequestSlot(q) \/ CheckCircuit(q) \/ WaitForSlot(q)
        \/ Send(q) \/ ChinazRespond(q) \/ ReleaseSlot(q) \/ Merge(q) \/ RecordResult(q)

ChinazSpec == ChinazInit /\ [][ChinazNext]_chinazVars

(***************************************************************************)
(* Properties                                                              *)
(***************************************************************************)
Sends(q) == worker[q].pc = "pace" /\ worker'[q].pc = "request"

\* Once the source has asked for silence neither queue sends a request before the
\* cooldown and the Retry-After have passed, not even one that had been waiting for
\* the slot, or for its pace, when the answer came.
ChinazBlocksAreObeyed ==
    [][\A q \in Queues : Sends(q) => clock >= quietUntil]_chinazVars

\* Two requests, of whatever queues, leave at least MinDelay apart, and never while
\* another is under way.
RequestsArePaced ==
    [][\A q \in Queues : Sends(q) =>
          /\ lastRequest > 0 => clock >= lastRequest + MinDelay
          /\ \A p \in Queues : worker[p].pc # "request"]_chinazVars

\* An outage costs each queue at most one attempt of one job: the fetch that was
\* under way when it began.  The gate is passed twice to make it so, since a worker
\* that has slept at the gate does not read the time again.
OutageCostsOneAttempt == \A q \in Queues : refusals[q] <= 1
=============================================================================
