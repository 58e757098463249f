--------------------------- MODULE AizhanSource ---------------------------
(***************************************************************************)
(* The Aizhan scraper: one request at a time, the gap between two requests *)
(* stretched by the attempt the job is at, and the cooldown of the source. *)
(* FetchAttempt asks the agent, if there is one, and then at most once the *)
(* site itself; without an agent it asks the site up to Retries times.     *)
(*                                                                         *)
(* A definition marked "Slip" is no part of the specification: it is a     *)
(* plausible mistake in the definition below it, that a property notices.  *)
(***************************************************************************)
EXTENDS SourceCircuit

CONSTANTS
    Callers,              \* the goroutines that fetch
    Retries,              \* SCRAPE_RETRIES
    Attempts,             \* attempt counts of the jobs that are fetched
    MaxDuration

\* NewAizhan and config.go validate the retries.
ASSUME AizhanAssumption ==
    /\ Nobody \notin Callers
    /\ Retries \in Nat \ {0} /\ Attempts \subseteq Nat
    /\ MaxDuration \in Nat /\ MaxDelay <= MaxDuration

VARIABLES
    hasAgent,       \* AIZHAN_AGENT_URL is configured; never changes
    slot,           \* who may ask the site; Nobody
    next, lastFinished, lastDelay,      \* the pacing; time 0 is the zero time
    cooldown, failures,                 \* the circuit
    caller,         \* each caller's position and what it knows
    promisedUntil   \* history: the end of the gap the last request left behind

pacing  == <<next, lastFinished, lastDelay>>
circuit == <<cooldown, failures>>
aizhanHistory == <<promisedUntil, quietUntil>>
aizhanVars == <<hasAgent, clock, slot, pacing, circuit, caller, aizhanHistory>>

\* good: the page parses; retry: a transport failure; refused: 403, 429 or a challenge.
Responses ==
    {r \in [good : BOOLEAN, retry : BOOLEAN, refused : BOOLEAN, after : Nat] :
        ~(r.good /\ (r.retry \/ r.refused)) /\ ~(r.retry /\ r.refused)}
NoResponse == [good |-> TRUE, retry |-> FALSE, refused |-> FALSE, after |-> 0]

IdleCaller == [pc |-> "idle", attemptCount |-> 0, request |-> 0, viaAgent |-> FALSE,
               wake |-> 0, response |-> NoResponse]

AizhanInit ==
    /\ hasAgent \in BOOLEAN
    /\ clock = 1
    /\ slot = Nobody
    /\ next = 0 /\ lastFinished = 0 /\ lastDelay = 0
    /\ cooldown = 0 /\ failures = 0
    /\ caller = [c \in Callers |-> IdleCaller]
    /\ promisedUntil = 0 /\ quietUntil = 0

AizhanTypeOK ==
    /\ hasAgent \in BOOLEAN
    /\ clock \in Nat
    /\ slot \in Callers \cup {Nobody}
    /\ next \in Nat /\ lastFinished \in Nat /\ lastDelay \in Nat
    /\ cooldown \in Nat /\ failures \in Nat
    /\ caller \in [Callers ->
          [pc : {"idle", "slot", "prepare", "gate", "sleep", "request", "judge"},
           attemptCount : Nat, request : 0..2, viaAgent : BOOLEAN, wake : Nat,
           response : Responses]]
    /\ promisedUntil \in Nat /\ quietUntil \in Nat

(***************************************************************************)
(* Durations                                                               *)
(***************************************************************************)
Multiplier(attemptCount) ==
    CASE attemptCount <= 1 -> 1
      [] attemptCount = 2  -> 2
      [] attemptCount = 3  -> 4
      [] OTHER             -> 8

\* Saturates where the product would overflow a duration.
Scaled(d, m) == IF d > MaxDuration \div m THEN MaxDuration ELSE d * m

\* The sampled jitter never reaches MaxDelay, unless it is the only choice.
Delays == MinDelay..(IF MaxDelay > MinDelay THEN MaxDelay - 1 ELSE MinDelay)

(***************************************************************************)
(* Time                                                                    *)
(***************************************************************************)
CallerWaits(c) ==
    \/ caller[c].pc \in {"idle", "request"}
    \/ caller[c].pc = "slot" /\ slot # Nobody
    \/ caller[c].pc = "sleep" /\ clock < caller[c].wake

AizhanTick ==
    /\ clock < MaxTime
    /\ \A c \in Callers : CallerWaits(c)
    /\ clock' = clock + 1
    /\ UNCHANGED <<hasAgent, slot, pacing, circuit, caller, aizhanHistory>>

(***************************************************************************)
(* FetchAttempt                                                            *)
(***************************************************************************)
CallerGoto(c, pc) == caller' = [caller EXCEPT ![c].pc = pc]

Fetch(c, n) ==
    /\ caller[c].pc = "idle"
    /\ caller' = [caller EXCEPT ![c] = [IdleCaller EXCEPT !.pc = "slot", !.attemptCount = n]]
    /\ UNCHANGED <<hasAgent, clock, slot, pacing, circuit, aizhanHistory>>

TakeSlot(c) ==
    /\ caller[c].pc = "slot"
    /\ slot = Nobody
    /\ slot' = c
    /\ caller' = [caller EXCEPT ![c].pc = "prepare", ![c].request = 1, ![c].viaAgent = hasAgent]
    /\ UNCHANGED <<hasAgent, clock, pacing, circuit, aizhanHistory>>

multiplier(c) == Multiplier(caller[c].attemptCount)

\* Slip: the gap is computed anew for the job that comes next.
PreparedAnew(c) ==
    IF lastFinished = 0 THEN next ELSE lastFinished + Scaled(lastDelay, multiplier(c))

\* The gap after the last request, stretched for this job and never shortened.
Prepared(c) ==
    IF lastFinished = 0 THEN next
    ELSE Later(next, lastFinished + Scaled(lastDelay, multiplier(c)))

PrepareAttempt(c) ==
    /\ caller[c].pc = "prepare"
    /\ next' = Prepared(c)
    /\ CallerGoto(c, "gate")
    /\ UNCHANGED <<hasAgent, clock, slot, lastFinished, lastDelay, circuit, aizhanHistory>>

\* WaitReady looks again after every sleep; once it is ready the request leaves.
WaitReady(c) ==
    LET until == Later(next, cooldown) IN
    /\ caller[c].pc = "gate"
    /\ caller' = [caller EXCEPT ![c].pc   = IF until <= clock THEN "request" ELSE "sleep",
                                ![c].wake = IF until <= clock THEN 0 ELSE until]
    /\ UNCHANGED <<hasAgent, clock, slot, pacing, circuit, aizhanHistory>>

Wake(c) ==
    /\ caller[c].pc = "sleep"
    /\ clock >= caller[c].wake
    /\ CallerGoto(c, "gate")
    /\ UNCHANGED <<hasAgent, clock, slot, pacing, circuit, aizhanHistory>>

\* What may come back: an agent asks for no retry of its own.
Answers(c) ==
    {r \in [good : BOOLEAN, retry : BOOLEAN, refused : BOOLEAN,
            after : {IF s = 0 THEN 0 ELSE clock + s : s \in RetryAfters}] :
        r \in Responses /\ (caller[c].viaAgent => ~r.retry)}

\* sourceBlocked, after the Retry-After of a direct failure has been added.  What an
\* agent says of its own capacity is not the source's word.
BlockedBy(c, r) == r.refused \/ (~r.good /\ ~caller[c].viaAgent /\ r.after > clock)
Blocked(c) == BlockedBy(c, caller[c].response)

\* The request ends, in whatever way, and delay sets the gap that follows it.
Respond(c) ==
    /\ caller[c].pc = "request"
    /\ \E r \in Answers(c), d \in Delays :
        /\ caller' = [caller EXCEPT ![c].pc = "judge", ![c].response = r]
        /\ lastFinished' = clock
        /\ lastDelay' = d
        /\ next' = clock + Scaled(d, multiplier(c))
        /\ promisedUntil' = clock + Scaled(d, multiplier(c))
        /\ quietUntil' = IF BlockedBy(c, r) /\ ~r.retry
                         THEN Later(quietUntil, Later(clock + BaseCooldown, r.after))
                         ELSE quietUntil
    /\ UNCHANGED <<hasAgent, clock, slot, circuit>>

Return(c) ==
    /\ slot' = Nobody
    /\ caller' = [caller EXCEPT ![c] = IdleCaller]
    /\ UNCHANGED <<hasAgent, clock, pacing, aizhanHistory>>

Succeed(c) ==
    /\ caller[c].pc = "judge"
    /\ caller[c].response.good
    /\ cooldown' = 0 /\ failures' = 0
    /\ Return(c)

\* Slip: whatever the agent's failure is, the master looks for itself.
RechecksAlways(c) == caller[c].viaAgent

\* An ordinary failure of the agent is rechecked from here.
Rechecks(c) == caller[c].viaAgent /\ ~Blocked(c)

\* The attempts of one fetch: with an agent two, else Retries, never more than two.
LastRequest == IF hasAgent \/ Retries > 1 THEN 2 ELSE 1
Retried(c) == ~hasAgent /\ caller[c].response.retry /\ caller[c].request < LastRequest

\* Another turn of the loop: the site is asked from here.
AskDirectly(c) ==
    /\ caller[c].pc = "judge"
    /\ ~caller[c].response.good
    /\ Rechecks(c) \/ Retried(c)
    /\ caller' = [caller EXCEPT ![c].pc = "prepare", ![c].request = @ + 1,
                                ![c].viaAgent = FALSE, ![c].response = NoResponse]
    /\ UNCHANGED <<hasAgent, clock, slot, pacing, circuit, aizhanHistory>>

Fail(c) ==
    /\ failures' = failures + 1
    /\ cooldown' = Later(clock + CooldownAfter(failures + 1), caller[c].response.after)

GiveUp(c) ==
    /\ caller[c].pc = "judge"
    /\ ~caller[c].response.good
    /\ ~Rechecks(c) /\ ~Retried(c)
    /\ IF Blocked(c) THEN Fail(c) ELSE UNCHANGED circuit
    /\ Return(c)

AizhanNext ==
    \/ AizhanTick
    \/ \E c \in Callers :
        \/ \E n \in Attempts : Fetch(c, n)
        \/ TakeSlot(c) \/ PrepareAttempt(c) \/ WaitReady(c) \/ Wake(c)
        \/ Respond(c) \/ Succeed(c) \/ AskDirectly(c) \/ GiveUp(c)

AizhanSpec == AizhanInit /\ [][AizhanNext]_aizhanVars

(***************************************************************************)
(* Properties                                                              *)
(***************************************************************************)
Asks(c) == caller[c].pc = "gate" /\ caller'[c].pc = "request"

\* A request leaves only after the gap that the request before it has left behind, in
\* the stretch of ITS job, and also after that gap in the stretch of this job; so a
\* recheck at 8x is spaced at 8x on both sides, whoever comes after it.
SpacingIsKept ==
    [][\A c \in Callers : Asks(c) =>
          /\ clock >= promisedUntil
          /\ lastFinished > 0 =>
                clock >= lastFinished + Scaled(lastDelay, multiplier(c))]_aizhanVars

\* Once the source has refused a request, or failed it with a Retry-After, no request
\* leaves, of whatever caller, by the agent or directly, before the cooldown and the
\* Retry-After have passed.  (A failure that the fetch itself retries is not counted.)
AizhanBlocksAreObeyed ==
    [][\A c \in Callers : Asks(c) => clock >= quietUntil]_aizhanVars
=============================================================================
