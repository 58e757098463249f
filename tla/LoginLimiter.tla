--------------------------- MODULE LoginLimiter ---------------------------
(***************************************************************************)
(* The limiter of failed logins and the requests that share it.  There is  *)
(* one table of buckets for the addresses (ip) and one for the pairs of    *)
(* address and account.  A request reads the clock BEFORE it takes the     *)
(* lock, so it may act on a time that has passed; Start, Failure, Success  *)
(* and Cancel are each one locked section; the password check in between   *)
(* runs without the lock, concurrently with every other request.           *)
(*                                                                         *)
(* A definition marked "Slip" is no part of the specification: it is a     *)
(* plausible mistake in the definition below it, that a property notices.  *)
(***************************************************************************)
EXTENDS Naturals, FiniteSets

CONSTANTS
    Requests,           \* the goroutines that serve login requests
    IPs, Users,         \* addresses, and normalized account names
    IPMaxFailures, PairMaxFailures,
    FailureWindow, Lockout,
    MaxTrackedIPs, MaxTrackedPairs,
    PruneEvery,         \* 256 in the code
    MaxTime             \* bound on the clock

\* config.go validates the limits; the table sizes are constants of the code.
ASSUME LimiterAssumption ==
    /\ IPMaxFailures \in Nat \ {0} /\ PairMaxFailures \in 1..IPMaxFailures
    /\ FailureWindow \in Nat \ {0} /\ Lockout \in Nat \ {0}
    /\ MaxTrackedIPs \in Nat \ {0} /\ MaxTrackedPairs \in Nat \ {0}
    /\ PruneEvery \in Nat \ {0}
    /\ MaxTime \in Nat
    /\ IsFiniteSet(Requests) /\ IsFiniteSet(IPs) /\ IsFiniteSet(Users)

VARIABLES
    clock,
    request,        \* each request's position, and what it knows
    ipBuckets,      \* the buckets by address
    pairBuckets,    \* the buckets by address and account
    operations      \* calls of Start so far, modulo PruneEvery

vars == <<clock, request, ipBuckets, pairBuckets, operations>>

Pairs == IPs \X Users

\* Time 0 stands for the zero time: not blocked.
Bucket == [failures : Nat, inFlight : Nat, windowStart : Nat, blockedUntil : Nat, lastSeen : Nat]

\* A table is a map from the keys that are tracked.
IsTable(t, K) == DOMAIN t \subseteq K /\ t \in [DOMAIN t -> Bucket]

RequestType ==
    [pc : {"idle", "starting", "checking", "settling", "returning"},
     pair : Pairs, now : Nat, verdict : {"none", "failure", "success", "canceled"}]

ip(r)   == request[r].pair[1]
pair(r) == request[r].pair

Init ==
    /\ clock = 1
    /\ \E p \in Pairs : request =
          [r \in Requests |-> [pc |-> "idle", pair |-> p, now |-> 0, verdict |-> "none"]]
    /\ ipBuckets = [k \in {} |-> 0]
    /\ pairBuckets = [k \in {} |-> 0]
    /\ operations = 0

(***************************************************************************)
(* The buckets                                                             *)
(***************************************************************************)
NewBucket(now) ==
    [failures |-> 0, inFlight |-> 0, windowStart |-> now, blockedUntil |-> 0, lastSeen |-> now]

\* Slip: a window that has passed also ends a lockout.
RefreshedByWindow(b, now) ==
    IF \/ b.blockedUntil # 0 /\ now >= b.blockedUntil
       \/ now >= b.windowStart + FailureWindow
    THEN [b EXCEPT !.failures = 0, !.blockedUntil = 0, !.windowStart = now, !.lastSeen = now]
    ELSE [b EXCEPT !.lastSeen = now]

\* The failures of a bucket are forgotten when its lockout is over, or, if it is
\* not locked out, when its window is.
Refreshed(b, now) ==
    IF \/ b.blockedUntil # 0 /\ now >= b.blockedUntil
       \/ b.blockedUntil = 0 /\ now >= b.windowStart + FailureWindow
    THEN [b EXCEPT !.failures = 0, !.blockedUntil = 0, !.windowStart = now, !.lastSeen = now]
    ELSE [b EXCEPT !.lastSeen = now]

\* bucketLocked
Tracked(t, k, now) ==
    [x \in DOMAIN t \cup {k} |->
        IF x # k THEN t[x] ELSE IF k \in DOMAIN t THEN Refreshed(t[k], now) ELSE NewBucket(now)]

\* Slip: the checks under way are not counted.
RefusesFailuresOnly(b, max, now) ==
    \/ b.blockedUntil # 0 /\ now < b.blockedUntil
    \/ b.failures >= max

\* bucketRetryAfter is positive.
Refuses(b, max, now) ==
    \/ b.blockedUntil # 0 /\ now < b.blockedUntil
    \/ b.failures + b.inFlight >= max

Reserved(b) == [b EXCEPT !.inFlight = @ + 1]

\* finishLoginAttempt
Finished(b, now) == [b EXCEPT !.inFlight = IF @ > 0 THEN @ - 1 ELSE @, !.lastSeen = now]

\* recordLoginFailure
Failed(b, max, now) ==
    LET f == [Finished(b, now) EXCEPT !.failures = @ + 1]
    IN  IF f.failures < max THEN f ELSE [f EXCEPT !.blockedUntil = now + Lockout]

\* The pair's bucket after a success.
Cleared(b, now) ==
    [Finished(b, now) EXCEPT !.failures = 0, !.windowStart = now, !.blockedUntil = 0]

\* A key that is not in the table is passed over.
Changed(t, k, b) == [x \in DOMAIN t |-> IF x = k THEN b ELSE t[x]]

(***************************************************************************)
(* Pruning: first the buckets nobody has used for a window, then, while    *)
(* the table is full, the one seen longest ago, even if it is locked out;  *)
(* never one that is in use.  Several may have been seen at the same time: *)
(* the order of a Go map decides.                                          *)
(***************************************************************************)
Idle(t) == {k \in DOMAIN t : t[k].inFlight = 0}

Outdated(t, now) ==
    {k \in Idle(t) : now >= t[k].blockedUntil /\ now >= t[k].lastSeen + FailureWindow}

KeptSets(t, max, now) ==
    LET current == DOMAIN t \ Outdated(t, now)
        idle    == current \cap Idle(t)
    IN  {K \in SUBSET current :
            /\ current \ K \subseteq idle
            /\ \A g \in current \ K, k \in idle \cap K : t[g].lastSeen <= t[k].lastSeen
            /\ K # current => Cardinality(K) >= max - 1
            /\ Cardinality(K) >= max => idle \cap K = {}}

\* Slip: only the periodic pruning happens.
PruneDuePeriodically == (operations + 1) % PruneEvery = 0

PruneDue ==
    \/ (operations + 1) % PruneEvery = 0
    \/ Cardinality(DOMAIN ipBuckets) >= MaxTrackedIPs
    \/ Cardinality(DOMAIN pairBuckets) >= MaxTrackedPairs

Pruned(t, max, now) ==
    IF PruneDue
    THEN {[k \in K |-> t[k]] : K \in KeptSets(t, max, now)}
    ELSE {t}

(***************************************************************************)
(* The requests                                                            *)
(***************************************************************************)
Tick ==
    /\ clock < MaxTime
    /\ clock' = clock + 1
    /\ UNCHANGED <<request, ipBuckets, pairBuckets, operations>>

\* A request for some account comes from some address, and reads the clock.
Arrive(r) ==
    /\ request[r].pc = "idle"
    /\ \E p \in Pairs : request' =
          [request EXCEPT ![r] = [pc |-> "starting", pair |-> p, now |-> clock, verdict |-> "none"]]
    /\ UNCHANGED <<clock, ipBuckets, pairBuckets, operations>>

\* Start: refused requests leave their buckets in the tables.
Start(r) ==
    /\ request[r].pc = "starting"
    /\ operations' = (operations + 1) % PruneEvery
    /\ LET now == request[r].now IN
       \E I \in Pruned(ipBuckets, MaxTrackedIPs, now),
          P \in Pruned(pairBuckets, MaxTrackedPairs, now) :
          LET i == Tracked(I, ip(r), now)
              p == Tracked(P, pair(r), now)
          IN  IF \/ Refuses(i[ip(r)], IPMaxFailures, now)
                 \/ Refuses(p[pair(r)], PairMaxFailures, now)
              THEN /\ ipBuckets' = i /\ pairBuckets' = p
                   /\ request' = [request EXCEPT ![r].pc = "idle", ![r].now = 0]
              ELSE /\ ipBuckets' = Changed(i, ip(r), Reserved(i[ip(r)]))
                   /\ pairBuckets' = Changed(p, pair(r), Reserved(p[pair(r)]))
                   /\ request' = [request EXCEPT ![r].pc = "checking", ![r].now = 0]
    /\ UNCHANGED clock

\* AuthenticateUser knows the answer, or the database has failed: Failure, Success
\* or the deferred Cancel marks the attempt done and reads the clock.
Authenticate(r) ==
    /\ request[r].pc = "checking"
    /\ \E v \in {"failure", "success", "canceled"} :
          request' = [request EXCEPT ![r].pc = "settling", ![r].now = clock, ![r].verdict = v]
    /\ UNCHANGED <<clock, ipBuckets, pairBuckets, operations>>

\* Failure, Success and Cancel.
SettledIn(t, k, max, r) ==
    LET now == request[r].now
    IN  Changed(t, k,
            CASE k \notin DOMAIN t -> NewBucket(now)    \* changes nothing
              [] request[r].verdict = "failure" -> Failed(t[k], max, now)
              [] request[r].verdict = "success" /\ k \in Pairs -> Cleared(t[k], now)
              [] OTHER -> Finished(t[k], now))

Settle(r) ==
    /\ request[r].pc = "settling"
    /\ ipBuckets' = SettledIn(ipBuckets, ip(r), IPMaxFailures, r)
    /\ pairBuckets' = SettledIn(pairBuckets, pair(r), PairMaxFailures, r)
    /\ request' = [request EXCEPT ![r].pc = "returning", ![r].now = 0]
    /\ UNCHANGED <<clock, operations>>

\* The deferred Cancel finds the attempt done and does nothing.
Return(r) ==
    /\ request[r].pc = "returning"
    /\ request' = [request EXCEPT ![r].pc = "idle", ![r].verdict = "none"]
    /\ UNCHANGED <<clock, ipBuckets, pairBuckets, operations>>

Next ==
    \/ Tick
    \/ \E r \in Requests : Arrive(r) \/ Start(r) \/ Authenticate(r) \/ Settle(r) \/ Return(r)

Spec == Init /\ [][Next]_vars

(***************************************************************************)
(* Properties                                                              *)
(***************************************************************************)
\* Time never runs ahead of the clock, except the end of a lockout.
BucketsOK(t, K) ==
    /\ IsTable(t, K)
    /\ \A k \in DOMAIN t : /\ t[k].lastSeen <= clock /\ t[k].windowStart <= clock
                           /\ t[k].blockedUntil <= clock + Lockout

TypeOK ==
    /\ clock \in 1..(MaxTime + 1)
    /\ request \in [Requests -> RequestType]
    /\ BucketsOK(ipBuckets, IPs)
    /\ BucketsOK(pairBuckets, Pairs)
    /\ operations \in 0..(PruneEvery - 1)
    /\ \A r \in Requests : request[r].now <= clock

\* The requests whose password check is reserved and not yet settled.
Holding == {r \in Requests : request[r].pc \in {"checking", "settling"}}

\* The reservations of a bucket are those of the requests under way, no more and no
\* fewer: none is lost when its bucket is pruned, none is left behind by a request
\* that has ended, whatever way it ended.
ReservationsAreHeld ==
    /\ \A r \in Holding : ip(r) \in DOMAIN ipBuckets /\ pair(r) \in DOMAIN pairBuckets
    /\ \A k \in DOMAIN ipBuckets :
          ipBuckets[k].inFlight = Cardinality({r \in Holding : ip(r) = k})
    /\ \A k \in DOMAIN pairBuckets :
          pairBuckets[k].inFlight = Cardinality({r \in Holding : pair(r) = k})

\* A burst of parallel requests never has more failures and checks under way
\* than the limit allows, in each table, although they start with stale clocks.
WithinCapacity(t, max) == \A k \in DOMAIN t : t[k].failures + t[k].inFlight <= max
CapacityIsBounded ==
    WithinCapacity(ipBuckets, IPMaxFailures) /\ WithinCapacity(pairBuckets, PairMaxFailures)

\* A bucket is locked out exactly from its last failure on, and then nobody is under
\* way in it: a success that comes late can never lift a lockout.
LockedWhenFull(t, max) ==
    \A k \in DOMAIN t :
        /\ t[k].blockedUntil # 0 <=> t[k].failures >= max
        /\ t[k].blockedUntil # 0 => t[k].inFlight = 0
LockoutIsEarned ==
    LockedWhenFull(ipBuckets, IPMaxFailures) /\ LockedWhenFull(pairBuckets, PairMaxFailures)

\* All of it together, the inductive invariant: as long as every reservation is
\* accounted for, no burst passes the limits, and a full bucket is locked and empty.
IInv == TypeOK /\ ReservationsAreHeld /\ CapacityIsBounded /\ LockoutIsEarned

\* The tables outgrow their limits at most by requests that are under way.
TablesAreBounded ==
    LET Limit(max) == IF max >= Cardinality(Requests) THEN max ELSE Cardinality(Requests)
    IN  /\ Cardinality(DOMAIN ipBuckets) <= Limit(MaxTrackedIPs)
        /\ Cardinality(DOMAIN pairBuckets) <= Limit(MaxTrackedPairs)

\* A lockout lasts for its whole time, unless a full table evicts its bucket: neither
\* a stale clock, nor a new window, nor another request's success ends it earlier.
LockoutStays(t, u, max) ==
    \A k \in DOMAIN t :
        clock < t[k].blockedUntil =>
            \/ k \in DOMAIN u /\ u[k].blockedUntil = t[k].blockedUntil
            \/ Cardinality(DOMAIN t) >= max
LockoutLasts ==
    [][/\ LockoutStays(ipBuckets, ipBuckets', MaxTrackedIPs)
       /\ LockoutStays(pairBuckets, pairBuckets', MaxTrackedPairs)]_vars
=============================================================================
