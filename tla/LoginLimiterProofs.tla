-------------------------- MODULE LoginLimiterProofs --------------------------
(***************************************************************************)
(* Proofs about LoginLimiter: its inductive invariant, the bounds of its   *)
(* tables and the lockout that lasts, for any number of requests,          *)
(* addresses and accounts, any limits and table sizes.  The two tables     *)
(* obey the same rules, so that everything is proved once, about a table t *)
(* with keys K, a limit max, a time, and the number held[k] of the         *)
(* requests that hold a reservation of the key k.                          *)
(***************************************************************************)
EXTENDS LoginLimiter, FiniteSetTheorems, TLAPS

USE LimiterAssumption

\* What the inductive invariant says of one bucket.
BucketInv(b, max, time) ==
    /\ b \in Bucket
    /\ b.lastSeen <= time /\ b.windowStart <= time /\ b.blockedUntil <= time + Lockout
    /\ b.failures + b.inFlight <= max
    /\ b.blockedUntil # 0 <=> b.failures >= max
    /\ b.blockedUntil # 0 => b.inFlight = 0

\* What it says of a table.
TableInv(t, K, max, time, held) ==
    /\ DOMAIN t \subseteq K /\ t = [k \in DOMAIN t |-> t[k]]
    /\ \A k \in DOMAIN t : BucketInv(t[k], max, time) /\ t[k].inFlight = held[k]
    /\ \A k \in K \ DOMAIN t : held[k] = 0

HoldsIP(k)   == {r \in Holding : ip(r) = k}
HoldsPair(k) == {r \in Holding : pair(r) = k}
HeldIPs   == [k \in IPs |-> Cardinality(HoldsIP(k))]
HeldPairs == [k \in Pairs |-> Cardinality(HoldsPair(k))]

\* The invariant of LoginLimiter, one table after the other.
RequestsTyped ==
    /\ clock \in 1..(MaxTime + 1)
    /\ request \in [Requests -> RequestType]
    /\ operations \in 0..(PruneEvery - 1)
    /\ \A r \in Requests : request[r].now <= clock
TablesInv ==
    /\ TableInv(ipBuckets, IPs, IPMaxFailures, clock, HeldIPs)
    /\ TableInv(pairBuckets, Pairs, PairMaxFailures, clock, HeldPairs)

-----------------------------------------------------------------------------
(***************************************************************************)
(* Buckets.                                                                *)
(***************************************************************************)

\* A bucket made of its fields.
Of(f, n, w, u, s) ==
    [failures |-> f, inFlight |-> n, windowStart |-> w, blockedUntil |-> u, lastSeen |-> s]

\* A bucket that is in order is made of such fields.
LEMMA Shape ==
    ASSUME NEW b, NEW max \in Nat \ {0}, NEW time \in Nat, BucketInv(b, max, time)
    PROVE  \E f, n, w, u, s \in Nat :
              /\ b = Of(f, n, w, u, s) /\ s <= time /\ w <= time /\ u <= time + Lockout
              /\ f + n <= max /\ (u # 0 <=> f >= max) /\ (u # 0 => n = 0)
<1>1. /\ b = Of(b.failures, b.inFlight, b.windowStart, b.blockedUntil, b.lastSeen)
      /\ b.failures \in Nat /\ b.inFlight \in Nat /\ b.windowStart \in Nat
      /\ b.blockedUntil \in Nat /\ b.lastSeen \in Nat
  BY DEF BucketInv, Bucket, Of
<1> QED
  BY <1>1 DEF BucketInv

\* A new bucket is in order.
LEMMA NewBucketInv ==
    ASSUME NEW max \in Nat \ {0}, NEW time \in Nat, NEW now \in Nat, now <= time
    PROVE  BucketInv(NewBucket(now), max, time) /\ NewBucket(now).inFlight = 0
<1>1. NewBucket(now) = Of(0, 0, now, 0, now)
  BY DEF NewBucket, Of
<1> QED
  BY <1>1 DEF BucketInv, Bucket, Of

\* A bucket that is used again is in order, and its lockout stays until it ends.
LEMMA RefreshedInv ==
    ASSUME NEW max \in Nat \ {0}, NEW time \in Nat, NEW now \in Nat, now <= time,
           NEW b, BucketInv(b, max, time)
    PROVE  /\ BucketInv(Refreshed(b, now), max, time)
           /\ Refreshed(b, now).inFlight = b.inFlight
           /\ now < b.blockedUntil => Refreshed(b, now).blockedUntil = b.blockedUntil
<1>1. PICK f, n, w, u, s \in Nat :
          /\ b = Of(f, n, w, u, s) /\ s <= time /\ w <= time /\ u <= time + Lockout
          /\ f + n <= max /\ (u # 0 <=> f >= max) /\ (u # 0 => n = 0)
  BY Shape
<1>2. b.inFlight = n /\ b.blockedUntil = u /\ b.windowStart = w
  BY <1>1 DEF Of
<1>3. CASE \/ u # 0 /\ now >= u
           \/ u = 0 /\ now >= w + FailureWindow
  <2>1. Refreshed(b, now) = Of(0, n, now, 0, now)
    BY <1>1, <1>3 DEF Refreshed, Of
  <2>2. /\ BucketInv(Of(0, n, now, 0, now), max, time)
        /\ Of(0, n, now, 0, now).inFlight = n
    BY <1>1 DEF BucketInv, Bucket, Of
  <2> QED
    BY <1>2, <1>3, <2>1, <2>2
<1>4. CASE ~(\/ u # 0 /\ now >= u
             \/ u = 0 /\ now >= w + FailureWindow)
  <2>1. Refreshed(b, now) = Of(f, n, w, u, now)
    BY <1>1, <1>4 DEF Refreshed, Of
  <2>2. /\ BucketInv(Of(f, n, w, u, now), max, time)
        /\ Of(f, n, w, u, now).inFlight = n /\ Of(f, n, w, u, now).blockedUntil = u
    BY <1>1 DEF BucketInv, Bucket, Of
  <2> QED
    BY <1>2, <2>1, <2>2
<1> QED
  BY <1>3, <1>4

\* A reservation is taken only where there is room.
LEMMA ReservedInv ==
    ASSUME NEW max \in Nat \ {0}, NEW time \in Nat, NEW now \in Nat,
           NEW b, BucketInv(b, max, time), ~Refuses(b, max, now)
    PROVE  /\ BucketInv(Reserved(b), max, time)
           /\ Reserved(b).inFlight = b.inFlight + 1
           /\ Reserved(b).blockedUntil = b.blockedUntil
<1>1. PICK f, n, w, u, s \in Nat :
          /\ b = Of(f, n, w, u, s) /\ s <= time /\ w <= time /\ u <= time + Lockout
          /\ f + n <= max /\ (u # 0 <=> f >= max) /\ (u # 0 => n = 0)
  BY Shape
<1>2. b.inFlight = n /\ b.blockedUntil = u /\ b.failures = f
  BY <1>1 DEF Of
<1>3. PICK m \in Nat : m = n + 1
  OBVIOUS
<1>4. f + m <= max
  BY <1>1, <1>2, <1>3 DEF Refuses
<1>5. Reserved(b) = Of(f, m, w, u, s)
  BY <1>1, <1>3 DEF Reserved, Of
<1>6. /\ BucketInv(Of(f, m, w, u, s), max, time)
      /\ Of(f, m, w, u, s).inFlight = m /\ Of(f, m, w, u, s).blockedUntil = u
  BY <1>1, <1>3, <1>4 DEF BucketInv, Bucket, Of
<1> QED
  BY <1>2, <1>3, <1>5, <1>6

\* Whichever way an attempt ends, its reservation becomes at most a failure.
LEMMA SettledInv ==
    ASSUME NEW max \in Nat \ {0}, NEW time \in Nat, NEW now \in Nat, now <= time,
           NEW b, BucketInv(b, max, time), b.inFlight > 0,
           NEW c, c \in {Failed(b, max, now), Cleared(b, now), Finished(b, now)}
    PROVE  BucketInv(c, max, time) /\ c.inFlight = b.inFlight - 1
<1>1. PICK f, n, w, u, s \in Nat :
          /\ b = Of(f, n, w, u, s) /\ s <= time /\ w <= time /\ u <= time + Lockout
          /\ f + n <= max /\ (u # 0 <=> f >= max) /\ (u # 0 => n = 0)
  BY Shape
<1>2. b.inFlight = n
  BY <1>1 DEF Of
<1>3. u = 0 /\ f < max
  BY <1>1, <1>2
<1>4. PICK m \in Nat, e \in Nat, v \in Nat : m = n - 1 /\ e = f + 1 /\ v = now + Lockout
  BY <1>2
<1>5. Finished(b, now) = Of(f, m, w, 0, now)
  <2>1. b = Of(f, n, w, 0, s) /\ (IF n > 0 THEN n - 1 ELSE n) = m
    BY <1>1, <1>2, <1>3, <1>4
  <2>2. [Of(f, n, w, 0, s) EXCEPT !.inFlight = m, !.lastSeen = now] = Of(f, m, w, 0, now)
    <3>1. [Of(f, n, w, 0, s) EXCEPT !.inFlight = m] = Of(f, m, w, 0, s)
      BY DEF Of
    <3>2. [Of(f, m, w, 0, s) EXCEPT !.lastSeen = now] = Of(f, m, w, 0, now)
      BY DEF Of
    <3> QED
      BY <3>1, <3>2
  <2>3. Finished(b, now) = [Of(f, n, w, 0, s) EXCEPT !.inFlight = m, !.lastSeen = now]
    BY <2>1 DEF Finished, Of
  <2> QED
    BY <2>2, <2>3
<1>6. CASE c = Finished(b, now)
  <2>1. BucketInv(Of(f, m, w, 0, now), max, time) /\ Of(f, m, w, 0, now).inFlight = m
    BY <1>1, <1>3, <1>4 DEF BucketInv, Bucket, Of
  <2> QED
    BY <1>2, <1>4, <1>5, <1>6, <2>1
<1>7. CASE c = Cleared(b, now)
  <2>1. c = [Of(f, m, w, 0, now) EXCEPT !.failures = 0, !.windowStart = now, !.blockedUntil = 0]
    BY <1>5, <1>7 DEF Cleared
  <2>2. c = Of(0, m, now, 0, now)
    BY <2>1 DEF Of
  <2>3. BucketInv(Of(0, m, now, 0, now), max, time) /\ Of(0, m, now, 0, now).inFlight = m
    BY <1>1, <1>3, <1>4 DEF BucketInv, Bucket, Of
  <2> QED
    BY <1>2, <1>4, <2>2, <2>3
<1>8. CASE c = Failed(b, max, now)
  <2>1. [Finished(b, now) EXCEPT !.failures = @ + 1] = Of(e, m, w, 0, now)
    BY <1>4, <1>5 DEF Of
  <2>2. CASE e < max
    <3>1. c = Of(e, m, w, 0, now)
      BY <1>8, <2>1, <2>2 DEF Failed, Of
    <3>2. BucketInv(Of(e, m, w, 0, now), max, time) /\ Of(e, m, w, 0, now).inFlight = m
      BY <1>1, <1>3, <1>4, <2>2 DEF BucketInv, Bucket, Of
    <3> QED
      BY <1>2, <1>4, <3>1, <3>2
  <2>3. CASE ~(e < max)
    <3>1. c = Of(e, m, w, v, now)
      BY <1>4, <1>8, <2>1, <2>3, ZenonT(30) DEF Failed, Of
    <3>2. e = max /\ m = 0 /\ v # 0 /\ v <= time + Lockout
      BY <1>1, <1>3, <1>4, <2>3
    <3>3. BucketInv(Of(e, m, w, v, now), max, time) /\ Of(e, m, w, v, now).inFlight = m
      BY <1>1, <3>2 DEF BucketInv, Bucket, Of
    <3> QED
      BY <1>2, <1>4, <3>1, <3>3
  <2> QED
    BY <2>2, <2>3
<1> QED
  BY <1>6, <1>7, <1>8

-----------------------------------------------------------------------------
(***************************************************************************)
(* Tables.                                                                 *)
(***************************************************************************)

\* Pruning keeps every bucket that is in use; when it leaves a table full, or deletes a
\* bucket that is not outdated, the table has been full.
LEMMA PrunedInv ==
    ASSUME NEW K, IsFiniteSet(K), NEW max \in Nat \ {0}, NEW size \in Nat \ {0},
           NEW time \in Nat, NEW now \in Nat, NEW held, NEW t, TableInv(t, K, max, time, held),
           NEW T \in Pruned(t, size, now)
    PROVE  /\ TableInv(T, K, max, time, held) /\ DOMAIN T \subseteq DOMAIN t
           /\ \A k \in DOMAIN T : T[k] = t[k]
           /\ Cardinality(DOMAIN T) < size \/ \A k \in DOMAIN T : held[k] # 0 \/ ~PruneDue
           /\ \A k \in DOMAIN t \ DOMAIN T :
                 now >= t[k].blockedUntil \/ Cardinality(DOMAIN t) >= size
<1>1. CASE ~PruneDue
  <2>1. T = t
    BY <1>1 DEF Pruned
  <2> QED
    BY <1>1, <2>1
<1>2. CASE PruneDue
  <2> DEFINE current == DOMAIN t \ Outdated(t, now)
             idle    == current \cap Idle(t)
  <2>1. PICK D \in KeptSets(t, size, now) : T = [k \in D |-> t[k]]
    BY <1>2 DEF Pruned
  <2>2. /\ D \subseteq current /\ current \ D \subseteq idle
        /\ D # current => Cardinality(D) >= size - 1
        /\ Cardinality(D) >= size => idle \cap D = {}
    BY <2>1 DEF KeptSets
  <2>3. DOMAIN T = D /\ T = [k \in D |-> T[k]] /\ \A k \in D : T[k] = t[k]
    BY <2>1
  <2>4. DOMAIN t \subseteq K /\ \A k \in DOMAIN t : t[k].inFlight = held[k]
    BY DEF TableInv
  <2>5. \A k \in DOMAIN t \ D : held[k] = 0
    BY <2>2, <2>4 DEF Outdated, Idle
  <2>6. TableInv(T, K, max, time, held)
    BY <2>2, <2>3, <2>5 DEF TableInv
  <2>7. /\ IsFiniteSet(D) /\ IsFiniteSet(current) /\ IsFiniteSet(DOMAIN t)
        /\ Cardinality(D) \in Nat /\ Cardinality(current) \in Nat
        /\ Cardinality(DOMAIN t) \in Nat
    <3>1. D \subseteq K /\ current \subseteq K
      BY <2>2, <2>4
    <3> QED
      BY <2>4, <3>1, FS_Subset, FS_CardinalityType
  <2>8. Cardinality(D) < size \/ \A k \in D : held[k] # 0
    BY <2>2, <2>4, <2>7 DEF Idle
  <2>9. ASSUME NEW k \in DOMAIN t \ D
        PROVE  now >= t[k].blockedUntil \/ Cardinality(DOMAIN t) >= size
    <3>1. CASE k \in Outdated(t, now)
      BY <3>1 DEF Outdated
    <3>2. CASE k \notin Outdated(t, now)
      <4>1. D # current /\ k \in current
        BY <2>9, <3>2
      <4>2. Cardinality(D) # Cardinality(current) /\ Cardinality(D) <= Cardinality(current)
        BY <2>2, <2>7, <4>1, FS_Subset
      <4>3. Cardinality(current) <= Cardinality(DOMAIN t)
        BY <2>7, FS_Subset
      <4>4. Cardinality(D) >= size - 1
        BY <2>2, <4>1
      <4> HIDE DEF current
      <4> QED
        BY <2>7, <4>2, <4>3, <4>4
    <3> QED
      BY <3>1, <3>2
  <2> QED
    BY <2>2, <2>3, <2>6, <2>8, <2>9
<1> QED
  BY <1>1, <1>2

\* A table u that has grown out of t, in order and with the lockouts of t.
Grown(t, u, K, max, time, held, k, now) ==
    /\ TableInv(u, K, max, time, held) /\ DOMAIN u = DOMAIN t \cup {k}
    /\ \A x \in DOMAIN t : now < t[x].blockedUntil => u[x].blockedUntil = t[x].blockedUntil

\* A key that a request begins with is tracked from then on.
LEMMA TrackedInv ==
    ASSUME NEW K, NEW max \in Nat \ {0}, NEW time \in Nat, NEW now \in Nat, now <= time,
           NEW held, NEW t, TableInv(t, K, max, time, held), NEW k \in K
    PROVE  Grown(t, Tracked(t, k, now), K, max, time, held, k, now)
<1>1. /\ DOMAIN t \subseteq K
      /\ \A x \in DOMAIN t : BucketInv(t[x], max, time) /\ t[x].inFlight = held[x]
      /\ \A x \in K \ DOMAIN t : held[x] = 0
  BY DEF TableInv
<1>2. PICK T : T = Tracked(t, k, now)
  OBVIOUS
<1>3. /\ DOMAIN T = DOMAIN t \cup {k} /\ T = [x \in DOMAIN T |-> T[x]]
      /\ \A x \in DOMAIN t \ {k} : T[x] = t[x]
      /\ k \in DOMAIN t => T[k] = Refreshed(t[k], now)
      /\ k \notin DOMAIN t => T[k] = NewBucket(now)
  BY <1>2 DEF Tracked
<1>4. BucketInv(T[k], max, time) /\ T[k].inFlight = held[k]
  <2>1. CASE k \in DOMAIN t
    BY <1>1, <1>3, <2>1, RefreshedInv
  <2>2. CASE k \notin DOMAIN t
    BY <1>1, <1>3, <2>2, NewBucketInv
  <2> QED
    BY <2>1, <2>2
<1>5. TableInv(T, K, max, time, held)
  BY <1>1, <1>3, <1>4 DEF TableInv
<1>6. \A x \in DOMAIN t : now < t[x].blockedUntil => T[x].blockedUntil = t[x].blockedUntil
  BY <1>1, <1>3, RefreshedInv
<1> QED
  BY <1>2, <1>3, <1>5, <1>6 DEF Grown

\* One bucket changes, and the number of those who hold its key with it.
LEMMA ChangedInv ==
    ASSUME NEW K, NEW max, NEW time, NEW held, NEW t, TableInv(t, K, max, time, held),
           NEW k \in DOMAIN t, NEW b, BucketInv(b, max, time),
           NEW held2, b.inFlight = held2[k], \A x \in K \ {k} : held2[x] = held[x]
    PROVE  TableInv(Changed(t, k, b), K, max, time, held2)
<1>1. PICK T : T = Changed(t, k, b)
  OBVIOUS
<1>2. /\ DOMAIN T = DOMAIN t /\ T = [x \in DOMAIN T |-> T[x]]
      /\ T[k] = b /\ \A x \in DOMAIN t \ {k} : T[x] = t[x]
  BY <1>1 DEF Changed
<1> QED
  BY <1>1, <1>2 DEF TableInv

-----------------------------------------------------------------------------
(***************************************************************************)
(* The invariant, one table after the other.                               *)
(***************************************************************************)

\* Those who hold a reservation can be counted.
LEMMA Holders ==
    /\ IsFiniteSet(IPs) /\ IsFiniteSet(Pairs) /\ IsFiniteSet(Holding)
    /\ \A k : /\ IsFiniteSet(HoldsIP(k)) /\ Cardinality(HoldsIP(k)) \in Nat
              /\ Cardinality(HoldsIP(k)) = 0 <=> HoldsIP(k) = {}
              /\ IsFiniteSet(HoldsPair(k)) /\ Cardinality(HoldsPair(k)) \in Nat
              /\ Cardinality(HoldsPair(k)) = 0 <=> HoldsPair(k) = {}
<1>1. IsFiniteSet(Pairs)
  BY FS_Product DEF Pairs
<1>2. IsFiniteSet(Holding)
  BY FS_Subset DEF Holding
<1>3. \A k : HoldsIP(k) \in SUBSET Holding /\ HoldsPair(k) \in SUBSET Holding
  BY DEF HoldsIP, HoldsPair
<1>4. \A k : IsFiniteSet(HoldsIP(k)) /\ IsFiniteSet(HoldsPair(k))
  BY <1>2, <1>3, FS_Subset
<1> QED
  BY <1>1, <1>2, <1>4, FS_CardinalityType, FS_EmptySet

\* A request has an address and an account.
LEMMA Keys ==
    ASSUME RequestsTyped, NEW r \in Requests
    PROVE  ip(r) \in IPs /\ pair(r) \in Pairs
BY DEF RequestsTyped, RequestType, ip, pair, Pairs

\* The inductive invariant splits into the requests and the two tables.
LEMMA InvParts == IInv <=> RequestsTyped /\ TablesInv
<1>1. ASSUME IInv
      PROVE  RequestsTyped /\ TablesInv
  <2> USE <1>1 DEF IInv
  <2>1. RequestsTyped
    BY DEF TypeOK, RequestsTyped
  <2>2. ASSUME NEW k \in IPs \ DOMAIN ipBuckets
        PROVE  HeldIPs[k] = 0
    <3>1. HoldsIP(k) = {}
      BY <2>2 DEF HoldsIP, ReservationsAreHeld
    <3> QED
      BY <3>1, Holders DEF HeldIPs
  <2>3. ASSUME NEW k \in Pairs \ DOMAIN pairBuckets
        PROVE  HeldPairs[k] = 0
    <3>1. HoldsPair(k) = {}
      BY <2>3 DEF HoldsPair, ReservationsAreHeld
    <3> QED
      BY <3>1, Holders DEF HeldPairs
  <2>4. /\ DOMAIN ipBuckets \subseteq IPs
        /\ ipBuckets = [k \in DOMAIN ipBuckets |-> ipBuckets[k]]
        /\ \A k \in DOMAIN ipBuckets :
              /\ BucketInv(ipBuckets[k], IPMaxFailures, clock)
              /\ ipBuckets[k].inFlight = HeldIPs[k]
    BY DEF TypeOK, BucketsOK, IsTable, BucketInv, CapacityIsBounded, WithinCapacity,
           LockoutIsEarned, LockedWhenFull, ReservationsAreHeld, HeldIPs, HoldsIP
  <2>5. /\ DOMAIN pairBuckets \subseteq Pairs
        /\ pairBuckets = [k \in DOMAIN pairBuckets |-> pairBuckets[k]]
        /\ \A k \in DOMAIN pairBuckets :
              /\ BucketInv(pairBuckets[k], PairMaxFailures, clock)
              /\ pairBuckets[k].inFlight = HeldPairs[k]
    BY DEF TypeOK, BucketsOK, IsTable, BucketInv, CapacityIsBounded, WithinCapacity,
           LockoutIsEarned, LockedWhenFull, ReservationsAreHeld, HeldPairs, HoldsPair
  <2>6. /\ TableInv(ipBuckets, IPs, IPMaxFailures, clock, HeldIPs)
        /\ TableInv(pairBuckets, Pairs, PairMaxFailures, clock, HeldPairs)
    BY <2>2, <2>3, <2>4, <2>5 DEF TableInv
  <2> QED
    BY <2>1, <2>6 DEF TablesInv
<1>2. ASSUME RequestsTyped, TablesInv
      PROVE  IInv
  <2>1. /\ TableInv(ipBuckets, IPs, IPMaxFailures, clock, HeldIPs)
        /\ TableInv(pairBuckets, Pairs, PairMaxFailures, clock, HeldPairs)
    BY <1>2 DEF TablesInv
  <2>2. ASSUME NEW r \in Holding
        PROVE  ip(r) \in DOMAIN ipBuckets /\ pair(r) \in DOMAIN pairBuckets
    <3>1. r \in HoldsIP(ip(r)) /\ r \in HoldsPair(pair(r)) /\ r \in Requests
      BY DEF HoldsIP, HoldsPair, Holding
    <3>2. ip(r) \in IPs /\ pair(r) \in Pairs
      BY <1>2, <3>1, Keys
    <3>3. HeldIPs[ip(r)] # 0 /\ HeldPairs[pair(r)] # 0
      BY <3>1, <3>2, Holders DEF HeldIPs, HeldPairs
    <3> QED
      BY <2>1, <3>2, <3>3 DEF TableInv
  <2>3. ReservationsAreHeld
    BY <2>1, <2>2 DEF TableInv, ReservationsAreHeld, HeldIPs, HoldsIP, HeldPairs, HoldsPair
  <2>4. TypeOK
    BY <1>2, <2>1 DEF TableInv, RequestsTyped, TypeOK, BucketsOK, IsTable, BucketInv
  <2>5. CapacityIsBounded /\ LockoutIsEarned
    BY <2>1 DEF TableInv, BucketInv, CapacityIsBounded, WithinCapacity, LockoutIsEarned,
                LockedWhenFull
  <2> QED
    BY <2>3, <2>4, <2>5 DEF IInv
<1> QED
  BY <1>1, <1>2

-----------------------------------------------------------------------------
(***************************************************************************)
(* The steps.                                                              *)
(***************************************************************************)

\* A request r goes on; whether it holds a reservation may change, and whom it is for only
\* if it holds none.
Moves(r) ==
    /\ request' \in [Requests -> RequestType]
    /\ \A x \in Requests \ {r} : request'[x] = request[x]
    /\ \/ request'[r].pair = request[r].pair
       \/ r \notin Holding /\ r \notin Holding'

\* What that does to the counts.
LEMMA Counts ==
    ASSUME RequestsTyped, NEW r \in Requests, Moves(r),
           NEW i, i = ip(r), NEW p, p = pair(r)
    PROVE  /\ i \in IPs /\ p \in Pairs
           /\ \A k \in IPs \ {i} : HeldIPs'[k] = HeldIPs[k]
           /\ \A k \in Pairs \ {p} : HeldPairs'[k] = HeldPairs[k]
           /\ (r \in Holding <=> r \in Holding') => HeldIPs' = HeldIPs /\ HeldPairs' = HeldPairs
           /\ r \notin Holding /\ r \in Holding' =>
                 HeldIPs'[i] = HeldIPs[i] + 1 /\ HeldPairs'[p] = HeldPairs[p] + 1
           /\ r \in Holding /\ r \notin Holding' =>
                 HeldIPs'[i] = HeldIPs[i] - 1 /\ HeldPairs'[p] = HeldPairs[p] - 1
           /\ r \in Holding => HeldIPs[i] # 0 /\ HeldPairs[p] # 0
<1>1. i \in IPs /\ p \in Pairs
  BY Keys
<1>2. /\ \A x \in Requests \ {r} : /\ x \in Holding <=> x \in Holding'
                                   /\ ip(x)' = ip(x) /\ pair(x)' = pair(x)
      /\ r \in Holding \/ r \in Holding' => ip(r)' = i /\ pair(r)' = p
  BY DEF Moves, Holding, ip, pair
<1>3. Holding \subseteq Requests /\ Holding' \subseteq Requests
  BY DEF Holding
<1>4. /\ \A k : k # i => HoldsIP(k)' = HoldsIP(k)
      /\ \A k : k # p => HoldsPair(k)' = HoldsPair(k)
  BY <1>2, <1>3 DEF HoldsIP, HoldsPair
<1>5. CASE r \in Holding <=> r \in Holding'
  <2>1. \A k : HoldsIP(k)' = HoldsIP(k) /\ HoldsPair(k)' = HoldsPair(k)
    BY <1>2, <1>3, <1>5 DEF HoldsIP, HoldsPair
  <2>2. HeldIPs' = HeldIPs /\ HeldPairs' = HeldPairs
    BY <2>1 DEF HeldIPs, HeldPairs
  <2>3. r \in Holding => r \in HoldsIP(i) /\ r \in HoldsPair(p)
    BY DEF HoldsIP, HoldsPair
  <2>4. r \in Holding => HeldIPs[i] # 0 /\ HeldPairs[p] # 0
    BY <1>1, <2>3, Holders DEF HeldIPs, HeldPairs
  <2> QED
    BY <1>1, <1>5, <2>2, <2>4
<1>6. CASE r \notin Holding /\ r \in Holding'
  <2>1. /\ HoldsIP(i)' = HoldsIP(i) \cup {r} /\ r \notin HoldsIP(i)
        /\ HoldsPair(p)' = HoldsPair(p) \cup {r} /\ r \notin HoldsPair(p)
    BY <1>2, <1>3, <1>6 DEF HoldsIP, HoldsPair
  <2>2. /\ Cardinality(HoldsIP(i)') = Cardinality(HoldsIP(i)) + 1
        /\ Cardinality(HoldsPair(p)') = Cardinality(HoldsPair(p)) + 1
    <3>1. /\ IsFiniteSet(HoldsIP(i)) /\ IsFiniteSet(HoldsPair(p))
          /\ Cardinality(HoldsIP(i)) \in Nat /\ Cardinality(HoldsPair(p)) \in Nat
      BY Holders
    <3> QED
      BY <2>1, <3>1, FS_AddElement
  <2> QED
    BY <1>1, <1>4, <1>6, <2>2 DEF HeldIPs, HeldPairs
<1>7. CASE r \in Holding /\ r \notin Holding'
  <2>1. /\ HoldsIP(i)' = HoldsIP(i) \ {r} /\ r \in HoldsIP(i)
        /\ HoldsPair(p)' = HoldsPair(p) \ {r} /\ r \in HoldsPair(p)
    BY <1>2, <1>3, <1>7 DEF HoldsIP, HoldsPair
  <2>2. /\ Cardinality(HoldsIP(i)') = Cardinality(HoldsIP(i)) - 1
        /\ Cardinality(HoldsPair(p)') = Cardinality(HoldsPair(p)) - 1
    <3>1. /\ IsFiniteSet(HoldsIP(i)) /\ IsFiniteSet(HoldsPair(p))
          /\ Cardinality(HoldsIP(i)) \in Nat /\ Cardinality(HoldsPair(p)) \in Nat
      BY Holders
    <3>2. Cardinality(HoldsIP(i) \ {r}) = Cardinality(HoldsIP(i)) - 1
      BY <2>1, <3>1, FS_RemoveElement
    <3>3. Cardinality(HoldsPair(p) \ {r}) = Cardinality(HoldsPair(p)) - 1
      BY <2>1, <3>1, FS_RemoveElement
    <3> QED
      BY <2>1, <3>2, <3>3
  <2>3. Cardinality(HoldsIP(i)) # 0 /\ Cardinality(HoldsPair(p)) # 0
    BY <2>1, Holders
  <2> QED
    BY <1>1, <1>4, <1>7, <2>2, <2>3 DEF HeldIPs, HeldPairs
<1> QED
  BY <1>5, <1>6, <1>7

\* A table stays in order as time passes.
LEMMA LaterInv ==
    ASSUME NEW K, NEW max, NEW held, NEW t, NEW time \in Nat, NEW later \in Nat, time <= later,
           TableInv(t, K, max, time, held)
    PROVE  TableInv(t, K, max, later, held)
<1>1. \A k \in DOMAIN t : BucketInv(t[k], max, later)
  BY DEF TableInv, BucketInv, Bucket
<1> QED
  BY <1>1 DEF TableInv

\* Time passes, and requests arrive, are checked and return, without touching the tables.
LEMMA QuietInv ==
    ASSUME RequestsTyped, TablesInv, NEW r \in Requests, Arrive(r) \/ Authenticate(r) \/ Return(r)
    PROVE  RequestsTyped' /\ TablesInv'
<1>1. /\ clock' = clock /\ ipBuckets' = ipBuckets /\ pairBuckets' = pairBuckets
      /\ operations' = operations
  BY DEF Arrive, Authenticate, Return
<1>2. /\ request' \in [Requests -> RequestType]
      /\ \A x \in Requests \ {r} : request'[x] = request[x]
      /\ request'[r].now <= clock
      /\ \/ request[r].pc = "idle" /\ request'[r].pc = "starting"
         \/ /\ request[r].pc = "checking" /\ request'[r].pc = "settling"
            /\ request'[r].pair = request[r].pair
         \/ request[r].pc = "returning" /\ request'[r].pc = "idle"
  <2>1. clock \in Nat /\ request \in [Requests -> RequestType] /\ request[r].now <= clock
    BY DEF RequestsTyped
  <2>2. CASE Arrive(r)
    <3>1. PICK q \in Pairs : request' =
              [request EXCEPT ![r] = [pc |-> "starting", pair |-> q, now |-> clock,
                                      verdict |-> "none"]]
      BY <2>2 DEF Arrive
    <3>2. [pc |-> "starting", pair |-> q, now |-> clock, verdict |-> "none"] \in RequestType
      BY <2>1 DEF RequestType
    <3>3. request[r].pc = "idle"
      BY <2>2 DEF Arrive
    <3> QED
      BY <2>1, <3>1, <3>2, <3>3
  <2>3. CASE Authenticate(r)
    <3>1. PICK v \in {"failure", "success", "canceled"} : request' =
              [request EXCEPT ![r].pc = "settling", ![r].now = clock, ![r].verdict = v]
      BY <2>3 DEF Authenticate
    <3>2. request[r].pc = "checking"
      BY <2>3 DEF Authenticate
    <3>3. /\ request' \in [Requests -> RequestType]
          /\ \A x \in Requests \ {r} : request'[x] = request[x]
      <4>1. PICK s \in [Requests -> RequestType] :
                s = [request EXCEPT ![r].pc = "settling", ![r].now = clock]
        BY <2>1 DEF RequestType
      <4>2. request' = [s EXCEPT ![r].verdict = v]
        BY <3>1, <4>1
      <4> QED
        BY <2>1, <4>1, <4>2, ZenonT(30) DEF RequestType
    <3>4. /\ request'[r].pc = "settling" /\ request'[r].now = clock
          /\ request'[r].pair = request[r].pair
      BY <2>1, <3>1 DEF RequestType
    <3> QED
      BY <2>1, <3>2, <3>3, <3>4
  <2>4. CASE Return(r)
    <3>1. /\ request[r].pc = "returning"
          /\ request' = [request EXCEPT ![r].pc = "idle", ![r].verdict = "none"]
      BY <2>4 DEF Return
    <3>2. /\ request' \in [Requests -> RequestType]
          /\ \A x \in Requests \ {r} : request'[x] = request[x]
      BY <2>1, <3>1, ZenonT(30) DEF RequestType
    <3>3. request'[r].pc = "idle" /\ request'[r].now = request[r].now
      BY <2>1, <3>1 DEF RequestType
    <3> QED
      BY <2>1, <3>1, <3>2, <3>3
  <2> QED
    BY <2>2, <2>3, <2>4
<1>3. RequestsTyped'
  BY <1>1, <1>2 DEF RequestsTyped
<1>4. Moves(r) /\ (r \in Holding <=> r \in Holding')
  BY <1>2 DEF Moves, Holding
<1>5. HeldIPs' = HeldIPs /\ HeldPairs' = HeldPairs
  BY <1>4, Counts
<1>6. TablesInv'
  BY <1>1, <1>5 DEF TablesInv
<1> QED
  BY <1>3, <1>6

\* Time passes.
LEMMA TickInv ==
    ASSUME RequestsTyped, TablesInv, Tick
    PROVE  RequestsTyped' /\ TablesInv'
<1>1. /\ clock \in Nat /\ clock' = clock + 1 /\ clock < MaxTime
      /\ UNCHANGED <<request, ipBuckets, pairBuckets, operations>>
  BY DEF Tick, RequestsTyped
<1>2. RequestsTyped'
  BY <1>1 DEF RequestsTyped, RequestType
<1>3. HeldIPs' = HeldIPs /\ HeldPairs' = HeldPairs
  BY <1>1 DEF HeldIPs, HeldPairs, HoldsIP, HoldsPair, Holding, ip, pair
<1>4. TablesInv'
  BY <1>1, <1>3, LaterInv DEF TablesInv
<1> QED
  BY <1>2, <1>4

\* A table u that Start makes of t, with T in between: a lockout stays but for a full
\* table, and when u has outgrown its size it holds only buckets in use and the new one.
Begun(t, T, u, K, max, size, time, held, k) ==
    /\ TableInv(u, K, max, time, held) /\ DOMAIN u = DOMAIN T \cup {k}
    /\ Cardinality(DOMAIN T) < size \/ \A x \in DOMAIN T : held[x] # 0
    /\ \A x \in DOMAIN t : time < t[x].blockedUntil =>
          \/ x \in DOMAIN u /\ u[x].blockedUntil = t[x].blockedUntil
          \/ Cardinality(DOMAIN t) >= size

\* Start prunes a table and tracks a key.
LEMMA Started ==
    ASSUME NEW K, IsFiniteSet(K), NEW max \in Nat \ {0}, NEW size \in Nat \ {0},
           NEW time \in Nat, NEW now \in Nat, now <= time,
           NEW held, NEW t, TableInv(t, K, max, time, held), NEW k \in K,
           Cardinality(DOMAIN t) >= size => PruneDue,
           NEW T \in Pruned(t, size, now), NEW u, u = Tracked(T, k, now)
    PROVE  Begun(t, T, u, K, max, size, time, held, k)
<1>1. /\ TableInv(T, K, max, time, held) /\ DOMAIN T \subseteq DOMAIN t
      /\ \A x \in DOMAIN T : T[x] = t[x]
      /\ Cardinality(DOMAIN T) < size \/ \A x \in DOMAIN T : held[x] # 0 \/ ~PruneDue
      /\ \A x \in DOMAIN t \ DOMAIN T :
            now >= t[x].blockedUntil \/ Cardinality(DOMAIN t) >= size
  BY PrunedInv
<1>2. /\ TableInv(u, K, max, time, held) /\ DOMAIN u = DOMAIN T \cup {k}
      /\ \A x \in DOMAIN T : now < T[x].blockedUntil => u[x].blockedUntil = T[x].blockedUntil
  <2>1. TableInv(T, K, max, time, held)
    BY <1>1
  <2>2. Grown(T, Tracked(T, k, now), K, max, time, held, k, now)
    BY <2>1, TrackedInv
  <2> QED
    BY <2>2 DEF Grown
<1>3. Cardinality(DOMAIN T) < size \/ \A x \in DOMAIN T : held[x] # 0
  <2>1. CASE PruneDue
    BY <1>1, <2>1
  <2>2. CASE ~PruneDue
    <3>1. DOMAIN t \subseteq K
      BY DEF TableInv
    <3>2. /\ IsFiniteSet(DOMAIN t) /\ Cardinality(DOMAIN t) \in Nat
          /\ Cardinality(DOMAIN T) \in Nat /\ Cardinality(DOMAIN T) <= Cardinality(DOMAIN t)
      BY <1>1, <3>1, FS_Subset, FS_CardinalityType
    <3> QED
      BY <2>2, <3>2
  <2> QED
    BY <2>1, <2>2
<1>4. ASSUME NEW x \in DOMAIN t, time < t[x].blockedUntil
      PROVE  \/ x \in DOMAIN u /\ u[x].blockedUntil = t[x].blockedUntil
             \/ Cardinality(DOMAIN t) >= size
  <2>1. t[x].blockedUntil \in Nat
    BY DEF TableInv, BucketInv, Bucket
  <2>2. now < t[x].blockedUntil
    BY <1>4, <2>1
  <2> QED
    BY <1>1, <1>2, <2>1, <2>2
<1> QED
  BY <1>2, <1>3, <1>4 DEF Begun

\* A reservation in a table.
LEMMA ReservedTable ==
    ASSUME NEW K, NEW max \in Nat \ {0}, NEW time \in Nat, NEW now \in Nat,
           NEW held, NEW t, TableInv(t, K, max, time, held), NEW k \in DOMAIN t,
           ~Refuses(t[k], max, now), NEW u, u = Changed(t, k, Reserved(t[k])),
           NEW held2, held2[k] = held[k] + 1, \A x \in K \ {k} : held2[x] = held[x]
    PROVE  /\ TableInv(u, K, max, time, held2) /\ DOMAIN u = DOMAIN t
           /\ \A x \in DOMAIN t : u[x].blockedUntil = t[x].blockedUntil
<1>1. BucketInv(t[k], max, time) /\ t[k].inFlight = held[k]
  BY DEF TableInv
<1>2. /\ BucketInv(Reserved(t[k]), max, time) /\ Reserved(t[k]).inFlight = held2[k]
      /\ Reserved(t[k]).blockedUntil = t[k].blockedUntil
  BY <1>1, ReservedInv
<1>3. TableInv(u, K, max, time, held2)
  BY <1>2, ChangedInv
<1>4. DOMAIN u = DOMAIN t /\ \A x \in DOMAIN t : u[x].blockedUntil = t[x].blockedUntil
  BY <1>2 DEF Changed
<1> QED
  BY <1>3, <1>4

\* What a step must do to the tables: keep them in order and keep lockouts.
Good(t, u, K, max, size, held2) ==
    TableInv(u, K, max, clock, held2) /\ LockoutStays(t, u, size)

\* Start finds the tables in order and leaves them so.
LEMMA StartStep ==
    ASSUME RequestsTyped, TablesInv, NEW r \in Requests, Start(r)
    PROVE  /\ RequestsTyped'
           /\ Good(ipBuckets, ipBuckets', IPs, IPMaxFailures, MaxTrackedIPs, HeldIPs')
           /\ Good(pairBuckets, pairBuckets', Pairs, PairMaxFailures, MaxTrackedPairs,
                   HeldPairs')
           /\ \E D \in SUBSET IPs, i \in IPs :
                 /\ DOMAIN ipBuckets' = D \cup {i}
                 /\ Cardinality(D) < MaxTrackedIPs \/ \A k \in D : HeldIPs[k] # 0
           /\ \E D \in SUBSET Pairs, p \in Pairs :
                 /\ DOMAIN pairBuckets' = D \cup {p}
                 /\ Cardinality(D) < MaxTrackedPairs \/ \A k \in D : HeldPairs[k] # 0
<1>1. PICK i \in IPs, p \in Pairs, now \in Nat :
          i = ip(r) /\ p = pair(r) /\ now = request[r].now /\ now <= clock
  BY Keys DEF RequestsTyped, RequestType
<1>2. PICK I \in Pruned(ipBuckets, MaxTrackedIPs, now),
           P \in Pruned(pairBuckets, MaxTrackedPairs, now) :
          LET u == Tracked(I, i, now)
              v == Tracked(P, p, now)
          IN  IF Refuses(u[i], IPMaxFailures, now) \/ Refuses(v[p], PairMaxFailures, now)
              THEN /\ ipBuckets' = u /\ pairBuckets' = v
                   /\ request' = [request EXCEPT ![r].pc = "idle", ![r].now = 0]
              ELSE /\ ipBuckets' = Changed(u, i, Reserved(u[i]))
                   /\ pairBuckets' = Changed(v, p, Reserved(v[p]))
                   /\ request' = [request EXCEPT ![r].pc = "checking", ![r].now = 0]
  BY <1>1 DEF Start
<1>3. PICK u, v : u = Tracked(I, i, now) /\ v = Tracked(P, p, now)
  OBVIOUS
<1>4. /\ clock \in Nat /\ clock' = clock /\ operations' \in 0..(PruneEvery - 1)
      /\ request \in [Requests -> RequestType] /\ request[r].pc = "starting"
      /\ TableInv(ipBuckets, IPs, IPMaxFailures, clock, HeldIPs)
      /\ TableInv(pairBuckets, Pairs, PairMaxFailures, clock, HeldPairs)
  BY DEF Start, RequestsTyped, TablesInv
<1>5. /\ TableInv(u, IPs, IPMaxFailures, clock, HeldIPs) /\ DOMAIN u = DOMAIN I \cup {i}
      /\ Cardinality(DOMAIN I) < MaxTrackedIPs \/ \A k \in DOMAIN I : HeldIPs[k] # 0
      /\ LockoutStays(ipBuckets, u, MaxTrackedIPs)
  <2>1. /\ IsFiniteSet(IPs) /\ IPMaxFailures \in Nat \ {0} /\ MaxTrackedIPs \in Nat \ {0}
        /\ Cardinality(DOMAIN ipBuckets) >= MaxTrackedIPs => PruneDue
    BY Holders DEF PruneDue
  <2>2. Begun(ipBuckets, I, u, IPs, IPMaxFailures, MaxTrackedIPs, clock, HeldIPs, i)
    BY <1>1, <1>2, <1>3, <1>4, <2>1, Started
  <2> QED
    BY <2>2 DEF Begun, LockoutStays
<1>6. /\ TableInv(v, Pairs, PairMaxFailures, clock, HeldPairs) /\ DOMAIN v = DOMAIN P \cup {p}
      /\ Cardinality(DOMAIN P) < MaxTrackedPairs \/ \A k \in DOMAIN P : HeldPairs[k] # 0
      /\ LockoutStays(pairBuckets, v, MaxTrackedPairs)
  <2>1. /\ IsFiniteSet(Pairs) /\ PairMaxFailures \in Nat \ {0} /\ MaxTrackedPairs \in Nat \ {0}
        /\ Cardinality(DOMAIN pairBuckets) >= MaxTrackedPairs => PruneDue
    BY Holders DEF PruneDue
  <2>2. Begun(pairBuckets, P, v, Pairs, PairMaxFailures, MaxTrackedPairs, clock, HeldPairs, p)
    BY <1>1, <1>2, <1>3, <1>4, <2>1, Started
  <2> QED
    BY <2>2 DEF Begun, LockoutStays
<1>7. DOMAIN I \in SUBSET IPs /\ DOMAIN P \in SUBSET Pairs
  BY <1>5, <1>6 DEF TableInv
<1>8. CASE Refuses(u[i], IPMaxFailures, now) \/ Refuses(v[p], PairMaxFailures, now)
  <2>1. /\ ipBuckets' = u /\ pairBuckets' = v
        /\ request' = [request EXCEPT ![r].pc = "idle", ![r].now = 0]
    BY <1>2, <1>3, <1>8
  <2>2. Moves(r) /\ r \notin Holding /\ r \notin Holding' /\ RequestsTyped'
    <3>1. /\ request' \in [Requests -> RequestType]
          /\ \A x \in Requests \ {r} : request'[x] = request[x]
      BY <1>4, <2>1, ZenonT(30) DEF RequestType
    <3>2. /\ request'[r].pc = "idle" /\ request'[r].now = 0
          /\ request'[r].pair = request[r].pair
      BY <1>4, <2>1 DEF RequestType
    <3>3. RequestsTyped'
      BY <1>4, <3>1, <3>2 DEF RequestsTyped
    <3> QED
      BY <1>4, <3>1, <3>2, <3>3 DEF Moves, Holding
  <2>3. HeldIPs' = HeldIPs /\ HeldPairs' = HeldPairs
    BY <2>2, Counts
  <2> QED
    BY <1>1, <1>5, <1>6, <1>7, <2>1, <2>2, <2>3 DEF Good
<1>9. CASE ~(Refuses(u[i], IPMaxFailures, now) \/ Refuses(v[p], PairMaxFailures, now))
  <2>1. /\ ipBuckets' = Changed(u, i, Reserved(u[i]))
        /\ pairBuckets' = Changed(v, p, Reserved(v[p]))
        /\ request' = [request EXCEPT ![r].pc = "checking", ![r].now = 0]
    BY <1>2, <1>3, <1>9
  <2>2. Moves(r) /\ r \notin Holding /\ r \in Holding' /\ RequestsTyped'
    <3>1. /\ request' \in [Requests -> RequestType]
          /\ \A x \in Requests \ {r} : request'[x] = request[x]
      BY <1>4, <2>1, ZenonT(30) DEF RequestType
    <3>2. /\ request'[r].pc = "checking" /\ request'[r].now = 0
          /\ request'[r].pair = request[r].pair
      BY <1>4, <2>1 DEF RequestType
    <3>3. RequestsTyped'
      BY <1>4, <3>1, <3>2 DEF RequestsTyped
    <3> QED
      BY <1>4, <3>1, <3>2, <3>3 DEF Moves, Holding
  <2>3. /\ HeldIPs'[i] = HeldIPs[i] + 1 /\ \A k \in IPs \ {i} : HeldIPs'[k] = HeldIPs[k]
        /\ HeldPairs'[p] = HeldPairs[p] + 1
        /\ \A k \in Pairs \ {p} : HeldPairs'[k] = HeldPairs[k]
    BY <1>1, <2>2, Counts
  <2>4. /\ TableInv(ipBuckets', IPs, IPMaxFailures, clock, HeldIPs')
        /\ DOMAIN ipBuckets' = DOMAIN u
        /\ \A k \in DOMAIN u : ipBuckets'[k].blockedUntil = u[k].blockedUntil
    BY <1>4, <1>5, <1>9, <2>1, <2>3, ReservedTable, SMTT(30)
  <2>5. /\ TableInv(pairBuckets', Pairs, PairMaxFailures, clock, HeldPairs')
        /\ DOMAIN pairBuckets' = DOMAIN v
        /\ \A k \in DOMAIN v : pairBuckets'[k].blockedUntil = v[k].blockedUntil
    BY <1>4, <1>6, <1>9, <2>1, <2>3, ReservedTable, SMTT(30)
  <2>6. LockoutStays(ipBuckets, ipBuckets', MaxTrackedIPs)
    BY <1>5, <2>4 DEF LockoutStays
  <2>7. LockoutStays(pairBuckets, pairBuckets', MaxTrackedPairs)
    BY <1>6, <2>5 DEF LockoutStays
  <2> QED
    BY <1>5, <1>6, <1>7, <2>2, <2>4, <2>5, <2>6, <2>7 DEF Good
<1> QED
  BY <1>8, <1>9

\* A table u of the same keys, in order and with the lockouts of t.
Kept(t, u, K, max, time, held) ==
    /\ TableInv(u, K, max, time, held) /\ DOMAIN u = DOMAIN t
    /\ \A x \in DOMAIN t : time < t[x].blockedUntil => u[x].blockedUntil = t[x].blockedUntil

\* The end of an attempt in a table: its bucket is there, and is not locked out.
LEMMA SettledTable ==
    ASSUME NEW K, NEW max \in Nat \ {0}, NEW time \in Nat, NEW now \in Nat, now <= time,
           NEW held, NEW t, TableInv(t, K, max, time, held), NEW k \in K, held[k] # 0,
           NEW c, k \in DOMAIN t =>
              c \in {Failed(t[k], max, now), Cleared(t[k], now), Finished(t[k], now)},
           NEW held2, held2[k] = held[k] - 1, \A x \in K \ {k} : held2[x] = held[x]
    PROVE  Kept(t, Changed(t, k, c), K, max, time, held2)
<1>1. k \in DOMAIN t
  BY DEF TableInv
<1>2. /\ BucketInv(t[k], max, time) /\ t[k].inFlight = held[k]
      /\ t[k].inFlight > 0 /\ t[k].blockedUntil = 0
  BY <1>1 DEF TableInv, BucketInv, Bucket
<1>3. c \in {Failed(t[k], max, now), Cleared(t[k], now), Finished(t[k], now)}
  BY <1>1
<1>4. BucketInv(c, max, time) /\ c.inFlight = held2[k]
  BY <1>2, <1>3, SettledInv
<1>5. PICK u : u = Changed(t, k, c)
  OBVIOUS
<1>6. TableInv(u, K, max, time, held2)
  BY <1>1, <1>4, <1>5, ChangedInv
<1>7. DOMAIN u = DOMAIN t /\ \A x \in DOMAIN t \ {k} : u[x] = t[x]
  BY <1>5 DEF Changed
<1>8. \A x \in DOMAIN t : time < t[x].blockedUntil => u[x].blockedUntil = t[x].blockedUntil
  BY <1>2, <1>7
<1> QED
  BY <1>5, <1>6, <1>7, <1>8 DEF Kept

\* Settle finds the tables in order and leaves them so.
LEMMA SettleStep ==
    ASSUME RequestsTyped, TablesInv, NEW r \in Requests, Settle(r)
    PROVE  /\ RequestsTyped'
           /\ Good(ipBuckets, ipBuckets', IPs, IPMaxFailures, MaxTrackedIPs, HeldIPs')
           /\ Good(pairBuckets, pairBuckets', Pairs, PairMaxFailures, MaxTrackedPairs,
                   HeldPairs')
           /\ DOMAIN ipBuckets' = DOMAIN ipBuckets /\ DOMAIN pairBuckets' = DOMAIN pairBuckets
<1>1. PICK i \in IPs, p \in Pairs, now \in Nat :
          i = ip(r) /\ p = pair(r) /\ now = request[r].now /\ now <= clock
  BY Keys DEF RequestsTyped, RequestType
<1>2. /\ clock \in Nat /\ clock' = clock /\ operations' \in 0..(PruneEvery - 1)
      /\ request \in [Requests -> RequestType] /\ request[r].pc = "settling"
      /\ request' = [request EXCEPT ![r].pc = "returning", ![r].now = 0]
      /\ TableInv(ipBuckets, IPs, IPMaxFailures, clock, HeldIPs)
      /\ TableInv(pairBuckets, Pairs, PairMaxFailures, clock, HeldPairs)
  BY DEF Settle, RequestsTyped, TablesInv
<1>3. Moves(r) /\ r \in Holding /\ r \notin Holding' /\ RequestsTyped'
  <2>1. /\ request' \in [Requests -> RequestType]
        /\ \A x \in Requests \ {r} : request'[x] = request[x]
    BY <1>2, ZenonT(30) DEF RequestType
  <2>2. /\ request'[r].pc = "returning" /\ request'[r].now = 0
        /\ request'[r].pair = request[r].pair
    BY <1>2 DEF RequestType
  <2>3. RequestsTyped'
    BY <1>2, <2>1, <2>2 DEF RequestsTyped
  <2> QED
    BY <1>2, <2>1, <2>2, <2>3 DEF Moves, Holding
<1>4. /\ HeldIPs[i] # 0 /\ HeldIPs'[i] = HeldIPs[i] - 1
      /\ \A k \in IPs \ {i} : HeldIPs'[k] = HeldIPs[k]
      /\ HeldPairs[p] # 0 /\ HeldPairs'[p] = HeldPairs[p] - 1
      /\ \A k \in Pairs \ {p} : HeldPairs'[k] = HeldPairs[k]
  BY <1>1, <1>3, Counts
<1>5. Kept(ipBuckets, ipBuckets', IPs, IPMaxFailures, clock, HeldIPs')
  <2>1. PICK c : /\ ipBuckets' = Changed(ipBuckets, i, c)
                 /\ i \in DOMAIN ipBuckets =>
                       c \in {Failed(ipBuckets[i], IPMaxFailures, now),
                              Cleared(ipBuckets[i], now), Finished(ipBuckets[i], now)}
    BY <1>1 DEF Settle, SettledIn
  <2>2. IPMaxFailures \in Nat \ {0}
    OBVIOUS
  <2> QED
    BY <1>1, <1>2, <1>4, <2>1, <2>2, SettledTable
<1>6. Kept(pairBuckets, pairBuckets', Pairs, PairMaxFailures, clock, HeldPairs')
  <2>1. PICK c : /\ pairBuckets' = Changed(pairBuckets, p, c)
                 /\ p \in DOMAIN pairBuckets =>
                       c \in {Failed(pairBuckets[p], PairMaxFailures, now),
                              Cleared(pairBuckets[p], now), Finished(pairBuckets[p], now)}
    BY <1>1 DEF Settle, SettledIn
  <2>2. PairMaxFailures \in Nat \ {0}
    OBVIOUS
  <2> QED
    BY <1>1, <1>2, <1>4, <2>1, <2>2, SettledTable
<1> QED
  BY <1>3, <1>5, <1>6 DEF Kept, Good, LockoutStays

-----------------------------------------------------------------------------
(***************************************************************************)
(* The theorems.                                                           *)
(***************************************************************************)

\* The inductive invariant, part by part.
LInv == RequestsTyped /\ TablesInv

\* The limiter begins with empty tables and nobody under way.
LEMMA InitInv == Init => LInv
<1> SUFFICES ASSUME Init PROVE LInv
  OBVIOUS
<1>1. RequestsTyped
  BY DEF Init, RequestsTyped, RequestType
<1>2. Holding = {} /\ DOMAIN ipBuckets = {} /\ DOMAIN pairBuckets = {}
  BY DEF Init, Holding
<1>3. (\A k \in IPs : HeldIPs[k] = 0) /\ (\A k \in Pairs : HeldPairs[k] = 0)
  <2>1. \A k : HoldsIP(k) = {} /\ HoldsPair(k) = {}
    BY <1>2 DEF HoldsIP, HoldsPair
  <2> QED
    BY <2>1, FS_EmptySet DEF HeldIPs, HeldPairs
<1>4. /\ ipBuckets = [k \in DOMAIN ipBuckets |-> ipBuckets[k]]
      /\ pairBuckets = [k \in DOMAIN pairBuckets |-> pairBuckets[k]]
  BY DEF Init
<1> QED
  BY <1>1, <1>2, <1>3, <1>4 DEF LInv, TablesInv, TableInv

\* No step of any request, and no tick, breaks it.
LEMMA NextInv == LInv /\ [Next]_vars => LInv'
<1> SUFFICES ASSUME RequestsTyped, TablesInv, [Next]_vars
             PROVE  RequestsTyped' /\ TablesInv'
  BY DEF LInv
<1>1. CASE Tick
  BY <1>1, TickInv
<1>2. ASSUME NEW r \in Requests, Arrive(r) \/ Authenticate(r) \/ Return(r)
      PROVE  RequestsTyped' /\ TablesInv'
  BY <1>2, QuietInv
<1>3. ASSUME NEW r \in Requests, Start(r)
      PROVE  RequestsTyped' /\ TablesInv'
  <2>1. clock' = clock
    BY <1>3 DEF Start
  <2> QED
    BY <1>3, <2>1, StartStep DEF Good, TablesInv
<1>4. ASSUME NEW r \in Requests, Settle(r)
      PROVE  RequestsTyped' /\ TablesInv'
  <2>1. clock' = clock
    BY <1>4 DEF Settle
  <2> QED
    BY <1>4, <2>1, SettleStep DEF Good, TablesInv
<1>5. CASE UNCHANGED vars
  <2>1. RequestsTyped'
    BY <1>5 DEF vars, RequestsTyped
  <2>2. HeldIPs' = HeldIPs /\ HeldPairs' = HeldPairs
    BY <1>5 DEF vars, HeldIPs, HeldPairs, HoldsIP, HoldsPair, Holding, ip, pair
  <2> QED
    BY <1>5, <2>1, <2>2 DEF vars, TablesInv
<1> QED
  BY <1>1, <1>2, <1>3, <1>4, <1>5 DEF Next

\* Every state of the limiter satisfies the inductive invariant: the types, the count of
\* the reservations, the limits and the lockouts (Start, Failure, Success and Cancel, with
\* bucketLocked, finishLoginAttempt and recordLoginFailure in login_protection.go).
THEOREM Invariance == Spec => []IInv
<1>1. LInv => IInv
  BY InvParts DEF LInv
<1> QED
  BY <1>1, InitInv, NextInv, PTL DEF Spec

\* Types are a part of the invariant: no bucket runs ahead of the clock.
THEOREM TypeCorrect == Spec => []TypeOK
<1>1. IInv => TypeOK
  BY DEF IInv
<1> QED
  BY <1>1, Invariance, PTL

\* A set onto which another is mapped has no more elements.
LEMMA Onto ==
    ASSUME NEW S, IsFiniteSet(S), NEW D, NEW f, \A d \in D : \E s \in S : f[s] = d
    PROVE  IsFiniteSet(D) /\ Cardinality(D) <= Cardinality(S)
<1> DEFINE R == {s \in S : f[s] \in D}
           g == [s \in R |-> f[s]]
<1>1. g \in Surjection(R, D)
  BY DEF Surjection
<1>2. IsFiniteSet(R) /\ Cardinality(R) <= Cardinality(S)
  BY FS_Subset
<1>3. IsFiniteSet(D) /\ Cardinality(D) <= Cardinality(R)
  BY <1>1, <1>2, FS_Surjection
<1>4. Cardinality(D) \in Nat /\ Cardinality(R) \in Nat /\ Cardinality(S) \in Nat
  BY <1>2, <1>3, FS_CardinalityType
<1> HIDE DEF R
<1> QED
  BY <1>2, <1>3, <1>4

\* The bound of a table: its own size, or the number of the requests.
Limit(max) == IF max >= Cardinality(Requests) THEN max ELSE Cardinality(Requests)

\* While a request that holds nothing begins, keys that are all in use are fewer than
\* the requests, and there is room for one more.
LEMMA RoomForOne ==
    ASSUME NEW r \in Requests, r \notin Holding, NEW max \in Nat \ {0},
           NEW D, IsFiniteSet(D), NEW k, NEW f,
           Cardinality(D) < max \/ \A d \in D : \E h \in Holding : f[h] = d
    PROVE  Cardinality(D \cup {k}) <= Limit(max)
<1>1. Cardinality(D) \in Nat /\ Cardinality(Requests) \in Nat /\ Cardinality(Holding) \in Nat
  BY Holders, FS_CardinalityType
<1>2. Cardinality(D \cup {k}) <= Cardinality(D) + 1 /\ Cardinality(D \cup {k}) \in Nat
  <2>1. /\ IsFiniteSet(D \cup {k})
        /\ Cardinality(D \cup {k}) = IF k \in D THEN Cardinality(D) ELSE Cardinality(D) + 1
    BY FS_AddElement
  <2> QED
    BY <1>1, <2>1
<1>3. CASE Cardinality(D) < max
  BY <1>1, <1>2, <1>3 DEF Limit
<1>4. CASE \A d \in D : \E h \in Holding : f[h] = d
  <2>1. Cardinality(D) <= Cardinality(Holding)
    BY <1>4, Holders, Onto
  <2>2. Cardinality(Holding) < Cardinality(Requests)
    <3>1. /\ IsFiniteSet(Requests \ {r}) /\ Cardinality(Requests \ {r}) \in Nat
          /\ Cardinality(Requests \ {r}) = Cardinality(Requests) - 1
      BY FS_RemoveElement, FS_CardinalityType
    <3>2. Holding \in SUBSET (Requests \ {r})
      BY DEF Holding
    <3>3. Cardinality(Holding) <= Cardinality(Requests \ {r})
      BY <3>1, <3>2, FS_Subset
    <3> QED
      BY <1>1, <3>1, <3>3
  <2> QED
    BY <1>1, <1>2, <2>1, <2>2 DEF Limit
<1> QED
  BY <1>3, <1>4

\* The tables never outgrow their size but by requests under way: Start prunes a full
\* table, all that pruning spares is in use, and it adds one key of a request that holds
\* no reservation yet (pruneLocked and Start in login_protection.go).
THEOREM BoundedTables == Spec => []TablesAreBounded
<1> DEFINE Small == /\ Cardinality(DOMAIN ipBuckets) <= Limit(MaxTrackedIPs)
                    /\ Cardinality(DOMAIN pairBuckets) <= Limit(MaxTrackedPairs)
<1>1. Small <=> TablesAreBounded
  BY DEF TablesAreBounded, Limit
<1>2. Init => Small
  <2>1. Cardinality(Requests) \in Nat
    BY FS_CardinalityType
  <2>2. Init => DOMAIN ipBuckets = {} /\ DOMAIN pairBuckets = {}
    BY DEF Init
  <2> QED
    BY <2>1, <2>2, FS_EmptySet DEF Limit
<1>3. LInv /\ Small /\ [Next]_vars => Small'
  <2> SUFFICES ASSUME RequestsTyped, TablesInv, Small, [Next]_vars PROVE Small'
    BY DEF LInv
  <2>1. ASSUME DOMAIN ipBuckets' = DOMAIN ipBuckets, DOMAIN pairBuckets' = DOMAIN pairBuckets
        PROVE  Small'
    BY <2>1 DEF Limit
  <2>2. ASSUME NEW r \in Requests, Start(r)
        PROVE  Small'
    <3>1. r \notin Holding
      BY <2>2 DEF Start, Holding
    <3>2. PICK D \in SUBSET IPs, i \in IPs :
              /\ DOMAIN ipBuckets' = D \cup {i}
              /\ Cardinality(D) < MaxTrackedIPs \/ \A k \in D : HeldIPs[k] # 0
      BY <2>2, StartStep
    <3>3. PICK E \in SUBSET Pairs, p \in Pairs :
              /\ DOMAIN pairBuckets' = E \cup {p}
              /\ Cardinality(E) < MaxTrackedPairs \/ \A k \in E : HeldPairs[k] # 0
      BY <2>2, StartStep
    <3>4. IsFiniteSet(D) /\ IsFiniteSet(E)
      BY Holders, FS_Subset
    <3>5. Cardinality(D \cup {i}) <= Limit(MaxTrackedIPs)
      <4> DEFINE f == [h \in Holding |-> ip(h)]
      <4>1. ASSUME NEW k \in D, HeldIPs[k] # 0
            PROVE  \E h \in Holding : f[h] = k
        <5>1. HoldsIP(k) # {}
          BY <4>1, Holders DEF HeldIPs
        <5> QED
          BY <5>1 DEF HoldsIP
      <4>2. Cardinality(D) < MaxTrackedIPs \/ \A k \in D : \E h \in Holding : f[h] = k
        BY <3>2, <4>1
      <4> HIDE DEF f
      <4> QED
        BY <3>1, <3>4, <4>2, RoomForOne
    <3>6. Cardinality(E \cup {p}) <= Limit(MaxTrackedPairs)
      <4> DEFINE f == [h \in Holding |-> pair(h)]
      <4>1. ASSUME NEW k \in E, HeldPairs[k] # 0
            PROVE  \E h \in Holding : f[h] = k
        <5>1. HoldsPair(k) # {}
          BY <4>1, Holders DEF HeldPairs
        <5> QED
          BY <5>1 DEF HoldsPair
      <4>2. Cardinality(E) < MaxTrackedPairs \/ \A k \in E : \E h \in Holding : f[h] = k
        BY <3>3, <4>1
      <4> HIDE DEF f
      <4> QED
        BY <3>1, <3>4, <4>2, RoomForOne
    <3>7. /\ Cardinality(DOMAIN ipBuckets') <= Limit(MaxTrackedIPs)
          /\ Cardinality(DOMAIN pairBuckets') <= Limit(MaxTrackedPairs)
      BY <3>2, <3>3, <3>5, <3>6
    <3> QED
      BY <3>7 DEF Limit
  <2>3. ASSUME NEW r \in Requests, Settle(r)
        PROVE  Small'
    BY <2>1, <2>3, SettleStep
  <2>4. CASE Tick \/ UNCHANGED vars
    BY <2>1, <2>4 DEF Tick, vars
  <2>5. ASSUME NEW r \in Requests, Arrive(r) \/ Authenticate(r) \/ Return(r)
        PROVE  Small'
    BY <2>1, <2>5 DEF Arrive, Authenticate, Return
  <2> QED
    BY <2>2, <2>3, <2>4, <2>5 DEF Next
<1> QED
  BY <1>1, <1>2, <1>3, InitInv, NextInv, PTL DEF Spec

\* No step ends a lockout early, except the eviction of a bucket from a full table:
\* not a request with a stale clock, a new window or a success (login_protection.go).
THEOREM LockoutsLast == Spec => LockoutLasts
<1> DEFINE Stays == /\ LockoutStays(ipBuckets, ipBuckets', MaxTrackedIPs)
                    /\ LockoutStays(pairBuckets, pairBuckets', MaxTrackedPairs)
<1>1. LInv /\ [Next]_vars => Stays
  <2> SUFFICES ASSUME RequestsTyped, TablesInv, [Next]_vars PROVE Stays
    BY DEF LInv
  <2>1. ASSUME ipBuckets' = ipBuckets, pairBuckets' = pairBuckets
        PROVE  Stays
    BY <2>1 DEF LockoutStays
  <2>2. ASSUME NEW r \in Requests, Start(r)
        PROVE  Stays
    BY <2>2, StartStep DEF Good
  <2>3. ASSUME NEW r \in Requests, Settle(r)
        PROVE  Stays
    BY <2>3, SettleStep DEF Good
  <2>4. CASE Tick \/ UNCHANGED vars
    BY <2>1, <2>4 DEF Tick, vars
  <2>5. ASSUME NEW r \in Requests, Arrive(r) \/ Authenticate(r) \/ Return(r)
        PROVE  Stays
    BY <2>1, <2>5 DEF Arrive, Authenticate, Return
  <2> QED
    BY <2>2, <2>3, <2>4, <2>5 DEF Next
<1>2. LInv /\ [Next]_vars => [Stays]_vars
  BY <1>1
<1> QED
  BY <1>2, InitInv, NextInv, PTL DEF Spec, LockoutLasts
=============================================================================
