--------------------------- MODULE CollectionProofs ---------------------------
(***************************************************************************)
(* Proofs about Collection: type correctness, QueueAllIsComplete,          *)
(* ExpiredIsGone and SplitIsRepaired, for any number of domains, requests, *)
(* days, calls, claims, errors and restarts, any domains file and any      *)
(* retention period.                                                       *)
(***************************************************************************)
EXTENDS Collection, TLAPS

USE CollectionAssumption

Callers == Requests \cup {Main}

\* A call ends on the day it began, or the next.  The cron's goroutine alone cleans, reads
\* the domains file and fills the children's queues; requests come when start-up is over.
CallsBelong ==
    \A c \in Callers :
        /\ call[c].pc # "idle" => call[c].day <= today /\ today <= call[c].day + 1
        /\ c # Main => call[c].pc \in {"idle", "list", "queue", "archive"}
        /\ c # Main /\ process # "serving" => call[c].pc = "idle"
        /\ call[c].pc = "backfill" => process = "starting"
        /\ call[c].pc = "archive" => call[c].item \in Keys /\ call[c].at \in 1..3

\* A loop works on one of the items it has left, from the first queue to the last.
LoopsGoOn ==
    \A c \in Callers :
        /\ call[c].pc = "queue" =>
              /\ call[c].at \in 1..3 /\ (call[c].item = NoItem => call[c].at = 1)
              /\ \A k \in call[c].left : k[2] = call[c].day
              /\ call[c].item # NoItem => call[c].item \in call[c].left
        /\ call[c].pc = "backfill" =>
              /\ call[c].at \in {2, 3} /\ (call[c].item = NoItem => call[c].at = 2)
              /\ call[c].item # NoItem =>
                    call[c].item \in call[c].left /\ domain[call[c].item[1]] = "active"

\* A worker that is not idle has a job; there are no workers before start-up is over.
WorkersBelong ==
    \A q \in Queues :
        /\ worker[q].pc # "idle" => worker[q].key \in Keys
        /\ process = "starting" => worker[q].pc = "idle"

Present(q, k) == ~Expired(k, today) => jobs[q][k] # "absent"

\* What a QueueAll has done with is in every queue, and its present item is in the queues
\* before the present one.
LoopsComplete ==
    \A c \in Callers : call[c].pc = "queue" =>
        /\ \A k \in call[c].listed \ call[c].left, q \in Queues : Present(q, k)
        /\ call[c].item # NoItem =>
              \A i \in 1..(call[c].at - 1) : Present(Queue[i], call[c].item)

\* The worker that ends a parent's job has saved its document, if the job is still there.
SavedFirst ==
    worker["aizhan"].pc = "saved" /\ jobs["aizhan"][worker["aizhan"].key] = "running"
        => worker["aizhan"].key \in docs

\* How far a cleanup has come.  The start-up's loop has nothing to do that has expired.
CleanSoFar ==
    /\ cleaned <= today
    /\ call[Main].pc = "clean" =>
        \A k \in Keys : Expired(k, call[Main].day) =>
            /\ call[Main].at > 1 => jobs["aizhan"][k] = "absent"
            /\ process = "serving" =>
                  \A i \in 1..(call[Main].at - 1) : jobs[Queue[i]][k] = "absent"
    /\ \A c \in Callers : call[c].pc = "backfill" => \A k \in call[c].left : ~Expired(k, cleaned)
    /\ SavedFirst

\* What the start-up has done with has its jobs; its present item has the first of them.
Done == Open \cup {"succeeded"}
Repaired ==
    \A c \in Callers : call[c].pc = "backfill" =>
        /\ \A k \in Keys, q \in Children :
              jobs["aizhan"][k] \in Open /\ domain[k[1]] = "active" =>
                  jobs[q][k] \in Done \/ k \in call[c].left
        /\ call[c].at = 3 => jobs["chinaz"][call[c].item] \in Done

Control == TypeOK /\ CallsBelong /\ LoopsGoOn /\ WorkersBelong
IInv ==
    Control /\ QueueAllIsComplete /\ LoopsComplete /\ ExpiredIsGone /\ CleanSoFar /\ Repaired

-----------------------------------------------------------------------------
(***************************************************************************)
(* Types.                                                                  *)
(***************************************************************************)

\* A key is a domain and a day.
LEMMA KeyFields ==
    /\ \A k \in Keys : k[1] \in Domains /\ k[2] \in Nat
    /\ NoItem \notin Keys
    /\ \A d \in Domains, day \in Days : <<d, day>> \in Keys
    /\ \A D \in SUBSET Domains, day \in Days : D \X {day} \in SUBSET Keys
<1>1. \A k \in Domains \X Days : k[1] \in Domains /\ k[2] \in Nat
  OBVIOUS
<1>2. \A D \in SUBSET Domains, day \in Days : D \X {day} \in SUBSET (Domains \X Days)
  OBVIOUS
<1> QED
  BY <1>1, <1>2 DEF Keys

\* A later day has what an earlier one has expired; a day is not expired on the next.
LEMMA ExpiredLater ==
    ASSUME NEW k \in Keys, NEW m \in Nat, NEW n \in Nat
    PROVE  /\ m <= n /\ Expired(k, m) => Expired(k, n)
           /\ Expired(k, n) => k[2] + 1 < n
<1>1. k[2] \in Nat /\ RetentionDays \in Nat /\ RetentionDays >= 1
  BY KeyFields
<1> QED
  BY <1>1 DEF Expired

\* No call does nothing, and has nothing to do.
LEMMA NoCallFields ==
    /\ NoCall \in CallType /\ NoCall.pc = "idle" /\ NoCall.left = {} /\ NoCall.item = NoItem
    /\ NoCall.at = 1 /\ NoCall.listed = {}
BY DEF CallType, NoCall

\* A call that begins with the position p, on a day.
Begun(n, p, day) ==
    /\ n \in CallType /\ n.pc = p /\ n.day = day
    /\ p # "archive" => n.item = NoItem
    /\ p # "backfill" => n.at = 1

Cleaning(day)       == [NoCall EXCEPT !.pc = "clean", !.day = day]
Listing(day)        == [NoCall EXCEPT !.pc = "list", !.day = day]
Syncing(S, day)     == [NoCall EXCEPT !.pc = "sync", !.day = day, !.left = S]
Backfilling(S, day) == [NoCall EXCEPT !.pc = "backfill", !.left = S, !.at = 2, !.day = day]
Archiving(k, day)   == [NoCall EXCEPT !.pc = "archive", !.item = k, !.day = day]

\* The cleanup and the listing of a call that begins.
LEMMA Beginnings ==
    ASSUME NEW day \in Days
    PROVE  Begun(Cleaning(day), "clean", day) /\ Begun(Listing(day), "list", day)
<1>1. PICK n \in CallType : n = NoCall /\ n.item = NoItem /\ n.at = 1
  BY NoCallFields
<1>2. Begun([n EXCEPT !.pc = "clean", !.day = day], "clean", day)
  BY <1>1 DEF CallType, Begun
<1>3. Begun([n EXCEPT !.pc = "list", !.day = day], "list", day)
  BY <1>1 DEF CallType, Begun
<1> QED
  BY <1>1, <1>2, <1>3 DEF Cleaning, Listing

\* The loops of the start-up: over the file's domains, and over the parent's open jobs.
LEMMA LoopBeginnings ==
    ASSUME NEW day \in Days, NEW S \in SUBSET Keys
    PROVE  /\ Begun(Syncing(S, day), "sync", day)
           /\ Begun(Backfilling(S, day), "backfill", day)
           /\ Backfilling(S, day).left = S /\ Backfilling(S, day).at = 2
<1>1. PICK n \in CallType : n = NoCall /\ n.item = NoItem /\ n.at = 1
  BY NoCallFields
<1>2. PICK i \in 1..4 : i = 2
  OBVIOUS
<1>3. PICK m : m = [n EXCEPT !.pc = "backfill", !.left = S, !.at = i, !.day = day]
  OBVIOUS
<1>4. Begun(m, "backfill", day) /\ m.left = S /\ m.at = i
  BY <1>1, <1>3 DEF CallType, Begun
<1>5. PICK m2 : m2 = [n EXCEPT !.pc = "sync", !.day = day, !.left = S]
  OBVIOUS
<1>6. Begun(m2, "sync", day)
  BY <1>1, <1>5 DEF CallType, Begun
<1>7. m = Backfilling(S, day) /\ m2 = Syncing(S, day)
  BY <1>1, <1>2, <1>3, <1>5 DEF Backfilling, Syncing
<1> QED
  BY <1>2, <1>4, <1>6, <1>7

\* The loop of a QueueAll.
LEMMA QueueBeginning ==
    ASSUME NEW day \in Days, NEW S \in SUBSET Keys
    PROVE  /\ Begun(Queueing(S, day), "queue", day)
           /\ Queueing(S, day).left = S /\ Queueing(S, day).listed = S
<1>1. PICK n \in CallType : n = NoCall /\ n.item = NoItem /\ n.at = 1
  BY NoCallFields
<1>2. PICK m : m = [n EXCEPT !.pc = "queue", !.left = S, !.day = day, !.listed = S]
  OBVIOUS
<1>3. Begun(m, "queue", day) /\ m.left = S /\ m.listed = S
  BY <1>1, <1>2 DEF CallType, Begun
<1> QED
  BY <1>1, <1>2, <1>3 DEF Queueing

\* The cancels of an archive.
LEMMA ArchiveBeginning ==
    ASSUME NEW day \in Days, NEW k \in Keys
    PROVE  Begun(Archiving(k, day), "archive", day) /\ Archiving(k, day).item = k
<1>1. PICK n \in CallType : n = NoCall /\ n.at = 1
  BY NoCallFields
<1>2. PICK m : m = [n EXCEPT !.pc = "archive", !.item = k, !.day = day]
  OBVIOUS
<1>3. Begun(m, "archive", day) /\ m.item = k
  BY <1>1, <1>2 DEF CallType, Begun
<1> QED
  BY <1>1, <1>2, <1>3 DEF Archiving

\* A step of a call keeps its position, its day and its list.
Keeps(n, m) == n \in CallType /\ n.pc = m.pc /\ n.day = m.day /\ n.listed = m.listed
AtOf(m, i)      == [m EXCEPT !.at = i]
LeftOf(m, S)    == [m EXCEPT !.left = S]
ItemOf(m, k, i) == [m EXCEPT !.item = k, !.at = i]
NextOf(m, S, i) == [m EXCEPT !.left = S, !.item = NoItem, !.at = i]

\* A loop's step to another queue, with the same item.
LEMMA NextCollection ==
    ASSUME NEW m \in CallType, NEW i \in 1..4
    PROVE  /\ Keeps(AtOf(m, i), m) /\ AtOf(m, i).left = m.left /\ AtOf(m, i).item = m.item
           /\ AtOf(m, i).at = i
BY DEF Keeps, AtOf, CallType

\* A loop's step that takes an item to a queue.
LEMMA SameItem ==
    ASSUME NEW m \in CallType, NEW i \in 1..4, NEW k \in Keys
    PROVE  /\ Keeps(ItemOf(m, k, i), m) /\ ItemOf(m, k, i).left = m.left
           /\ ItemOf(m, k, i).item = k /\ ItemOf(m, k, i).at = i
BY DEF Keeps, ItemOf, CallType

\* A loop that is rid of some of its items.
LEMMA ItemDone ==
    ASSUME NEW m \in CallType, NEW S \in SUBSET Keys
    PROVE  /\ Keeps(LeftOf(m, S), m) /\ LeftOf(m, S).left = S /\ LeftOf(m, S).item = m.item
           /\ LeftOf(m, S).at = m.at
BY DEF Keeps, LeftOf, CallType

\* A loop that goes on to the next item.
LEMMA NextItem ==
    ASSUME NEW m \in CallType, NEW i \in 1..4, NEW S \in SUBSET Keys
    PROVE  /\ Keeps(NextOf(m, S, i), m) /\ NextOf(m, S, i).left = S
           /\ NextOf(m, S, i).item = NoItem /\ NextOf(m, S, i).at = i
BY DEF Keeps, NextOf, CallType

\* What is spent stays within its bound.
UsedType == [calls : 0..MaxCalls, claims : 0..MaxClaims, errors : 0..MaxErrors,
             restarts : 0..MaxRestarts]

\* What a step spends was not yet used up.
LEMMA Spending ==
    ASSUME used \in UsedType
    PROVE  /\ Spend("calls", MaxCalls) => used' \in UsedType
           /\ Spend("claims", MaxClaims) => used' \in UsedType
           /\ Spend("restarts", MaxRestarts) => used' \in UsedType
           /\ Fail => used' \in UsedType
<1> USE DEF UsedType
<1>1. Spend("calls", MaxCalls) => used' \in UsedType
  BY DEF Spend
<1>2. Spend("claims", MaxClaims) => used' \in UsedType
  BY DEF Spend
<1>3. Spend("restarts", MaxRestarts) => used' \in UsedType
  BY DEF Spend
<1>4. Fail => used' \in UsedType
  BY DEF Spend, Fail
<1> QED
  BY <1>1, <1>2, <1>3, <1>4

\* A step of one call leaves the others alone.
LEMMA CallChange ==
    ASSUME TypeOK, NEW c \in Callers, NEW n \in CallType, CallIs(c, n)
    PROVE  /\ call' \in [Callers -> CallType] /\ call'[c] = n
           /\ \A b \in Callers \ {c} : call'[b] = call[b]
BY DEF TypeOK, CallIs, Callers

\* The fields of a typed state.
LEMMA Fields ==
    ASSUME TypeOK
    PROVE  /\ call \in [Callers -> CallType]
           /\ \A c \in Callers :
                 /\ call[c] \in CallType /\ call[c].left \in SUBSET Keys
                 /\ call[c].item \in Keys \cup {NoItem} /\ call[c].at \in 1..4
                 /\ call[c].day \in Days /\ call[c].day \in Nat
                 /\ call[c].listed \in SUBSET Keys
           /\ today \in Nat /\ today \in Days /\ cleaned \in Nat
           /\ \A q \in Queues : jobs[q] \in [Keys -> Statuses]
           /\ Main \in Callers /\ \A r \in Requests : r \in Callers
BY DEF TypeOK, Callers, CallType

-----------------------------------------------------------------------------
(***************************************************************************)
(* What each step makes of its call.                                       *)
(***************************************************************************)
Becomes(c, n) == n \in CallType /\ CallIs(c, n)

\* A cleanup goes on to the next collection, and after the last one to the domains file.
LEMMA CleanupCalls ==
    ASSUME TypeOK, CleanupBefore(Main)
    PROVE  \E n : /\ Becomes(Main, n) /\ n.day = call[Main].day
                  /\ \/ n.pc = "clean" /\ call[Main].at # 4 /\ n.at = CleanedNext(call[Main].at)
                     \/ n.pc = "sync"
<1> DEFINE m == call[Main]
<1>1. m \in CallType /\ m.day \in Days /\ m.at \in 1..4
  BY Fields
<1>2. CASE Sync(Main, m.day)
  <2>1. PICK file \in SUBSET Domains : CallIs(Main, Syncing(file \X {m.day}, m.day))
    BY <1>2 DEF Sync, Syncing
  <2>2. PICK S \in SUBSET Keys : S = file \X {m.day}
    BY <1>1, KeyFields
  <2>3. PICK n : n = Syncing(S, m.day) /\ Begun(n, "sync", m.day)
    BY <1>1, LoopBeginnings
  <2> QED
    BY <2>1, <2>2, <2>3 DEF Becomes, Begun
<1>3. CASE m.at # 4 /\ CallIs(Main, [m EXCEPT !.at = CleanedNext(@)])
  <2>1. PICK i \in 1..4 : i = CleanedNext(m.at)
    BY <1>1, <1>3 DEF CleanedNext
  <2>2. CallIs(Main, AtOf(m, i))
    BY <1>3, <2>1 DEF AtOf
  <2>3. Keeps(AtOf(m, i), m) /\ AtOf(m, i).at = i
    BY <1>1, NextCollection
  <2> QED
    BY <1>3, <2>1, <2>2, <2>3 DEF Becomes, Keeps, CleanupBefore
<1> QED
  BY <1>2, <1>3 DEF CleanupBefore

\* The domains file is stored domain by domain, and the call goes on to the children's
\* queues or to QueueAll.
LEMMA SyncCalls ==
    ASSUME TypeOK, call[Main].pc = "sync"
    PROVE  /\ ActivateMetricDomain(Main) =>
                 \E n : Becomes(Main, n) /\ n.pc = "sync" /\ n.day = call[Main].day
           /\ SyncEnds(Main) /\ process = "starting" =>
                 \E n : /\ Becomes(Main, n) /\ Begun(n, "backfill", today)
                        /\ n.left = Split /\ n.at = 2
           /\ SyncEnds(Main) /\ process # "starting" =>
                 \E n : Becomes(Main, n) /\ Begun(n, "list", today)
<1> DEFINE m == call[Main]
<1>1. m \in CallType /\ m.left \in SUBSET Keys /\ today \in Days
  BY Fields
<1>2. ASSUME ActivateMetricDomain(Main)
      PROVE  \E n : Becomes(Main, n) /\ n.pc = "sync" /\ n.day = m.day
  <2>1. PICK S \in SUBSET Keys : CallIs(Main, LeftOf(m, S))
    BY <1>1, <1>2 DEF ActivateMetricDomain, LeftOf
  <2>2. PICK n : n = LeftOf(m, S) /\ Keeps(n, m)
    BY <1>1, ItemDone
  <2> QED
    BY <2>1, <2>2 DEF Becomes, Keeps
<1>3. ASSUME SyncEnds(Main), process = "starting"
      PROVE  \E n : /\ Becomes(Main, n) /\ Begun(n, "backfill", today)
                    /\ n.left = Split /\ n.at = 2
  <2>1. CallIs(Main, Backfilling(Split, today))
    BY <1>3 DEF SyncEnds, Backfilling
  <2>2. PICK S \in SUBSET Keys : S = Split
    BY DEF Split
  <2>3. PICK n : n = Backfilling(S, today) /\ Begun(n, "backfill", today) /\ n.left = S /\ n.at = 2
    BY <1>1, LoopBeginnings
  <2> QED
    BY <2>1, <2>2, <2>3 DEF Becomes, Begun
<1>4. ASSUME SyncEnds(Main), process # "starting"
      PROVE  \E n : Becomes(Main, n) /\ Begun(n, "list", today)
  <2>1. CallIs(Main, Listing(today))
    BY <1>4 DEF SyncEnds, Listing
  <2>2. PICK n : n = Listing(today) /\ Begun(n, "list", today)
    BY <1>1, Beginnings
  <2> QED
    BY <2>1, <2>2 DEF Becomes, Begun
<1> QED
  BY <1>2, <1>3, <1>4

\* The start-up's loop: the first of the children's queues, the second, the next job.
BackfillGoesOn(k, n) ==
    /\ Becomes(Main, n) /\ n.pc = "backfill" /\ n.day = call[Main].day
    /\ \/ /\ domain[k[1]] = "active" /\ call[Main].at = 2
          /\ Queued("chinaz", k)
          /\ n.left = call[Main].left /\ n.item = k /\ n.at = 3
       \/ /\ domain[k[1]] = "active" /\ call[Main].at = 3
          /\ Queued("chinaz_supplement", k)
          /\ n.left = call[Main].left \ {k} /\ n.item = NoItem /\ n.at = 2
       \/ /\ domain[k[1]] # "active" /\ jobs' = jobs
          /\ n.left = call[Main].left \ {k} /\ n.item = call[Main].item
          /\ n.at = call[Main].at

\* One turn of the backfill: a child gets its job, or the item is dropped.
LEMMA BackfillCalls ==
    ASSUME TypeOK, BackfillSupplementJobs(Main), call[Main].at \in {2, 3}
    PROVE  \E k \in Turn(Main) : \E n : BackfillGoesOn(k, n)
<1> DEFINE m == call[Main]
<1>1. /\ m \in CallType /\ m.left \in SUBSET Keys /\ m.item \in Keys \cup {NoItem}
      /\ m.pc = "backfill"
  BY Fields DEF BackfillSupplementJobs
<1>2. PICK k \in Turn(Main) :
          IF domain[k[1]] = "active"
          THEN /\ Queued(Queue[m.at], k)
               /\ CallIs(Main, IF m.at = 3 THEN NextOf(m, m.left \ {k}, 2) ELSE ItemOf(m, k, 3))
          ELSE CallIs(Main, LeftOf(m, m.left \ {k})) /\ UNCHANGED jobs
  BY DEF BackfillSupplementJobs, NextOf, ItemOf, LeftOf
<1>3. k \in Keys
  BY <1>1 DEF Turn
<1>4. Queue[2] = "chinaz" /\ Queue[3] = "chinaz_supplement"
  BY DEF Queue
<1>5. PICK S \in SUBSET Keys : S = m.left \ {k}
  BY <1>1
<1>6. PICK two \in 1..4, three \in 1..4 : two = 2 /\ three = 3
  OBVIOUS
<1>7. CASE domain[k[1]] = "active" /\ m.at = 2
  <2>1. PICK n : /\ n = ItemOf(m, k, three) /\ Keeps(n, m)
                 /\ n.left = m.left /\ n.item = k /\ n.at = three
    BY <1>1, <1>3, SameItem
  <2>2. CallIs(Main, n) /\ Queued("chinaz", k)
    BY <1>2, <1>4, <1>6, <1>7, <2>1
  <2> QED
    BY <1>1, <1>6, <1>7, <2>1, <2>2 DEF Becomes, Keeps, BackfillGoesOn
<1>8. CASE domain[k[1]] = "active" /\ m.at = 3
  <2>1. PICK n : /\ n = NextOf(m, S, two) /\ Keeps(n, m) /\ n.left = S /\ n.item = NoItem
                 /\ n.at = two
    BY <1>1, NextItem
  <2>2. CallIs(Main, n) /\ Queued("chinaz_supplement", k)
    BY <1>2, <1>4, <1>5, <1>6, <1>8, <2>1
  <2> QED
    BY <1>1, <1>5, <1>6, <1>8, <2>1, <2>2 DEF Becomes, Keeps, BackfillGoesOn
<1>9. CASE domain[k[1]] # "active"
  <2>1. PICK n : n = LeftOf(m, S) /\ Keeps(n, m) /\ n.left = S /\ n.item = m.item /\ n.at = m.at
    BY <1>1, ItemDone
  <2>2. CallIs(Main, n) /\ jobs' = jobs
    BY <1>2, <1>5, <1>9, <2>1
  <2> QED
    BY <1>1, <1>5, <1>9, <2>1, <2>2 DEF Becomes, Keeps, BackfillGoesOn
<1> QED
  BY <1>7, <1>8, <1>9

\* QueueAll's loop: the next queue, or the next domain.
QueueGoesOn(c, k, n) ==
    /\ domain[k[1]] = "active" /\ Queued(Queue[call[c].at], k)
    /\ Becomes(c, n) /\ n.pc = "queue" /\ n.day = call[c].day
    /\ n.listed = call[c].listed
    /\ \/ /\ call[c].at < 3
          /\ n.left = call[c].left /\ n.item = k /\ n.at = call[c].at + 1
       \/ /\ call[c].at = 3
          /\ n.left = call[c].left \ {k} /\ n.item = NoItem /\ n.at = 1

\* One turn of QueueAll: one queue of one item.
LEMMA QueueCalls ==
    ASSUME TypeOK, NEW c \in Callers, QueueDomain(c), call[c].at \in 1..3
    PROVE  \E k \in Turn(c) : \E n : QueueGoesOn(c, k, n)
<1> DEFINE m == call[c]
<1>1. /\ m \in CallType /\ m.left \in SUBSET Keys /\ m.item \in Keys \cup {NoItem}
      /\ m.pc = "queue"
  BY Fields DEF QueueDomain
<1>2. PICK k \in Turn(c) :
          /\ domain[k[1]] = "active" /\ Queued(Queue[m.at], k)
          /\ CallIs(c, IF m.at = 3 THEN NextOf(m, m.left \ {k}, 1) ELSE ItemOf(m, k, m.at + 1))
  BY DEF QueueDomain, AfterQueue, NextOf, ItemOf
<1>3. k \in Keys
  BY <1>1 DEF Turn
<1>4. PICK S \in SUBSET Keys : S = m.left \ {k}
  BY <1>1
<1>5. PICK one \in 1..4 : one = 1
  OBVIOUS
<1>6. CASE m.at < 3
  <2>1. PICK i \in 1..4 : i = m.at + 1
    BY <1>6
  <2>2. PICK n : n = ItemOf(m, k, i) /\ Keeps(n, m) /\ n.left = m.left /\ n.item = k /\ n.at = i
    BY <1>1, <1>3, SameItem
  <2>3. CallIs(c, n)
    BY <1>2, <1>6, <2>1, <2>2
  <2> QED
    BY <1>1, <1>2, <1>6, <2>1, <2>2, <2>3 DEF Becomes, Keeps, QueueGoesOn
<1>7. CASE m.at = 3
  <2>1. PICK n : /\ n = NextOf(m, S, one) /\ Keeps(n, m) /\ n.left = S /\ n.item = NoItem
                 /\ n.at = one
    BY <1>1, NextItem
  <2>2. CallIs(c, n)
    BY <1>2, <1>4, <1>5, <1>7, <2>1
  <2> QED
    BY <1>1, <1>2, <1>4, <1>5, <1>7, <2>1, <2>2, ZenonT(30) DEF Becomes, Keeps, QueueGoesOn
<1> QED
  BY <1>6, <1>7

\* QueueAll lists the active domains, for the day on which it began.
LEMMA QueueAllCalls ==
    ASSUME TypeOK, NEW c \in Callers, QueueAll(c)
    PROVE  \/ CallIs(c, NoCall) /\ Fail
           \/ \E n : /\ Becomes(c, n) /\ Begun(n, "queue", call[c].day) /\ n.listed = n.left
                     /\ \A k \in n.left : k[2] = call[c].day
                     /\ used' = used
<1>1. PICK day \in Days : day = call[c].day
  BY Fields
<1>2. CASE CallIs(c, Queueing({d \in Domains : domain[d] = "active"} \X {day}, day)) /\ used' = used
  <2>1. PICK D \in SUBSET Domains : D = {d \in Domains : domain[d] = "active"}
    OBVIOUS
  <2>2. PICK S \in SUBSET Keys : S = D \X {day}
    BY <1>1, KeyFields
  <2>3. \A k \in S : k[2] = day
    BY <2>2
  <2>4. PICK n : n = Queueing(S, day)
    OBVIOUS
  <2>5. Begun(n, "queue", day) /\ n.left = S /\ n.listed = S
    BY <1>1, <2>4, QueueBeginning
  <2> QED
    BY <1>1, <1>2, <2>1, <2>2, <2>3, <2>4, <2>5 DEF Becomes, Begun
<1> QED
  BY <1>1, <1>2 DEF QueueAll, Ends

\* The calls of start-up, of the cron and of a request that begin.
LEMMA CallsBegin ==
    ASSUME TypeOK
    PROVE  /\ Start \/ Trigger => \E n : Becomes(Main, n) /\ Begun(n, "clean", today)
           /\ WorkersStart(Main) => \/ CallIs(Main, NoCall) /\ process' = "serving"
                                    \/ /\ process' = "queueing"
                                       /\ \E n : Becomes(Main, n) /\ Begun(n, "list", today)
           /\ \A c \in Requests :
                 CollectAll(c) => \E n : Becomes(c, n) /\ Begun(n, "list", today)
<1>1. today \in Days
  BY Fields
<1>2. PICK n : n = Cleaning(today) /\ Begun(n, "clean", today)
  BY <1>1, Beginnings
<1>3. PICK l : l = Listing(today) /\ Begun(l, "list", today)
  BY <1>1, Beginnings
<1>4. Start \/ Trigger => CallIs(Main, n)
  BY <1>2 DEF Start, Trigger, Cleaning
<1>5. WorkersStart(Main) => \/ CallIs(Main, NoCall) /\ process' = "serving"
                            \/ CallIs(Main, l) /\ process' = "queueing"
  BY <1>3 DEF WorkersStart, Listing, Ends
<1>6. \A c \in Requests : CollectAll(c) => CallIs(c, l)
  BY <1>3 DEF CollectAll, Listing
<1> QED
  BY <1>2, <1>3, <1>4, <1>5, <1>6 DEF Becomes, Begun

\* A request about one domain.
LEMMA DomainCalls ==
    ASSUME TypeOK, NEW c \in Requests, NEW d \in Domains
    PROVE  /\ CollectDomain(c, d) =>
                 \E n : /\ Becomes(c, n) /\ Begun(n, "queue", today) /\ n.listed = n.left
                        /\ \A k \in n.left : k[2] = today
           /\ ArchiveDomain(c, d) =>
                 \E n : /\ Becomes(c, n) /\ Begun(n, "archive", today) /\ n.item \in Keys
<1>1. today \in Days
  BY Fields
<1>2. PICK k \in Keys : k = <<d, today>> /\ k[2] = today
  BY <1>1, KeyFields
<1>3. PICK S \in SUBSET Keys : S = {k}
  OBVIOUS
<1>4. PICK n : n = Queueing(S, today) /\ Begun(n, "queue", today) /\ n.left = S /\ n.listed = S
  BY <1>1, QueueBeginning
<1>5. PICK a : a = Archiving(k, today) /\ Begun(a, "archive", today) /\ a.item = k
  BY <1>1, ArchiveBeginning
<1>6. CollectDomain(c, d) => CallIs(c, n)
  BY <1>2, <1>3, <1>4 DEF CollectDomain
<1>7. ArchiveDomain(c, d) => CallIs(c, a)
  BY <1>2, <1>5 DEF ArchiveDomain, Archiving
<1> QED
  BY <1>2, <1>3, <1>4, <1>5, <1>6, <1>7, ZenonT(30) DEF Becomes, Begun

\* The cancels of an archive, queue by queue.
LEMMA CancelCalls ==
    ASSUME TypeOK, NEW c \in Callers, CancelQueuedJobs(c), call[c].at \in 1..3
    PROVE  \/ CallIs(c, NoCall)
           \/ \E n : /\ Becomes(c, n) /\ n.pc = "archive" /\ n.day = call[c].day
                     /\ n.item = call[c].item /\ n.at \in 1..3
<1> DEFINE m == call[c]
<1>1. m \in CallType /\ m.pc = "archive"
  BY Fields DEF CancelQueuedJobs
<1>2. \/ CallIs(c, NoCall)
      \/ \E i \in 2..3 : CallIs(c, [m EXCEPT !.at = i])
  BY DEF CancelQueuedJobs, Ends
<1>3. ASSUME NEW i \in 2..3, CallIs(c, [m EXCEPT !.at = i])
      PROVE  \E n : /\ Becomes(c, n) /\ n.pc = "archive" /\ n.day = m.day
                    /\ n.item = m.item /\ n.at \in 1..3
  <2>1. PICK j \in 1..4 : j = i
    OBVIOUS
  <2>2. PICK n : n = AtOf(m, j) /\ Keeps(n, m) /\ n.item = m.item /\ n.at = j
    BY <1>1, NextCollection
  <2>3. CallIs(c, n)
    BY <1>3, <2>1, <2>2 DEF AtOf
  <2> QED
    BY <1>1, <2>1, <2>2, <2>3 DEF Becomes, Keeps
<1> QED
  BY <1>2, <1>3

-----------------------------------------------------------------------------
(***************************************************************************)
(* What each step makes of the jobs.                                       *)
(***************************************************************************)
JobsType == [Queues -> [Keys -> Statuses]]

\* One job of I, at most, is another one in J: it was not open, and proved nothing.
Inserted(I, J, q, k) ==
    /\ J \in JobsType
    /\ \A p \in Queues, j \in Keys : J[p][j] = I[p][j] \/ (p = q /\ j = k)
    /\ J[q][k] \in Open \cup Proven(q)
    /\ J[q][k] = I[q][k] \/ J[q][k] = "queued"

\* Open jobs go on.  The parent's job succeeds when its document, one of D, is saved, and
\* is taken when its worker is idle, which is r.
Moved(I, J, D, r) ==
    /\ J \in JobsType
    /\ \A q \in Queues, k \in Keys :
          J[q][k] = I[q][k] \/ (I[q][k] \in Open /\ J[q][k] # "absent")
    /\ \A k \in Keys :
          /\ J["aizhan"][k] = "succeeded" => I["aizhan"][k] = "succeeded" \/ k \in D
          /\ J["aizhan"][k] = "running" => I["aizhan"][k] = "running" \/ r
IsIdle == worker["aizhan"].pc = "idle"

\* What has expired is gone from one queue.
Deleted(I, J, q, day) ==
    /\ J \in JobsType
    /\ \A p \in Queues \ {q} : J[p] = I[p]
    /\ \A k \in Keys : J[q][k] = IF Expired(k, day) THEN "absent" ELSE I[q][k]

\* J is I but for one job, that is s.
OneIs(I, J, q, k, s) ==
    /\ J \in JobsType /\ J[q][k] = s
    /\ \A p \in Queues, j \in Keys : J[p][j] = I[p][j] \/ (p = q /\ j = k)
Sets(I, J, q, k, s) == J = [I EXCEPT ![q][k] = s]

\* Setting one job changes no other.
LEMMA OneJobSet ==
    ASSUME NEW I \in JobsType, NEW J, NEW q \in Queues, NEW k \in Keys, NEW s \in Statuses,
           Sets(I, J, q, k, s)
    PROVE  OneIs(I, J, q, k, s)
<1>1. PICK f : f = [I[q] EXCEPT ![k] = s]
  OBVIOUS
<1>2. f \in [Keys -> Statuses] /\ f[k] = s /\ \A j \in Keys : f[j] = I[q][j] \/ j = k
  BY <1>1 DEF JobsType
<1>3. J = [I EXCEPT ![q] = f]
  BY <1>1 DEF Sets
<1> QED
  BY <1>2, <1>3 DEF JobsType, OneIs

\* An open job may move to any status but absent; a succeeded parent has its document.
LEMMA OneJobMoves ==
    ASSUME NEW I \in JobsType, NEW J, NEW D, NEW r, NEW q \in Queues, NEW k \in Keys,
           NEW s \in Statuses \ {"absent"}, Sets(I, J, q, k, s), I[q][k] \in Open,
           s = "succeeded" /\ q = "aizhan" => k \in D,
           s = "running" /\ q = "aizhan" => r
    PROVE  Moved(I, J, D, r)
<1>1. OneIs(I, J, q, k, s)
  BY OneJobSet
<1>2. "aizhan" \in Queues
  BY DEF Queues
<1> QED
  BY <1>1, <1>2 DEF Moved, OneIs

\* What stays the same has moved as it may.
LEMMA NoJobMoves ==
    ASSUME NEW I \in JobsType, NEW D, NEW r
    PROVE  Moved(I, I, D, r)
BY DEF Moved

\* queueDomain leaves its queue with a job that is open or proves the day.
LEMMA QueuedInserts ==
    ASSUME jobs \in JobsType, NEW q \in Queues, NEW k \in Keys, Queued(q, k)
    PROVE  Inserted(jobs, jobs', q, k)
<1>1. PICK I, J : I = jobs /\ J = jobs'
  OBVIOUS
<1>2. CASE jobs[q][k] \in Open \cup Proven(q)
  <2>1. J = I
    BY <1>1, <1>2 DEF Queued
  <2> QED
    BY <1>1, <1>2, <2>1 DEF Inserted
<1>3. CASE jobs[q][k] \notin Open \cup Proven(q)
  <2>1. Sets(I, J, q, k, "queued") /\ "queued" \in Statuses /\ "queued" \in Open
    BY <1>1, <1>3 DEF Queued, Sets, Statuses, Open
  <2>2. OneIs(I, J, q, k, "queued")
    BY <1>1, <2>1, OneJobSet
  <2> QED
    BY <1>1, <2>1, <2>2 DEF Inserted, OneIs
<1> QED
  BY <1>2, <1>3

\* DeleteMetricsBefore empties one queue of what has expired.
LEMMA DeleteDeletes ==
    ASSUME jobs \in JobsType, NEW q \in Queues, NEW day \in Nat, DeleteJobs(q, day)
    PROVE  Deleted(jobs, jobs', q, day)
<1>1. PICK I, J : I = jobs /\ J = jobs'
  OBVIOUS
<1>2. PICK f : f = [k \in Keys |-> IF Expired(k, day) THEN "absent" ELSE I[q][k]]
  OBVIOUS
<1>3. f \in [Keys -> Statuses]
  BY <1>1, <1>2 DEF JobsType, Statuses
<1>4. J = [I EXCEPT ![q] = f]
  BY <1>1, <1>2 DEF DeleteJobs
<1> QED
  BY <1>1, <1>2, <1>3, <1>4 DEF Deleted, JobsType

\* An archive ends jobs that are open.
LEMMA CancelMoves ==
    ASSUME jobs \in JobsType, NEW c \in Callers, CancelQueuedJobs(c), call[c].at \in 1..3
    PROVE  Moved(jobs, jobs', docs, IsIdle)
<1>0. PICK q \in Queues : q = Queue[call[c].at]
  BY DEF Queue, Queues
<1>1. PICK I, J, d : I = jobs /\ J = jobs' /\ d = call[c].item[1]
  OBVIOUS
<1>2. CASE J = I
  BY <1>1, <1>2, NoJobMoves
<1>3. CASE J # I
  <2>1. PICK f : f = [k \in Keys |-> IF k[1] = d /\ I[q][k] = "queued" THEN "ended" ELSE I[q][k]]
    OBVIOUS
  <2>2. J = [I EXCEPT ![q] = f]
    BY <1>0, <1>1, <1>3, <2>1 DEF CancelQueuedJobs
  <2>3. f \in [Keys -> Statuses]
    BY <1>1, <2>1 DEF JobsType, Statuses
  <2>4. \A k \in Keys : f[k] = I[q][k] \/ (I[q][k] \in Open /\ f[k] = "ended")
    BY <2>1 DEF Open
  <2>5. J \in JobsType /\ \A p \in Queues, k \in Keys :
            J[p][k] = I[p][k] \/ (I[p][k] \in Open /\ J[p][k] = "ended")
    BY <1>1, <2>2, <2>3, <2>4 DEF JobsType
  <2> QED
    BY <1>1, <2>5 DEF Moved, Queues
<1> QED
  BY <1>2, <1>3

\* A worker's last write moves its job, if it is there and still running.
LEMMA SettleMoves ==
    ASSUME jobs \in JobsType, NEW q \in Queues, NEW k \in Keys,
           NEW s \in Statuses \ {"absent", "running"}, Settle(q, k, s),
           s = "succeeded" /\ q = "aizhan" /\ jobs[q][k] = "running" => k \in docs
    PROVE  Moved(jobs, jobs', docs, IsIdle)
<1>1. PICK I, J, D : I = jobs /\ J = jobs' /\ D = docs
  OBVIOUS
<1>2. CASE J = I
  BY <1>1, <1>2, NoJobMoves
<1>3. CASE J # I
  <2>1. Sets(I, J, q, k, s) /\ I[q][k] = "running"
    BY <1>1, <1>3 DEF Settle, Set, Sets
  <2> QED
    BY <1>1, <2>1, OneJobMoves DEF Open
<1> QED
  BY <1>2, <1>3

\* Workers and recoveries only move jobs.
LEMMA WorkerMoves ==
    ASSUME jobs \in JobsType, WorkersBelong, SavedFirst, NEW q \in Queues,
           \/ ClaimNextJob(q) \/ SaveJobResult(q) \/ AttemptFails(q) \/ RecoverStaleJobs(q)
    PROVE  Moved(jobs, jobs', docs, IsIdle)
<1> USE DEF Statuses, Open
<1>1. PICK I, J, D : I = jobs /\ J = jobs' /\ D = docs
  OBVIOUS
<1>2. CASE ClaimNextJob(q)
  <2>1. PICK k \in Keys : I[q][k] = "queued" /\ Sets(I, J, q, k, "running")
    BY <1>1, <1>2 DEF ClaimNextJob, Set, Sets
  <2>2. PICK r : r = IsIdle /\ (q = "aizhan" => r)
    BY <1>2 DEF ClaimNextJob, IsIdle
  <2>3. Moved(I, J, D, r)
    BY <1>1, <2>1, <2>2, OneJobMoves
  <2> QED
    BY <1>1, <2>2, <2>3
<1>3. CASE SaveJobResult(q)
  <2>1. worker[q].key \in Keys /\ Settle(q, worker[q].key, "succeeded") /\ worker[q].pc = "saved"
    BY <1>3 DEF SaveJobResult, WorkersBelong
  <2> QED
    BY <2>1, SettleMoves DEF SavedFirst
<1>4. CASE AttemptFails(q)
  <2>1. worker[q].key \in Keys
    BY <1>4 DEF AttemptFails, WorkersBelong
  <2>2. PICK s \in {"queued", "exhausted", "ended"} : Settle(q, worker[q].key, s)
    BY <1>4 DEF AttemptFails
  <2> QED
    BY <2>1, <2>2, SettleMoves
<1>5. CASE RecoverStaleJobs(q)
  <2>1. PICK k \in Keys : I[q][k] = "running" /\ Sets(I, J, q, k, "queued")
    BY <1>1, <1>5 DEF RecoverStaleJobs, Set, Sets
  <2> QED
    BY <1>1, <2>1, OneJobMoves
<1> QED
  BY <1>2, <1>3, <1>4, <1>5

-----------------------------------------------------------------------------
(***************************************************************************)
(* Control: the types, and who may be where.                               *)
(***************************************************************************)

\* TypeOK, in the words of the lemmas.
LEMMA TypeParts ==
    TypeOK <=>
        /\ domain \in [Domains -> {"absent", "archived", "active"}]
        /\ jobs \in JobsType /\ docs \subseteq Keys
        /\ process \in {"starting", "queueing", "serving"}
        /\ call \in [Callers -> CallType]
        /\ worker \in [Queues -> [pc : {"idle", "fetch", "saved"}, key : Keys \cup {NoItem}]]
        /\ today \in Days /\ cleaned \in Days
        /\ reported \subseteq Keys /\ late \subseteq Keys
        /\ used \in UsedType
BY DEF TypeOK, JobsType, Callers, UsedType

\* A cleanup goes from queue to queue, and then reads the domains file.
LEMMA CleanupControl ==
    ASSUME Control, CleanupBefore(Main)
    PROVE  Control'
<1>1. PICK n : /\ Becomes(Main, n) /\ n.day = call[Main].day
               /\ \/ n.pc = "clean" /\ call[Main].at # 4 /\ n.at = CleanedNext(call[Main].at)
                  \/ n.pc = "sync"
  BY CleanupCalls DEF Control
<1>2. /\ call' \in [Callers -> CallType] /\ call'[Main] = n
      /\ \A b \in Callers \ {Main} : call'[b] = call[b]
  BY <1>1, CallChange, Fields DEF Control, Becomes
<1>3. jobs' \in JobsType /\ docs' \subseteq Keys /\ late' \subseteq Keys
  <2>1. CASE Delete(call[Main].at, call[Main].day)
    <3>1. CASE call[Main].at = 4
      BY <2>1, <3>1, TypeParts DEF Delete, DeleteDocs, Control
    <3>2. CASE call[Main].at # 4
      <4>1. PICK q \in Queues : q = Queue[call[Main].at]
        BY <3>2, Fields DEF Queue, Queues, Control
      <4>2. DeleteJobs(q, call[Main].day)
        BY <2>1, <3>2, <4>1 DEF Delete
      <4>3. Deleted(jobs, jobs', q, call[Main].day)
        BY <4>2, DeleteDeletes, Fields, TypeParts DEF Control
      <4> QED
        BY <4>2, <4>3, TypeParts DEF Deleted, Control, DeleteJobs
    <3> QED
      BY <3>1, <3>2
  <2>2. CASE UNCHANGED <<jobs, docs, late>>
    BY <2>2, TypeParts DEF Control
  <2> QED
    BY <2>1, <2>2 DEF CleanupBefore
<1>4. /\ domain' = domain /\ process' = process /\ worker' = worker /\ today' = today
      /\ reported' = reported
      /\ cleaned' = cleaned \/ cleaned' = call[Main].day
      /\ used' = used \/ Fail
      /\ call[Main].pc = "clean"
  BY DEF CleanupBefore
<1>5. cleaned' \in Days /\ used' \in UsedType
  BY <1>4, Fields, Spending, TypeParts DEF Control
<1>6. TypeOK'
  BY <1>2, <1>3, <1>4, <1>5, TypeParts DEF TypeOK, Control, JobsType, Callers, UsedType
<1>7. CallsBelong' /\ WorkersBelong'
  BY <1>1, <1>2, <1>4, Fields DEF Control, CallsBelong, WorkersBelong
<1>8. LoopsGoOn'
  BY <1>1, <1>2, <1>4, Fields DEF Control, CallsBelong, LoopsGoOn
<1> QED
  BY <1>6, <1>7, <1>8 DEF Control

\* What a step of one call has to be, if nothing else moves but jobs, domains and ghosts.
OthersTyped ==
    /\ domain \in [Domains -> {"absent", "archived", "active"}]
    /\ jobs \in JobsType /\ docs \subseteq Keys
    /\ process \in {"starting", "queueing", "serving"}
    /\ reported \subseteq Keys /\ late \subseteq Keys /\ used \in UsedType

\* The call of c may be n, in this phase of the process, on this day.
RightCall(c, n, phase, day) ==
    /\ n.pc # "idle" => n.day <= day /\ day <= n.day + 1
    /\ c # Main => n.pc \in {"idle", "list", "queue", "archive"}
    /\ c # Main /\ phase # "serving" => n.pc = "idle"
    /\ n.pc = "backfill" => phase = "starting"
    /\ n.pc = "archive" => n.item \in Keys /\ n.at \in 1..3
RightLoop(n, dom) ==
    /\ n.pc = "queue" =>
          /\ n.at \in 1..3 /\ (n.item = NoItem => n.at = 1)
          /\ \A k \in n.left : k[2] = n.day
          /\ n.item # NoItem => n.item \in n.left
    /\ n.pc = "backfill" =>
          /\ n.at \in {2, 3} /\ (n.item = NoItem => n.at = 2)
          /\ n.item # NoItem => n.item \in n.left /\ dom[n.item[1]] = "active"

\* A step of one call keeps the control if its new position is right.
LEMMA OneCallControl ==
    ASSUME Control, OthersTyped', today' = today, cleaned' = cleaned, worker' = worker,
           NEW c \in Callers, NEW n, Becomes(c, n),
           RightCall(c, n, process', today), RightLoop(n, domain'),
           process' = process \/ (c = Main /\ process # "serving" /\ process' # "starting"),
           domain' = domain \/ process = "serving" \/ (c = Main /\ call[c].pc = "sync")
    PROVE  Control'
<1>1. /\ call' \in [Callers -> CallType] /\ call'[c] = n
      /\ \A b \in Callers \ {c} : call'[b] = call[b]
  BY CallChange DEF Control, Becomes
<1>2. TypeOK'
  BY <1>1, TypeParts DEF TypeOK, Control, OthersTyped, JobsType, Callers, UsedType
<1>3. WorkersBelong'
  BY DEF Control, WorkersBelong
<1>4. CallsBelong'
  BY <1>1 DEF Control, CallsBelong, RightCall
<1>5. \A b \in Callers \ {c} : RightLoop(call'[b], domain')
  <2> SUFFICES ASSUME NEW b \in Callers, b # c
               PROVE  RightLoop(call[b], domain')
    BY <1>1
  <2>1. RightLoop(call[b], domain)
    BY DEF Control, LoopsGoOn, RightLoop
  <2>2. call[b].pc = "backfill" => domain' = domain
    BY DEF Control, CallsBelong, RightCall
  <2> QED
    BY <2>1, <2>2 DEF RightLoop
<1>6. LoopsGoOn'
  BY <1>1, <1>5 DEF LoopsGoOn, RightLoop
<1> QED
  BY <1>2, <1>3, <1>4, <1>6 DEF Control

\* A call that begins today, or ends, is right.
LEMMA NewCallsAreRight ==
    ASSUME TypeOK, NEW c \in Callers, NEW dom
    PROVE  /\ \A phase : RightCall(c, NoCall, phase, today) /\ RightLoop(NoCall, dom)
           /\ Becomes(c, NoCall) <=> CallIs(c, NoCall)
           /\ \A n : Begun(n, "list", today) => RightLoop(n, dom)
           /\ \A n : Begun(n, "clean", today) => RightLoop(n, dom)
           /\ \A n : Begun(n, "archive", today) => RightLoop(n, dom)
           /\ \A n : Begun(n, "list", today) /\ (c = Main \/ process' = "serving")
                       => RightCall(c, n, process', today)
           /\ \A n, phase : Begun(n, "clean", today) /\ c = Main => RightCall(c, n, phase, today)
BY NoCallFields, Fields DEF RightCall, RightLoop, Becomes, Begun

\* The start-up and the trigger keep to their order.
LEMMA MainControl ==
    ASSUME Control,
           \/ ActivateMetricDomain(Main) \/ SyncFails(Main) \/ SyncEnds(Main)
           \/ BackfillSupplementJobs(Main) \/ BackfillFails(Main) \/ WorkersStart(Main)
           \/ Start \/ Trigger
    PROVE  Control'
<1>0. /\ TypeOK /\ Main \in Callers /\ call[Main] \in CallType /\ CallsBelong /\ OthersTyped
      /\ today \in Nat
  BY Fields, TypeParts DEF Control, OthersTyped
<1>1. CASE ActivateMetricDomain(Main)
  <2>1. PICK n : Becomes(Main, n) /\ n.pc = "sync" /\ n.day = call[Main].day
    BY <1>0, <1>1, SyncCalls DEF ActivateMetricDomain
  <2>2. OthersTyped'
    BY <1>0, <1>1, Fields, KeyFields DEF ActivateMetricDomain, OthersTyped
  <2>3. RightCall(Main, n, process', today) /\ RightLoop(n, domain')
    BY <1>0, <1>1, <2>1 DEF RightCall, RightLoop, CallsBelong, ActivateMetricDomain
  <2> QED
    BY <1>0, <1>1, <2>1, <2>2, <2>3, OneCallControl DEF ActivateMetricDomain
<1>2. CASE SyncFails(Main) \/ BackfillFails(Main)
  <2>1. CallIs(Main, NoCall) /\ Fail /\ UNCHANGED <<domain, jobs, docs, process, worker, today,
                                                    reported, cleaned, late>>
    BY <1>2 DEF SyncFails, BackfillFails, Ends
  <2>2. OthersTyped'
    BY <1>0, <2>1, Spending DEF OthersTyped
  <2> QED
    BY <1>0, <2>1, <2>2, NewCallsAreRight, OneCallControl
<1>3. CASE SyncEnds(Main)
  <2>1. OthersTyped'
    BY <1>0, <1>3 DEF SyncEnds, OthersTyped
  <2>2. CASE process # "starting"
    <3>1. PICK n : Becomes(Main, n) /\ Begun(n, "list", today)
      BY <1>0, <1>3, <2>2, SyncCalls DEF SyncEnds
    <3> QED
      BY <1>0, <1>3, <2>1, <3>1, NewCallsAreRight, OneCallControl DEF SyncEnds
  <2>3. CASE process = "starting"
    <3>1. PICK n : Becomes(Main, n) /\ Begun(n, "backfill", today) /\ n.at = 2
      BY <1>0, <1>3, <2>3, SyncCalls DEF SyncEnds
    <3>2. RightCall(Main, n, process', today) /\ RightLoop(n, domain')
      BY <1>0, <1>3, <2>3, <3>1 DEF RightCall, RightLoop, Begun, SyncEnds
    <3> QED
      BY <1>0, <1>3, <2>1, <3>1, <3>2, OneCallControl DEF SyncEnds
  <2> QED
    BY <2>2, <2>3
<1>4. CASE BackfillSupplementJobs(Main)
  <2>1. /\ call[Main].pc = "backfill" /\ call[Main].at \in {2, 3}
        /\ process = "starting" /\ call[Main].left \in SUBSET Keys
        /\ call[Main].item = NoItem => call[Main].at = 2
        /\ call[Main].item # NoItem =>
              call[Main].item \in call[Main].left /\ domain[call[Main].item[1]] = "active"
    BY <1>0, <1>4, Fields DEF Control, CallsBelong, LoopsGoOn, BackfillSupplementJobs
  <2>2. PICK k \in Turn(Main) : \E n : BackfillGoesOn(k, n)
    BY <1>0, <1>4, <2>1, BackfillCalls
  <2>3. k \in Keys /\ k \in call[Main].left /\ (call[Main].item # NoItem => k = call[Main].item)
    BY <2>1 DEF Turn
  <2>4. jobs' \in JobsType
    BY <1>0, <2>2, <2>3, QueuedInserts DEF Inserted, OthersTyped, Queues, BackfillGoesOn
  <2>5. OthersTyped' /\ UNCHANGED <<domain, process, worker, today, cleaned>>
    BY <1>0, <1>4, <2>4 DEF BackfillSupplementJobs, OthersTyped
  <2>6. PICK n : BackfillGoesOn(k, n)
    BY <2>2
  <2>7. RightCall(Main, n, process', today)
    BY <1>0, <2>1, <2>5, <2>6 DEF RightCall, CallsBelong, BackfillGoesOn
  <2>8. RightLoop(n, domain')
    BY <2>1, <2>3, <2>5, <2>6, KeyFields DEF RightLoop, BackfillGoesOn
  <2> QED
    BY <1>0, <2>5, <2>6, <2>7, <2>8, OneCallControl DEF BackfillGoesOn
<1>5. CASE WorkersStart(Main)
  <2>1. /\ OthersTyped' /\ UNCHANGED <<domain, worker, today, cleaned>>
        /\ process = "starting" /\ process' # "starting"
    BY <1>0, <1>5 DEF WorkersStart, OthersTyped, CallsBelong
  <2>2. \/ CallIs(Main, NoCall)
        \/ \E n : Becomes(Main, n) /\ Begun(n, "list", today)
    BY <1>0, <1>5, CallsBegin
  <2> QED
    BY <1>0, <2>1, <2>2, NewCallsAreRight, OneCallControl
<1>6. CASE Start \/ Trigger
  <2>1. PICK n : Becomes(Main, n) /\ Begun(n, "clean", today)
    BY <1>0, <1>6, CallsBegin
  <2>2. OthersTyped' /\ UNCHANGED <<domain, process, worker, today, cleaned>>
    BY <1>0, <1>6, Spending DEF Start, Trigger, OthersTyped
  <2> QED
    BY <1>0, <2>1, <2>2, NewCallsAreRight, OneCallControl
<1> QED
  BY <1>1, <1>2, <1>3, <1>4, <1>5, <1>6

\* QueueAll's and QueueDomain's steps, whoever calls them.
LEMMA QueueControl ==
    ASSUME Control, NEW c \in Callers,
           QueueAll(c) \/ QueueDomain(c) \/ QueueDomainFails(c) \/ QueueReturns(c)
    PROVE  Control'
<1>0. /\ TypeOK /\ call[c] \in CallType /\ CallsBelong /\ OthersTyped /\ today \in Nat
      /\ call[c].left \in SUBSET Keys /\ call[c].listed \in SUBSET Keys
  BY Fields, TypeParts DEF Control, OthersTyped
<1>1. CASE QueueAll(c)
  <2>1. OthersTyped' /\ UNCHANGED <<domain, process, worker, today, cleaned>> /\ call[c].pc = "list"
    BY <1>0, <1>1, Spending DEF QueueAll, OthersTyped
  <2>2. CASE CallIs(c, NoCall)
    BY <1>0, <2>1, <2>2, NewCallsAreRight, OneCallControl
  <2>3. CASE \E n : /\ Becomes(c, n) /\ Begun(n, "queue", call[c].day)
                    /\ \A k \in n.left : k[2] = call[c].day
    <3>1. PICK n : /\ Becomes(c, n) /\ Begun(n, "queue", call[c].day)
                   /\ \A k \in n.left : k[2] = call[c].day
      BY <2>3
    <3>2. RightCall(c, n, process', today)
      BY <1>0, <2>1, <3>1 DEF CallsBelong, RightCall, Begun
    <3>3. RightLoop(n, domain')
      BY <3>1 DEF RightLoop, Begun
    <3> QED
      BY <1>0, <2>1, <3>1, <3>2, <3>3, OneCallControl
  <2> QED
    BY <1>0, <1>1, <2>2, <2>3, QueueAllCalls
<1>2. CASE QueueDomain(c)
  <2>1. /\ call[c].pc = "queue" /\ call[c].at \in 1..3
        /\ \A k \in call[c].left : k[2] = call[c].day
        /\ call[c].item # NoItem => call[c].item \in call[c].left
    BY <1>2 DEF Control, LoopsGoOn, QueueDomain
  <2>2. PICK k \in Turn(c) : \E n : QueueGoesOn(c, k, n)
    BY <1>0, <1>2, <2>1, QueueCalls
  <2>3. k \in Keys /\ k \in call[c].left
    BY <1>0, <2>1 DEF Turn
  <2>4. PICK n : QueueGoesOn(c, k, n)
    BY <2>2
  <2>5. Queue[call[c].at] \in Queues
    BY <2>1 DEF Queue, Queues
  <2>6. jobs' \in JobsType
    BY <1>0, <2>3, <2>4, <2>5, QueuedInserts DEF Inserted, OthersTyped, QueueGoesOn
  <2>7. OthersTyped' /\ UNCHANGED <<domain, process, worker, today, cleaned>>
    BY <1>0, <1>2, <2>6 DEF QueueDomain, OthersTyped
  <2>8. RightCall(c, n, process', today)
    BY <1>0, <2>1, <2>4, <2>7 DEF CallsBelong, RightCall, QueueGoesOn
  <2>9. RightLoop(n, domain')
    BY <2>1, <2>3, <2>4, KeyFields DEF RightLoop, QueueGoesOn
  <2> QED
    BY <1>0, <2>4, <2>7, <2>8, <2>9, OneCallControl DEF QueueGoesOn
<1>3. CASE QueueDomainFails(c)
  <2>1. /\ CallIs(c, NoCall) /\ (Fail \/ UNCHANGED used)
        /\ UNCHANGED <<domain, jobs, docs, process, worker, today, reported, cleaned, late>>
    BY <1>3 DEF QueueDomainFails, Ends
  <2>2. OthersTyped'
    BY <1>0, <2>1, Spending DEF OthersTyped
  <2> QED
    BY <1>0, <2>1, <2>2, NewCallsAreRight, OneCallControl
<1>4. CASE QueueReturns(c)
  <2>1. /\ CallIs(c, NoCall) /\ OthersTyped'
        /\ UNCHANGED <<domain, process, worker, today, cleaned>>
    BY <1>0, <1>4 DEF QueueReturns, Ends, OthersTyped
  <2> QED
    BY <1>0, <2>1, NewCallsAreRight, OneCallControl
<1> QED
  BY <1>1, <1>2, <1>3, <1>4

\* The requests.
LEMMA RequestControl ==
    ASSUME Control, NEW c \in Requests, RequestStep(c)
    PROVE  Control'
<1>0. /\ TypeOK /\ c \in Callers /\ c # Main /\ CallsBelong /\ OthersTyped /\ today \in Nat
  BY Fields, TypeParts DEF Control, OthersTyped
<1>1. CASE \E d \in Domains : CreateDomain(c, d) \/ UpdateDomain(c, d)
  <2>1. /\ process = "serving" /\ domain' \in [Domains -> {"absent", "archived", "active"}]
        /\ Spend("calls", MaxCalls)
        /\ UNCHANGED <<jobs, docs, process, call, worker, today, reported, cleaned, late>>
    BY <1>0, <1>1 DEF CreateDomain, UpdateDomain, Request, OthersTyped
  <2>2. TypeOK'
    BY <1>0, <2>1, Spending, TypeParts DEF TypeOK, OthersTyped, UsedType
  <2>3. LoopsGoOn'
    BY <2>1 DEF Control, LoopsGoOn, CallsBelong
  <2> QED
    BY <2>1, <2>2, <2>3 DEF Control, CallsBelong, WorkersBelong
<1>2. CASE \E d \in Domains : ArchiveDomain(c, d)
  <2>1. PICK d \in Domains : ArchiveDomain(c, d)
    BY <1>2
  <2>2. /\ OthersTyped' /\ UNCHANGED <<process, worker, today, cleaned>> /\ process = "serving"
    BY <1>0, <2>1, Spending DEF ArchiveDomain, OthersTyped, Request
  <2>3. PICK n : Becomes(c, n) /\ Begun(n, "archive", today) /\ n.item \in Keys
    BY <1>0, <2>1, DomainCalls
  <2>4. RightCall(c, n, process', today)
    BY <1>0, <2>2, <2>3 DEF RightCall, Begun
  <2> QED
    BY <1>0, <2>2, <2>3, <2>4, NewCallsAreRight, OneCallControl
<1>3. CASE \E d \in Domains : CollectDomain(c, d)
  <2>1. PICK d \in Domains : CollectDomain(c, d)
    BY <1>3
  <2>2. /\ OthersTyped' /\ UNCHANGED <<domain, process, worker, today, cleaned>>
        /\ process = "serving"
    BY <1>0, <2>1, Spending DEF CollectDomain, OthersTyped, Request
  <2>3. PICK n : /\ Becomes(c, n) /\ Begun(n, "queue", today)
                 /\ \A k \in n.left : k[2] = today
    BY <1>0, <2>1, DomainCalls
  <2>4. RightCall(c, n, process', today)
    BY <1>0, <2>2, <2>3 DEF RightCall, Begun
  <2>5. RightLoop(n, domain')
    BY <2>3 DEF RightLoop, Begun
  <2> QED
    BY <1>0, <2>2, <2>3, <2>4, <2>5, OneCallControl
<1>4. CASE CollectAll(c)
  <2>1. /\ OthersTyped' /\ UNCHANGED <<domain, process, worker, today, cleaned>>
        /\ process = "serving"
    BY <1>0, <1>4, Spending DEF CollectAll, OthersTyped, Request
  <2>2. PICK n : Becomes(c, n) /\ Begun(n, "list", today)
    BY <1>0, <1>4, CallsBegin
  <2> QED
    BY <1>0, <2>1, <2>2, NewCallsAreRight, OneCallControl
<1> QED
  BY <1>1, <1>2, <1>3, <1>4 DEF RequestStep

\* An archive keeps to its three queues.
LEMMA CancelControl ==
    ASSUME Control, NEW c \in Callers, CancelQueuedJobs(c)
    PROVE  Control'
<1>0. /\ TypeOK /\ CallsBelong /\ OthersTyped /\ today \in Nat
      /\ call[c].pc = "archive" /\ call[c].at \in 1..3 /\ call[c].item \in Keys
  BY Fields, TypeParts DEF Control, OthersTyped, CallsBelong, CancelQueuedJobs
<1>1. jobs' \in JobsType
  BY <1>0, CancelMoves DEF Moved, OthersTyped
<1>2. OthersTyped' /\ UNCHANGED <<domain, process, worker, today, cleaned>>
  BY <1>0, <1>1, Spending DEF CancelQueuedJobs, OthersTyped
<1>3. CASE CallIs(c, NoCall)
  BY <1>0, <1>2, <1>3, NewCallsAreRight, OneCallControl
<1>4. CASE \E n : /\ Becomes(c, n) /\ n.pc = "archive" /\ n.day = call[c].day
                  /\ n.item = call[c].item /\ n.at \in 1..3
  <2>1. PICK n : /\ Becomes(c, n) /\ n.pc = "archive" /\ n.day = call[c].day
                 /\ n.item = call[c].item /\ n.at \in 1..3
    BY <1>4
  <2>2. RightCall(c, n, process', today) /\ RightLoop(n, domain')
    BY <1>0, <1>2, <2>1 DEF CallsBelong, RightCall, RightLoop
  <2> QED
    BY <1>0, <1>2, <2>1, <2>2, OneCallControl
<1> QED
  BY <1>0, <1>3, <1>4, CancelCalls

\* The workers.
WorkerType == [pc : {"idle", "fetch", "saved"}, key : Keys \cup {NoItem}]

\* Workers are no part of the calls.
LEMMA WorkerControl ==
    ASSUME Control, SavedFirst, NEW q \in Queues, WorkerStep(q)
    PROVE  Control'
<1>0. /\ TypeOK /\ OthersTyped /\ WorkersBelong /\ worker \in [Queues -> WorkerType]
      /\ NoWork \in WorkerType /\ NoWork.pc = "idle"
  BY TypeParts DEF Control, OthersTyped, WorkerType, NoWork
<1>1. /\ jobs' \in JobsType
      /\ UNCHANGED <<domain, process, call, today, reported, cleaned>>
  <2>1. CASE SaveMetric(q)
    BY <1>0, <2>1 DEF SaveMetric, OthersTyped
  <2>2. CASE ~SaveMetric(q)
    <3>1. Moved(jobs, jobs', docs, IsIdle)
      BY <1>0, <2>2, WorkerMoves DEF WorkerStep, OthersTyped
    <3> QED
      BY <2>2, <3>1 DEF WorkerStep, ClaimNextJob, SaveJobResult, AttemptFails, RecoverStaleJobs,
                        Moved
  <2> QED
    BY <2>1, <2>2
<1>2. /\ docs' \subseteq Keys /\ late' \subseteq Keys /\ used' \in UsedType
  <2>1. CASE SaveMetric(q)
    BY <1>0, <2>1 DEF SaveMetric, OthersTyped, WorkersBelong
  <2>2. CASE ~SaveMetric(q)
    BY <1>0, <2>2, Spending DEF OthersTyped, WorkerStep, ClaimNextJob, SaveJobResult, AttemptFails,
                                RecoverStaleJobs
  <2> QED
    BY <2>1, <2>2
<1>3. PICK w \in WorkerType :
          /\ worker' = [worker EXCEPT ![q] = w]
          /\ w.pc # "idle" => w.key \in Keys /\ process # "starting"
  <2>1. CASE ClaimNextJob(q)
    <3>1. PICK k \in Keys : worker' = [worker EXCEPT ![q] = [pc |-> "fetch", key |-> k]]
      BY <2>1 DEF ClaimNextJob
    <3> QED
      BY <2>1, <3>1 DEF ClaimNextJob, WorkerType
  <2>2. CASE SaveMetric(q)
    <3>1. PICK w : w = [worker[q] EXCEPT !.pc = "saved"]
      OBVIOUS
    <3>2. w \in WorkerType /\ w.key = worker[q].key
      BY <1>0, <3>1 DEF WorkerType
    <3>3. worker' = [worker EXCEPT ![q] = w]
      BY <2>2, <3>1 DEF SaveMetric
    <3> QED
      BY <1>0, <2>2, <3>2, <3>3 DEF SaveMetric, WorkersBelong
  <2>3. CASE SaveJobResult(q) \/ AttemptFails(q)
    BY <1>0, <2>3 DEF SaveJobResult, AttemptFails
  <2>4. CASE RecoverStaleJobs(q)
    <3>1. PICK w : w = worker[q]
      OBVIOUS
    <3>2. w \in WorkerType /\ worker' = [worker EXCEPT ![q] = w]
      BY <1>0, <2>4, <3>1 DEF RecoverStaleJobs
    <3> QED
      BY <1>0, <3>1, <3>2 DEF WorkersBelong
  <2> QED
    BY <2>1, <2>2, <2>3, <2>4 DEF WorkerStep
<1>4. /\ worker' \in [Queues -> WorkerType] /\ worker'[q] = w
      /\ \A p \in Queues \ {q} : worker'[p] = worker[p]
  BY <1>0, <1>3
<1>5. TypeOK'
  BY <1>0, <1>1, <1>2, <1>4, TypeParts DEF TypeOK, OthersTyped, JobsType, UsedType, WorkerType
<1>6. WorkersBelong'
  BY <1>1, <1>3, <1>4 DEF Control, WorkersBelong
<1> QED
  BY <1>1, <1>5, <1>6 DEF Control, CallsBelong, LoopsGoOn

\* The process and the clock.
LEMMA ProcessControl ==
    ASSUME Control, Serve \/ Restart \/ NextDay
    PROVE  Control'
<1>0. /\ TypeOK /\ OthersTyped /\ worker \in [Queues -> WorkerType]
      /\ call \in [Callers -> CallType]
      /\ \A c \in Callers : call[c].day \in Nat
      /\ today \in Nat /\ today \in Days /\ cleaned \in Days
      /\ NoWork \in WorkerType /\ NoWork.pc = "idle"
  BY Fields, TypeParts DEF Control, OthersTyped, WorkerType, NoWork
<1>1. CASE Serve
  <2>1. TypeOK'
    BY <1>0, <1>1 DEF Serve, TypeOK
  <2>2. /\ process = "queueing" /\ process' = "serving"
        /\ UNCHANGED <<domain, call, worker, today>>
    BY <1>1 DEF Serve
  <2> QED
    BY <2>1, <2>2 DEF Control, CallsBelong, LoopsGoOn, WorkersBelong
<1>2. CASE Restart
  <2>1. /\ process' = "starting" /\ call' = [c \in Callers |-> NoCall]
        /\ worker' = [q \in Queues |-> NoWork] /\ Spend("restarts", MaxRestarts)
        /\ UNCHANGED <<domain, jobs, docs, today, reported, cleaned, late>>
    BY <1>2 DEF Restart, Callers
  <2>2. /\ call' \in [Callers -> CallType] /\ worker' \in [Queues -> WorkerType]
        /\ used' \in UsedType
    BY <1>0, <2>1, NoCallFields, Spending DEF OthersTyped
  <2>3. TypeOK'
    BY <1>0, <2>1, <2>2 DEF TypeOK, OthersTyped, JobsType, Callers, UsedType, WorkerType
  <2>4. /\ \A c \in Callers : call'[c] = NoCall
        /\ \A q \in Queues : worker'[q] = NoWork
    BY <2>1
  <2>5. CallsBelong' /\ LoopsGoOn'
    BY <2>4, NoCallFields DEF CallsBelong, LoopsGoOn
  <2>6. WorkersBelong'
    BY <1>0, <2>4 DEF WorkersBelong
  <2> QED
    BY <2>3, <2>5, <2>6 DEF Control
<1>3. CASE NextDay
  <2>1. PICK day \in Days :
            /\ day > today /\ today' = day
            /\ \A c \in Callers : call[c].pc = "idle" \/ call[c].day + 1 >= day
            /\ UNCHANGED <<domain, jobs, docs, process, call, worker, reported, cleaned,
                           late, used>>
    BY <1>0, <1>3 DEF NextDay
  <2>2. TypeOK'
    BY <1>0, <2>1 DEF TypeOK
  <2>3. CallsBelong'
    BY <1>0, <2>1 DEF Control, CallsBelong
  <2> QED
    BY <2>1, <2>2, <2>3 DEF Control, LoopsGoOn, WorkersBelong
<1> QED
  BY <1>1, <1>2, <1>3

\* The cron's goroutine alone is ever in a step of its own.
LEMMA ControlStep ==
    ASSUME Control, SavedFirst, Next
    PROVE  Control'
<1>1. CASE MainStep(Main)
  BY <1>1, CleanupControl, MainControl DEF MainStep
<1>2. CASE \E c \in Requests \cup {Main} : CallStep(c)
  BY <1>2, QueueControl, CancelControl DEF CallStep, Callers
<1>3. CASE \E c \in Requests : RequestStep(c)
  BY <1>3, RequestControl
<1>4. CASE \E q \in Queues : WorkerStep(q)
  BY <1>4, WorkerControl
<1>5. CASE Start \/ Trigger
  BY <1>5, MainControl
<1>6. CASE Serve \/ Restart \/ NextDay
  BY <1>6, ProcessControl
<1> QED
  BY <1>1, <1>2, <1>3, <1>4, <1>5, <1>6 DEF Next

-----------------------------------------------------------------------------
(***************************************************************************)
(* What a step makes of the loops and of the jobs.                         *)
(***************************************************************************)
Queuing(c) ==
    /\ QueueDomain(c) /\ call[c].pc = "queue" /\ call[c].at \in 1..3
    /\ \E k \in call[c].left, n \in CallType :
        /\ QueueGoesOn(c, k, n) /\ call'[c] = n
        /\ call[c].item # NoItem => call[c].item = k
        /\ Inserted(jobs, jobs', Queue[call[c].at], k)
        /\ k[2] = call[c].day
Filling ==
    /\ BackfillSupplementJobs(Main) /\ call[Main].pc = "backfill"
    /\ \E k \in call[Main].left, n \in CallType :
        /\ BackfillGoesOn(k, n) /\ call'[Main] = n
        /\ call[Main].item # NoItem => call[Main].item = k
        /\ call[Main].at = 2 /\ domain[k[1]] = "active" => Inserted(jobs, jobs', "chinaz", k)
        /\ call[Main].at = 3 /\ domain[k[1]] = "active" =>
              Inserted(jobs, jobs', "chinaz_supplement", k)
        /\ domain[k[1]] # "active" => jobs' = jobs

\* A loop begins, goes on or ends, or it is not its turn.
LoopFate(c) ==
    \/ call'[c] = call[c]
    \/ call'[c].pc \notin {"queue", "backfill"}
    \/ call'[c].pc = "queue" /\ call'[c].item = NoItem /\ call'[c].listed = call'[c].left
    \/ call'[c].pc = "backfill" /\ call'[c].at = 2 /\ call'[c].left = Split /\ jobs' = jobs
    \/ Queuing(c)
    \/ c = Main /\ Filling

\* A turn of QueueAll inserts into one queue, and goes on.
LEMMA QueuingHolds ==
    ASSUME Control, NEW c \in Callers, QueueDomain(c)
    PROVE  Queuing(c)
<1>0. /\ TypeOK /\ call[c].left \in SUBSET Keys /\ jobs \in JobsType
  BY Fields, TypeParts DEF Control
<1>1. /\ call[c].pc = "queue" /\ call[c].at \in 1..3
      /\ \A k \in call[c].left : k[2] = call[c].day
      /\ call[c].item # NoItem => call[c].item \in call[c].left
  BY DEF Control, LoopsGoOn, QueueDomain
<1>2. PICK k \in Turn(c) : \E n : QueueGoesOn(c, k, n)
  BY <1>0, <1>1, QueueCalls
<1>3. k \in call[c].left /\ k \in Keys /\ (call[c].item # NoItem => call[c].item = k)
  BY <1>0, <1>1 DEF Turn
<1>4. PICK n : QueueGoesOn(c, k, n)
  BY <1>2
<1>5. Queue[call[c].at] \in Queues
  BY <1>1 DEF Queue, Queues
<1>6. Inserted(jobs, jobs', Queue[call[c].at], k)
  BY <1>0, <1>3, <1>4, <1>5, QueuedInserts DEF QueueGoesOn
<1>7. n \in CallType /\ call'[c] = n
  BY <1>0, <1>4, CallChange DEF QueueGoesOn, Becomes
<1> QED
  BY <1>1, <1>3, <1>4, <1>6, <1>7 DEF Queuing

\* A turn of the backfill inserts into one child, or drops its item, and goes on.
LEMMA FillingHolds ==
    ASSUME Control, BackfillSupplementJobs(Main)
    PROVE  Filling
<1>0. TypeOK /\ call[Main].left \in SUBSET Keys /\ Main \in Callers /\ jobs \in JobsType
  BY Fields, TypeParts DEF Control
<1>1. /\ call[Main].pc = "backfill" /\ call[Main].at \in {2, 3}
      /\ call[Main].item # NoItem => call[Main].item \in call[Main].left
  BY <1>0 DEF Control, LoopsGoOn, BackfillSupplementJobs
<1>2. PICK k \in Turn(Main) : \E n : BackfillGoesOn(k, n)
  BY <1>0, <1>1, BackfillCalls
<1>3. k \in call[Main].left /\ k \in Keys /\ (call[Main].item # NoItem => call[Main].item = k)
  BY <1>0, <1>1 DEF Turn
<1>4. PICK n : BackfillGoesOn(k, n)
  BY <1>2
<1>5. /\ call[Main].at = 2 /\ domain[k[1]] = "active" => Queued("chinaz", k)
      /\ call[Main].at = 3 /\ domain[k[1]] = "active" => Queued("chinaz_supplement", k)
      /\ domain[k[1]] # "active" => jobs' = jobs
  BY <1>4 DEF BackfillGoesOn
<1>6. "chinaz" \in Queues /\ "chinaz_supplement" \in Queues
  BY DEF Queues
<1>7. n \in CallType /\ call'[Main] = n
  BY <1>0, <1>4, CallChange DEF BackfillGoesOn, Becomes
<1> QED
  BY <1>0, <1>1, <1>3, <1>4, <1>5, <1>6, <1>7, QueuedInserts DEF Filling

\* A step of one call is not another's turn.
LEMMA OneFate ==
    ASSUME TypeOK, NEW c \in Callers, NEW n, Becomes(c, n), LoopFate(c)
    PROVE  \A b \in Callers : LoopFate(b)
BY CallChange DEF LoopFate, Becomes

\* A call that is in no loop has no turn.
LEMMA NoLoop ==
    ASSUME TypeOK, NEW c \in Callers, NEW n, Becomes(c, n), n.pc \notin {"queue", "backfill"}
    PROVE  \A b \in Callers : LoopFate(b)
BY CallChange DEF LoopFate, Becomes

\* A call that has ended has no turn.
LEMMA Ended ==
    ASSUME TypeOK, NEW c \in Callers, CallIs(c, NoCall)
    PROVE  \A b \in Callers : LoopFate(b)
BY NoLoop, NoCallFields DEF Becomes

\* What the start-up and the trigger do to the loops.
LEMMA MainFates ==
    ASSUME Control, MainStep(Main) \/ Start \/ Trigger
    PROVE  \A b \in Callers : LoopFate(b)
<1>0. TypeOK /\ Main \in Callers
  BY Fields DEF Control
<1>1. CASE CleanupBefore(Main)
  BY <1>0, <1>1, CleanupCalls, NoLoop
<1>2. CASE ActivateMetricDomain(Main)
  BY <1>0, <1>2, SyncCalls, NoLoop DEF ActivateMetricDomain
<1>3. CASE SyncFails(Main) \/ BackfillFails(Main)
  BY <1>0, <1>3, Ended DEF SyncFails, BackfillFails, Ends
<1>4. CASE SyncEnds(Main) /\ process # "starting"
  BY <1>0, <1>4, SyncCalls, NoLoop DEF SyncEnds, Begun
<1>5. CASE SyncEnds(Main) /\ process = "starting"
  <2>1. PICK n : Becomes(Main, n) /\ Begun(n, "backfill", today) /\ n.left = Split /\ n.at = 2
    BY <1>0, <1>5, SyncCalls DEF SyncEnds
  <2>2. call'[Main] = n /\ jobs' = jobs
    BY <1>0, <1>5, <2>1, CallChange DEF Becomes, SyncEnds
  <2>3. LoopFate(Main)
    BY <2>1, <2>2 DEF LoopFate, Begun
  <2> QED
    BY <1>0, <2>1, <2>3, OneFate
<1>6. CASE BackfillSupplementJobs(Main)
  <2>1. PICK n : Becomes(Main, n)
    BY <1>6, FillingHolds DEF Filling, BackfillGoesOn
  <2> QED
    BY <1>0, <1>6, <2>1, FillingHolds, OneFate DEF LoopFate
<1>7. CASE WorkersStart(Main)
  BY <1>0, <1>7, CallsBegin, Ended, NoLoop DEF Begun
<1>8. CASE Start \/ Trigger
  BY <1>0, <1>8, CallsBegin, NoLoop DEF Begun
<1> QED
  BY <1>1, <1>2, <1>3, <1>4, <1>5, <1>6, <1>7, <1>8 DEF MainStep

\* What the calls and the requests do to the loops.
LEMMA CallFates ==
    ASSUME Control, NEW c \in Callers, CallStep(c) \/ (c \in Requests /\ RequestStep(c))
    PROVE  \A b \in Callers : LoopFate(b)
<1>0. TypeOK
  BY DEF Control
<1>1. CASE QueueDomain(c)
  <2>1. PICK n : Becomes(c, n)
    BY <1>1, QueuingHolds DEF Queuing, QueueGoesOn
  <2> QED
    BY <1>0, <1>1, <2>1, QueuingHolds, OneFate DEF LoopFate
<1>2. ASSUME NEW n, NEW day, Becomes(c, n), Begun(n, "queue", day), n.listed = n.left
      PROVE  \A b \in Callers : LoopFate(b)
  <2>1. call'[c] = n
    BY <1>0, <1>2, CallChange DEF Becomes
  <2> QED
    BY <1>0, <1>2, <2>1, OneFate DEF LoopFate, Begun
<1>3. CASE QueueAll(c)
  BY <1>0, <1>2, <1>3, QueueAllCalls, Ended
<1>4. CASE QueueDomainFails(c) \/ QueueReturns(c)
  BY <1>0, <1>4, Ended DEF QueueDomainFails, QueueReturns, Ends
<1>5. CASE CancelQueuedJobs(c)
  <2>1. call[c].at \in 1..3
    BY <1>5 DEF CancelQueuedJobs, Control, CallsBelong
  <2> QED
    BY <1>0, <1>5, <2>1, CancelCalls, Ended, NoLoop
<1>6. CASE c \in Requests /\ \E d \in Domains : CreateDomain(c, d) \/ UpdateDomain(c, d)
  BY <1>6 DEF CreateDomain, UpdateDomain, LoopFate
<1>7. CASE c \in Requests /\ \E d \in Domains : ArchiveDomain(c, d)
  BY <1>0, <1>7, DomainCalls, NoLoop DEF Begun
<1>8. CASE c \in Requests /\ \E d \in Domains : CollectDomain(c, d)
  BY <1>0, <1>2, <1>8, DomainCalls
<1>9. CASE c \in Requests /\ CollectAll(c)
  BY <1>0, <1>9, CallsBegin, NoLoop DEF Begun
<1> QED
  BY <1>1, <1>3, <1>4, <1>5, <1>6, <1>7, <1>8, <1>9 DEF CallStep, RequestStep

\* What any step does to the loops.
LEMMA Fates ==
    ASSUME Control, Next
    PROVE  \A b \in Callers : LoopFate(b)
<1>1. CASE MainStep(Main) \/ Start \/ Trigger
  BY <1>1, MainFates
<1>2. CASE \E c \in Requests \cup {Main} : CallStep(c)
  BY <1>2, CallFates DEF Callers
<1>3. CASE \E c \in Requests : RequestStep(c)
  BY <1>3, CallFates DEF Callers
<1>4. CASE Serve \/ NextDay \/ \E q \in Queues : WorkerStep(q)
  <2>1. call' = call
    BY <1>4 DEF Serve, NextDay, WorkerStep, ClaimNextJob, SaveMetric, SaveJobResult, AttemptFails,
                RecoverStaleJobs
  <2> QED
    BY <2>1 DEF LoopFate
<1>5. CASE Restart
  <2>1. \A b \in Callers : call'[b] = NoCall
    BY <1>5 DEF Restart, Callers
  <2> QED
    BY <2>1, NoCallFields DEF LoopFate
<1> QED
  BY <1>1, <1>2, <1>3, <1>4, <1>5 DEF Next

\* The jobs: nothing, some go on, one is queued, or a cleanup deletes.
JobsFate ==
    \/ jobs' = jobs
    \/ Moved(jobs, jobs', docs, IsIdle)
    \/ \E c \in Callers : Queuing(c)
    \/ Filling
    \/ /\ CleanupBefore(Main) /\ call[Main].pc = "clean" /\ call[Main].at # 4
       /\ Deleted(jobs, jobs', Queue[call[Main].at], call[Main].day)

\* What any step does to the jobs.
LEMMA JobsFates ==
    ASSUME Control, SavedFirst, Next
    PROVE  JobsFate
<1>0. TypeOK /\ Main \in Callers /\ jobs \in JobsType /\ call[Main].day \in Nat
      /\ call[Main].at \in 1..4
  BY Fields, TypeParts DEF Control
<1>1. CASE CleanupBefore(Main)
  <2>1. CASE call[Main].at # 4 /\ Delete(call[Main].at, call[Main].day)
    <3>1. Queue[call[Main].at] \in Queues
      BY <1>0, <2>1 DEF Queue, Queues
    <3>2. Deleted(jobs, jobs', Queue[call[Main].at], call[Main].day)
      BY <1>0, <2>1, <3>1, DeleteDeletes DEF Delete
    <3> QED
      BY <1>1, <2>1, <3>2 DEF JobsFate, CleanupBefore
  <2>2. CASE jobs' = jobs
    BY <2>2 DEF JobsFate
  <2> QED
    BY <1>1, <2>1, <2>2 DEF CleanupBefore, Delete, DeleteDocs
<1>2. CASE BackfillSupplementJobs(Main)
  BY <1>2, FillingHolds DEF JobsFate
<1>3. CASE \E c \in Callers : QueueDomain(c)
  BY <1>3, QueuingHolds DEF JobsFate
<1>4. CASE \E c \in Callers : CancelQueuedJobs(c)
  <2>1. PICK c \in Callers : CancelQueuedJobs(c)
    BY <1>4
  <2>2. call[c].at \in 1..3
    BY <2>1 DEF CancelQueuedJobs, Control, CallsBelong
  <2> QED
    BY <1>0, <2>1, <2>2, CancelMoves DEF JobsFate
<1>5. CASE \E q \in Queues : WorkerStep(q)
  BY <1>0, <1>5, WorkerMoves DEF JobsFate, WorkerStep, SaveMetric, Control
<1>6. CASE \E c \in Requests : RequestStep(c)
  BY <1>6 DEF RequestStep, CreateDomain, UpdateDomain, ArchiveDomain, CollectDomain, CollectAll,
              JobsFate
<1>7. CASE \E c \in Callers : QueueAll(c) \/ QueueDomainFails(c) \/ QueueReturns(c)
  BY <1>7 DEF QueueAll, QueueDomainFails, QueueReturns, JobsFate
<1>8. CASE \/ Start \/ Serve \/ Trigger \/ Restart \/ NextDay
           \/ ActivateMetricDomain(Main) \/ SyncFails(Main) \/ SyncEnds(Main)
           \/ BackfillFails(Main) \/ WorkersStart(Main)
  BY <1>8 DEF Start, Serve, Trigger, Restart, NextDay, ActivateMetricDomain, SyncFails, SyncEnds,
              BackfillFails, WorkersStart, JobsFate
<1> QED
  BY <1>1, <1>2, <1>3, <1>4, <1>5, <1>6, <1>7, <1>8 DEF Next, MainStep, CallStep, Callers

-----------------------------------------------------------------------------
(***************************************************************************)
(* QueueAllIsComplete.                                                     *)
(***************************************************************************)
LEMMA Clock ==
    ASSUME Control, Next
    PROVE  today \in Nat /\ today' \in Nat /\ today <= today'
<1>1. today \in Nat /\ Days \subseteq Nat
  BY Fields DEF Control
<1>2. today' = today \/ NextDay
  BY DEF Next, MainStep, CallStep, RequestStep, WorkerStep, Start, Serve, Trigger, Restart,
         CleanupBefore, ActivateMetricDomain, SyncFails, SyncEnds, BackfillSupplementJobs,
         BackfillFails, WorkersStart, QueueAll, QueueDomain, QueueDomainFails, QueueReturns,
         CancelQueuedJobs, CreateDomain, UpdateDomain, ArchiveDomain, CollectDomain, CollectAll,
         ClaimNextJob, SaveMetric, SaveJobResult, AttemptFails, RecoverStaleJobs
<1>3. NextDay => today' \in Nat /\ today <= today'
  BY <1>1 DEF NextDay
<1> QED
  BY <1>1, <1>2, <1>3

StillPresent(q, k) == ~Expired(k, today') => jobs'[q][k] # "absent"
\* Only what has expired disappears from a queue.
LEMMA JobsStay ==
    ASSUME Control, SavedFirst, Next, NEW q \in Queues, NEW k \in Keys, Present(q, k)
    PROVE  StillPresent(q, k)
<1>0. /\ today \in Nat /\ today' \in Nat /\ today <= today'
      /\ Expired(k, today) => Expired(k, today')
  BY Clock, ExpiredLater
<1>1. jobs'[q][k] = "absent" => jobs[q][k] = "absent" \/ Expired(k, today)
  <2>1. CASE jobs' = jobs
    BY <2>1
  <2>2. CASE Moved(jobs, jobs', docs, IsIdle)
    BY <2>2 DEF Moved, Open
  <2>3. CASE (\E c \in Callers : Queuing(c)) \/ Filling
    <3>1. PICK p \in Queues, j \in Keys : Inserted(jobs, jobs', p, j) \/ jobs' = jobs
      <4>1. CASE \E c \in Callers : Queuing(c)
        <5>1. PICK c \in Callers : Queuing(c)
          BY <4>1
        <5>2. call[c].left \in SUBSET Keys /\ Queue[call[c].at] \in Queues
          BY <5>1, Fields DEF Control, Queuing, Queue, Queues
        <5> QED
          BY <5>1, <5>2 DEF Queuing
      <4>2. CASE Filling
        <5>1. call[Main].left \in SUBSET Keys
          BY Fields DEF Control
        <5>2. call[Main].at \in {2, 3}
          BY <4>2, Fields DEF Filling, Control, LoopsGoOn
        <5>3. "chinaz" \in Queues /\ "chinaz_supplement" \in Queues
          BY DEF Queues
        <5> QED
          BY <4>2, <5>1, <5>2, <5>3 DEF Filling
      <4> QED
        BY <2>3, <4>1, <4>2
    <3>2. "absent" \notin Open \cup Proven(p)
      BY DEF Open, Proven
    <3> QED
      BY <3>1, <3>2 DEF Inserted
  <2>4. CASE /\ call[Main].pc = "clean"
             /\ Deleted(jobs, jobs', Queue[call[Main].at], call[Main].day)
    <3>1. call[Main].day \in Nat /\ call[Main].day <= today
      BY <2>4, Fields DEF Control, CallsBelong
    <3>2. Expired(k, call[Main].day) => Expired(k, today)
      BY <1>0, <3>1, ExpiredLater
    <3> QED
      BY <2>4, <3>2 DEF Deleted
  <2> QED
    BY <2>1, <2>2, <2>3, <2>4, JobsFates DEF JobsFate
<1> QED
  BY <1>0, <1>1 DEF Present, StillPresent

\* A loop reaches what it lists.
LEMMA LoopsStayComplete ==
    ASSUME Control, SavedFirst, LoopsComplete, Next
    PROVE  LoopsComplete'
<1>1. \A q \in Queues, k \in Keys : Present(q, k) => StillPresent(q, k)
  BY JobsStay
<1>2. \A i \in 1..3 : Queue[i] \in Queues
  BY DEF Queue, Queues
<1> SUFFICES ASSUME NEW c \in Callers, call'[c].pc = "queue"
             PROVE  /\ \A k \in call'[c].listed \ call'[c].left, q \in Queues : StillPresent(q, k)
                    /\ call'[c].item # NoItem =>
                          \A i \in 1..(call'[c].at - 1) : StillPresent(Queue[i], call'[c].item)
  BY DEF LoopsComplete, Present, StillPresent
<1>3. /\ call[c].listed \in SUBSET Keys /\ call[c].item \in Keys \cup {NoItem}
      /\ call[c].left \in SUBSET Keys /\ call[c].at \in 1..4
  BY Fields DEF Control
<1>4. CASE call'[c] = call[c]
  <2>1. call[c].at \in 1..3
    BY <1>4 DEF Control, LoopsGoOn
  <2> QED
    BY <1>1, <1>2, <1>3, <1>4, <2>1 DEF LoopsComplete
<1>5. CASE call'[c].item = NoItem /\ call'[c].listed = call'[c].left
  BY <1>5
<1>6. CASE Queuing(c)
  <2>1. PICK k \in call[c].left, n \in CallType :
            /\ QueueGoesOn(c, k, n) /\ call'[c] = n
            /\ call[c].item # NoItem => call[c].item = k
            /\ Inserted(jobs, jobs', Queue[call[c].at], k)
    BY <1>6 DEF Queuing
  <2>2. call[c].pc = "queue" /\ call[c].at \in 1..3 /\ k \in Keys /\ k # NoItem
    BY <1>3, <1>6, KeyFields DEF Queuing
  <2>3. StillPresent(Queue[call[c].at], k)
    <3>1. "absent" \notin Open \cup Proven(Queue[call[c].at])
      BY DEF Open, Proven
    <3> QED
      BY <2>1, <3>1 DEF Inserted, StillPresent
  <2>4. \A i \in 1..(call[c].at - 1) : StillPresent(Queue[i], k)
    <3>1. CASE call[c].item = NoItem
      BY <2>2, <3>1 DEF Control, LoopsGoOn
    <3>2. CASE call[c].item # NoItem
      BY <1>1, <1>2, <2>1, <2>2, <3>2 DEF LoopsComplete
    <3> QED
      BY <3>1, <3>2
  <2>5. \A i \in 1..call[c].at : StillPresent(Queue[i], k)
    BY <2>2, <2>3, <2>4
  <2>6. \A j \in call[c].listed \ call[c].left, q \in Queues : StillPresent(q, j)
    BY <1>1, <1>3, <2>2 DEF LoopsComplete
  <2>7. CASE call[c].at < 3
    BY <2>1, <2>2, <2>5, <2>6, <2>7 DEF QueueGoesOn
  <2>8. CASE call[c].at = 3
    <3>1. \A q \in Queues : StillPresent(q, k)
      <4>1. StillPresent(Queue[1], k) /\ StillPresent(Queue[2], k) /\ StillPresent(Queue[3], k)
        BY <2>5, <2>8
      <4> QED
        BY <4>1 DEF Queue, Queues
    <3> QED
      BY <2>1, <2>6, <2>8, <3>1 DEF QueueGoesOn
  <2> QED
    BY <2>2, <2>7, <2>8
<1> QED
  BY <1>4, <1>5, <1>6, Fates DEF LoopFate, Filling, BackfillGoesOn

\* A report made stays true, and a QueueAll that ends has done with all it listed.
LEMMA CompleteStep ==
    ASSUME Control, SavedFirst, LoopsComplete, QueueAllIsComplete, Next
    PROVE  QueueAllIsComplete'
<1>1. \A q \in Queues, k \in Keys : Present(q, k) => StillPresent(q, k)
  BY JobsStay
<1>2. reported \subseteq Keys /\ \A c \in Callers : call[c].listed \in SUBSET Keys
  BY Fields, TypeParts DEF Control
<1>3. \/ reported' = reported
      \/ \E c \in Callers : QueueReturns(c)
  BY DEF Next, MainStep, CallStep, RequestStep, WorkerStep, Start, Serve, Trigger, Restart, NextDay,
         CleanupBefore, ActivateMetricDomain, SyncFails, SyncEnds, BackfillSupplementJobs,
         BackfillFails, WorkersStart, QueueAll, QueueDomain, QueueDomainFails, Callers,
         CancelQueuedJobs, CreateDomain, UpdateDomain, ArchiveDomain, CollectDomain, CollectAll,
         ClaimNextJob, SaveMetric, SaveJobResult, AttemptFails, RecoverStaleJobs
<1>4. \A k \in reported', q \in Queues : k \in Keys /\ Present(q, k)
  <2>1. \A k \in reported, q \in Queues : Present(q, k)
    BY DEF QueueAllIsComplete, Present
  <2>2. ASSUME NEW c \in Callers, QueueReturns(c)
        PROVE  \A k \in reported', q \in Queues : k \in Keys /\ Present(q, k)
    BY <1>2, <2>1, <2>2 DEF QueueReturns, LoopsComplete
  <2> QED
    BY <1>2, <1>3, <2>1, <2>2
<1> QED
  BY <1>1, <1>4 DEF QueueAllIsComplete, StillPresent

-----------------------------------------------------------------------------
(***************************************************************************)
(* ExpiredIsGone.                                                          *)
(***************************************************************************)

\* No job comes back that a cleanup, past or under way, has deleted: QueueAll works for
\* today or yesterday, and the start-up on what has a parent.
LEMMA NoReturn ==
    ASSUME Control, CleanSoFar, Next, NEW q \in Queues, NEW k \in Keys,
           jobs[q][k] = "absent", jobs'[q][k] # "absent"
    PROVE  /\ ~Expired(k, cleaned)
           /\ call[Main].pc = "clean" => ~Expired(k, call[Main].day)
<1>0. /\ today \in Nat /\ cleaned \in Nat /\ cleaned <= today
      /\ call[Main].day \in Nat /\ (call[Main].pc = "clean" => call[Main].day <= today)
  BY Fields DEF Control, CleanSoFar, CallsBelong
<1>1. CASE \E c \in Callers : Queuing(c)
  <2>1. PICK c \in Callers : Queuing(c)
    BY <1>1
  <2>2. PICK j \in call[c].left, n \in CallType :
            /\ Inserted(jobs, jobs', Queue[call[c].at], j) /\ j[2] = call[c].day
    BY <2>1 DEF Queuing
  <2>3. call[c].pc = "queue" /\ today <= call[c].day + 1 /\ call[c].day \in Nat
    BY <2>1, Fields DEF Queuing, Control, CallsBelong
  <2>4. j = k
    BY <2>2 DEF Inserted
  <2>5. \A t \in Nat : t <= today => ~Expired(k, t)
    BY <1>0, <2>2, <2>3, <2>4, ExpiredLater
  <2> QED
    BY <1>0, <2>5
<1>2. CASE Filling
  <2>1. PICK j \in call[Main].left, n \in CallType : Inserted(jobs, jobs', "chinaz", j)
                                        \/ Inserted(jobs, jobs', "chinaz_supplement", j)
                                        \/ jobs' = jobs
    <3>1. call[Main].at \in {2, 3}
      BY <1>2, Fields DEF Filling, Control, LoopsGoOn
    <3> QED
      BY <1>2, <3>1 DEF Filling
  <2>2. j = k
    BY <2>1 DEF Inserted
  <2>3. call[Main].pc = "backfill" /\ Main \in Callers
    BY <1>2, Fields DEF Filling, Control
  <2> QED
    BY <2>1, <2>2, <2>3 DEF CleanSoFar
<1>3. CASE jobs' = jobs \/ Moved(jobs, jobs', docs, IsIdle)
  BY <1>3 DEF Moved, Open
<1>4. CASE Deleted(jobs, jobs', Queue[call[Main].at], call[Main].day)
  BY <1>4 DEF Deleted
<1> QED
  BY <1>1, <1>2, <1>3, <1>4, JobsFates DEF JobsFate, CleanSoFar

\* The documents: some are deleted by a cleanup, after the jobs, or one may be saved.
DocsFate ==
    \/ docs' = docs /\ late' = late
    \/ /\ CleanupBefore(Main) /\ call[Main].pc = "clean" /\ call[Main].at = 4
       /\ docs' = {k \in docs : ~Expired(k, call[Main].day)}
       /\ jobs' = jobs /\ late' = late \cap docs'
    \/ \E q \in Queues :
          /\ worker[q].pc = "fetch" /\ jobs' = jobs
          /\ docs' = docs \cup {worker[q].key}
          /\ worker' = [worker EXCEPT ![q].pc = "saved"]
          /\ late' = IF jobs[q][worker[q].key] = "running" THEN late
                                                          ELSE late \cup {worker[q].key}

\* What any step does to the documents.
LEMMA DocsFates ==
    ASSUME Control, Next
    PROVE  DocsFate
<1>1. CASE CleanupBefore(Main)
  <2>1. CASE call[Main].at = 4 /\ Delete(4, call[Main].day)
    BY <1>1, <2>1 DEF Delete, DeleteDocs, DocsFate, CleanupBefore
  <2>2. CASE UNCHANGED <<docs, late>>
    BY <2>2 DEF DocsFate
  <2> QED
    BY <1>1, <2>1, <2>2 DEF CleanupBefore, Delete, DeleteJobs
<1>2. CASE \E q \in Queues : SaveMetric(q)
  BY <1>2 DEF SaveMetric, DocsFate
<1>3. CASE UNCHANGED <<docs, late>>
  BY <1>3 DEF DocsFate
<1> QED
  BY <1>1, <1>2, <1>3
  DEF Next, MainStep, CallStep, RequestStep, WorkerStep, Start, Serve, Trigger, Restart, NextDay,
      ActivateMetricDomain, SyncFails, SyncEnds, BackfillSupplementJobs, BackfillFails,
      WorkersStart, QueueAll, QueueDomain, QueueDomainFails, QueueReturns, CancelQueuedJobs,
      CreateDomain, UpdateDomain, ArchiveDomain, CollectDomain, CollectAll, ClaimNextJob,
      SaveJobResult, AttemptFails, RecoverStaleJobs

\* A cleanup is reported when it has reached the documents of a process that serves.
LEMMA CleanedFates ==
    ASSUME Control, Next
    PROVE  \/ cleaned' = cleaned
           \/ /\ CleanupBefore(Main) /\ call[Main].pc = "clean" /\ call[Main].at = 4
              /\ process = "serving" /\ cleaned' = call[Main].day
              /\ jobs' = jobs /\ docs' = {k \in docs : ~Expired(k, call[Main].day)}
<1>1. CASE CleanupBefore(Main)
  BY <1>1 DEF CleanupBefore, Delete, DeleteDocs
<1>2. CASE cleaned' = cleaned
  BY <1>2
<1> QED
  BY <1>1, <1>2
  DEF Next, MainStep, CallStep, RequestStep, WorkerStep, Start, Serve, Trigger, Restart, NextDay,
      ActivateMetricDomain, SyncFails, SyncEnds, BackfillSupplementJobs, BackfillFails,
      WorkersStart, QueueAll, QueueDomain, QueueDomainFails, QueueReturns, CancelQueuedJobs,
      CreateDomain, UpdateDomain, ArchiveDomain, CollectDomain, CollectAll, ClaimNextJob,
      SaveMetric, SaveJobResult, AttemptFails, RecoverStaleJobs

\* Nothing that has expired comes back, but the document a worker was saving.
LEMMA ExpiredStaysGone ==
    ASSUME Control, CleanSoFar, ExpiredIsGone, Next
    PROVE  ExpiredIsGone'
<1>0. /\ "aizhan" \in Queues /\ \A i \in 1..3 : Queue[i] \in Queues
      /\ \A q \in Queues : \E i \in 1..3 : q = Queue[i]
  BY DEF Queue, Queues
<1>1. ASSUME NEW k \in Keys, Expired(k, cleaned')
      PROVE  \A q \in Queues : jobs'[q][k] = "absent"
  <2>1. CASE cleaned' = cleaned
    BY <1>1, <2>1, NoReturn DEF ExpiredIsGone
  <2>2. CASE /\ call[Main].pc = "clean" /\ call[Main].at = 4 /\ process = "serving"
             /\ cleaned' = call[Main].day /\ jobs' = jobs
    <3>1. \A i \in 1..3 : jobs[Queue[i]][k] = "absent"
      BY <1>1, <2>2 DEF CleanSoFar
    <3> QED
      BY <1>0, <2>2, <3>1
  <2> QED
    BY <2>1, <2>2, CleanedFates
<1>2. ASSUME NEW k \in Keys, Expired(k, cleaned'), k \in docs'
      PROVE  k \in late'
  <2>1. CASE cleaned' = cleaned
    <3>1. /\ \A q \in Queues : jobs[q][k] = "absent"
          /\ k \in docs => k \in late
      BY <1>2, <2>1 DEF ExpiredIsGone
    <3> QED
      BY <1>2, <3>1, DocsFates DEF DocsFate
  <2>2. CASE /\ cleaned' = call[Main].day
             /\ docs' = {j \in docs : ~Expired(j, call[Main].day)}
    BY <1>2, <2>2
  <2> QED
    BY <2>1, <2>2, CleanedFates
<1>3. ASSUME NEW k \in Keys, jobs'["aizhan"][k] = "succeeded"
      PROVE  k \in docs'
  <2>1. k \in docs
    <3>1. jobs["aizhan"][k] = "succeeded" => k \in docs
      BY DEF ExpiredIsGone
    <3>2. CASE jobs' = jobs
      BY <1>3, <3>1, <3>2
    <3>3. CASE Moved(jobs, jobs', docs, IsIdle)
      BY <1>3, <3>1, <3>3 DEF Moved
    <3>4. CASE \E c \in Callers : Queuing(c)
      <4>1. PICK p, j : Inserted(jobs, jobs', p, j)
        BY <3>4 DEF Queuing
      <4> QED
        BY <1>0, <1>3, <3>1, <4>1 DEF Inserted
    <3>5. CASE Filling
      <4>1. call[Main].at \in {2, 3}
        BY <3>5, Fields DEF Filling, Control, LoopsGoOn
      <4>2. PICK p, j : Inserted(jobs, jobs', p, j) \/ jobs' = jobs
        BY <3>5, <4>1 DEF Filling
      <4> QED
        BY <1>0, <1>3, <3>1, <4>2 DEF Inserted
    <3>6. CASE Deleted(jobs, jobs', Queue[call[Main].at], call[Main].day)
      BY <1>0, <1>3, <3>1, <3>6 DEF Deleted
    <3> QED
      BY <3>2, <3>3, <3>4, <3>5, <3>6, JobsFates DEF JobsFate, CleanSoFar
  <2>2. CASE /\ call[Main].pc = "clean" /\ call[Main].at = 4 /\ jobs' = jobs
             /\ docs' = {j \in docs : ~Expired(j, call[Main].day)}
    <3>1. ~Expired(k, call[Main].day)
      BY <1>3, <2>2 DEF CleanSoFar
    <3> QED
      BY <2>1, <2>2, <3>1
  <2> QED
    BY <2>1, <2>2, DocsFates DEF DocsFate
<1> QED
  BY <1>1, <1>2, <1>3 DEF ExpiredIsGone

\* How a cleanup gets on, and whose documents are saved.
LEMMA CleanFates ==
    ASSUME Control, Next, call'[Main].pc = "clean"
    PROVE  \/ call'[Main] = call[Main] /\ process' = process
           \/ call'[Main].at = 1
           \/ /\ call[Main].pc = "clean" /\ call[Main].at # 4
              /\ call'[Main].day = call[Main].day /\ process' = process
              /\ call'[Main].at = CleanedNext(call[Main].at)
              /\ Deleted(jobs, jobs', Queue[call[Main].at], call[Main].day)
<1>0. TypeOK /\ Main \in Callers /\ call[Main].at \in 1..4 /\ call[Main].day \in Nat
      /\ jobs \in JobsType
  BY Fields, TypeParts DEF Control
<1>1. CASE CleanupBefore(Main)
  <2>1. PICK n : /\ Becomes(Main, n) /\ n.day = call[Main].day
                 /\ \/ n.pc = "clean" /\ call[Main].at # 4 /\ n.at = CleanedNext(call[Main].at)
                    \/ n.pc = "sync"
    BY <1>0, <1>1, CleanupCalls
  <2>2. call'[Main] = n
    BY <1>0, <2>1, CallChange DEF Becomes
  <2>3. CASE Sync(Main, call[Main].day)
    <3>0. PICK file \in SUBSET Domains : CallIs(Main, Syncing(file \X {call[Main].day},
                                                            call[Main].day))
      BY <2>3 DEF Sync, Syncing
    <3>1. PICK m : CallIs(Main, m) /\ m = Syncing(file \X {call[Main].day}, call[Main].day)
      BY <3>0
    <3>2. PICK S \in SUBSET Keys, day \in Days : S = file \X {day} /\ day = call[Main].day
      BY <1>0, Fields, KeyFields
    <3>3. Begun(m, "sync", day)
      BY <3>1, <3>2, LoopBeginnings
    <3> QED
      BY <1>0, <3>1, <3>3, CallChange DEF Begun
  <2>4. CASE call[Main].at # 4 /\ Delete(call[Main].at, call[Main].day)
    <3>1. Queue[call[Main].at] \in Queues
      BY <1>0, <2>4 DEF Queue, Queues
    <3>2. Deleted(jobs, jobs', Queue[call[Main].at], call[Main].day)
      BY <1>0, <2>4, <3>1, DeleteDeletes DEF Delete
    <3> QED
      BY <1>1, <2>1, <2>2, <2>4, <3>2 DEF CleanupBefore
  <2> QED
    BY <1>1, <2>3, <2>4 DEF CleanupBefore
<1>2. CASE Start \/ Trigger
  BY <1>0, <1>2, CallsBegin, CallChange DEF Becomes, Begun
<1>3. CASE ActivateMetricDomain(Main) \/ SyncEnds(Main)
  BY <1>0, <1>3, SyncCalls, CallChange DEF Becomes, Begun, ActivateMetricDomain, SyncEnds
<1>4. CASE SyncFails(Main) \/ BackfillFails(Main)
  BY <1>0, <1>4, CallChange, NoCallFields DEF SyncFails, BackfillFails, Ends
<1>5. CASE BackfillSupplementJobs(Main)
  BY <1>5, FillingHolds DEF Filling, BackfillGoesOn
<1>6. CASE WorkersStart(Main)
  BY <1>0, <1>6, CallsBegin, CallChange, NoCallFields DEF Becomes, Begun
<1>7. CASE Restart
  BY <1>0, <1>7, NoCallFields DEF Restart, Callers
<1>8. CASE \E c \in Callers : CallStep(c) \/ (c \in Requests /\ RequestStep(c))
  <2>1. PICK c \in Callers : CallStep(c) \/ (c \in Requests /\ RequestStep(c))
    BY <1>8
  <2>2. process' = process
    BY <2>1 DEF CallStep, QueueAll, QueueDomain, QueueDomainFails, QueueReturns, CancelQueuedJobs,
                RequestStep, CreateDomain, UpdateDomain, ArchiveDomain, CollectDomain, CollectAll
  <2>3. CASE call' = call
    BY <2>2, <2>3
  <2>4. CASE QueueDomain(c)
    BY <1>0, <2>2, <2>4, QueuingHolds, CallChange DEF Queuing, QueueGoesOn, Becomes
  <2>5. CASE QueueAll(c)
    BY <1>0, <2>2, <2>5, QueueAllCalls, CallChange, NoCallFields DEF Becomes, Begun
  <2>6. CASE QueueDomainFails(c) \/ QueueReturns(c)
    BY <1>0, <2>2, <2>6, CallChange, NoCallFields DEF QueueDomainFails, QueueReturns, Ends
  <2>7. CASE CancelQueuedJobs(c)
    <3>1. call[c].at \in 1..3
      BY <2>7 DEF CancelQueuedJobs, Control, CallsBelong
    <3> QED
      BY <1>0, <2>2, <2>7, <3>1, CancelCalls, CallChange, NoCallFields DEF Becomes
  <2>8. CASE c \in Requests /\ RequestStep(c)
    BY <1>0, <2>2, <2>8, DomainCalls, CallsBegin, CallChange
    DEF Becomes, RequestStep, CreateDomain, UpdateDomain
  <2> QED
    BY <2>1, <2>4, <2>5, <2>6, <2>7, <2>8 DEF CallStep
<1>9. CASE Serve
  <2>1. call' = call /\ call[Main].pc = "idle"
    BY <1>9 DEF Serve
  <2> QED
    BY <2>1
<1>10. CASE NextDay \/ \E q \in Queues : WorkerStep(q)
  BY <1>10 DEF NextDay, WorkerStep, ClaimNextJob, SaveMetric, SaveJobResult, AttemptFails,
               RecoverStaleJobs
<1> QED
  BY <1>1, <1>2, <1>3, <1>4, <1>5, <1>6, <1>7, <1>8, <1>9, <1>10 DEF Next, MainStep, Callers

\* A worker is past its save only by saving.
LEMMA SavedFates ==
    ASSUME Control, Next, worker'["aizhan"].pc = "saved"
    PROVE  \/ worker'["aizhan"] = worker["aizhan"]
           \/ SaveMetric("aizhan") /\ worker'["aizhan"].key = worker["aizhan"].key
<1>0. "aizhan" \in Queues /\ worker \in [Queues -> WorkerType] /\ NoWork.pc = "idle"
  BY TypeParts DEF Queues, Control, WorkerType, NoWork
<1>1. CASE \E q \in Queues : WorkerStep(q)
  <2>1. PICK q \in Queues : WorkerStep(q)
    BY <1>1
  <2>2. PICK w : worker' = [worker EXCEPT ![q] = w] \/ worker' = worker
    BY <2>1 DEF WorkerStep, ClaimNextJob, SaveMetric, SaveJobResult, AttemptFails, RecoverStaleJobs
  <2>3. CASE q # "aizhan"
    BY <1>0, <2>2, <2>3
  <2>4. CASE q = "aizhan"
    BY <1>0, <2>1, <2>4 DEF WorkerStep, ClaimNextJob, SaveMetric, SaveJobResult, AttemptFails,
                            RecoverStaleJobs, WorkerType
  <2> QED
    BY <2>3, <2>4
<1>2. CASE worker' = worker
  BY <1>2
<1>3. CASE Restart
  BY <1>0, <1>3 DEF Restart
<1> QED
  BY <1>1, <1>2, <1>3
  DEF Next, MainStep, CallStep, RequestStep, Start, Serve, Trigger, NextDay, CleanupBefore,
      ActivateMetricDomain, SyncFails, SyncEnds, BackfillSupplementJobs, BackfillFails,
      WorkersStart, QueueAll, QueueDomain, QueueDomainFails, QueueReturns, CancelQueuedJobs,
      CreateDomain, UpdateDomain, ArchiveDomain, CollectDomain, CollectAll

\* A cleanup goes on where it was, and nothing comes back behind it.
LEMMA CleanStep ==
    ASSUME Control, CleanSoFar, ExpiredIsGone, Next
    PROVE  CleanSoFar'
<1>0. /\ today \in Nat /\ today' \in Nat /\ today <= today' /\ Main \in Callers
      /\ call[Main].day \in Nat /\ cleaned \in Nat /\ call[Main].at \in 1..4
      /\ call[Main].pc # "idle" => call[Main].day <= today
  BY Clock, Fields DEF Control, CallsBelong
<1>q. "aizhan" \in Queues /\ Queue[1] = "aizhan" /\ \A i \in 1..3 : Queue[i] \in Queues
  BY DEF Queue, Queues
<1>1. cleaned' <= today'
  BY <1>0, CleanedFates DEF CleanSoFar
<1>2. ASSUME call'[Main].pc = "clean", NEW k \in Keys, Expired(k, call'[Main].day)
      PROVE  /\ call'[Main].at > 1 => jobs'["aizhan"][k] = "absent"
             /\ process' = "serving" =>
                   \A i \in 1..(call'[Main].at - 1) : jobs'[Queue[i]][k] = "absent"
  <2>1. CASE call'[Main] = call[Main] /\ process' = process
    <3>1. \A q \in Queues : jobs[q][k] = "absent" => jobs'[q][k] = "absent"
      BY <1>2, <2>1, NoReturn
    <3>2. \A i \in 1..(call[Main].at - 1) : i \in 1..3
      BY <1>0
    <3>3. /\ call[Main].at > 1 => jobs["aizhan"][k] = "absent"
          /\ process = "serving" =>
                \A i \in 1..(call[Main].at - 1) : jobs[Queue[i]][k] = "absent"
      BY <1>2, <2>1 DEF CleanSoFar
    <3> QED
      BY <1>q, <2>1, <3>1, <3>2, <3>3
  <2>2. CASE call'[Main].at = 1
    BY <2>2
  <2>3. CASE /\ call[Main].pc = "clean" /\ call[Main].at # 4
             /\ call'[Main].day = call[Main].day /\ process' = process
             /\ call'[Main].at = CleanedNext(call[Main].at)
             /\ Deleted(jobs, jobs', Queue[call[Main].at], call[Main].day)
    <3>1. jobs'[Queue[call[Main].at]][k] = "absent"
      BY <1>2, <2>3 DEF Deleted
    <3>2. \A q \in Queues : jobs[q][k] = "absent" => jobs'[q][k] = "absent"
      BY <1>2, <2>3, NoReturn
    <3>3. /\ call[Main].at > 1 => jobs["aizhan"][k] = "absent"
          /\ process = "serving" =>
                \A i \in 1..(call[Main].at - 1) : jobs[Queue[i]][k] = "absent"
      BY <1>2, <2>3 DEF CleanSoFar
    <3>4. jobs'["aizhan"][k] = "absent"
      BY <1>0, <1>q, <3>1, <3>2, <3>3
    <3>5. process = "serving" => call'[Main].at = call[Main].at + 1
      BY <2>3 DEF CleanedNext
    <3>6. process = "serving" =>
              \A i \in 1..call[Main].at : jobs'[Queue[i]][k] = "absent"
      BY <1>0, <1>q, <2>3, <3>1, <3>2, <3>3
    <3> QED
      BY <1>0, <2>3, <3>4, <3>5, <3>6
  <2> QED
    BY <1>2, <2>1, <2>2, <2>3, CleanFates
<1>3. ASSUME NEW c \in Callers, call'[c].pc = "backfill", NEW k \in call'[c].left
      PROVE  ~Expired(k, cleaned')
  <2>1. CASE call'[c] = call[c]
    <3>1. c = Main
      BY <1>3, <2>1 DEF Control, CallsBelong
    <3> QED
      BY <1>3, <2>1, <3>1, CleanedFates DEF CleanSoFar
  <2>2. CASE call'[c].left = Split /\ call'[c].at = 2 /\ call'[c] # call[c]
    <3>1. Control'
      BY ControlStep DEF CleanSoFar
    <3>2. c = Main
      BY <1>3, <3>1 DEF Control, CallsBelong
    <3>3. cleaned' = cleaned
      <4>1. CASE /\ CleanupBefore(Main) /\ call[Main].at = 4
        <5>1. PICK n : /\ Becomes(Main, n) /\ n.pc \in {"clean", "sync"}
          BY <1>0, <4>1, CleanupCalls DEF Control
        <5>2. call'[Main] = n
          BY <1>0, <5>1, CallChange DEF Becomes, Control
        <5> QED
          BY <1>3, <3>2, <5>1, <5>2
      <4> QED
        BY <4>1, CleanedFates
    <3>4. k \in Keys /\ jobs["aizhan"][k] # "absent"
      BY <1>3, <2>2 DEF Split, Open
    <3> QED
      BY <1>q, <3>3, <3>4 DEF ExpiredIsGone
  <2>3. CASE c = Main /\ Filling
    <3>1. call[Main].pc = "backfill" /\ call'[Main].left \subseteq call[Main].left
      BY <2>3 DEF Filling, BackfillGoesOn
    <3> QED
      BY <1>0, <1>3, <2>3, <3>1, CleanedFates DEF CleanSoFar
  <2> QED
    BY <1>3, <2>1, <2>2, <2>3, Fates DEF LoopFate, Queuing, QueueGoesOn
<1>4. ASSUME worker'["aizhan"].pc = "saved", jobs'["aizhan"][worker'["aizhan"].key] = "running"
      PROVE  worker'["aizhan"].key \in docs'
  <2>1. PICK k \in Keys : k = worker["aizhan"].key /\ k = worker'["aizhan"].key
    <3>1. worker["aizhan"].key \in Keys
      BY <1>q, <1>4, SavedFates DEF Control, WorkersBelong, SaveMetric
    <3> QED
      BY <1>4, <3>1, SavedFates
  <2>2. CASE SaveMetric("aizhan")
    BY <2>1, <2>2 DEF SaveMetric
  <2>3. CASE worker'["aizhan"] = worker["aizhan"]
    <3>1. jobs["aizhan"][k] = "running"
      <4>1. CASE jobs' = jobs
        BY <1>4, <2>1, <4>1
      <4>2. CASE Moved(jobs, jobs', docs, IsIdle)
        BY <1>4, <2>1, <2>3, <4>2 DEF Moved, IsIdle
      <4>3. CASE \E c \in Callers : Queuing(c)
        <5>1. PICK p, j : Inserted(jobs, jobs', p, j)
          BY <4>3 DEF Queuing
        <5> QED
          BY <1>q, <1>4, <2>1, <5>1 DEF Inserted
      <4>4. CASE Filling
        <5>1. call[Main].at \in {2, 3}
          BY <4>4, Fields DEF Filling, Control, LoopsGoOn
        <5>2. PICK p, j : Inserted(jobs, jobs', p, j) \/ jobs' = jobs
          BY <4>4, <5>1 DEF Filling
        <5> QED
          BY <1>q, <1>4, <2>1, <5>2 DEF Inserted
      <4>5. CASE Deleted(jobs, jobs', Queue[call[Main].at], call[Main].day)
        BY <1>q, <1>4, <2>1, <4>5 DEF Deleted
      <4> QED
        BY <4>1, <4>2, <4>3, <4>4, <4>5, JobsFates DEF JobsFate, CleanSoFar
    <3>2. k \in docs
      BY <1>4, <2>1, <2>3, <3>1 DEF CleanSoFar, SavedFirst
    <3>3. CASE /\ call[Main].pc = "clean" /\ call[Main].at = 4
               /\ docs' = {j \in docs : ~Expired(j, call[Main].day)}
      BY <2>1, <3>1, <3>2, <3>3 DEF CleanSoFar
    <3> QED
      BY <2>1, <3>2, <3>3, DocsFates DEF DocsFate
  <2> QED
    BY <1>4, <2>2, <2>3, SavedFates
<1> QED
  BY <1>1, <1>2, <1>3, <1>4 DEF CleanSoFar, SavedFirst

-----------------------------------------------------------------------------
(***************************************************************************)
(* SplitIsRepaired.                                                        *)
(***************************************************************************)

\* Nothing else happens while the start-up fills the children's queues.
LEMMA NothingElse ==
    ASSUME Control, Next, call[Main].pc = "backfill"
    PROVE  \/ BackfillSupplementJobs(Main) \/ BackfillFails(Main) \/ WorkersStart(Main)
           \/ Restart \/ NextDay
<1>1. /\ process = "starting" /\ \A c \in Requests : call[c].pc = "idle"
      /\ \A q \in Queues : worker[q].pc = "idle"
  BY Fields DEF Control, CallsBelong, WorkersBelong, Callers
<1>2. ~(Start \/ Serve \/ Trigger)
  BY <1>1 DEF Start, Serve, Trigger
<1>3. ~(\E c \in Requests \cup {Main} : CallStep(c))
  BY <1>1 DEF CallStep, QueueAll, QueueDomain, QueueDomainFails, QueueReturns, CancelQueuedJobs
<1>4. ~(\E c \in Requests : RequestStep(c))
  BY <1>1 DEF RequestStep, CreateDomain, UpdateDomain, ArchiveDomain, CollectDomain, CollectAll,
              Request
<1>5. ~(\E q \in Queues : WorkerStep(q))
  BY <1>1 DEF WorkerStep, ClaimNextJob, SaveMetric, SaveJobResult, AttemptFails, RecoverStaleJobs
<1>6. ~(CleanupBefore(Main) \/ ActivateMetricDomain(Main) \/ SyncFails(Main) \/ SyncEnds(Main))
  BY DEF CleanupBefore, ActivateMetricDomain, SyncFails, SyncEnds
<1> QED
  BY <1>2, <1>3, <1>4, <1>5, <1>6 DEF Next, MainStep

\* A turn of the backfill leaves each open job of the parent repaired, or still to do.
LEMMA FillingRepairs ==
    ASSUME Control, Repaired, BackfillSupplementJobs(Main), Filling
    PROVE  /\ \A j \in Keys, q \in Children :
                 jobs'["aizhan"][j] \in Open /\ domain'[j[1]] = "active" =>
                     jobs'[q][j] \in Done \/ j \in call'[Main].left
           /\ call'[Main].at = 3 => jobs'["chinaz"][call'[Main].item] \in Done
<1>0. /\ call[Main].pc = "backfill" /\ domain' = domain /\ Main \in Callers
      /\ call[Main].at \in {2, 3} /\ call[Main].left \in SUBSET Keys
      /\ call[Main].item = NoItem => call[Main].at = 2
  BY Fields DEF BackfillSupplementJobs, Control, LoopsGoOn
<1>1. PICK k \in call[Main].left, n \in CallType :
          /\ BackfillGoesOn(k, n) /\ call'[Main] = n
          /\ call[Main].item # NoItem => call[Main].item = k
          /\ call[Main].at = 2 /\ domain[k[1]] = "active" => Inserted(jobs, jobs', "chinaz", k)
          /\ call[Main].at = 3 /\ domain[k[1]] = "active" =>
                Inserted(jobs, jobs', "chinaz_supplement", k)
          /\ domain[k[1]] # "active" => jobs' = jobs
  BY DEF Filling
<1>2. /\ \A j \in Keys, q \in Children :
            jobs["aizhan"][j] \in Open /\ domain[j[1]] = "active" =>
                jobs[q][j] \in Done \/ j \in call[Main].left
      /\ call[Main].at = 3 => jobs["chinaz"][call[Main].item] \in Done
  BY <1>0 DEF Repaired
<1>3. Children = {"chinaz", "chinaz_supplement"} /\ "aizhan" \in Queues
      /\ \A q \in Children : q \in Queues /\ Open \cup Proven(q) = Done
  BY DEF Queues, Children, Proven, Done
<1>4. CASE domain[k[1]] # "active"
  <2>1. n.left = call[Main].left \ {k} /\ n.item = call[Main].item /\ n.at = call[Main].at
    BY <1>1, <1>4 DEF BackfillGoesOn
  <2> QED
    BY <1>0, <1>1, <1>2, <1>4, <2>1
<1>5. CASE domain[k[1]] = "active" /\ call[Main].at = 2
  <2>1. n.left = call[Main].left /\ n.item = k /\ n.at = 3 /\ Inserted(jobs, jobs', "chinaz", k)
    BY <1>1, <1>5 DEF BackfillGoesOn
  <2>2. /\ \A j \in Keys : jobs'["aizhan"][j] = jobs["aizhan"][j]
        /\ \A j \in Keys, q \in Children : jobs[q][j] \in Done => jobs'[q][j] \in Done
        /\ jobs'["chinaz"][k] \in Done
    BY <1>3, <2>1 DEF Inserted
  <2> QED
    BY <1>0, <1>1, <1>2, <2>1, <2>2
<1>6. CASE domain[k[1]] = "active" /\ call[Main].at = 3
  <2>1. /\ n.left = call[Main].left \ {k} /\ n.at = 2
        /\ Inserted(jobs, jobs', "chinaz_supplement", k)
    BY <1>1, <1>6 DEF BackfillGoesOn
  <2>2. /\ \A j \in Keys : jobs'["aizhan"][j] = jobs["aizhan"][j]
        /\ \A j \in Keys, q \in Children : jobs[q][j] \in Done => jobs'[q][j] \in Done
        /\ jobs'["chinaz_supplement"][k] \in Done
    BY <1>3, <2>1 DEF Inserted
  <2>3. k \in Keys /\ jobs["chinaz"][k] \in Done
    BY <1>0, <1>1, <1>2, <1>6
  <2>4. \A q \in Children : jobs'[q][k] \in Done
    BY <1>3, <2>2, <2>3
  <2> QED
    BY <1>0, <1>1, <1>2, <2>1, <2>2, <2>4
<1> QED
  BY <1>0, <1>4, <1>5, <1>6

\* No other step of the start-up breaks what the backfill has repaired.
LEMMA RepairStep ==
    ASSUME Control, SavedFirst, Repaired, Next
    PROVE  Repaired'
<1> SUFFICES ASSUME NEW c \in Callers, call'[c].pc = "backfill"
             PROVE  /\ \A k \in Keys, q \in Children :
                          jobs'["aizhan"][k] \in Open /\ domain'[k[1]] = "active" =>
                              jobs'[q][k] \in Done \/ k \in call'[c].left
                    /\ call'[c].at = 3 => jobs'["chinaz"][call'[c].item] \in Done
  BY DEF Repaired
<1>1. Control' /\ TypeOK /\ Main \in Callers
  BY ControlStep, Fields DEF Control
<1>2. c = Main
  BY <1>1 DEF Control, CallsBelong
<1>3. CASE call'[c].at = 2 /\ call'[c].left = Split /\ jobs' = jobs
  BY <1>3 DEF Split
<1>4. CASE call[Main].pc = "backfill"
  <2>1. CASE BackfillSupplementJobs(Main)
    BY <1>2, <2>1, FillingHolds, FillingRepairs
  <2>2. CASE BackfillFails(Main)
    BY <1>1, <1>2, <2>2, CallChange, NoCallFields DEF BackfillFails, Ends
  <2>3. CASE WorkersStart(Main)
    BY <1>1, <1>2, <2>3, CallsBegin, CallChange, NoCallFields DEF Becomes, Begun
  <2>4. CASE Restart
    BY <1>2, <2>4, NoCallFields DEF Restart, Callers
  <2>5. CASE NextDay
    BY <1>1, <1>2, <2>5 DEF NextDay, Repaired
  <2> QED
    BY <1>4, <2>1, <2>2, <2>3, <2>4, <2>5, NothingElse
<1> QED
  BY <1>2, <1>3, <1>4, Fates DEF LoopFate, Queuing, QueueGoesOn, Filling

-----------------------------------------------------------------------------
(***************************************************************************)
(* The theorems.                                                           *)
(***************************************************************************)

\* The inductive invariant: where the calls and the workers may be, what each loop has
\* done, and how far a cleanup has come.
THEOREM Invariance == Spec => []IInv
<1>1. Init => IInv
  <2> SUFFICES ASSUME Init
               PROVE  IInv
    OBVIOUS
  <2>1. /\ call = [c \in Callers |-> NoCall] /\ worker = [q \in Queues |-> NoWork]
        /\ jobs = [q \in Queues |-> [k \in Keys |-> "absent"]] /\ docs = {} /\ today = 0
        /\ reported = {} /\ cleaned = 0 /\ late = {} /\ process = "starting"
        /\ domain = [d \in Domains |-> "absent"]
        /\ used = [calls |-> 0, claims |-> 0, errors |-> 0, restarts |-> 0]
    BY DEF Init, Callers
  <2>2. /\ \A c \in Callers : call[c] = NoCall
        /\ \A q \in Queues : worker[q] = NoWork /\ \A k \in Keys : jobs[q][k] = "absent"
    BY <2>1
  <2>3. NoWork \in WorkerType /\ NoWork.pc = "idle"
    BY DEF NoWork, WorkerType
  <2>4. /\ call \in [Callers -> CallType] /\ worker \in [Queues -> WorkerType]
        /\ jobs \in JobsType /\ used \in UsedType
    BY <2>1, <2>3, NoCallFields DEF JobsType, Statuses, UsedType
  <2>5. TypeOK
    BY <2>1, <2>4 DEF TypeOK, Callers, WorkerType, JobsType, UsedType
  <2>6. Control
    BY <2>1, <2>2, <2>3, <2>5, NoCallFields
    DEF Control, CallsBelong, LoopsGoOn, WorkersBelong
  <2>7. QueueAllIsComplete /\ LoopsComplete /\ Repaired
    BY <2>1, <2>2, NoCallFields DEF QueueAllIsComplete, LoopsComplete, Repaired
  <2>8. Main \in Callers /\ "aizhan" \in Queues
    BY DEF Callers, Queues
  <2>9. ExpiredIsGone /\ CleanSoFar
    BY <2>1, <2>2, <2>3, <2>8, NoCallFields DEF ExpiredIsGone, CleanSoFar, SavedFirst
  <2> QED
    BY <2>6, <2>7, <2>9 DEF IInv
<1>2. IInv /\ [Next]_vars => IInv'
  <2> SUFFICES ASSUME IInv, [Next]_vars
               PROVE  IInv'
    OBVIOUS
  <2>1. CASE Next
    <3>1. Control /\ SavedFirst /\ CleanSoFar
      BY DEF IInv, CleanSoFar
    <3> QED
      BY <2>1, <3>1, ControlStep, LoopsStayComplete, CompleteStep, ExpiredStaysGone, CleanStep,
         RepairStep DEF IInv
  <2>2. CASE UNCHANGED vars
    BY <2>2 DEF vars, IInv, Control, TypeOK, CallsBelong, LoopsGoOn, WorkersBelong,
                QueueAllIsComplete, LoopsComplete, Present, ExpiredIsGone, CleanSoFar, SavedFirst,
                Repaired, Expired
  <2> QED
    BY <2>1, <2>2
<1> QED
  BY <1>1, <1>2, PTL DEF Spec

\* Every variable keeps to its type: a loop's body never leaves the three queues, and the
\* bounds are never passed.
THEOREM TypeCorrect == Spec => []TypeOK
<1>1. IInv => TypeOK
  BY DEF IInv, Control
<1> QED
  BY <1>1, Invariance, PTL

\* A QueueAll that returns no error has left every listed domain with a job in each of the
\* three queues: whatever is archived, deleted, claimed or restarted in between.
THEOREM NoQueueIsMissed == Spec => []QueueAllIsComplete
<1>1. IInv => QueueAllIsComplete
  BY DEF IInv
<1> QED
  BY <1>1, Invariance, PTL

\* A scheduled cleanup leaves nothing that has expired but what a worker was saving, and no
\* cleanup leaves a succeeded job without its document.
THEOREM RetentionHolds == Spec => []ExpiredIsGone
<1>1. IInv => ExpiredIsGone
  BY DEF IInv
<1> QED
  BY <1>1, Invariance, PTL

\* When the workers start, no open job of the parent is without its children's.
THEOREM StartUpRepairs == Spec => SplitIsRepaired
<1> DEFINE Splits == process = "starting" /\ process' # "starting" =>
                         \A k \in Keys, q \in Children :
                             jobs["aizhan"][k] \in Open /\ domain[k[1]] = "active"
                                 => jobs[q][k] \in Open \cup {"succeeded"}
<1>1. IInv /\ [Next]_vars => Splits
  <2> SUFFICES ASSUME IInv, [Next]_vars, process = "starting", process' # "starting",
                      NEW k \in Keys, NEW q \in Children,
                      jobs["aizhan"][k] \in Open, domain[k[1]] = "active"
               PROVE  jobs[q][k] \in Open \cup {"succeeded"}
    OBVIOUS
  <2>1. WorkersStart(Main)
    BY DEF vars, Next, MainStep, CallStep, RequestStep, WorkerStep, Start, Serve, Trigger, Restart,
           NextDay, CleanupBefore, ActivateMetricDomain, SyncFails, SyncEnds,
           BackfillSupplementJobs, BackfillFails, QueueAll, QueueDomain, QueueDomainFails,
           QueueReturns, CancelQueuedJobs, CreateDomain, UpdateDomain, ArchiveDomain,
           CollectDomain, CollectAll, ClaimNextJob, SaveMetric, SaveJobResult, AttemptFails,
           RecoverStaleJobs
  <2>2. call[Main].pc = "backfill" /\ call[Main].left = {} /\ Main \in Callers
    BY <2>1 DEF WorkersStart, Callers
  <2> QED
    BY <2>2 DEF IInv, Repaired, Done
<1>2. IInv /\ [Next]_vars => [Splits]_vars
  BY <1>1
<1> QED
  BY <1>2, Invariance, PTL DEF Spec, SplitIsRepaired
=============================================================================
