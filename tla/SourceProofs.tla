---------------------------- MODULE SourceProofs ----------------------------
(***************************************************************************)
(* Proofs about AizhanSource and ChinazSource: the gaps and the cooldowns  *)
(* that they promise, for any callers, queues, delays, base of the         *)
(* cooldown and Retry-After.                                               *)
(***************************************************************************)
EXTENDS AizhanSource, ChinazSource, Induction, TLAPS

-----------------------------------------------------------------------------
(***************************************************************************)
(* The cooldown after any number of blocks.                                *)
(***************************************************************************)
\* What the n-th block makes of the doubled base d.
Redoubled(n, d) == IF n <= 1 THEN BaseCooldown ELSE IF d < Hour THEN 2 * d ELSE d

\* There is a function that doubles as the code does: Doubled is one.
LEMMA DoubledIsRight ==
    \A n \in Nat : /\ Doubled[n] \in Nat
                   /\ n = 0 => Doubled[n] = BaseCooldown
                   /\ n > 0 => Doubled[n] = Redoubled(n, Doubled[n - 1])
<1>1. BaseCooldown \in Nat /\ Hour \in Nat
  BY CircuitAssumption
<1>2. PICK step : step = [n \in Nat \ {0} |-> [d \in Nat |-> Redoubled(n, d)]]
  OBVIOUS
<1>3. step \in [Nat \ {0} -> [Nat -> Nat]]
  BY <1>1, <1>2 DEF Redoubled
<1>4. PICK f \in [Nat -> Nat] : \A n \in Nat : Steps(f, n, BaseCooldown, step)
  BY <1>1, <1>3, Recursion
<1>5. \A n \in Nat : f[n] = IF n <= 1 THEN BaseCooldown
                            ELSE IF f[n - 1] < Hour THEN 2 * f[n - 1] ELSE f[n - 1]
  <2>1. ASSUME NEW n \in Nat, n > 0
        PROVE  f[n] = Redoubled(n, f[n - 1])
    <3>1. f[n] = step[n][f[n - 1]]
      <4>1. n \in 1..n /\ Steps(f, n, BaseCooldown, step)
        BY <1>4, <2>1
      <4> QED
        BY <4>1 DEF Steps
    <3>2. f[n - 1] \in Nat
      BY <1>4, <2>1
    <3> QED
      BY <1>2, <2>1, <3>1, <3>2
  <2>2. f[0] = BaseCooldown
    BY <1>4 DEF Steps
  <2> QED
    BY <2>1, <2>2 DEF Redoubled
<1>6. PICK D : D = Doubled
  OBVIOUS
<1>7. D = [n \in Nat |-> IF n <= 1 THEN BaseCooldown
                         ELSE IF D[n - 1] < Hour THEN 2 * D[n - 1] ELSE D[n - 1]]
  <2>1. f = [n \in Nat |-> IF n <= 1 THEN BaseCooldown
                           ELSE IF f[n - 1] < Hour THEN 2 * f[n - 1] ELSE f[n - 1]]
    BY <1>5
  <2> QED
    BY <1>6, <2>1 DEF Doubled
<1> HIDE <1>6
<1>8. \A n \in Nat : D[n] = IF n <= 1 THEN BaseCooldown
                            ELSE IF D[n - 1] < Hour THEN 2 * D[n - 1] ELSE D[n - 1]
  BY <1>7
<1>9. \A n \in Nat : D[n] \in Nat
  <2> DEFINE T == {n \in Nat : D[n] \in Nat}
  <2>1. 0 \in T
    BY <1>1, <1>8
  <2>2. ASSUME NEW n \in Nat, n \in T
        PROVE  n + 1 \in T
    BY <1>1, <1>8, <2>2
  <2> HIDE DEF T
  <2>3. Nat \subseteq T
    BY <2>1, <2>2, Induct
  <2> QED
    BY <2>3 DEF T
<1> QED
  BY <1>6, <1>8, <1>9 DEF Redoubled

\* A block is followed by at least the base, whatever number of blocks preceded it.
LEMMA CooldownIsLong ==
    ASSUME NEW n \in Nat
    PROVE  CooldownAfter(n) \in Nat /\ CooldownAfter(n) >= BaseCooldown
<1>1. BaseCooldown \in Nat /\ Hour \in Nat /\ BaseCooldown <= Hour
  BY CircuitAssumption
<1>2. PICK D : D = Doubled
  OBVIOUS
<1> DEFINE T == {k \in Nat : D[k] >= BaseCooldown}
<1>3. 0 \in T
  BY <1>1, <1>2, DoubledIsRight
<1>4. ASSUME NEW k \in Nat, k \in T
      PROVE  k + 1 \in T
  <2>1. D[k] \in Nat /\ D[k + 1] = Redoubled(k + 1, D[k])
    BY <1>2, DoubledIsRight
  <2> QED
    BY <1>1, <1>4, <2>1 DEF Redoubled
<1> HIDE DEF T
<1>5. Nat \subseteq T
  BY <1>3, <1>4, Induct
<1>6. D[n] \in Nat /\ D[n] >= BaseCooldown
  BY <1>2, <1>5, DoubledIsRight DEF T
<1> QED
  BY <1>1, <1>2, <1>6 DEF CooldownAfter

-----------------------------------------------------------------------------
(***************************************************************************)
(* Aizhan.                                                                 *)
(***************************************************************************)
CallerType ==
    [pc : {"idle", "slot", "prepare", "gate", "sleep", "request", "judge"},
     attemptCount : Nat, request : 0..2, viaAgent : BOOLEAN, wake : Nat,
     response : Responses]

\* Who is past the slot has it.
AizhanHolder == \A c \in Callers : caller[c].pc \notin {"idle", "slot"} => slot = c

\* The agent is asked first, and once.
AgentFirst == \A c \in Callers : caller[c].viaAgent => hasAgent /\ caller[c].request = 1

\* The next request waits for the gap that was promised, and for the gap of its own job.
AizhanGaps ==
    /\ next >= promisedUntil
    /\ \A c \in Callers : caller[c].pc \in {"gate", "sleep"} /\ lastFinished > 0 =>
          next >= lastFinished + Scaled(lastDelay, multiplier(c))

\* A caller that has still to report a block, and will.
Reports(c) ==
    /\ caller[c].pc = "judge" /\ ~caller[c].response.good /\ ~caller[c].response.retry
    /\ Blocked(c)

\* The silence is over, or the cooldown covers it, or whoever has the slot will see to it.
AizhanSilence ==
    /\ \A c \in Callers : caller[c].pc \in {"request", "judge"} => cooldown <= clock
    /\ \A c \in Callers : caller[c].pc = "request" => quietUntil <= clock
    /\ \/ quietUntil <= clock
       \/ quietUntil <= cooldown
       \/ \E c \in Callers : /\ Reports(c)
                             /\ quietUntil <= clock + BaseCooldown
                                  \/ quietUntil <= caller[c].response.after

AizhanInv == AizhanTypeOK /\ AizhanHolder /\ AgentFirst /\ AizhanGaps /\ AizhanSilence

\* A step of one caller.
CallerBecomes(c, n) ==
    /\ n \in CallerType
    /\ caller' \in [Callers -> CallerType] /\ caller'[c] = n
    /\ \A b \in Callers \ {c} : caller'[b] = caller[b]

\* A caller that is replaced as a whole.
LEMMA CallerStep ==
    ASSUME AizhanTypeOK, NEW c \in Callers, NEW n \in CallerType,
           caller' = [caller EXCEPT ![c] = n]
    PROVE  CallerBecomes(c, n)
BY DEF CallerBecomes, AizhanTypeOK, CallerType

\* A response that is taken has the fields of one.
LEMMA ResponseFields ==
    ASSUME NEW r \in Responses
    PROVE  /\ r.good \in BOOLEAN /\ r.retry \in BOOLEAN /\ r.refused \in BOOLEAN
           /\ r.after \in Nat
           /\ r.good => ~r.retry /\ ~r.refused
           /\ r.retry => ~r.refused
BY DEF Responses

\* A caller has the fields of one.
LEMMA CallerFields ==
    ASSUME NEW m \in CallerType
    PROVE  /\ m.attemptCount \in Nat /\ m.request \in 0..2 /\ m.viaAgent \in BOOLEAN
           /\ m.wake \in Nat /\ m.response \in Responses
BY DEF CallerType

\* An idle caller has asked for nothing.
LEMMA IdleCallerFields ==
    /\ IdleCaller \in CallerType /\ IdleCaller.pc = "idle"
    /\ ~IdleCaller.viaAgent /\ NoResponse \in Responses
<1>1. NoResponse \in Responses
  BY DEF NoResponse, Responses
<1> QED
  BY <1>1 DEF IdleCaller, CallerType

\* A gap is a natural number, and so are the multiplier of an attempt and its delays.
LEMMA Gaps ==
    ASSUME NEW d \in Nat, NEW n \in Nat
    PROVE  /\ Scaled(d, Multiplier(n)) \in Nat
           /\ Delays \subseteq Nat
<1>1. Multiplier(n) \in {1, 2, 4, 8}
  BY DEF Multiplier
<1>2. MaxDuration \in Nat /\ MinDelay \in Nat /\ MaxDelay \in Nat
  BY CircuitAssumption, AizhanAssumption
<1>3. Scaled(d, 1) \in Nat /\ Scaled(d, 2) \in Nat
      /\ Scaled(d, 4) \in Nat /\ Scaled(d, 8) \in Nat
  BY <1>2 DEF Scaled
<1>4. Delays \subseteq Nat
  BY <1>2 DEF Delays
<1> QED
  BY <1>1, <1>3, <1>4

\* What each step makes of its caller.
LEMMA CallerMoves ==
    ASSUME AizhanInv, NEW c \in Callers
    PROVE  /\ \A k \in Attempts : Fetch(c, k) =>
                 \E n : CallerBecomes(c, n) /\ n.pc = "slot" /\ ~n.viaAgent
           /\ TakeSlot(c) =>
                 \E n : /\ CallerBecomes(c, n) /\ n.pc = "prepare"
                        /\ n.viaAgent = hasAgent /\ n.request = 1
           /\ PrepareAttempt(c) =>
                 \E n : /\ CallerBecomes(c, n) /\ n.pc = "gate"
                        /\ n.viaAgent = caller[c].viaAgent /\ n.request = caller[c].request
                        /\ n.attemptCount = caller[c].attemptCount
           /\ WaitReady(c) =>
                 \E n : /\ CallerBecomes(c, n)
                        /\ n.pc = IF next <= clock /\ cooldown <= clock THEN "request"
                                                                       ELSE "sleep"
                        /\ n.viaAgent = caller[c].viaAgent /\ n.request = caller[c].request
                        /\ n.attemptCount = caller[c].attemptCount
           /\ Wake(c) =>
                 \E n : /\ CallerBecomes(c, n) /\ n.pc = "gate"
                        /\ n.viaAgent = caller[c].viaAgent /\ n.request = caller[c].request
                        /\ n.attemptCount = caller[c].attemptCount
<1>1. PICK m \in CallerType : m = caller[c]
  BY DEF AizhanInv, AizhanTypeOK, CallerType
<1>2. /\ m.attemptCount \in Nat /\ m.request \in 0..2 /\ m.viaAgent \in BOOLEAN
      /\ m.wake \in Nat /\ m.response \in Responses
  BY CallerFields
<1>3. /\ AizhanTypeOK /\ caller \in [Callers -> CallerType] /\ hasAgent \in BOOLEAN
      /\ next \in Nat /\ cooldown \in Nat /\ clock \in Nat
  BY DEF AizhanInv, AizhanTypeOK, CallerType
<1>4. ASSUME NEW k \in Attempts, Fetch(c, k)
      PROVE  \E n : CallerBecomes(c, n) /\ n.pc = "slot" /\ ~n.viaAgent
  <2>1. PICK i \in CallerType : i = IdleCaller /\ ~i.viaAgent
    BY IdleCallerFields
  <2>2. k \in Nat
    BY CircuitAssumption, AizhanAssumption
  <2>3. PICK n : n = [i EXCEPT !.pc = "slot", !.attemptCount = k]
    OBVIOUS
  <2>4. n \in CallerType /\ n.pc = "slot" /\ ~n.viaAgent
    BY <2>1, <2>2, <2>3 DEF CallerType
  <2>5. caller' = [caller EXCEPT ![c] = n]
    BY <1>4, <2>1, <2>3 DEF Fetch
  <2> QED
    BY <1>3, <2>4, <2>5, CallerStep
<1>5. ASSUME TakeSlot(c)
      PROVE  \E n : /\ CallerBecomes(c, n) /\ n.pc = "prepare"
                    /\ n.viaAgent = hasAgent /\ n.request = 1
  <2>0. PICK i \in 0..2 : i = 1
    OBVIOUS
  <2>1. PICK o : o = [m EXCEPT !.pc = "prepare", !.request = i]
    OBVIOUS
  <2>2. o \in CallerType /\ o.pc = "prepare" /\ o.request = i
    BY <2>1 DEF CallerType
  <2>3. PICK n : n = [o EXCEPT !.viaAgent = hasAgent]
    OBVIOUS
  <2>4. n \in CallerType /\ n.pc = "prepare" /\ n.viaAgent = hasAgent /\ n.request = 1
    BY <1>3, <2>0, <2>2, <2>3 DEF CallerType
  <2>5. caller' = [caller EXCEPT ![c] = n]
    BY <1>1, <1>3, <1>5, <2>0, <2>1, <2>3 DEF TakeSlot
  <2> QED
    BY <1>3, <2>4, <2>5, CallerStep
<1>6. PICK g : g = [m EXCEPT !.pc = "gate"]
  OBVIOUS
<1>7. /\ g \in CallerType /\ g.pc = "gate" /\ g.viaAgent = m.viaAgent /\ g.request = m.request
      /\ g.attemptCount = m.attemptCount
  BY <1>6 DEF CallerType
<1>8. PrepareAttempt(c) \/ Wake(c) => CallerBecomes(c, g)
  <2>1. PrepareAttempt(c) \/ Wake(c) => caller' = [caller EXCEPT ![c] = g]
    BY <1>1, <1>3, <1>6 DEF PrepareAttempt, Wake, CallerGoto
  <2> QED
    BY <1>3, <1>7, <2>1, CallerStep
<1>9. ASSUME WaitReady(c)
      PROVE  \E n : /\ CallerBecomes(c, n)
                    /\ n.pc = IF next <= clock /\ cooldown <= clock THEN "request"
                                                                   ELSE "sleep"
                    /\ n.viaAgent = m.viaAgent /\ n.request = m.request
                    /\ n.attemptCount = m.attemptCount
  <2>1. PICK until \in Nat : until = Later(next, cooldown)
    BY <1>3 DEF Later
  <2>2. until <= clock <=> next <= clock /\ cooldown <= clock
    BY <1>3, <2>1 DEF Later
  <2>3. PICK p, w : /\ p = IF until <= clock THEN "request" ELSE "sleep"
                    /\ w = IF until <= clock THEN 0 ELSE until
    OBVIOUS
  <2>4. PICK n : n = [m EXCEPT !.pc = p, !.wake = w]
    OBVIOUS
  <2>5. /\ n \in CallerType /\ n.pc = p /\ n.viaAgent = m.viaAgent /\ n.request = m.request
        /\ n.attemptCount = m.attemptCount
    BY <2>3, <2>4 DEF CallerType
  <2>6. caller' = [caller EXCEPT ![c] = n]
    BY <1>1, <1>3, <1>9, <2>1, <2>3, <2>4 DEF WaitReady
  <2> QED
    BY <1>3, <2>2, <2>3, <2>5, <2>6, CallerStep
<1> QED
  BY <1>1, <1>4, <1>5, <1>7, <1>8, <1>9

\* What an answer, and what is made of it, makes of its caller.
LEMMA CallerAnswers ==
    ASSUME AizhanInv, NEW c \in Callers
    PROVE  /\ \A r \in Answers(c) : r \in Responses
           /\ \A r \in Responses :
                 caller' = [caller EXCEPT ![c].pc = "judge", ![c].response = r] =>
                 \E n : /\ CallerBecomes(c, n) /\ n.pc = "judge" /\ n.response = r
                        /\ n.viaAgent = caller[c].viaAgent /\ n.request = caller[c].request
           /\ AskDirectly(c) =>
                 \E n : CallerBecomes(c, n) /\ n.pc = "prepare" /\ ~n.viaAgent
<1>1. PICK m \in CallerType : m = caller[c]
  BY DEF AizhanInv, AizhanTypeOK, CallerType
<1>2. /\ m.attemptCount \in Nat /\ m.request \in 0..2 /\ m.viaAgent \in BOOLEAN
      /\ m.wake \in Nat /\ m.response \in Responses
  BY CallerFields
<1>3. /\ AizhanTypeOK /\ caller \in [Callers -> CallerType] /\ hasAgent \in BOOLEAN
      /\ next \in Nat /\ cooldown \in Nat /\ clock \in Nat
  BY DEF AizhanInv, AizhanTypeOK, CallerType
<1>4. \A r \in Answers(c) : r \in Responses
  BY DEF Answers
<1>5. ASSUME NEW r \in Responses,
             caller' = [caller EXCEPT ![c].pc = "judge", ![c].response = r]
      PROVE  \E n : /\ CallerBecomes(c, n) /\ n.pc = "judge" /\ n.response = r
                    /\ n.viaAgent = m.viaAgent /\ n.request = m.request
  <2>1. PICK n : n = [m EXCEPT !.pc = "judge", !.response = r]
    OBVIOUS
  <2>2. /\ n \in CallerType /\ n.pc = "judge" /\ n.response = r
        /\ n.viaAgent = m.viaAgent /\ n.request = m.request
    BY <2>1 DEF CallerType
  <2>3. caller' = [caller EXCEPT ![c] = n]
    BY <1>1, <1>3, <1>5, <2>1
  <2> QED
    BY <1>3, <2>2, <2>3, CallerStep
<1>6. ASSUME AskDirectly(c)
      PROVE  \E n : CallerBecomes(c, n) /\ n.pc = "prepare" /\ ~n.viaAgent
  <2>1. PICK i : i = m.request + 1 /\ i \in 0..2
    <3>1. m.viaAgent => m.request = 1
      BY <1>1 DEF AizhanInv, AgentFirst
    <3>2. m.viaAgent \/ m.request < 2
      BY <1>1, <1>2, <1>6
      DEF AskDirectly, Rechecks, Retried, LastRequest
    <3> QED
      BY <1>2, <3>1, <3>2
  <2>2. PICK e \in Responses : e = NoResponse
    BY IdleCallerFields
  <2>3. PICK o : o = [m EXCEPT !.pc = "prepare", !.request = i]
    OBVIOUS
  <2>4. o \in CallerType /\ o.pc = "prepare"
    BY <2>1, <2>3 DEF CallerType
  <2>5. PICK n : n = [o EXCEPT !.viaAgent = FALSE, !.response = e]
    OBVIOUS
  <2>6. n \in CallerType /\ n.pc = "prepare" /\ ~n.viaAgent
    BY <2>4, <2>5 DEF CallerType
  <2>7. caller' = [caller EXCEPT ![c] = n]
    BY <1>1, <1>3, <1>6, <2>1, <2>2, <2>3, <2>5 DEF AskDirectly
  <2> QED
    BY <1>3, <2>6, <2>7, CallerStep
<1> QED
  BY <1>1, <1>4, <1>5, <1>6

\* A caller that returns is idle.
LEMMA CallerReturns ==
    ASSUME AizhanTypeOK, NEW c \in Callers,
           caller' = [caller EXCEPT ![c] = IdleCaller]
    PROVE  \E n : CallerBecomes(c, n) /\ n.pc = "idle" /\ ~n.viaAgent
BY IdleCallerFields, CallerStep

\* The facts about the state that the steps below rest on.
LEMMA AizhanTypes ==
    ASSUME AizhanInv
    PROVE  /\ hasAgent \in BOOLEAN /\ clock \in Nat /\ slot \in Callers \cup {Nobody}
           /\ next \in Nat /\ lastFinished \in Nat /\ lastDelay \in Nat
           /\ cooldown \in Nat /\ failures \in Nat
           /\ promisedUntil \in Nat /\ quietUntil \in Nat
           /\ caller \in [Callers -> CallerType]
BY DEF AizhanInv, AizhanTypeOK, CallerType

\* What the constants are.
LEMMA AizhanConstants ==
    /\ Nobody \notin Callers /\ Attempts \subseteq Nat
    /\ BaseCooldown \in Nat \ {0} /\ RetryAfters \subseteq Nat
BY CircuitAssumption, AizhanAssumption

\* The type invariant, the callers apart.
AizhanOthersTyped ==
    /\ hasAgent \in BOOLEAN /\ clock \in Nat /\ slot \in Callers \cup {Nobody}
    /\ next \in Nat /\ lastFinished \in Nat /\ lastDelay \in Nat
    /\ cooldown \in Nat /\ failures \in Nat
    /\ promisedUntil \in Nat /\ quietUntil \in Nat

\* Init, and the clock.
LEMMA AizhanInitInv == AizhanInit => AizhanInv
<1> SUFFICES ASSUME AizhanInit
             PROVE  AizhanInv
  OBVIOUS
<1>1. \A c \in Callers : caller[c] = IdleCaller
  BY DEF AizhanInit
<1>2. caller \in [Callers -> CallerType]
  BY IdleCallerFields DEF AizhanInit
<1>3. AizhanTypeOK
  BY <1>2 DEF AizhanInit, AizhanTypeOK, CallerType
<1> QED
  BY <1>1, <1>3, IdleCallerFields
  DEF AizhanInit, AizhanInv, AizhanHolder, AgentFirst, AizhanGaps, AizhanSilence

\* Time passes only where nobody is about to judge an answer.
LEMMA AizhanTickInv ==
    ASSUME AizhanInv, AizhanTick
    PROVE  AizhanInv'
<1>1. /\ clock' = clock + 1
      /\ UNCHANGED <<hasAgent, slot, next, lastFinished, lastDelay, cooldown, failures, caller,
                     promisedUntil, quietUntil>>
  BY DEF AizhanTick, pacing, circuit, aizhanHistory
<1>2. \A c \in Callers : caller[c].pc # "judge"
  BY DEF AizhanTick, CallerWaits
<1>3. AizhanTypeOK'
  BY <1>1, AizhanTypes DEF AizhanTypeOK, CallerType
<1>4. AizhanHolder' /\ AgentFirst' /\ AizhanGaps'
  BY <1>1 DEF AizhanInv, AizhanHolder, AgentFirst, AizhanGaps, multiplier
<1>5. AizhanSilence'
  BY <1>1, <1>2, AizhanTypes DEF AizhanInv, AizhanSilence, Reports
<1> QED
  BY <1>3, <1>4, <1>5 DEF AizhanInv

\* A caller that comes for the slot, or takes it.
LEMMA AizhanEnters ==
    ASSUME AizhanInv, NEW c \in Callers,
           (\E k \in Attempts : Fetch(c, k)) \/ TakeSlot(c)
    PROVE  AizhanInv'
<1>1. UNCHANGED <<hasAgent, clock, next, lastFinished, lastDelay, cooldown, failures,
                  promisedUntil, quietUntil>>
  BY DEF Fetch, TakeSlot, pacing, circuit, aizhanHistory
<1>2. PICK n : /\ CallerBecomes(c, n)
               /\ \/ n.pc = "slot" /\ ~n.viaAgent /\ slot' = slot
                  \/ /\ n.pc = "prepare" /\ n.viaAgent = hasAgent /\ n.request = 1
                     /\ slot = Nobody /\ slot' = c
  <2>1. CASE \E k \in Attempts : Fetch(c, k)
    BY <2>1, CallerMoves DEF Fetch
  <2>2. CASE TakeSlot(c)
    BY <2>2, CallerMoves, ZenonT(30) DEF TakeSlot
  <2> QED
    BY <2>1, <2>2
<1>3. caller[c].pc \in {"idle", "slot"}
  BY DEF Fetch, TakeSlot
<1>4. AizhanTypeOK'
  BY <1>1, <1>2, AizhanTypes DEF AizhanTypeOK, CallerType, CallerBecomes
<1>5. AizhanHolder'
  BY <1>2, AizhanConstants DEF AizhanInv, AizhanHolder, CallerBecomes
<1>6. AgentFirst'
  BY <1>1, <1>2 DEF AizhanInv, AgentFirst, CallerBecomes
<1>7. AizhanGaps'
  BY <1>1, <1>2 DEF AizhanInv, AizhanGaps, CallerBecomes, multiplier
<1>8. AizhanSilence'
  <2>1. \A b \in Callers : Reports(b) => b # c /\ Reports(b)' /\ caller'[b] = caller[b]
    BY <1>1, <1>2, <1>3 DEF Reports, CallerBecomes, Blocked, BlockedBy
  <2> QED
    BY <1>1, <1>2, <2>1 DEF AizhanInv, AizhanSilence, CallerBecomes
<1> QED
  BY <1>4, <1>5, <1>6, <1>7, <1>8 DEF AizhanInv

\* A caller that waits for its time.
LEMMA AizhanWaits ==
    ASSUME AizhanInv, NEW c \in Callers,
           PrepareAttempt(c) \/ WaitReady(c) \/ Wake(c)
    PROVE  AizhanInv'
<1>1. UNCHANGED <<hasAgent, clock, slot, lastFinished, lastDelay, cooldown, failures,
                  promisedUntil, quietUntil>>
  BY DEF PrepareAttempt, WaitReady, Wake, pacing, circuit,
         aizhanHistory
<1>2. PICK gap \in Nat :
          gap = Scaled(lastDelay, Multiplier(caller[c].attemptCount))
  <2>1. caller[c].attemptCount \in Nat
    BY AizhanTypes, CallerFields
  <2> QED
    BY <2>1, AizhanTypes, Gaps
<1>3. PICK n : /\ CallerBecomes(c, n)
               /\ n.viaAgent = caller[c].viaAgent /\ n.request = caller[c].request
               /\ n.attemptCount = caller[c].attemptCount
               /\ \/ /\ caller[c].pc = "prepare" /\ n.pc = "gate"
                     /\ next' = Prepared(c)
                  \/ /\ caller[c].pc = "gate" /\ n.pc = "request" /\ next' = next
                     /\ next <= clock /\ cooldown <= clock
                  \/ /\ caller[c].pc \in {"gate", "sleep"} /\ n.pc \in {"gate", "sleep"}
                     /\ next' = next
  <2>1. CASE PrepareAttempt(c)
    BY <2>1, CallerMoves DEF PrepareAttempt
  <2>2. CASE WaitReady(c)
    BY <2>2, CallerMoves, ZenonT(30) DEF WaitReady, pacing
  <2>3. CASE Wake(c)
    BY <2>3, CallerMoves DEF Wake, pacing
  <2> QED
    BY <2>1, <2>2, <2>3
<1>4. /\ next' \in Nat /\ next' >= next
      /\ caller[c].pc = "prepare" /\ lastFinished > 0 => next' >= lastFinished + gap
  BY <1>2, <1>3, AizhanTypes DEF Prepared, Later, multiplier
<1>5. slot = c
  BY <1>3 DEF AizhanInv, AizhanHolder
<1>6. AizhanTypeOK'
  BY <1>1, <1>3, <1>4, AizhanTypes DEF AizhanTypeOK, CallerType, CallerBecomes
<1>7. AizhanHolder' /\ AgentFirst'
  BY <1>1, <1>3, <1>5 DEF AizhanInv, AizhanHolder, AgentFirst, CallerBecomes
<1>8. AizhanGaps'
  <2>1. next' >= promisedUntil'
    BY <1>1, <1>4, AizhanTypes DEF AizhanInv, AizhanGaps
  <2>2. ASSUME NEW b \in Callers, caller'[b].pc \in {"gate", "sleep"}, lastFinished > 0
        PROVE  next' >= lastFinished + Scaled(lastDelay,
                                           Multiplier(caller'[b].attemptCount))
    <3>1. b = c
      BY <1>3, <1>5, <2>2 DEF AizhanInv, AizhanHolder, CallerBecomes
    <3>2. caller'[b].attemptCount = caller[c].attemptCount
      BY <1>3, <3>1 DEF CallerBecomes
    <3>3. CASE caller[c].pc = "prepare"
      BY <1>2, <1>4, <2>2, <3>2, <3>3
    <3>4. CASE caller[c].pc \in {"gate", "sleep"}
      <4>1. next >= lastFinished + gap
        BY <1>2, <2>2, <3>4 DEF AizhanInv, AizhanGaps, multiplier
      <4> QED
        BY <1>2, <1>4, <3>2, <4>1, AizhanTypes
    <3> QED
      BY <1>3, <3>3, <3>4
  <2> QED
    BY <1>1, <2>1, <2>2 DEF AizhanGaps, multiplier
<1>9. AizhanSilence'
  <2>1. \A b \in Callers : ~Reports(b)
    BY <1>3, <1>5 DEF AizhanInv, AizhanHolder, Reports
  <2>2. quietUntil <= clock \/ quietUntil <= cooldown
    BY <2>1 DEF AizhanInv, AizhanSilence
  <2>3. n.pc = "request" => cooldown <= clock /\ quietUntil <= clock
    BY <1>3, <2>2, AizhanTypes
  <2> QED
    BY <1>1, <1>3, <2>2, <2>3 DEF AizhanInv, AizhanSilence, CallerBecomes
<1> QED
  BY <1>6, <1>7, <1>8, <1>9 DEF AizhanInv

\* An answer arrives.
LEMMA AizhanResponds ==
    ASSUME AizhanInv, NEW c \in Callers, Respond(c)
    PROVE  AizhanInv'
<1>1. PICK r \in Answers(c), d \in Delays :
          /\ caller' = [caller EXCEPT ![c].pc = "judge", ![c].response = r]
          /\ lastFinished' = clock /\ lastDelay' = d
          /\ next' = clock + Scaled(d, multiplier(c))
          /\ promisedUntil' = clock + Scaled(d, multiplier(c))
          /\ quietUntil' = IF BlockedBy(c, r) /\ ~r.retry
                           THEN Later(quietUntil,
                                             Later(clock + BaseCooldown, r.after))
                           ELSE quietUntil
  BY DEF Respond
<1>2. /\ UNCHANGED <<hasAgent, clock, slot, cooldown, failures>> /\ caller[c].pc = "request"
  BY DEF Respond, circuit
<1>3. r \in Responses /\ d \in Nat
  BY <1>1, CallerAnswers, AizhanTypes, Gaps
<1>4. r.after \in Nat /\ (r.good => ~r.retry /\ ~r.refused)
  BY <1>3, ResponseFields
<1>5. PICK n : /\ CallerBecomes(c, n) /\ n.pc = "judge" /\ n.response = r
               /\ n.viaAgent = caller[c].viaAgent /\ n.request = caller[c].request
  BY <1>1, <1>3, CallerAnswers
<1>6. slot = c /\ cooldown <= clock /\ quietUntil <= clock
  BY <1>2 DEF AizhanInv, AizhanHolder, AizhanSilence
<1>7. PICK gap \in Nat : gap = Scaled(d, multiplier(c))
  <2>1. caller[c].attemptCount \in Nat
    BY AizhanTypes, CallerFields
  <2> QED
    BY <1>3, <2>1, Gaps DEF multiplier
<1>8. quietUntil' \in Nat
  BY <1>1, <1>4, AizhanTypes, AizhanConstants DEF Later
<1>9. AizhanTypeOK'
  BY <1>1, <1>2, <1>3, <1>5, <1>7, <1>8, AizhanTypes
  DEF AizhanTypeOK, CallerType, CallerBecomes
<1>10. AizhanHolder' /\ AgentFirst'
  BY <1>2, <1>5, <1>6 DEF AizhanInv, AizhanHolder, AgentFirst, CallerBecomes
<1>11. AizhanGaps'
  <2>1. next' >= promisedUntil'
    BY <1>1, <1>7, AizhanTypes
  <2>2. \A b \in Callers : caller'[b].pc \notin {"gate", "sleep"}
    BY <1>5, <1>6 DEF AizhanInv, AizhanHolder, CallerBecomes
  <2> QED
    BY <2>1, <2>2 DEF AizhanGaps
<1>12. AizhanSilence'
  <2>1. \A b \in Callers : b # c => caller'[b].pc \notin {"request", "judge"}
    BY <1>5, <1>6 DEF AizhanInv, AizhanHolder, CallerBecomes
  <2>2. CASE BlockedBy(c, r) /\ ~r.retry
    <3>1. ~r.good
      BY <1>4, <2>2 DEF BlockedBy
    <3>2. BlockedBy(c, r)'
      BY <1>2, <1>5, <2>2 DEF BlockedBy, CallerBecomes
    <3>3. Reports(c)'
      BY <1>5, <2>2, <3>1, <3>2 DEF Reports, Blocked, CallerBecomes
    <3>4. quietUntil' <= clock + BaseCooldown \/ quietUntil' <= r.after
      BY <1>1, <1>4, <1>6, <2>2, AizhanTypes, AizhanConstants DEF Later
    <3> QED
      BY <1>2, <1>5, <1>6, <2>1, <3>3, <3>4 DEF AizhanSilence, CallerBecomes
  <2>3. CASE ~(BlockedBy(c, r) /\ ~r.retry)
    BY <1>1, <1>2, <1>5, <1>6, <2>1, <2>3 DEF AizhanSilence, CallerBecomes
  <2> QED
    BY <2>2, <2>3
<1> QED
  BY <1>9, <1>10, <1>11, <1>12 DEF AizhanInv

\* An answer is judged, and the slot returned or kept for another request.
LEMMA AizhanJudges ==
    ASSUME AizhanInv, NEW c \in Callers,
           Succeed(c) \/ AskDirectly(c) \/ GiveUp(c)
    PROVE  AizhanInv'
<1>1. /\ UNCHANGED <<hasAgent, clock, next, lastFinished, lastDelay, promisedUntil, quietUntil>>
      /\ caller[c].pc = "judge"
  BY DEF Succeed, AskDirectly, GiveUp, Return, pacing,
         aizhanHistory
<1>2. PICK n : /\ CallerBecomes(c, n) /\ ~n.viaAgent
               /\ \/ n.pc = "idle" /\ slot' = Nobody
                  \/ n.pc = "prepare" /\ slot' = slot
  <2>1. CASE AskDirectly(c)
    <3>1. slot' = slot
      BY <2>1 DEF AskDirectly
    <3>2. \E n : CallerBecomes(c, n) /\ n.pc = "prepare" /\ ~n.viaAgent
      BY <2>1, CallerAnswers
    <3> QED
      BY <3>1, <3>2
  <2>2. CASE Succeed(c) \/ GiveUp(c)
    <3>1. caller' = [caller EXCEPT ![c] = IdleCaller] /\ slot' = Nobody
      BY <2>2 DEF Succeed, GiveUp, Return
    <3>2. \E n : CallerBecomes(c, n) /\ n.pc = "idle" /\ ~n.viaAgent
      BY <3>1, CallerReturns DEF AizhanInv
    <3> QED
      BY <3>1, <3>2
  <2> QED
    BY <2>1, <2>2
<1>3. slot = c /\ cooldown <= clock
  BY <1>1 DEF AizhanInv, AizhanHolder, AizhanSilence
<1>4. \A b \in Callers \ {c} : caller[b].pc \in {"idle", "slot"} /\ caller'[b] = caller[b]
  BY <1>2, <1>3 DEF AizhanInv, AizhanHolder, CallerBecomes
<1>5. PICK m : m = caller[c].response /\ m.after \in Nat /\ (m.good => ~m.retry /\ ~m.refused)
               /\ m.good \in BOOLEAN /\ m.retry \in BOOLEAN
  BY AizhanTypes, CallerFields, ResponseFields
<1>6. /\ cooldown' \in Nat /\ failures' \in Nat
      /\ quietUntil <= clock \/ quietUntil <= cooldown'
  <2>1. \/ quietUntil <= clock
        \/ Reports(c) /\ (quietUntil <= clock + BaseCooldown \/ quietUntil <= m.after)
    <3>1. \A b \in Callers : Reports(b) => b = c
      BY <1>4 DEF Reports
    <3> QED
      BY <1>3, <1>5, <3>1, AizhanTypes DEF AizhanInv, AizhanSilence
  <2>2. CASE Succeed(c)
    <3>1. ~Reports(c) /\ cooldown' = 0 /\ failures' = 0
      BY <2>2 DEF Succeed, Reports
    <3> QED
      BY <2>1, <3>1
  <2>3. CASE AskDirectly(c)
    <3>1. ~Reports(c) /\ cooldown' = cooldown /\ failures' = failures
      BY <2>3 DEF AskDirectly, Reports, Rechecks, Retried, circuit
    <3> QED
      BY <2>1, <3>1, AizhanTypes
  <2>4. CASE GiveUp(c) /\ ~Blocked(c)
    <3>1. ~Reports(c) /\ cooldown' = cooldown /\ failures' = failures
      BY <2>4 DEF GiveUp, Reports, circuit
    <3> QED
      BY <2>1, <3>1, AizhanTypes
  <2>5. CASE GiveUp(c) /\ Blocked(c)
    <3>1. PICK k \in Nat : k = failures + 1
      BY AizhanTypes
    <3>2. PICK long \in Nat : long = CooldownAfter(k) /\ long >= BaseCooldown
      BY CooldownIsLong
    <3>3. cooldown' = Later(clock + long, m.after) /\ failures' = k
      BY <1>5, <2>5, <3>1, <3>2 DEF GiveUp, Fail
    <3>4. cooldown' \in Nat /\ cooldown' >= clock + BaseCooldown /\ cooldown' >= m.after
      BY <1>5, <3>2, <3>3, AizhanTypes, AizhanConstants DEF Later
    <3> QED
      BY <1>5, <2>1, <3>1, <3>3, <3>4, AizhanTypes, AizhanConstants
  <2> QED
    BY <2>2, <2>3, <2>4, <2>5
<1>7. AizhanTypeOK'
  BY <1>1, <1>2, <1>6, AizhanTypes DEF AizhanTypeOK, CallerType, CallerBecomes
<1>8. AizhanHolder' /\ AgentFirst'
  BY <1>1, <1>2, <1>3, <1>4 DEF AizhanInv, AizhanHolder, AgentFirst, CallerBecomes
<1>9. AizhanGaps'
  BY <1>1, <1>2, <1>4 DEF AizhanInv, AizhanGaps, CallerBecomes
<1>10. AizhanSilence'
  BY <1>1, <1>2, <1>4, <1>6 DEF AizhanSilence, CallerBecomes
<1> QED
  BY <1>7, <1>8, <1>9, <1>10 DEF AizhanInv

\* Every step keeps the invariant.
LEMMA AizhanNextInv ==
    ASSUME AizhanInv, [AizhanNext]_aizhanVars
    PROVE  AizhanInv'
<1>1. CASE AizhanTick
  BY <1>1, AizhanTickInv
<1>2. CASE \E c \in Callers : (\E n \in Attempts : Fetch(c, n)) \/ TakeSlot(c)
  BY <1>2, AizhanEnters
<1>3. CASE \E c \in Callers :
              PrepareAttempt(c) \/ WaitReady(c) \/ Wake(c)
  BY <1>3, AizhanWaits
<1>4. CASE \E c \in Callers : Respond(c)
  BY <1>4, AizhanResponds
<1>5. CASE \E c \in Callers :
              Succeed(c) \/ AskDirectly(c) \/ GiveUp(c)
  BY <1>5, AizhanJudges
<1>6. CASE UNCHANGED aizhanVars
  <2>1. UNCHANGED <<hasAgent, clock, slot, next, lastFinished, lastDelay, cooldown, failures,
                    caller, promisedUntil, quietUntil>>
    BY <1>6 DEF aizhanVars, pacing, circuit, aizhanHistory
  <2> QED
    BY <2>1 DEF AizhanInv, AizhanTypeOK, AizhanHolder, AgentFirst, AizhanGaps, AizhanSilence,
                Reports, Blocked, BlockedBy, multiplier
<1> QED
  BY <1>1, <1>2, <1>3, <1>4, <1>5, <1>6 DEF AizhanNext

\* A request leaves by WaitReady alone, which finds that nothing is to be waited for.
LEMMA AizhanAsks ==
    ASSUME AizhanInv, [AizhanNext]_aizhanVars,
           NEW c \in Callers, Asks(c)
    PROVE  next <= clock /\ cooldown <= clock /\ caller'[c].attemptCount = caller[c].attemptCount
<1>1. caller[c].pc = "gate" /\ caller'[c].pc = "request"
  BY DEF Asks
<1>2. slot = c /\ slot # Nobody
  BY <1>1, AizhanConstants DEF AizhanInv, AizhanHolder
<1>3. \A b \in Callers \ {c} : caller[b].pc \in {"idle", "slot"}
  BY <1>2 DEF AizhanInv, AizhanHolder
<1>4. caller' # caller
  BY <1>1
<1>5. ~AizhanTick /\ ~UNCHANGED aizhanVars
  BY <1>4 DEF AizhanTick, aizhanVars
<1>6. ASSUME NEW b \in Callers
      PROVE  ~(\E n \in Attempts : Fetch(b, n)) /\ ~TakeSlot(b)
  <2>1. ~TakeSlot(b)
    BY <1>2 DEF TakeSlot
  <2>2. ASSUME NEW n \in Attempts, Fetch(b, n)
        PROVE  FALSE
    <3>1. b # c
      BY <1>1, <2>2 DEF Fetch
    <3>2. \E m : CallerBecomes(b, m)
      BY <1>1, <2>2, CallerMoves
    <3>3. caller'[c] = caller[c]
      BY <3>1, <3>2 DEF CallerBecomes
    <3> QED
      BY <1>1, <3>3
  <2> QED
    BY <2>1, <2>2
<1>7. ASSUME NEW b \in Callers
      PROVE  /\ ~PrepareAttempt(b) /\ ~Wake(b) /\ ~Respond(b)
             /\ ~Succeed(b) /\ ~AskDirectly(b) /\ ~GiveUp(b)
             /\ WaitReady(b) => b = c
  BY <1>1, <1>3
  DEF PrepareAttempt, Wake, Respond, Succeed, AskDirectly,
      GiveUp, WaitReady
<1>8. WaitReady(c)
  BY <1>5, <1>6, <1>7 DEF AizhanNext
<1> QED
  BY <1>1, <1>8, CallerMoves, AizhanTypes DEF CallerBecomes

\* The inductive invariant of the Aizhan scraper: who is past the slot has it, the next
\* request waits for every gap it owes, and the cooldown covers the silence imposed.
THEOREM AizhanInvariance == AizhanSpec => []AizhanInv
<1>1. AizhanInit => AizhanInv
  BY AizhanInitInv
<1>2. AizhanInv /\ [AizhanNext]_aizhanVars => AizhanInv'
  BY AizhanNextInv
<1> QED
  BY <1>1, <1>2, PTL DEF AizhanSpec

\* A request leaves after the gap of the request before it and after its own.
THEOREM AizhanSpacing == AizhanSpec => SpacingIsKept
<1> DEFINE Held == \A c \in Callers : Asks(c) =>
               /\ clock >= promisedUntil
               /\ lastFinished > 0 =>
                     clock >= lastFinished + Scaled(lastDelay, multiplier(c))
<1>1. AizhanInv /\ [AizhanNext]_aizhanVars => Held
  <2> SUFFICES ASSUME AizhanInv, [AizhanNext]_aizhanVars, NEW c \in Callers, Asks(c)
               PROVE  /\ clock >= promisedUntil
                      /\ lastFinished > 0 =>
                          clock >= lastFinished + Scaled(lastDelay, multiplier(c))
    OBVIOUS
  <2>1. PICK gap \in Nat : gap = Scaled(lastDelay, multiplier(c))
    <3>1. caller[c].attemptCount \in Nat
      BY AizhanTypes, CallerFields
    <3> QED
      BY <3>1, AizhanTypes, Gaps DEF multiplier
  <2>2. next <= clock /\ caller[c].pc = "gate"
    BY AizhanAsks DEF Asks
  <2>3. next >= promisedUntil /\ (lastFinished > 0 => next >= lastFinished + gap)
    BY <2>1, <2>2 DEF AizhanInv, AizhanGaps
  <2> QED
    BY <2>1, <2>2, <2>3, AizhanTypes
<1>2. AizhanInv /\ [AizhanNext]_aizhanVars => [Held]_aizhanVars
  BY <1>1
<1>3. SpacingIsKept <=> [][Held]_aizhanVars
  BY DEF SpacingIsKept
<1> QED
  BY <1>2, <1>3, AizhanInvariance, PTL DEF AizhanSpec

\* No request leaves in the silence that the source has imposed.
THEOREM AizhanSilent == AizhanSpec => AizhanBlocksAreObeyed
<1> DEFINE Held == \A c \in Callers : Asks(c) => clock >= quietUntil
<1>1. AizhanInv /\ [AizhanNext]_aizhanVars => Held
  <2> SUFFICES ASSUME AizhanInv, [AizhanNext]_aizhanVars, NEW c \in Callers, Asks(c)
               PROVE  clock >= quietUntil
    OBVIOUS
  <2>1. cooldown <= clock /\ caller[c].pc = "gate"
    BY AizhanAsks DEF Asks
  <2>2. \A b \in Callers : ~Reports(b)
    BY <2>1 DEF AizhanInv, AizhanHolder, Reports
  <2> QED
    BY <2>1, <2>2, AizhanTypes DEF AizhanInv, AizhanSilence
<1>2. AizhanInv /\ [AizhanNext]_aizhanVars => [Held]_aizhanVars
  BY <1>1
<1>3. AizhanBlocksAreObeyed <=> [][Held]_aizhanVars
  BY DEF AizhanBlocksAreObeyed
<1> QED
  BY <1>2, <1>3, AizhanInvariance, PTL DEF AizhanSpec

-----------------------------------------------------------------------------
(***************************************************************************)
(* Chinaz.                                                                 *)
(***************************************************************************)
Places == {"idle", "gate", "claim", "ready", "hold", "begin", "slot", "check", "wait", "pace",
           "request", "release", "merge", "record"}
WorkerType ==
    [pc : Places, left : Nat, wake : Nat, deadline : Nat,
     result : {"ok", "failed", "blocked"}, after : Nat]

\* Who is between the slot and its release has it, and a request to make.
AtSlot == {"check", "wait", "pace", "request", "release"}
ChinazHolder ==
    \A q \in Queues :
        /\ worker[q].pc \in AtSlot => requestSlot = q
        /\ worker[q].pc \in {"slot", "check", "wait", "pace"} => worker[q].left > 0

\* The next request keeps its distance from the last, and from the one that waits.
ChinazPace ==
    /\ lastRequest > 0 => nextRequest >= lastRequest + MinDelay
    /\ \A q \in Queues : worker[q].pc = "pace" =>
          /\ clock <= worker[q].wake /\ worker[q].wake + MinDelay <= nextRequest
          /\ lastRequest > 0 => lastRequest + MinDelay <= worker[q].wake

\* A block of which the source has been told, but that has still to close the circuit;
\* and one that has closed it, but is still to be recorded.
Releasing(q) == worker[q].pc = "release" /\ worker[q].result = "blocked"
Recording(q) == worker[q].pc = "record" /\ worker[q].result = "blocked"

\* When the circuit of such a block opens at the earliest.
Closed(q, t) == clock + BaseCooldown <= t /\ worker[q].after <= t
Within(q, t) == t <= clock + BaseCooldown \/ t <= worker[q].after

\* The circuit is closed for as long as the silence is imposed, and open to who has passed it.
ChinazSilence ==
    /\ \A q \in Queues :
          /\ worker[q].pc \in {"wait", "pace", "request"} => quietUntil <= clock
          /\ worker[q].pc \in {"wait", "pace", "request", "release"} => cooldownUntil <= clock
          /\ Releasing(q) => Within(q, quietUntil)
          /\ Recording(q) => Closed(q, cooldownUntil) /\ Within(q, quietUntil)
    /\ \A p, q \in Queues : Recording(p) /\ Recording(q) => p = q
    /\ \/ quietUntil <= clock
       \/ quietUntil <= cooldownUntil
       \/ \E q \in Queues : Releasing(q)

\* A queue that has been refused waits for the end of the outage at one of its two gates.
Spared(q) ==
    /\ worker[q].pc = "gate" /\ clock >= worker[q].wake => \A p \in Queues : ~Recording(p)
    /\ worker[q].pc \notin {"idle", "record", "gate"} => \A p \in Queues : ~Recording(p)
    /\ worker[q].pc = "record" => worker[q].result # "blocked"
    /\ worker[q].pc = "hold" => cooldownUntil <= worker[q].wake
    /\ worker[q].pc \in AtSlot \cup {"begin", "slot", "merge"} => cooldownUntil <= clock

ChinazOutage ==
    /\ \A q \in Queues : refusals[q] \in {0, 1} /\ (refusals[q] = 1 => Spared(q))
    /\ (\E p \in Queues : Releasing(p)) => \A q \in Queues : refusals[q] = 0

ChinazInv == ChinazTypeOK /\ ChinazHolder /\ ChinazPace /\ ChinazSilence /\ ChinazOutage

\* The facts about the state and the constants that the steps below rest on.
LEMMA ChinazTypes ==
    ASSUME ChinazInv
    PROVE  /\ clock \in Nat /\ requestSlot \in Queues \cup {Nobody}
           /\ nextRequest \in Nat /\ cooldownUntil \in Nat /\ supplementFailures \in Nat
           /\ worker \in [Queues -> WorkerType]
           /\ lastRequest \in Nat /\ quietUntil \in Nat /\ refusals \in [Queues -> Nat]
BY DEF ChinazInv, ChinazTypeOK, WorkerType, Places

\* What the constants are.
LEMMA ChinazConstants ==
    /\ Nobody \notin Queues
    /\ \A q \in Queues : Requests[q] \in Nat \ {0} /\ Timeout[q] \in Nat
    /\ MinDelay \in Nat /\ MaxDelay \in Nat
    /\ BaseCooldown \in Nat \ {0} /\ RetryAfters \subseteq Nat
BY CircuitAssumption, ChinazAssumption

\* A step of one worker.
WorkerBecomes(q, n) ==
    /\ n \in WorkerType
    /\ worker' \in [Queues -> WorkerType] /\ worker'[q] = n
    /\ \A p \in Queues \ {q} : worker'[p] = worker[p]

\* A worker has the fields of one.
LEMMA WorkerFields ==
    ASSUME NEW m \in WorkerType
    PROVE  /\ m.pc \in Places /\ m.left \in Nat /\ m.wake \in Nat /\ m.deadline \in Nat
           /\ m.result \in {"ok", "failed", "blocked"} /\ m.after \in Nat
BY DEF WorkerType

\* An idle worker has no request to make.
LEMMA IdleWorkerFields ==
    IdleWorker \in WorkerType /\ IdleWorker.pc = "idle"
BY DEF IdleWorker, WorkerType, Places

\* What a step may set of its worker, besides its place.
Sleeps(q, p, w)       == worker' = [worker EXCEPT ![q].pc = p, ![q].wake = w]
Learns(q, p, r)       == worker' = [worker EXCEPT ![q].pc = p, ![q].result = r]
LearnsOf(q, p, r, a)  == worker' = [worker EXCEPT ![q].pc = p, ![q].result = r, ![q].after = a]
Stops(q, p, r, w)     == worker' = [worker EXCEPT ![q].pc = p, ![q].result = r, ![q].wake = w]
Leaves(q, p, l, w)    == worker' = [worker EXCEPT ![q].pc = p, ![q].left = l, ![q].wake = w]

\* A worker that is replaced as a whole.
LEMMA WorkerStep ==
    ASSUME worker \in [Queues -> WorkerType], NEW q \in Queues, NEW n \in WorkerType,
           worker' = [worker EXCEPT ![q] = n]
    PROVE  WorkerBecomes(q, n)
BY DEF WorkerBecomes

\* A worker that goes somewhere.
LEMMA WorkerGoes ==
    ASSUME worker \in [Queues -> WorkerType], NEW q \in Queues, NEW p \in Places,
           WorkerGoto(q, p)
    PROVE  \E n : /\ WorkerBecomes(q, n) /\ n.pc = p /\ n.left = worker[q].left
                  /\ n.wake = worker[q].wake /\ n.result = worker[q].result
                  /\ n.after = worker[q].after
<1>1. PICK m \in WorkerType : m = worker[q]
  OBVIOUS
<1>2. PICK n : n = [m EXCEPT !.pc = p]
  OBVIOUS
<1>3. /\ n \in WorkerType /\ n.pc = p /\ n.left = m.left /\ n.wake = m.wake
      /\ n.result = m.result /\ n.after = m.after
  BY <1>2 DEF WorkerType
<1>4. worker' = [worker EXCEPT ![q] = n]
  BY <1>1, <1>2 DEF WorkerGoto
<1>5. WorkerBecomes(q, n)
  BY <1>3, <1>4, WorkerStep
<1> QED
  BY <1>1, <1>3, <1>5

\* A worker that goes somewhere, until a time.
LEMMA WorkerSleeps ==
    ASSUME worker \in [Queues -> WorkerType], NEW q \in Queues, NEW p \in Places, NEW w \in Nat,
           Sleeps(q, p, w)
    PROVE  \E n : WorkerBecomes(q, n) /\ n.pc = p /\ n.wake = w /\ n.left = worker[q].left
<1>1. PICK m \in WorkerType : m = worker[q]
  OBVIOUS
<1>2. PICK n : n = [m EXCEPT !.pc = p, !.wake = w]
  OBVIOUS
<1>3. n \in WorkerType /\ n.pc = p /\ n.wake = w /\ n.left = m.left
  BY <1>2 DEF WorkerType
<1>4. worker' = [worker EXCEPT ![q] = n]
  BY <1>1, <1>2 DEF Sleeps
<1>5. WorkerBecomes(q, n)
  BY <1>3, <1>4, WorkerStep
<1> QED
  BY <1>1, <1>3, <1>5

\* A worker that has ended.
LEMMA WorkerRests ==
    ASSUME worker \in [Queues -> WorkerType], NEW q \in Queues,
           worker' = [worker EXCEPT ![q] = IdleWorker]
    PROVE  \E n : WorkerBecomes(q, n) /\ n.pc = "idle"
BY WorkerStep, IdleWorkerFields

\* A worker that learns how its request, or its fetch, has ended.
LEMMA WorkerLearns ==
    ASSUME worker \in [Queues -> WorkerType], NEW q \in Queues, NEW p \in Places,
           NEW r \in {"ok", "failed", "blocked"}
    PROVE  /\ Learns(q, p, r) =>
                 \E n : WorkerBecomes(q, n) /\ n.pc = p /\ n.result = r /\ n.left = worker[q].left
           /\ \A a \in Nat : LearnsOf(q, p, r, a) =>
                 \E n : WorkerBecomes(q, n) /\ n.pc = p /\ n.result = r /\ n.after = a
           /\ \A w \in Nat : Stops(q, p, r, w) =>
                 \E n : WorkerBecomes(q, n) /\ n.pc = p /\ n.result = r
<1>1. PICK m \in WorkerType : m = worker[q] /\ m.left = worker[q].left
  OBVIOUS
<1>2. PICK o : o = [m EXCEPT !.pc = p, !.result = r]
  OBVIOUS
<1>3. o \in WorkerType /\ o.pc = p /\ o.result = r /\ o.left = worker[q].left
  BY <1>1, <1>2 DEF WorkerType
<1>4. ASSUME Learns(q, p, r)
      PROVE  WorkerBecomes(q, o)
  <2>1. worker' = [worker EXCEPT ![q] = o]
    BY <1>1, <1>2, <1>4 DEF Learns
  <2> QED
    BY <1>3, <2>1, WorkerStep
<1>5. ASSUME NEW a \in Nat, LearnsOf(q, p, r, a)
      PROVE  \E n : WorkerBecomes(q, n) /\ n.pc = p /\ n.result = r /\ n.after = a
  <2>1. PICK n : n = [o EXCEPT !.after = a]
    OBVIOUS
  <2>2. n \in WorkerType /\ n.pc = p /\ n.result = r /\ n.after = a
    BY <1>3, <2>1 DEF WorkerType
  <2>3. worker' = [worker EXCEPT ![q] = n]
    BY <1>1, <1>2, <1>5, <2>1 DEF LearnsOf
  <2> QED
    BY <2>2, <2>3, WorkerStep
<1>6. ASSUME NEW w \in Nat, Stops(q, p, r, w)
      PROVE  \E n : WorkerBecomes(q, n) /\ n.pc = p /\ n.result = r
  <2>1. PICK n : n = [o EXCEPT !.wake = w]
    OBVIOUS
  <2>2. n \in WorkerType /\ n.pc = p /\ n.result = r
    BY <1>3, <2>1 DEF WorkerType
  <2>3. worker' = [worker EXCEPT ![q] = n]
    BY <1>1, <1>2, <1>6, <2>1 DEF Stops
  <2> QED
    BY <2>2, <2>3, WorkerStep
<1> QED
  BY <1>3, <1>4, <1>5, <1>6

\* A worker that sends its request.
LEMMA WorkerSends ==
    ASSUME worker \in [Queues -> WorkerType], NEW q \in Queues, NEW p \in Places,
           NEW l \in Nat, NEW w \in Nat, Leaves(q, p, l, w)
    PROVE  \E n : WorkerBecomes(q, n) /\ n.pc = p
<1>1. PICK m \in WorkerType : m = worker[q]
  OBVIOUS
<1>2. PICK o : o = [m EXCEPT !.pc = p, !.left = l]
  OBVIOUS
<1>3. o \in WorkerType /\ o.pc = p
  BY <1>2 DEF WorkerType
<1>4. PICK n : n = [o EXCEPT !.wake = w]
  OBVIOUS
<1>5. n \in WorkerType /\ n.pc = p
  BY <1>3, <1>4 DEF WorkerType
<1>6. worker' = [worker EXCEPT ![q] = n]
  BY <1>1, <1>2, <1>4 DEF Leaves
<1> QED
  BY <1>5, <1>6, WorkerStep

\* The invariant of a beginning.
LEMMA ChinazInitInv == ChinazInit => ChinazInv
<1> SUFFICES ASSUME ChinazInit
             PROVE  ChinazInv
  OBVIOUS
<1>1. /\ worker \in [Queues -> WorkerType] /\ refusals \in [Queues -> {0}]
      /\ \A q \in Queues : worker[q].pc = "idle" /\ refusals[q] = 0
  BY IdleWorkerFields DEF ChinazInit
<1>2. ChinazTypeOK
  BY <1>1 DEF ChinazInit, ChinazTypeOK, WorkerType, Places
<1> QED
  BY <1>1, <1>2
  DEF ChinazInit, ChinazInv, ChinazHolder, ChinazPace, ChinazSilence, ChinazOutage, AtSlot,
      Releasing, Recording

\* Time passes only where nobody is about to release or to record.
LEMMA ChinazTickInv ==
    ASSUME ChinazInv, ChinazTick
    PROVE  ChinazInv'
<1>1. /\ clock' = clock + 1
      /\ UNCHANGED <<requestSlot, nextRequest, cooldownUntil, supplementFailures, worker,
                     lastRequest, quietUntil, refusals>>
  BY DEF ChinazTick, source, chinazHistory
<1>2. \A q \in Queues : /\ ~Releasing(q) /\ ~Recording(q)
                        /\ worker[q].pc = "pace" => clock < worker[q].wake
  BY DEF ChinazTick, WorkerWaits, Releasing, Recording
<1>3. ChinazTypeOK'
  BY <1>1, ChinazTypes DEF ChinazTypeOK, WorkerType, Places
<1>4. \A q \in Queues : worker[q].wake \in Nat
  BY ChinazTypes, WorkerFields
<1>5. ChinazHolder' /\ ChinazPace'
  BY <1>1, <1>2, <1>4, ChinazTypes DEF ChinazInv, ChinazHolder, ChinazPace
<1>6. ChinazSilence'
  BY <1>1, <1>2, ChinazTypes DEF ChinazInv, ChinazSilence, Releasing, Recording
<1>7. ChinazOutage'
  BY <1>1, <1>2, <1>4, ChinazTypes DEF ChinazInv, ChinazOutage, Spared, Releasing, Recording
<1> QED
  BY <1>3, <1>5, <1>6, <1>7 DEF ChinazInv

\* Two gates, a claim, and the beginning of a fetch.
LEMMA ChinazGates ==
    ASSUME ChinazInv, NEW q \in Queues,
           \/ GateBeforeClaim(q) \/ GateOpens(q) \/ Claim(q)
           \/ ChinazWaitReady(q) \/ Ready(q) \/ Begin(q)
    PROVE  ChinazInv'
<1> DEFINE m == worker[q]
<1>1. UNCHANGED <<clock, requestSlot, nextRequest, cooldownUntil, supplementFailures,
                  lastRequest, quietUntil, refusals>>
  BY DEF GateBeforeClaim, GateOpens, Claim, ChinazWaitReady, Ready,
         Begin, Woken, source, chinazHistory
<1>2. worker \in [Queues -> WorkerType] /\ cooldownUntil \in Nat /\ m \in WorkerType
  BY ChinazTypes
<1>3. PICK n : /\ WorkerBecomes(q, n)
               /\ \/ /\ m.pc \in {"idle", "ready"} /\ cooldownUntil > clock
                     /\ n.pc = (IF m.pc = "idle" THEN "gate" ELSE "hold")
                     /\ n.wake = cooldownUntil
                  \/ /\ m.pc \in {"idle", "ready"} /\ cooldownUntil <= clock
                     /\ n.pc = IF m.pc = "idle" THEN "claim" ELSE "begin"
                  \/ /\ m.pc \in {"gate", "hold"} /\ clock >= m.wake
                     /\ n.pc = IF m.pc = "gate" THEN "claim" ELSE "begin"
                  \/ m.pc = "claim" /\ n.pc \in {"ready", "idle"}
                  \/ m.pc = "begin" /\ n.pc = "slot" /\ n.left > 0
  <2>1. CASE GateBeforeClaim(q) \/ ChinazWaitReady(q)
    <3>1. PICK sleep \in Places, then \in Places :
              /\ m.pc \in {"idle", "ready"}
              /\ sleep = (IF m.pc = "idle" THEN "gate" ELSE "hold")
              /\ then = IF m.pc = "idle" THEN "claim" ELSE "begin"
              /\ Await(q, cooldownUntil, sleep, then)
      BY <2>1 DEF GateBeforeClaim, ChinazWaitReady, Places
    <3>2. CASE cooldownUntil > clock
      <4>1. Sleeps(q, sleep, cooldownUntil)
        BY <3>1, <3>2 DEF Await, Sleeps
      <4>2. \E n : WorkerBecomes(q, n) /\ n.pc = sleep /\ n.wake = cooldownUntil
        BY <1>2, <4>1, WorkerSleeps
      <4> QED
        BY <3>1, <3>2, <4>2
    <3>3. CASE ~(cooldownUntil > clock)
      <4>1. Sleeps(q, then, 0)
        BY <3>1, <3>3 DEF Await, Sleeps
      <4>2. \E n : WorkerBecomes(q, n) /\ n.pc = then
        BY <1>2, <4>1, WorkerSleeps
      <4> QED
        BY <3>1, <3>3, <4>2, ChinazTypes
    <3> QED
      BY <3>2, <3>3
  <2>2. CASE GateOpens(q) \/ Ready(q)
    <3>1. PICK then \in Places :
              /\ m.pc \in {"gate", "hold"} /\ clock >= m.wake
              /\ then = IF m.pc = "gate" THEN "claim" ELSE "begin"
              /\ WorkerGoto(q, then)
      BY <2>2 DEF GateOpens, Ready, Woken, Places
    <3>2. \E n : WorkerBecomes(q, n) /\ n.pc = then
      BY <1>2, <3>1, WorkerGoes
    <3> QED
      BY <3>1, <3>2
  <2>3. CASE Claim(q)
    <3>1. PICK then \in Places : then \in {"ready", "idle"} /\ WorkerGoto(q, then)
      BY <2>3 DEF Claim, Places
    <3>2. \E n : WorkerBecomes(q, n) /\ n.pc = then
      BY <1>2, <3>1, WorkerGoes
    <3> QED
      BY <2>3, <3>1, <3>2 DEF Claim
  <2>4. CASE Begin(q)
    <3>1. PICK i \in WorkerType : i = IdleWorker
      BY IdleWorkerFields
    <3>2. PICK l \in Nat, d \in Nat :
              l = Requests[q] /\ l > 0 /\ d = clock + Timeout[q]
      BY ChinazConstants, ChinazTypes
    <3>3. PICK o : o = [i EXCEPT !.pc = "slot", !.left = l]
      OBVIOUS
    <3>4. o \in WorkerType /\ o.pc = "slot" /\ o.left = l
      BY <3>1, <3>3 DEF WorkerType, Places
    <3>5. PICK n : n = [o EXCEPT !.deadline = d]
      OBVIOUS
    <3>6. n \in WorkerType /\ n.pc = "slot" /\ n.left = l
      BY <3>4, <3>5 DEF WorkerType
    <3>7. worker' = [worker EXCEPT ![q] = n]
      BY <2>4, <3>1, <3>2, <3>3, <3>5 DEF Begin
    <3>8. WorkerBecomes(q, n)
      BY <1>2, <3>6, <3>7 DEF WorkerBecomes
    <3> QED
      BY <2>4, <3>2, <3>6, <3>8 DEF Begin
  <2> QED
    BY <2>1, <2>2, <2>3, <2>4
<1>4. /\ m.pc \in {"idle", "gate", "claim", "ready", "hold", "begin"}
      /\ n.pc \in {"idle", "gate", "claim", "ready", "hold", "begin", "slot"}
      /\ n.pc = "slot" => n.left > 0
  BY <1>3
<1>5. ChinazTypeOK'
  BY <1>1, <1>3, ChinazTypes DEF ChinazTypeOK, WorkerBecomes, WorkerType, Places
<1>6. ChinazHolder' /\ ChinazPace'
  BY <1>1, <1>3, <1>4 DEF ChinazInv, ChinazHolder, ChinazPace, WorkerBecomes, AtSlot
<1>7. /\ \A p \in Queues : Releasing(p)' <=> Releasing(p)
      /\ \A p \in Queues : Recording(p)' <=> Recording(p)
  BY <1>3, <1>4 DEF Releasing, Recording, WorkerBecomes
<1>8. ChinazSilence'
  <2>1. \A p \in Queues : Releasing(p) \/ Recording(p) => p # q
    BY <1>4 DEF Releasing, Recording
  <2> QED
    BY <1>1, <1>3, <1>4, <1>7, <2>1
    DEF ChinazInv, ChinazSilence, WorkerBecomes, Within, Closed
<1>9. ChinazOutage'
  <2>1. \A p \in Queues : p # q /\ Spared(p) => Spared(p)'
    BY <1>1, <1>3, <1>7 DEF Spared, WorkerBecomes
  <2>2. Spared(q) => Spared(q)'
    <3>1. (\E p \in Queues : Recording(p)) => cooldownUntil > clock
      BY ChinazTypes, ChinazConstants DEF ChinazInv, ChinazSilence, Closed
    <3>2. m.wake \in Nat
      BY <1>2, WorkerFields
    <3> QED
      BY <1>1, <1>3, <1>4, <1>7, <3>1, <3>2, ChinazTypes DEF Spared, WorkerBecomes, AtSlot
  <2> QED
    BY <1>1, <1>7, <2>1, <2>2 DEF ChinazInv, ChinazOutage
<1> QED
  BY <1>5, <1>6, <1>8, <1>9 DEF ChinazInv

\* A step of a fetch at which nothing is sent, answered or learnt about the circuit.
LEMMA ChinazCalm ==
    ASSUME ChinazInv, NEW q \in Queues, NEW n, WorkerBecomes(q, n),
           UNCHANGED <<clock, nextRequest, cooldownUntil, supplementFailures, lastRequest,
                       quietUntil>>,
           worker[q].pc \in {"slot", "pace", "check", "merge"},
           n.pc \in {"slot", "check", "wait", "record"},
           n.pc = "record" => n.result # "blocked",
           n.pc # "record" => n.left > 0 /\ worker[q].pc # "pace",
           n.pc = "wait" => cooldownUntil <= clock /\ quietUntil <= clock,
           requestSlot' \in Queues \cup {Nobody},
           n.pc \in AtSlot => requestSlot' = q,
           \A p \in Queues \ {q} : worker[p].pc \in AtSlot => requestSlot' = p,
           refusals' \in [Queues -> Nat], \A p \in Queues \ {q} : refusals'[p] = refusals[p],
           \/ refusals'[q] = refusals[q]
           \/ refusals'[q] = 1 /\ n.pc = "record" /\ \A p \in Queues : ~Releasing(p)
    PROVE  ChinazInv'
<1>1. /\ \A p \in Queues : Releasing(p)' <=> Releasing(p)
      /\ \A p \in Queues : Recording(p)' <=> Recording(p)
      /\ ~Releasing(q) /\ ~Recording(q)
  BY DEF Releasing, Recording, WorkerBecomes
<1>2. ChinazTypeOK'
  BY ChinazTypes DEF ChinazTypeOK, WorkerBecomes, WorkerType, Places
<1>3. ChinazHolder' /\ ChinazPace'
  BY DEF ChinazInv, ChinazHolder, ChinazPace, WorkerBecomes, AtSlot
<1>4. ChinazSilence'
  BY <1>1, ChinazTypes DEF ChinazInv, ChinazSilence, WorkerBecomes, Within, Closed
<1>5. ChinazOutage'
  <2>1. \A p \in Queues : p # q /\ Spared(p) => Spared(p)'
    BY <1>1 DEF Spared, WorkerBecomes
  <2>2. n.pc = "record" \/ Spared(q) => Spared(q)'
    BY <1>1 DEF Spared, WorkerBecomes, AtSlot
  <2> QED
    BY <1>1, <2>1, <2>2 DEF ChinazInv, ChinazOutage
<1> QED
  BY <1>2, <1>3, <1>4, <1>5 DEF ChinazInv

\* The deadline passes.
LEMMA ChinazExpires ==
    ASSUME ChinazInv, NEW q \in Queues, Expire(q)
    PROVE  ChinazInv'
<1>1. Stops(q, "record", "failed", 0) /\ worker[q].pc \in {"slot", "pace"}
  BY DEF Expire, Stops
<1>2. PICK n : WorkerBecomes(q, n) /\ n.pc = "record" /\ n.result = "failed"
  <2>1. "record" \in Places /\ "failed" \in {"ok", "failed", "blocked"} /\ 0 \in Nat
    BY DEF Places
  <2> QED
    BY <1>1, <2>1, WorkerLearns, ChinazTypes
<1>3. /\ UNCHANGED <<clock, nextRequest, cooldownUntil, supplementFailures, lastRequest,
                     quietUntil, refusals>>
      /\ requestSlot' = IF requestSlot = q THEN Nobody ELSE requestSlot
  BY DEF Expire, chinazHistory
<1>4. \A p \in Queues \ {q} : worker[p].pc \in AtSlot => requestSlot' = p
  BY <1>3 DEF ChinazInv, ChinazHolder
<1>5. n.pc \notin AtSlot
  BY <1>2 DEF AtSlot
<1> QED
  BY <1>1, <1>2, <1>3, <1>4, <1>5, ChinazTypes, ChinazCalm

\* The slot is taken.
LEMMA ChinazTakes ==
    ASSUME ChinazInv, NEW q \in Queues, TakeRequestSlot(q)
    PROVE  ChinazInv'
<1>1. PICK n : WorkerBecomes(q, n) /\ n.pc = "check" /\ n.left = worker[q].left
  <2>1. "check" \in Places /\ WorkerGoto(q, "check")
    BY DEF Places, TakeRequestSlot
  <2> QED
    BY <2>1, WorkerGoes, ChinazTypes
<1>2. /\ UNCHANGED <<clock, nextRequest, cooldownUntil, supplementFailures, lastRequest,
                     quietUntil, refusals>>
      /\ requestSlot = Nobody /\ requestSlot' = q /\ worker[q].pc = "slot"
  BY DEF TakeRequestSlot, chinazHistory
<1>3. n.left > 0
  BY <1>1, <1>2 DEF ChinazInv, ChinazHolder
<1>4. \A p \in Queues \ {q} : worker[p].pc \in AtSlot => requestSlot' = p
  BY <1>2, ChinazConstants DEF ChinazInv, ChinazHolder
<1> QED
  BY <1>1, <1>2, <1>3, <1>4, ChinazTypes, ChinazCalm

\* The circuit is looked at.
LEMMA ChinazChecks ==
    ASSUME ChinazInv, NEW q \in Queues, CheckCircuit(q)
    PROVE  ChinazInv'
<1>1. /\ UNCHANGED <<clock, nextRequest, cooldownUntil, supplementFailures, lastRequest,
                     quietUntil>>
      /\ worker[q].pc = "check"
  BY DEF CheckCircuit
<1>2. requestSlot = q /\ worker[q].left > 0
      /\ \A p \in Queues \ {q} : worker[p].pc \notin AtSlot
  BY <1>1 DEF ChinazInv, ChinazHolder, AtSlot
<1>3. \A p \in Queues : ~Releasing(p)
  BY <1>1, <1>2 DEF Releasing, AtSlot
<1>4. CASE cooldownUntil > clock
  <2>1. /\ Learns(q, "record", "failed") /\ requestSlot' = Nobody
        /\ refusals' = [refusals EXCEPT ![q] = @ + 1]
    BY <1>4 DEF CheckCircuit, Learns
  <2>2. PICK n : WorkerBecomes(q, n) /\ n.pc = "record" /\ n.result = "failed"
    <3>1. "record" \in Places /\ "failed" \in {"ok", "failed", "blocked"}
      BY DEF Places
    <3> QED
      BY <2>1, <3>1, WorkerLearns, ChinazTypes
  <2>3. ~Spared(q)
    BY <1>1, <1>4, ChinazTypes DEF Spared, AtSlot
  <2>4. refusals[q] = 0
    BY <2>3 DEF ChinazInv, ChinazOutage
  <2>5. /\ refusals' \in [Queues -> Nat] /\ refusals'[q] = 1
        /\ \A p \in Queues \ {q} : refusals'[p] = refusals[p]
    BY <2>1, <2>4, ChinazTypes
  <2>6. n.pc \notin AtSlot
    BY <2>2 DEF AtSlot
  <2> QED
    BY <1>1, <1>2, <1>3, <2>1, <2>2, <2>5, <2>6, ChinazCalm
<1>5. CASE ~(cooldownUntil > clock)
  <2>1. WorkerGoto(q, "wait") /\ UNCHANGED <<requestSlot, refusals>>
    BY <1>5 DEF CheckCircuit
  <2>2. PICK n : WorkerBecomes(q, n) /\ n.pc = "wait" /\ n.left = worker[q].left
    <3>1. "wait" \in Places
      BY DEF Places
    <3> QED
      BY <2>1, <3>1, WorkerGoes, ChinazTypes
  <2>3. cooldownUntil <= clock /\ quietUntil <= clock
    BY <1>3, <1>5, ChinazTypes DEF ChinazInv, ChinazSilence
  <2> QED
    BY <1>1, <1>2, <2>1, <2>2, <2>3, ChinazTypes, ChinazCalm
<1> QED
  BY <1>4, <1>5

\* An answer is merged.
LEMMA ChinazMerges ==
    ASSUME ChinazInv, NEW q \in Queues, Merge(q)
    PROVE  ChinazInv'
<1>1. /\ UNCHANGED <<clock, requestSlot, nextRequest, cooldownUntil, supplementFailures,
                     lastRequest, quietUntil, refusals>>
      /\ worker[q].pc = "merge"
  BY DEF Merge, source, chinazHistory
<1>2. PICK n : /\ WorkerBecomes(q, n)
               /\ \/ n.pc = "slot" /\ n.left > 0
                  \/ n.pc = "record" /\ n.result # "blocked"
  <2>1. "slot" \in Places /\ "record" \in Places
    BY DEF Places
  <2>2. CASE worker[q].left > 0 /\ WorkerGoto(q, "slot")
    <3>1. \E n : WorkerBecomes(q, n) /\ n.pc = "slot" /\ n.left = worker[q].left
      BY <2>1, <2>2, WorkerGoes, ChinazTypes
    <3> QED
      BY <2>2, <3>1
  <2>3. CASE \E r \in {"ok", "failed"} :
                worker' = [worker EXCEPT ![q].pc = "record", ![q].result = r]
    <3>1. PICK r \in {"ok", "failed", "blocked"} : r # "blocked" /\ Learns(q, "record", r)
      BY <2>3 DEF Learns
    <3>2. \E n : WorkerBecomes(q, n) /\ n.pc = "record" /\ n.result = r
      BY <2>1, <3>1, WorkerLearns, ChinazTypes
    <3> QED
      BY <3>1, <3>2
  <2> QED
    BY <2>2, <2>3 DEF Merge
<1>3. n.pc \notin AtSlot
  BY <1>2 DEF AtSlot
<1>4. \A p \in Queues \ {q} : worker[p].pc \in AtSlot => requestSlot' = p
  BY <1>1 DEF ChinazInv, ChinazHolder
<1> QED
  BY <1>1, <1>2, <1>3, <1>4, ChinazTypes, ChinazCalm

\* The next request is given its time.
LEMMA ChinazWaits ==
    ASSUME ChinazInv, NEW q \in Queues, WaitForSlot(q)
    PROVE  ChinazInv'
<1>1. PICK w \in Nat, delay \in Nat :
          /\ w >= clock /\ w >= nextRequest /\ delay >= MinDelay
          /\ nextRequest' = w + delay /\ Sleeps(q, "pace", w)
  <2>1. PICK delay \in MinDelay..MaxDelay : nextRequest' = Reserved(delay)
    BY DEF WaitForSlot
  <2>2. PICK w \in Nat : w = Later(clock, nextRequest)
    BY ChinazTypes DEF Later
  <2>3. w >= clock /\ w >= nextRequest /\ delay \in Nat /\ delay >= MinDelay
    BY <2>2, ChinazTypes, ChinazConstants DEF Later
  <2>4. nextRequest' = w + delay /\ Sleeps(q, "pace", w)
    BY <2>1, <2>2 DEF WaitForSlot, Reserved, Sleeps
  <2> QED
    BY <2>3, <2>4
<1>2. /\ UNCHANGED <<clock, requestSlot, cooldownUntil, supplementFailures, lastRequest,
                     quietUntil, refusals>>
      /\ worker[q].pc = "wait"
  BY DEF WaitForSlot, chinazHistory
<1>3. PICK n : /\ WorkerBecomes(q, n) /\ n.pc = "pace" /\ n.wake = w
               /\ n.left = worker[q].left
  <2>1. "pace" \in Places
    BY DEF Places
  <2> QED
    BY <1>1, <2>1, WorkerSleeps, ChinazTypes
<1>4. /\ requestSlot = q /\ worker[q].left > 0
      /\ \A p \in Queues \ {q} : worker[p].pc \notin AtSlot
  BY <1>2 DEF ChinazInv, ChinazHolder, AtSlot
<1>5. /\ \A p \in Queues : Releasing(p)' <=> Releasing(p)
      /\ \A p \in Queues : Recording(p)' <=> Recording(p)
  BY <1>2, <1>3 DEF Releasing, Recording, WorkerBecomes
<1>6. ChinazTypeOK'
  <2>1. nextRequest' \in Nat
    BY <1>1
  <2> QED
    BY <1>2, <1>3, <2>1, ChinazTypes DEF ChinazTypeOK, WorkerBecomes, WorkerType, Places
<1>7. ChinazHolder'
  BY <1>2, <1>3, <1>4 DEF ChinazInv, ChinazHolder, WorkerBecomes, AtSlot
<1>8. ChinazPace'
  <2>1. lastRequest > 0 => nextRequest >= lastRequest + MinDelay
    BY DEF ChinazInv, ChinazPace
  <2>2. \A p \in Queues \ {q} : worker'[p].pc # "pace"
    BY <1>3, <1>4 DEF WorkerBecomes, AtSlot
  <2>3. worker'[q].wake = w
    BY <1>3 DEF WorkerBecomes
  <2> QED
    BY <1>1, <1>2, <2>1, <2>2, <2>3, ChinazTypes, ChinazConstants DEF ChinazPace
<1>9. ChinazSilence'
  <2>1. ASSUME NEW p \in Queues
        PROVE  /\ worker'[p].pc \in {"wait", "pace", "request"} => quietUntil <= clock
               /\ worker'[p].pc \in {"wait", "pace", "request", "release"}
                     => cooldownUntil <= clock
    BY <1>2, <1>3 DEF ChinazInv, ChinazSilence, WorkerBecomes
  <2>2. ASSUME NEW p \in Queues
        PROVE  /\ Releasing(p)' => Within(p, quietUntil)'
               /\ Recording(p)' => Closed(p, cooldownUntil)' /\ Within(p, quietUntil)'
    <3>1. CASE p = q
      BY <1>2, <1>3, <3>1 DEF WorkerBecomes, Releasing, Recording
    <3>2. CASE p # q
      BY <1>2, <1>3, <1>5, <3>2 DEF ChinazInv, ChinazSilence, WorkerBecomes, Within, Closed
    <3> QED
      BY <3>1, <3>2
  <2> QED
    BY <1>2, <1>5, <2>1, <2>2 DEF ChinazInv, ChinazSilence
<1>10. ChinazOutage'
  <2>1. \A p \in Queues : Spared(p) => Spared(p)'
    BY <1>2, <1>3, <1>5 DEF Spared, WorkerBecomes, AtSlot
  <2> QED
    BY <1>2, <1>5, <2>1 DEF ChinazInv, ChinazOutage
<1> QED
  BY <1>6, <1>7, <1>8, <1>9, <1>10 DEF ChinazInv

\* When a request leaves, its time has come, no other is under way, and the silence is over.
LEMMA ChinazLeaves ==
    ASSUME ChinazInv, NEW q \in Queues, Send(q)
    PROVE  /\ worker[q].wake = clock /\ clock + MinDelay <= nextRequest
           /\ lastRequest > 0 => lastRequest + MinDelay <= clock
           /\ \A p \in Queues \ {q} : worker[p].pc \notin AtSlot
           /\ quietUntil <= clock
<1>1. worker[q].pc = "pace" /\ clock >= worker[q].wake
  BY DEF Send
<1>2. worker[q].wake \in Nat
  BY ChinazTypes, WorkerFields
<1>3. worker[q].wake = clock
  BY <1>1, <1>2, ChinazTypes DEF ChinazInv, ChinazPace
<1>4. \A p \in Queues \ {q} : worker[p].pc \notin AtSlot
  BY <1>1 DEF ChinazInv, ChinazHolder, AtSlot
<1> QED
  BY <1>1, <1>3, <1>4 DEF ChinazInv, ChinazPace, ChinazSilence

\* A request leaves.
LEMMA ChinazSends ==
    ASSUME ChinazInv, NEW q \in Queues, Send(q)
    PROVE  ChinazInv'
<1>1. /\ UNCHANGED <<clock, requestSlot, nextRequest, cooldownUntil, supplementFailures,
                     quietUntil, refusals>>
      /\ lastRequest' = clock /\ worker[q].pc = "pace"
  BY DEF Send, source
<1>2. PICK n : WorkerBecomes(q, n) /\ n.pc = "request"
  <2>1. worker[q].left > 0 /\ worker[q].left \in Nat
    BY <1>1, ChinazTypes, WorkerFields DEF ChinazInv, ChinazHolder
  <2>2. PICK l \in Nat : l = worker[q].left - 1
    BY <2>1
  <2>3. Leaves(q, "request", l, 0)
    BY <2>2 DEF Send, Leaves
  <2>4. "request" \in Places /\ 0 \in Nat
    BY DEF Places
  <2> QED
    BY <2>3, <2>4, WorkerSends, ChinazTypes
<1>3. requestSlot = q /\ \A p \in Queues \ {q} : worker[p].pc \notin AtSlot
  BY <1>1 DEF ChinazInv, ChinazHolder, AtSlot
<1>4. /\ \A p \in Queues : Releasing(p)' <=> Releasing(p)
      /\ \A p \in Queues : Recording(p)' <=> Recording(p)
  BY <1>1, <1>2 DEF Releasing, Recording, WorkerBecomes
<1>5. ChinazTypeOK'
  BY <1>1, <1>2, ChinazTypes DEF ChinazTypeOK, WorkerBecomes, WorkerType, Places
<1>6. ChinazHolder'
  BY <1>1, <1>2, <1>3 DEF ChinazInv, ChinazHolder, WorkerBecomes, AtSlot
<1>7. ChinazPace'
  <2>1. \A p \in Queues : worker'[p].pc # "pace"
    BY <1>2, <1>3 DEF WorkerBecomes, AtSlot
  <2> QED
    BY <1>1, <2>1, ChinazLeaves DEF ChinazPace
<1>8. ChinazSilence'
  <2>1. ASSUME NEW p \in Queues
        PROVE  /\ worker'[p].pc \in {"wait", "pace", "request"} => quietUntil <= clock
               /\ worker'[p].pc \in {"wait", "pace", "request", "release"}
                     => cooldownUntil <= clock
    BY <1>1, <1>2 DEF ChinazInv, ChinazSilence, WorkerBecomes
  <2>2. ASSUME NEW p \in Queues
        PROVE  /\ Releasing(p)' => Within(p, quietUntil)'
               /\ Recording(p)' => Closed(p, cooldownUntil)' /\ Within(p, quietUntil)'
    <3>1. CASE p = q
      BY <1>1, <1>2, <3>1 DEF WorkerBecomes, Releasing, Recording
    <3>2. CASE p # q
      BY <1>1, <1>2, <1>4, <3>2 DEF ChinazInv, ChinazSilence, WorkerBecomes, Within, Closed
    <3> QED
      BY <3>1, <3>2
  <2> QED
    BY <1>1, <1>4, <2>1, <2>2 DEF ChinazInv, ChinazSilence
<1>9. ChinazOutage'
  <2>1. \A p \in Queues : Spared(p) => Spared(p)'
    BY <1>1, <1>2, <1>4 DEF Spared, WorkerBecomes, AtSlot
  <2> QED
    BY <1>1, <1>4, <2>1 DEF ChinazInv, ChinazOutage
<1> QED
  BY <1>5, <1>6, <1>7, <1>8, <1>9 DEF ChinazInv

\* The source answers.
LEMMA ChinazAnswers ==
    ASSUME ChinazInv, NEW q \in Queues, ChinazRespond(q)
    PROVE  ChinazInv'
<1>1. /\ UNCHANGED <<clock, requestSlot, nextRequest, cooldownUntil, supplementFailures,
                     lastRequest>>
      /\ worker[q].pc = "request"
  BY DEF ChinazRespond, source
<1>2. PICK n : /\ WorkerBecomes(q, n) /\ n.pc = "release"
               /\ \/ n.result # "blocked" /\ UNCHANGED <<quietUntil, refusals>>
                  \/ /\ n.result = "blocked"
                     /\ quietUntil' \in Nat
                     /\ \/ quietUntil' = quietUntil
                        \/ quietUntil' <= clock + BaseCooldown
                        \/ quietUntil' <= n.after
                     /\ refusals' = [p \in Queues |-> 0]
  <2>1. "release" \in Places
    BY DEF Places
  <2>2. CASE \E r \in {"ok", "failed"} :
                /\ worker' = [worker EXCEPT ![q].pc = "release", ![q].result = r]
                /\ UNCHANGED <<quietUntil, refusals>>
    <3>1. PICK r \in {"ok", "failed", "blocked"} :
              r # "blocked" /\ Learns(q, "release", r) /\ UNCHANGED <<quietUntil, refusals>>
      BY <2>2 DEF Learns
    <3>2. \E n : WorkerBecomes(q, n) /\ n.pc = "release" /\ n.result = r
      BY <2>1, <3>1, WorkerLearns, ChinazTypes
    <3> QED
      BY <3>1, <3>2
  <2>3. CASE ~(\E r \in {"ok", "failed"} :
                /\ worker' = [worker EXCEPT ![q].pc = "release", ![q].result = r]
                /\ UNCHANGED <<quietUntil, refusals>>)
    <3>1. \E s \in RetryAfters : \E a :
              /\ a = IF s = 0 THEN 0 ELSE clock + s
              /\ LearnsOf(q, "release", "blocked", a)
              /\ quietUntil' = Later(quietUntil, Later(clock + BaseCooldown, a))
              /\ refusals' = [p \in Queues |-> 0]
      BY <2>3 DEF ChinazRespond, LearnsOf
    <3>2. PICK a \in Nat :
              /\ LearnsOf(q, "release", "blocked", a)
              /\ quietUntil' = Later(quietUntil, Later(clock + BaseCooldown, a))
              /\ refusals' = [p \in Queues |-> 0]
      BY <3>1, ChinazTypes, ChinazConstants
    <3>3. \E n : WorkerBecomes(q, n) /\ n.pc = "release" /\ n.result = "blocked" /\ n.after = a
      <4>1. "blocked" \in {"ok", "failed", "blocked"}
        OBVIOUS
      <4> QED
        BY <2>1, <3>2, <4>1, WorkerLearns, ChinazTypes
    <3>4. /\ quietUntil' \in Nat
          /\ \/ quietUntil' = quietUntil
             \/ quietUntil' <= clock + BaseCooldown
             \/ quietUntil' <= a
      BY <3>2, ChinazTypes, ChinazConstants DEF Later
    <3> QED
      BY <3>2, <3>3, <3>4
  <2> QED
    BY <2>2, <2>3
<1>3. requestSlot = q /\ \A p \in Queues \ {q} : worker[p].pc \notin AtSlot
  BY <1>1 DEF ChinazInv, ChinazHolder, AtSlot
<1>4. quietUntil <= clock /\ cooldownUntil <= clock
  BY <1>1 DEF ChinazInv, ChinazSilence
<1>5. /\ \A p \in Queues : ~Recording(p) /\ ~Recording(p)'
      /\ \A p \in Queues \ {q} : ~Releasing(p)'
      /\ Releasing(q)' <=> n.result = "blocked"
  <2>1. \A p \in Queues : ~Recording(p)
    BY <1>4, ChinazTypes, ChinazConstants DEF ChinazInv, ChinazSilence, Closed
  <2> QED
    BY <1>2, <1>3, <2>1 DEF Releasing, Recording, WorkerBecomes, AtSlot
<1>6. ChinazTypeOK'
  <2>1. quietUntil' \in Nat /\ refusals' \in [Queues -> Nat]
    BY <1>2, ChinazTypes
  <2> QED
    BY <1>1, <1>2, <2>1, ChinazTypes DEF ChinazTypeOK, WorkerBecomes, WorkerType, Places
<1>7. ChinazHolder' /\ ChinazPace'
  BY <1>1, <1>2, <1>3 DEF ChinazInv, ChinazHolder, ChinazPace, WorkerBecomes, AtSlot
<1>8. ChinazSilence'
  <2>1. \A p \in Queues : worker'[p].pc \notin {"wait", "pace", "request"}
    BY <1>2, <1>3 DEF WorkerBecomes, AtSlot
  <2>2. Releasing(q)' => Within(q, quietUntil)'
    BY <1>1, <1>2, <1>4, <1>5, ChinazTypes, ChinazConstants DEF Within, WorkerBecomes
  <2>3. \/ quietUntil' <= clock'
        \/ \E p \in Queues : Releasing(p)'
    BY <1>1, <1>2, <1>4, <1>5
  <2>4. cooldownUntil' <= clock'
    BY <1>1, <1>4
  <2> QED
    BY <1>5, <2>1, <2>2, <2>3, <2>4 DEF ChinazSilence
<1>9. ChinazOutage'
  <2>1. \A p \in Queues : Spared(p) => Spared(p)'
    BY <1>1, <1>2, <1>5 DEF Spared, WorkerBecomes, AtSlot
  <2> QED
    BY <1>2, <1>5, <2>1 DEF ChinazInv, ChinazOutage
<1> QED
  BY <1>6, <1>7, <1>8, <1>9 DEF ChinazInv

\* The slot is released, and the circuit closed before it if the source has blocked.
LEMMA ChinazReleases ==
    ASSUME ChinazInv, NEW q \in Queues, ReleaseSlot(q)
    PROVE  ChinazInv'
<1>1. /\ UNCHANGED <<clock, nextRequest, supplementFailures, lastRequest, quietUntil, refusals>>
      /\ requestSlot' = Nobody /\ worker[q].pc = "release"
      /\ cooldownUntil' = ClosedBy(q)
  BY DEF ReleaseSlot, chinazHistory
<1>2. PICK n : /\ WorkerBecomes(q, n) /\ n.result = worker[q].result
               /\ n.after = worker[q].after
               /\ n.pc = IF n.result = "ok" THEN "merge" ELSE "record"
  <2>1. PICK p \in Places : /\ p = (IF worker[q].result = "ok" THEN "merge" ELSE "record")
                            /\ WorkerGoto(q, p)
    BY DEF ReleaseSlot, Places
  <2>2. PICK n : /\ WorkerBecomes(q, n) /\ n.pc = p /\ n.result = worker[q].result
                 /\ n.after = worker[q].after
    BY <2>1, WorkerGoes, ChinazTypes
  <2> QED
    BY <2>1, <2>2
<1>3. requestSlot = q /\ \A p \in Queues \ {q} : worker[p].pc \notin AtSlot
  BY <1>1 DEF ChinazInv, ChinazHolder, AtSlot
<1>4. cooldownUntil <= clock /\ \A p \in Queues : ~Recording(p)
  BY <1>1, ChinazTypes, ChinazConstants DEF ChinazInv, ChinazSilence, Closed
<1>5. /\ \A p \in Queues : ~Releasing(p)'
      /\ \A p \in Queues \ {q} : ~Releasing(p) /\ ~Recording(p)'
      /\ Recording(q)' <=> Releasing(q)
  BY <1>1, <1>2, <1>3, <1>4 DEF Releasing, Recording, WorkerBecomes, AtSlot
<1>6. /\ cooldownUntil' \in Nat
      /\ ~Releasing(q) => cooldownUntil' = cooldownUntil
      /\ Releasing(q) => Closed(q, cooldownUntil') /\ (Within(q, quietUntil) =>
                                                           quietUntil <= cooldownUntil')
  <2>1. worker[q].after \in Nat
    BY ChinazTypes, WorkerFields
  <2> QED
    BY <1>1, <2>1, ChinazTypes, ChinazConstants
    DEF ClosedBy, Later, Releasing, Closed, Within
<1>7. ChinazTypeOK'
  BY <1>1, <1>2, <1>6, ChinazTypes DEF ChinazTypeOK, WorkerBecomes, WorkerType, Places
<1>8. ChinazHolder' /\ ChinazPace'
  BY <1>1, <1>2, <1>3 DEF ChinazInv, ChinazHolder, ChinazPace, WorkerBecomes, AtSlot
<1>9. ChinazSilence'
  <2>1. \A p \in Queues : worker'[p].pc \notin {"wait", "pace", "request", "release"}
    BY <1>2, <1>3 DEF WorkerBecomes, AtSlot
  <2>2. Recording(q)' => Closed(q, cooldownUntil)' /\ Within(q, quietUntil)'
    <3>1. Releasing(q) => Within(q, quietUntil)
      BY DEF ChinazInv, ChinazSilence
    <3>2. worker'[q].after = worker[q].after
      BY <1>2 DEF WorkerBecomes
    <3> QED
      BY <1>1, <1>5, <1>6, <3>1, <3>2 DEF Closed, Within
  <2>3. quietUntil' <= clock' \/ quietUntil' <= cooldownUntil'
    <3>1. CASE Releasing(q)
      BY <1>1, <1>6, <3>1 DEF ChinazInv, ChinazSilence
    <3>2. CASE ~Releasing(q)
      BY <1>1, <1>5, <1>6, <3>2 DEF ChinazInv, ChinazSilence
    <3> QED
      BY <3>1, <3>2
  <2> QED
    BY <1>5, <2>1, <2>2, <2>3 DEF ChinazSilence
<1>10. ChinazOutage'
  <2>1. CASE Releasing(q)
    <3>1. \A p \in Queues : refusals'[p] = 0
      BY <1>1, <2>1 DEF ChinazInv, ChinazOutage
    <3> QED
      BY <1>5, <3>1 DEF ChinazOutage
  <2>2. CASE ~Releasing(q)
    <3>1. \A p \in Queues : ~Recording(p)'
      BY <1>5, <2>2
    <3>2. \A p \in Queues \ {q} : Spared(p) => Spared(p)'
      BY <1>1, <1>2, <1>6, <2>2, <3>1 DEF Spared, WorkerBecomes
    <3>3. Spared(q)'
      BY <1>1, <1>2, <1>4, <1>6, <2>2, <3>1 DEF Spared, WorkerBecomes, Releasing, AtSlot
    <3> QED
      BY <1>1, <1>5, <3>2, <3>3 DEF ChinazInv, ChinazOutage
  <2> QED
    BY <2>1, <2>2
<1> QED
  BY <1>7, <1>8, <1>9, <1>10 DEF ChinazInv

\* The result of a fetch is recorded, and repeated blocks close the circuit for longer.
LEMMA ChinazRecords ==
    ASSUME ChinazInv, NEW q \in Queues, RecordResult(q)
    PROVE  ChinazInv'
<1>1. /\ UNCHANGED <<clock, requestSlot, nextRequest, lastRequest, quietUntil, refusals>>
      /\ worker[q].pc = "record"
  BY DEF RecordResult, chinazHistory
<1>2. PICK n : WorkerBecomes(q, n) /\ n.pc = "idle"
  BY WorkerRests, ChinazTypes DEF RecordResult
<1>3. /\ cooldownUntil' \in Nat /\ supplementFailures' \in Nat
      /\ ~Recording(q) => cooldownUntil' = cooldownUntil
      /\ Recording(q) => /\ Closed(q, cooldownUntil')
                         /\ Within(q, quietUntil) => quietUntil <= cooldownUntil'
  <2>1. worker[q].after \in Nat /\ worker[q].result \in {"ok", "failed", "blocked"}
    BY ChinazTypes, WorkerFields
  <2>2. CASE worker[q].result = "blocked"
    <3>1. PICK m \in Nat : m = supplementFailures + 1
      BY ChinazTypes
    <3>2. PICK d \in Nat : d = CooldownAfter(m) /\ d >= BaseCooldown
      BY CooldownIsLong
    <3>3. /\ supplementFailures' = m
          /\ cooldownUntil' = Later(clock + d, worker[q].after)
      BY <2>2, <3>1, <3>2 DEF RecordResult
    <3>4. Recording(q)
      BY <1>1, <2>2 DEF Recording
    <3> QED
      BY <2>1, <3>2, <3>3, <3>4, ChinazTypes, ChinazConstants DEF Later, Closed, Within
  <2>3. CASE worker[q].result # "blocked"
    <3>1. cooldownUntil' = cooldownUntil /\ supplementFailures' \in {supplementFailures, 0}
      BY <2>1, <2>3 DEF RecordResult
    <3> QED
      BY <2>3, <3>1, ChinazTypes DEF Recording
  <2> QED
    BY <2>2, <2>3
<1>4. /\ \A p \in Queues : Releasing(p)' <=> Releasing(p)
      /\ \A p \in Queues \ {q} : Recording(p)' <=> Recording(p)
      /\ ~Recording(q)'
  BY <1>1, <1>2 DEF Releasing, Recording, WorkerBecomes
<1>5. Recording(q) =>
          /\ clock < cooldownUntil
          /\ \A p \in Queues : worker[p].pc \notin {"wait", "pace", "request", "release"}
          /\ \A p \in Queues \ {q} : ~Recording(p)
          /\ quietUntil <= cooldownUntil'
  BY <1>3, ChinazTypes, ChinazConstants DEF ChinazInv, ChinazSilence, Closed
<1>6. ChinazTypeOK'
  BY <1>1, <1>2, <1>3, ChinazTypes DEF ChinazTypeOK, WorkerBecomes, WorkerType, Places
<1>7. ChinazHolder' /\ ChinazPace'
  BY <1>1, <1>2 DEF ChinazInv, ChinazHolder, ChinazPace, WorkerBecomes, AtSlot
<1>8. ChinazSilence'
  <2>1. CASE Recording(q)
    <3>1. /\ \A p \in Queues : worker'[p].pc \notin {"wait", "pace", "request", "release"}
          /\ \A p \in Queues : ~Recording(p)' /\ ~Releasing(p)'
      BY <1>2, <1>4, <1>5, <2>1 DEF WorkerBecomes, Releasing
    <3> QED
      BY <1>1, <1>5, <2>1, <3>1 DEF ChinazSilence
  <2>2. CASE ~Recording(q)
    <3>1. cooldownUntil' = cooldownUntil /\ \A p \in Queues : Recording(p)' <=> Recording(p)
      BY <1>3, <1>4, <2>2
    <3>2. ~Releasing(q)
      BY <1>1 DEF Releasing
    <3> QED
      BY <1>1, <1>2, <1>4, <2>2, <3>1, <3>2
      DEF ChinazInv, ChinazSilence, WorkerBecomes, Within, Closed
  <2> QED
    BY <2>1, <2>2
<1>9. ChinazOutage'
  <2>1. CASE Recording(q)
    <3>1. \A p \in Queues : ~Recording(p)'
      BY <1>4, <1>5, <2>1
    <3>2. \A p \in Queues : Spared(p) => Spared(p)'
      <4>1. Spared(q)'
        BY <1>2, <3>1 DEF Spared, WorkerBecomes, AtSlot
      <4>2. ASSUME NEW p \in Queues \ {q}, Spared(p)
            PROVE  Spared(p)'
        <5>1. worker[p].pc \in {"idle", "record", "gate"}
          BY <2>1, <4>2 DEF Spared
        <5> QED
          BY <1>1, <1>2, <3>1, <4>2, <5>1 DEF Spared, WorkerBecomes, AtSlot
      <4> QED
        BY <4>1, <4>2
    <3> QED
      BY <1>1, <1>4, <3>2 DEF ChinazInv, ChinazOutage
  <2>2. CASE ~Recording(q)
    <3>1. cooldownUntil' = cooldownUntil /\ \A p \in Queues : Recording(p)' <=> Recording(p)
      BY <1>3, <1>4, <2>2
    <3>2. \A p \in Queues : Spared(p) => Spared(p)'
      BY <1>1, <1>2, <3>1 DEF Spared, WorkerBecomes, AtSlot
    <3> QED
      BY <1>1, <1>4, <3>2 DEF ChinazInv, ChinazOutage
  <2> QED
    BY <2>1, <2>2
<1> QED
  BY <1>6, <1>7, <1>8, <1>9 DEF ChinazInv

\* The inductive invariant holds always, however many queues there are, and whatever
\* the delays, the base of the cooldown and the Retry-After of the source.
THEOREM ChinazInvariance == ChinazSpec => []ChinazInv
<1>1. ChinazInv /\ [ChinazNext]_chinazVars => ChinazInv'
  <2> SUFFICES ASSUME ChinazInv, [ChinazNext]_chinazVars
               PROVE  ChinazInv'
    OBVIOUS
  <2>1. CASE ChinazTick
    BY <2>1, ChinazTickInv
  <2>2. ASSUME NEW q \in Queues,
               \/ GateBeforeClaim(q) \/ GateOpens(q) \/ Claim(q)
               \/ ChinazWaitReady(q) \/ Ready(q) \/ Begin(q)
        PROVE  ChinazInv'
    BY <2>2, ChinazGates
  <2>3. ASSUME NEW q \in Queues,
               \/ Expire(q) \/ TakeRequestSlot(q) \/ CheckCircuit(q)
               \/ Merge(q)
        PROVE  ChinazInv'
    BY <2>3, ChinazExpires, ChinazTakes, ChinazChecks, ChinazMerges
  <2>4. ASSUME NEW q \in Queues,
               \/ WaitForSlot(q) \/ Send(q) \/ ChinazRespond(q)
               \/ ReleaseSlot(q) \/ RecordResult(q)
        PROVE  ChinazInv'
    BY <2>4, ChinazWaits, ChinazSends, ChinazAnswers, ChinazReleases, ChinazRecords
  <2>5. CASE UNCHANGED chinazVars
    BY <2>5 DEF chinazVars, source, chinazHistory, ChinazInv, ChinazTypeOK,
                ChinazHolder, ChinazPace, ChinazSilence, ChinazOutage, Spared, Releasing,
                Recording, Closed, Within
  <2> QED
    BY <2>1, <2>2, <2>3, <2>4, <2>5 DEF ChinazNext
<1> QED
  BY <1>1, ChinazInitInv, PTL DEF ChinazSpec

\* An outage of Chinaz costs each queue at most one attempt of one job.
THEOREM ChinazOutages == ChinazSpec => []OutageCostsOneAttempt
<1>1. ChinazInv => OutageCostsOneAttempt
  BY DEF ChinazInv, ChinazOutage, OutageCostsOneAttempt
<1> QED
  BY <1>1, ChinazInvariance, PTL

\* A worker only enters a request by sending it.
LEMMA ChinazSending ==
    ASSUME ChinazInv, ChinazNext, NEW q \in Queues, Sends(q)
    PROVE  Send(q)
<1>1. worker[q].pc = "pace" /\ worker'[q].pc = "request"
  BY DEF Sends
<1>2. PICK w : w = worker' /\ worker \in [Queues -> WorkerType]
  BY ChinazTypes
<1>3. ~ChinazTick
  BY <1>1 DEF ChinazTick
<1>4. PICK p \in Queues :
          \/ GateBeforeClaim(p) \/ GateOpens(p) \/ Claim(p)
          \/ ChinazWaitReady(p) \/ Ready(p) \/ Begin(p)
          \/ Expire(p) \/ TakeRequestSlot(p) \/ CheckCircuit(p)
          \/ WaitForSlot(p) \/ Send(p)
          \/ ChinazRespond(p) \/ ReleaseSlot(p) \/ Merge(p)
          \/ RecordResult(p)
  BY <1>3 DEF ChinazNext
<1>5. \E n : worker' = [worker EXCEPT ![p] = n]
  BY <1>4 DEF GateBeforeClaim, GateOpens, Claim, ChinazWaitReady,
              Ready, Begin, Expire, TakeRequestSlot, CheckCircuit,
              WaitForSlot, Send, ChinazRespond, ReleaseSlot,
              Merge, RecordResult, WorkerGoto, Await, Woken
<1>6. p = q
  BY <1>1, <1>2, <1>5
<1>7. Expire(q) \/ Send(q)
  BY <1>1, <1>4, <1>6
  DEF GateBeforeClaim, GateOpens, Claim, ChinazWaitReady, Ready,
      Begin, TakeRequestSlot, CheckCircuit, WaitForSlot, ChinazRespond,
      ReleaseSlot, Merge, RecordResult, Woken
<1>8. ~Expire(q)
  <2>1. ASSUME Expire(q)
        PROVE  worker'[q].pc = "record"
    <3>1. Stops(q, "record", "failed", 0)
      BY <2>1 DEF Expire, Stops
    <3>2. "record" \in Places /\ "failed" \in {"ok", "failed", "blocked"} /\ 0 \in Nat
      BY DEF Places
    <3>3. \E n : WorkerBecomes(q, n) /\ n.pc = "record"
      BY <1>2, <3>1, <3>2, WorkerLearns
    <3> QED
      BY <3>3 DEF WorkerBecomes
  <2> QED
    BY <1>1, <2>1
<1> QED
  BY <1>7, <1>8

\* Two requests to Chinaz, of whatever queues, leave at least MinDelay apart, and never
\* while another is under way.
THEOREM ChinazPacing == ChinazSpec => RequestsArePaced
<1> DEFINE Held == \A q \in Queues : Sends(q) =>
                      /\ lastRequest > 0 => clock >= lastRequest + MinDelay
                      /\ \A p \in Queues : worker[p].pc # "request"
<1>1. ASSUME ChinazInv, ChinazNext, NEW q \in Queues, Sends(q)
      PROVE  /\ lastRequest > 0 => clock >= lastRequest + MinDelay
             /\ \A p \in Queues : worker[p].pc # "request"
  <2>1. Send(q)
    BY <1>1, ChinazSending
  <2>2. /\ lastRequest > 0 => lastRequest + MinDelay <= clock
        /\ \A p \in Queues \ {q} : worker[p].pc \notin AtSlot
    BY <1>1, <2>1, ChinazLeaves
  <2>3. worker[q].pc = "pace"
    BY <1>1 DEF Sends
  <2> QED
    BY <2>2, <2>3, ChinazTypes, ChinazConstants, <1>1 DEF AtSlot
<1>2. ChinazInv /\ [ChinazNext]_chinazVars => [Held]_chinazVars
  BY <1>1
<1>3. RequestsArePaced <=> [][Held]_chinazVars
  BY DEF RequestsArePaced
<1> QED
  BY <1>2, <1>3, ChinazInvariance, PTL DEF ChinazSpec

\* Once Chinaz has asked for silence neither queue sends a request before the cooldown and
\* the Retry-After have passed.
THEOREM ChinazSilent == ChinazSpec => ChinazBlocksAreObeyed
<1> DEFINE Held == \A q \in Queues : Sends(q) => clock >= quietUntil
<1>1. ASSUME ChinazInv, ChinazNext, NEW q \in Queues, Sends(q)
      PROVE  clock >= quietUntil
  BY <1>1, ChinazSending, ChinazLeaves, ChinazTypes
<1>2. ChinazInv /\ [ChinazNext]_chinazVars => [Held]_chinazVars
  BY <1>1
<1>3. ChinazBlocksAreObeyed <=> [][Held]_chinazVars
  BY DEF ChinazBlocksAreObeyed
<1> QED
  BY <1>2, <1>3, ChinazInvariance, PTL DEF ChinazSpec
=============================================================================
