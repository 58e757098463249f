--------------------------- MODULE NotifierProofs ---------------------------
(***************************************************************************)
(* Proofs about Notifier: the days it accounts for, what a run that calls  *)
(* itself a success has delivered, and the pages it writes, for any        *)
(* domains, answers, limits, webhooks, and any length of a day.            *)
(***************************************************************************)
EXTENDS Notifier, Induction, FiniteSetTheorems, FunctionTheorems,
        SequenceTheorems, TLAPS

\* What the constants are.
LEMMA Constants ==
    /\ N \in Nat \ {0} /\ Fields \in Nat \ {0} /\ Urls \in Nat \ {0}
    /\ Day \in Nat /\ Day > 1
    /\ \A l \in Limits : l \in Nat /\ N + 2 <= l
BY NotifierAssumption

-----------------------------------------------------------------------------
(***************************************************************************)
(* The days whose time has come.                                           *)
(***************************************************************************)
Passed == clock \div Day

\* A day has come when the clock has reached its time.
LEMMA DayHasCome ==
    ASSUME NEW t \in Nat
    PROVE  t \div Day \in Nat /\ \A k \in Nat : k * Day <= t <=> k <= t \div Day
<1>1. PICK d \in Nat : d = Day /\ d > 1
  BY Constants
<1>2. PICK q : q = t \div d
  OBVIOUS
<1>3. q \in Nat /\ q * d <= t /\ t < (q + 1) * d
  BY <1>1, <1>2
<1>4. ASSUME NEW k \in Nat
      PROVE  k * d <= t <=> k <= q
  <2>1. CASE k <= q
    <3>1. k * d <= q * d
      BY <1>1, <1>3, <2>1
    <3> QED
      BY <1>1, <1>3, <2>1, <3>1
  <2>2. CASE k >= q + 1
    <3>1. (q + 1) * d <= k * d
      BY <1>1, <1>3, <2>2
    <3> QED
      BY <1>1, <1>3, <2>2, <3>1
  <2> QED
    BY <1>3, <2>1, <2>2
<1> QED
  BY <1>1, <1>2, <1>3, <1>4

-----------------------------------------------------------------------------
(***************************************************************************)
(* The daemon: its types, and the days.                                    *)
(***************************************************************************)
Change == [domain : Nat, field : Nat, delta : Int]
EntryType == [kind : {"total", "separator", "label", "line"}, up : BOOLEAN, change : Change]
Page == Seq(EntryType)

Told == Snapshots \X Snapshots
PlaceType == {"waiting", "listing", "comparing", "sending", "down"}

RunType == [day : Nat, setbacks : Nat]

TypeOK ==
    /\ config \in [limit : Limits, enabled : BOOLEAN, onStart : BOOLEAN]
    /\ clock \in Nat /\ setbacks \in Nat
    /\ daemon \in [pc : PlaceType, next : Nat, timer : Nat, setbacks : Nat, stopped : BOOLEAN]
    /\ fetched \in [Domain -> Told \cup {<<"pending">>, <<"failed">>}]
    /\ messages \in Seq(Page)
    /\ delivery \in [message : Nat, url : Nat, attempt : Nat, sent : BOOLEAN,
                     heard : BOOLEAN, unheard : BOOLEAN, tried : Nat]
    /\ verdict \in {"none", "ok", "failed"}
    /\ reported \in Seq(RunType) /\ missed \in SUBSET Nat

\* Of two runs, the later one is for a later day or knows of a setback that the other did not.
InOrder ==
    \A i, j \in DOMAIN reported : i < j =>
        reported[i].day < reported[j].day \/ reported[i].setbacks < reported[j].setbacks

\* The days that have come are reported or missed, but for the one it is about to report.
Accounted == \A k \in 1..Passed : k \in missed \/ Reported(k) \/ Waiting(k)

\* A wait that no setback has disturbed ended when the day had come.
RunsArePast ==
    \A i \in DOMAIN reported :
        /\ reported[i].setbacks <= setbacks
        /\ reported[i].setbacks = setbacks => reported[i].day <= Passed
        /\ reported[i].setbacks = 0 => reported[i].day \notin missed

MissedArePast == setbacks = 0 => \A k \in missed : k <= Passed

\* A wait that no setback has disturbed does not end too early.
WaitIsLong ==
    /\ daemon.setbacks <= setbacks
    /\ daemon.pc = "waiting" =>
          /\ daemon.setbacks = setbacks => daemon.next * Day <= clock + daemon.timer
          /\ daemon.setbacks = 0 => daemon.next \notin missed
          /\ \A i \in DOMAIN reported :
                reported[i].day < daemon.next \/ reported[i].setbacks < daemon.setbacks

DaysInv == InOrder /\ Accounted /\ RunsArePast /\ MissedArePast /\ WaitIsLong

\* A wait is set for the first day that has not come.
SetsOut ==
    /\ daemon'.next = Passed + 1 /\ daemon'.next * Day = clock + daemon'.timer
    /\ daemon'.setbacks = setbacks

\* Who goes on waiting waits for the same day, and who begins to wait does so for the next.
WaitsForNext ==
    /\ daemon'.setbacks \in {daemon.setbacks, setbacks}
    /\ daemon'.pc = "waiting" =>
        \/ /\ daemon.pc = "waiting" /\ daemon'.next = daemon.next
           /\ daemon'.timer = daemon.timer /\ daemon'.setbacks = daemon.setbacks
        \/ daemon.pc # "waiting" /\ SetsOut

\* What every step that moves no clock, begins no run and ends no process does to the days.
LEMMA DaysStay ==
    ASSUME TypeOK, DaysInv, UNCHANGED <<clock, setbacks, reported, missed>>, WaitsForNext,
           daemon.pc = "waiting" => daemon'.pc = "waiting"
    PROVE  DaysInv'
<1>1. Passed' = Passed /\ Passed \in Nat
  BY DayHasCome DEF Passed, TypeOK
<1>2. \A k : Reported(k)' <=> Reported(k)
  BY DEF Reported
<1>3. \A k : Waiting(k) => Waiting(k)'
  BY DEF Waiting, WaitsForNext
<1>4. Accounted'
  BY <1>1, <1>2, <1>3 DEF DaysInv, Accounted
<1>5. InOrder' /\ RunsArePast' /\ MissedArePast'
  BY <1>1 DEF DaysInv, InOrder, RunsArePast, MissedArePast
<1>6. daemon'.setbacks <= setbacks'
  BY DEF DaysInv, WaitIsLong, WaitsForNext, TypeOK
<1>7. ASSUME daemon'.pc = "waiting", daemon.pc = "waiting"
      PROVE  WaitIsLong'
  <2>1. /\ daemon'.next = daemon.next /\ daemon'.timer = daemon.timer
        /\ daemon'.setbacks = daemon.setbacks
    BY <1>7 DEF WaitsForNext
  <2>2. WaitIsLong /\ UNCHANGED <<clock, setbacks, reported, missed>>
    BY DEF DaysInv
  <2> QED
    BY <1>6, <1>7, <2>1, <2>2 DEF WaitIsLong
<1>8. ASSUME daemon'.pc = "waiting", SetsOut
      PROVE  WaitIsLong'
  <2>1. setbacks = 0 => daemon'.next \notin missed
    BY <1>1, <1>8 DEF DaysInv, MissedArePast, SetsOut, TypeOK
  <2>2. ASSUME NEW i \in DOMAIN reported
        PROVE  reported[i].day < daemon'.next \/ reported[i].setbacks < setbacks
    <3>1. reported[i] \in RunType
      BY DEF TypeOK
    <3>2. /\ reported[i].setbacks <= setbacks
          /\ reported[i].setbacks = setbacks => reported[i].day <= Passed
      BY DEF DaysInv, RunsArePast
    <3> QED
      BY <1>1, <1>8, <3>1, <3>2 DEF SetsOut, RunType, TypeOK
  <2>3. daemon'.next * Day <= clock + daemon'.timer
    <3>1. PICK x \in Int : x = daemon'.next * Day
      BY <1>1, <1>8, Constants DEF SetsOut
    <3> QED
      BY <1>8, <3>1 DEF SetsOut
  <2> QED
    <3>1. daemon'.setbacks = setbacks /\ UNCHANGED <<clock, setbacks, reported, missed>>
      BY <1>8 DEF SetsOut
    <3> QED
      BY <1>6, <2>1, <2>2, <2>3, <3>1 DEF WaitIsLong
<1>9. WaitIsLong'
  <2>1. CASE daemon'.pc # "waiting"
    BY <1>6, <2>1 DEF WaitIsLong
  <2> QED
    BY <1>7, <1>8, <2>1 DEF WaitsForNext
<1> QED
  BY <1>4, <1>5, <1>9 DEF DaysInv

\* A clock that goes on brings days nearer than the wait is long, and one that is put
\* back is a setback.  What comes meanwhile is waited for, or has been reported, or is missed.
LEMMA DaysPass ==
    ASSUME TypeOK, DaysInv, NEW now \in Nat, ClockReads(now),
           daemon' \in [pc : PlaceType, next : Nat, timer : Nat, setbacks : Nat,
                        stopped : BOOLEAN],
           daemon'.pc = daemon.pc, daemon'.next = daemon.next,
           daemon'.setbacks = daemon.setbacks, setbacks' \in Nat,
           \/ setbacks' > setbacks
           \/ /\ setbacks' = setbacks /\ clock <= now
              /\ clock + daemon.timer <= now + daemon'.timer
    PROVE  DaysInv'
<1>1. Passed \in Nat /\ \A k \in Nat : k * Day <= clock <=> k <= Passed
  BY DayHasCome DEF Passed, TypeOK
<1>2. Passed' \in Nat /\ (\A k \in Nat : k * Day <= now <=> k <= Passed') /\ Passed' = now \div Day
  BY DayHasCome DEF Passed, ClockReads
<1>3. PICK Come : Come = {k \in 1..Passed' : clock < k * Day /\ ~Waiting(k) /\ ~Reported(k)}
  OBVIOUS
<1>4. missed' = missed \cup Come /\ UNCHANGED reported /\ clock' = now
  BY <1>2, <1>3 DEF ClockReads
<1>5. \A k : (Reported(k)' <=> Reported(k)) /\ (Waiting(k)' <=> Waiting(k))
  BY <1>4 DEF Reported, Waiting
<1>6. \A k \in Nat : k * Day \in Nat /\ (~(clock < k * Day) <=> k <= Passed)
  BY <1>1, Constants DEF TypeOK
<1>7. ASSUME NEW k \in 1..Passed'
      PROVE  k \in missed' \/ Reported(k)' \/ Waiting(k)'
  <2>1. CASE k <= Passed
    BY <1>1, <1>4, <1>5, <2>1 DEF DaysInv, Accounted
  <2>2. CASE ~(k <= Passed)
    <3>1. clock < k * Day
      BY <1>2, <1>6, <2>2
    <3> QED
      BY <1>3, <1>4, <1>5, <3>1
  <2> QED
    BY <2>1, <2>2
<1>8. setbacks' = setbacks => Passed <= Passed'
  <2>1. ASSUME setbacks' = setbacks
        PROVE  Passed * Day <= now
    <3>1. clock \in Nat /\ setbacks \in Nat /\ clock <= now
      BY <2>1 DEF TypeOK
    <3>2. PICK x \in Nat : x = Passed * Day
      BY <1>1, <1>6
    <3>3. x <= clock
      BY <1>1, <3>2
    <3> QED
      BY <3>1, <3>2, <3>3
  <2> QED
    BY <1>1, <1>2, <2>1
<1>9. \A i \in DOMAIN reported : reported[i] \in RunType /\ reported[i].day \notin Come
  <2>1. \A i \in DOMAIN reported : reported[i] \in RunType /\ Reported(reported[i].day)
    BY DEF TypeOK, Reported
  <2> QED
    BY <1>3, <2>1
<1>10. daemon.pc = "waiting" => daemon.next \notin Come
  BY <1>3 DEF Waiting
<1>11. setbacks \in Nat /\ setbacks <= setbacks' /\ daemon.setbacks <= setbacks
       /\ daemon.setbacks \in Nat
  BY DEF TypeOK, DaysInv, WaitIsLong
<1>12. InOrder'
  BY <1>4 DEF DaysInv, InOrder
<1>13. Accounted'
  BY <1>7 DEF Accounted
<1>14. RunsArePast'
  <2>1. ASSUME NEW i \in DOMAIN reported
        PROVE  /\ reported[i].setbacks <= setbacks'
               /\ reported[i].setbacks = setbacks' => reported[i].day <= Passed'
               /\ reported[i].setbacks = 0 => reported[i].day \notin missed'
    <3>1. /\ reported[i].setbacks <= setbacks
          /\ reported[i].setbacks = setbacks => reported[i].day <= Passed
          /\ reported[i].setbacks = 0 => reported[i].day \notin missed
          /\ reported[i].setbacks \in Nat /\ reported[i].day \in Nat
      BY <1>9 DEF DaysInv, RunsArePast, RunType
    <3>2. reported[i].setbacks = setbacks' => setbacks' = setbacks
      BY <1>11, <3>1
    <3>3. reported[i].setbacks = setbacks' => reported[i].day <= Passed'
      BY <1>1, <1>2, <1>8, <3>1, <3>2
    <3> QED
      BY <1>4, <1>9, <1>11, <3>1, <3>3
  <2> QED
    BY <1>4, <2>1 DEF RunsArePast
<1>15. MissedArePast'
  <2>1. ASSUME setbacks' = 0, NEW k \in missed'
        PROVE  k <= Passed'
    <3>1. setbacks = 0 /\ Passed <= Passed'
      BY <1>8, <1>11, <2>1
    <3>2. k \in missed => k \in Nat /\ k <= Passed
      BY <3>1 DEF DaysInv, MissedArePast, TypeOK
    <3>3. k \in Come => k <= Passed'
      BY <1>2, <1>3
    <3> QED
      BY <1>1, <1>2, <1>4, <2>1, <3>1, <3>2, <3>3
  <2> QED
    BY <2>1 DEF MissedArePast
<1>16. WaitIsLong'
  <2>1. daemon'.setbacks <= setbacks'
    BY <1>11
  <2>2. ASSUME daemon.pc = "waiting", daemon.setbacks = setbacks'
        PROVE  daemon.next * Day <= now + daemon'.timer
    <3>1. setbacks' = setbacks
      BY <1>11, <2>2
    <3>2. clock + daemon.timer <= now + daemon'.timer
      BY <3>1 DEF TypeOK
    <3>3. daemon.next * Day <= clock + daemon.timer
      BY <2>2, <3>1 DEF DaysInv, WaitIsLong
    <3>4. PICK x \in Nat : x = daemon.next * Day
      BY <1>6 DEF TypeOK
    <3>5. PICK y \in Nat : y = clock + daemon.timer
      BY DEF TypeOK
    <3>6. PICK z \in Nat : z = now + daemon'.timer
      OBVIOUS
    <3> QED
      BY <3>2, <3>3, <3>4, <3>5, <3>6
  <2>3. ASSUME daemon.pc = "waiting"
        PROVE  /\ daemon.setbacks = 0 => daemon.next \notin missed'
               /\ \A i \in DOMAIN reported :
                     reported[i].day < daemon.next \/ reported[i].setbacks < daemon.setbacks
    BY <1>4, <1>10, <2>3 DEF DaysInv, WaitIsLong
  <2> QED
    BY <1>4, <2>1, <2>2, <2>3 DEF WaitIsLong
<1> QED
  BY <1>12, <1>13, <1>14, <1>15, <1>16 DEF DaysInv

\* The wait is over: for a day that has come, or after a setback.
LEMMA DaysFire ==
    ASSUME TypeOK, DaysInv, Fire
    PROVE  DaysInv'
<1>1. PICK n \in Nat, s \in Nat : n = daemon.next /\ s = daemon.setbacks
  BY DEF TypeOK
<1>2. PICK r \in RunType : r = [day |-> n, setbacks |-> s]
  BY DEF RunType
<1>3. /\ daemon.pc = "waiting" /\ daemon.timer = 0
      /\ daemon'.pc = "listing" /\ daemon'.setbacks = s
      /\ reported' = Append(reported, r)
      /\ UNCHANGED <<clock, setbacks, missed>>
  BY <1>1, <1>2 DEF Fire, TypeOK, outside
<1>4. Passed \in Nat /\ Passed' = Passed
  BY <1>3, DayHasCome DEF Passed, TypeOK
<1>5. PICK m \in Nat : m = Len(reported)
  BY DEF TypeOK
<1>6. /\ DOMAIN reported = 1..m /\ DOMAIN reported' = 1..(m + 1)
      /\ \A i \in 1..m : reported'[i] = reported[i] /\ reported[i] \in RunType
      /\ reported'[m + 1] = r
  BY <1>3, <1>5 DEF TypeOK
<1>7. /\ s <= setbacks
      /\ s = setbacks => n <= Passed
      /\ s = 0 => n \notin missed
      /\ \A i \in 1..m : reported[i].day < n \/ reported[i].setbacks < s
  <2>1. s = setbacks => n * Day <= clock + 0
    BY <1>1, <1>3 DEF DaysInv, WaitIsLong
  <2>2. s = setbacks => n <= Passed
    BY <2>1, DayHasCome DEF Passed, TypeOK
  <2> QED
    BY <1>1, <1>3, <1>6, <2>2 DEF DaysInv, WaitIsLong
<1>8. \A k : Reported(k) => Reported(k)'
  BY <1>5, <1>6 DEF Reported
<1>9. Reported(n)'
  <2>1. m + 1 \in DOMAIN reported' /\ reported'[m + 1].day = n
    BY <1>2, <1>6
  <2> QED
    BY <2>1 DEF Reported
<1>10. InOrder'
  <2>1. ASSUME NEW i \in 1..(m + 1), NEW j \in 1..(m + 1), i < j
        PROVE  \/ reported'[i].day < reported'[j].day
               \/ reported'[i].setbacks < reported'[j].setbacks
    <3>1. CASE j = m + 1
      BY <1>2, <1>6, <1>7, <2>1, <3>1
    <3>2. CASE j # m + 1
      BY <1>6, <2>1, <3>2 DEF DaysInv, InOrder
    <3> QED
      BY <3>1, <3>2
  <2> QED
    BY <1>6, <2>1 DEF InOrder
<1>11. Accounted'
  <2>1. \A k : Waiting(k) => k = n
    BY <1>1 DEF Waiting
  <2> QED
    BY <1>3, <1>4, <1>8, <1>9, <2>1 DEF DaysInv, Accounted
<1>12. RunsArePast'
  <2>1. ASSUME NEW i \in 1..(m + 1)
        PROVE  /\ reported'[i].setbacks <= setbacks
               /\ reported'[i].setbacks = setbacks => reported'[i].day <= Passed
               /\ reported'[i].setbacks = 0 => reported'[i].day \notin missed
    <3>1. CASE i = m + 1
      BY <1>2, <1>6, <1>7, <3>1
    <3>2. CASE i # m + 1
      BY <1>6, <3>2 DEF DaysInv, RunsArePast
    <3> QED
      BY <3>1, <3>2
  <2> QED
    BY <1>3, <1>4, <1>6, <2>1 DEF RunsArePast
<1>13. MissedArePast' /\ WaitIsLong'
  BY <1>3, <1>4, <1>7 DEF DaysInv, MissedArePast, WaitIsLong
<1> QED
  BY <1>10, <1>11, <1>12, <1>13 DEF DaysInv

\* What the process was about to report when it ended is missed.
LEMMA DaysDown ==
    ASSUME TypeOK, DaysInv, GoDown
    PROVE  DaysInv'
<1>1. PICK n \in Nat : n = daemon.next
  BY DEF TypeOK
<1>2. PICK Come :
          Come = {k \in {n} : daemon.pc = "waiting" /\ k * Day <= clock /\ ~Reported(k)}
  OBVIOUS
<1>3. /\ missed' = missed \cup Come
      /\ daemon'.pc = "down" /\ daemon'.setbacks = daemon.setbacks
      /\ UNCHANGED <<clock, setbacks, reported>>
  BY <1>1, <1>2 DEF GoDown, TypeOK, outside
<1>4. Passed \in Nat /\ Passed' = Passed /\ (n * Day <= clock <=> n <= Passed)
  BY <1>3, DayHasCome DEF Passed, TypeOK
<1>5. \A k : Reported(k)' <=> Reported(k)
  BY <1>3 DEF Reported
<1>6. Accounted'
  <2>1. ASSUME NEW k \in 1..Passed
        PROVE  k \in missed' \/ Reported(k)
    <3>1. k \in missed \/ Reported(k) \/ Waiting(k)
      BY DEF DaysInv, Accounted
    <3>2. Waiting(k) => k = n /\ daemon.pc = "waiting"
      BY <1>1 DEF Waiting
    <3> QED
      BY <1>2, <1>3, <1>4, <3>1, <3>2
  <2> QED
    BY <1>4, <1>5, <2>1 DEF Accounted
<1>7. RunsArePast'
  <2>1. \A i \in DOMAIN reported : reported[i].day \notin Come
    BY <1>2 DEF Reported
  <2> QED
    BY <1>3, <1>4, <2>1 DEF DaysInv, RunsArePast
<1>8. MissedArePast'
  BY <1>2, <1>3, <1>4 DEF DaysInv, MissedArePast
<1>9. InOrder' /\ WaitIsLong'
  BY <1>3 DEF DaysInv, InOrder, WaitIsLong
<1> QED
  BY <1>6, <1>7, <1>8, <1>9 DEF DaysInv

-----------------------------------------------------------------------------
(***************************************************************************)
(* Sorting.                                                                *)
(***************************************************************************)
\* The changes of one section.
Ways == {"rise", "fall"}
Of(way) == {c \in Change : IF way = "rise" THEN c.delta > 0 ELSE c.delta < 0}

\* Before is a strict order in which no two changes of one section tie.
LEMMA BeforeIsAnOrder ==
    ASSUME NEW way \in Ways, NEW a \in Of(way), NEW b \in Of(way), NEW c \in Of(way)
    PROVE  /\ ~Before(a, a)
           /\ a # b => Before(a, b) \/ Before(b, a)
           /\ Before(a, b) /\ Before(b, c) => Before(a, c)
<1>1. ASSUME NEW e \in Of(way)
      PROVE  /\ e.domain \in Nat /\ e.field \in Nat /\ Abs(e.delta) \in Nat
             /\ e.delta \in Int /\ e.delta = IF way = "rise" THEN Abs(e.delta) ELSE -Abs(e.delta)
             /\ e = [domain |-> e.domain, field |-> e.field, delta |-> e.delta]
  BY DEF Of, Change, Abs
<1>2. ASSUME a.domain = b.domain, a.field = b.field, Abs(a.delta) = Abs(b.delta)
      PROVE  a = b
  <2>1. a.delta = b.delta
    BY <1>1, <1>2
  <2> QED
    BY <1>1, <1>2, <2>1
<1>3. /\ a.domain \in Nat /\ a.field \in Nat /\ Abs(a.delta) \in Nat
      /\ b.domain \in Nat /\ b.field \in Nat /\ Abs(b.delta) \in Nat
      /\ c.domain \in Nat /\ c.field \in Nat /\ Abs(c.delta) \in Nat
  BY <1>1
<1>4. ~Before(a, a)
  BY <1>3 DEF Before
<1>5. a # b => Before(a, b) \/ Before(b, a)
  BY <1>2, <1>3 DEF Before
<1>6. Before(a, b) /\ Before(b, c) => Before(a, c)
  BY <1>3 DEF Before
<1> QED
  BY <1>4, <1>5, <1>6

Increasing(s) == \A i, j \in DOMAIN s : i < j => Before(s[i], s[j])

\* A change can be put where it belongs in a sorted sequence of others.
LEMMA Insertion ==
    ASSUME NEW way \in Ways, NEW S \in SUBSET Of(way), NEW n \in Nat, NEW t \in [1..n -> S],
           Increasing(t), NEW x \in Of(way), x \notin S
    PROVE  \E s \in [1..(n + 1) -> S \cup {x}] : Increasing(s)
<1> DEFINE T == {i \in 1..n : Before(x, t[i])} \cup {n + 1}
<1>1. T \in SUBSET Nat /\ T # {}
  OBVIOUS
<1>2. PICK k \in T : \A i \in T : k <= i
  BY <1>1, Least
<1>3. k \in 1..(n + 1)
  BY <1>2
<1>4. PICK s : s = [i \in 1..(n + 1) |-> IF i < k THEN t[i] ELSE IF i = k THEN x ELSE t[i - 1]]
  OBVIOUS
<1>5. /\ \A i \in 1..(n + 1) : i < k => i \in 1..n /\ s[i] = t[i]
      /\ s[k] = x
      /\ \A i \in 1..(n + 1) : i > k => i - 1 \in 1..n /\ s[i] = t[i - 1]
      /\ DOMAIN s = 1..(n + 1)
  BY <1>3, <1>4
<1>6. s \in [1..(n + 1) -> S \cup {x}]
  <2>1. ASSUME NEW i \in 1..(n + 1)
        PROVE  s[i] \in S \cup {x}
    BY <1>3, <1>5
  <2> QED
    BY <1>4, <2>1
<1>7. ASSUME NEW i \in 1..n, i < k
      PROVE  Before(t[i], x)
  <2>1. t[i] \in S /\ t[i] # x /\ ~Before(x, t[i])
    BY <1>2, <1>7
  <2> QED
    BY <2>1, BeforeIsAnOrder
<1>8. ASSUME NEW i \in 1..n, k <= i
      PROVE  Before(x, t[i])
  <2>1. k \in 1..n /\ Before(x, t[k])
    BY <1>2, <1>8
  <2>2. k # i => Before(t[k], t[i])
    BY <1>8, <2>1 DEF Increasing
  <2>3. t[k] \in Of(way) /\ t[i] \in Of(way)
    BY <2>1
  <2> QED
    BY <2>1, <2>2, <2>3, BeforeIsAnOrder
<1>9. ASSUME NEW i \in 1..(n + 1), NEW j \in 1..(n + 1), i < j
      PROVE  Before(s[i], s[j])
  <2>1. CASE j < k
    BY <1>3, <1>5, <1>9, <2>1 DEF Increasing
  <2>2. CASE j = k
    BY <1>3, <1>5, <1>7, <1>9, <2>2
  <2>3. CASE i < k /\ k < j
    <3>1. i \in 1..n /\ j - 1 \in 1..n /\ i < j - 1 /\ s[i] = t[i] /\ s[j] = t[j - 1]
      BY <1>3, <1>5, <1>9, <2>3
    <3> QED
      BY <3>1 DEF Increasing
  <2>4. CASE i = k
    BY <1>3, <1>5, <1>8, <1>9, <2>4
  <2>5. CASE i > k
    <3>1. i - 1 \in 1..n /\ j - 1 \in 1..n /\ i - 1 < j - 1 /\ s[i] = t[i - 1] /\ s[j] = t[j - 1]
      BY <1>3, <1>5, <1>9, <2>5
    <3> QED
      BY <3>1 DEF Increasing
  <2> QED
    BY <1>3, <1>9, <2>1, <2>2, <2>3, <2>4, <2>5
<1> QED
  BY <1>5, <1>6, <1>9 DEF Increasing

\* Any finite number of changes of one section can be sorted.
LEMMA Sortable ==
    ASSUME NEW way \in Ways, NEW n \in Nat, NEW S \in SUBSET Of(way), IsFiniteSet(S),
           Cardinality(S) = n
    PROVE  \E s \in [1..n -> S] : Increasing(s)
<1> DEFINE T == {m \in Nat : \A U \in SUBSET Of(way) : IsFiniteSet(U) /\ Cardinality(U) = m
                                => \E s \in [1..m -> U] : Increasing(s)}
<1>1. 0 \in T
  <2>1. ASSUME NEW U
        PROVE  [i \in 1..0 |-> i] \in [1..0 -> U] /\ Increasing([i \in 1..0 |-> i])
    BY DEF Increasing
  <2> QED
    BY <2>1
<1>2. ASSUME NEW m \in Nat, m \in T
      PROVE  m + 1 \in T
  <2>1. SUFFICES ASSUME NEW U \in SUBSET Of(way), IsFiniteSet(U), Cardinality(U) = m + 1
                 PROVE  \E s \in [1..(m + 1) -> U] : Increasing(s)
    OBVIOUS
  <2>2. PICK x \in U : TRUE
    BY <2>1, FS_EmptySet
  <2>3. PICK V \in SUBSET Of(way) : V = U \ {x}
    OBVIOUS
  <2>4. IsFiniteSet(V) /\ Cardinality(V) = m
    <3>1. IsFiniteSet(U \ {x}) /\ Cardinality(U \ {x}) = Cardinality(U) - 1
      BY <2>1, <2>2, FS_RemoveElement
    <3> QED
      BY <2>1, <2>3, <3>1
  <2>5. PICK t \in [1..m -> V] : Increasing(t)
    BY <1>2, <2>4
  <2>6. x \in Of(way) /\ x \notin V /\ V \cup {x} = U
    BY <2>2, <2>3
  <2> QED
    BY <2>5, <2>6, Insertion
<1> HIDE DEF T
<1>3. Nat \subseteq T
  BY <1>1, <1>2, Induct
<1> QED
  BY <1>3 DEF T

\* Sorted is such a sequence, and has every change once.
LEMMA SortedIsSorted ==
    ASSUME NEW way \in Ways, NEW S \in SUBSET Of(way), IsFiniteSet(S)
    PROVE  /\ Cardinality(S) \in Nat
           /\ Sorted(S) \in [1..Cardinality(S) -> S]
           /\ Increasing(Sorted(S))
           /\ \A c \in S : \E i \in 1..Cardinality(S) : Sorted(S)[i] = c
<1>1. PICK n \in Nat : n = Cardinality(S)
  BY FS_CardinalityType
<1>2. \E s \in [1..n -> S] : Increasing(s)
  BY <1>1, Sortable
<1>3. Sorted(S) \in [1..n -> S] /\ Increasing(Sorted(S))
  BY <1>1, <1>2 DEF Sorted, Increasing
<1>4. PICK s \in [1..n -> S] : s = Sorted(S) /\ Increasing(s)
  BY <1>3
<1>5. ASSUME NEW i \in 1..n, NEW j \in 1..n, s[i] = s[j]
      PROVE  i = j
  <2>1. i < j => Before(s[i], s[i])
    BY <1>4, <1>5 DEF Increasing
  <2>2. j < i => Before(s[i], s[i])
    BY <1>4, <1>5 DEF Increasing
  <2>3. s[i] \in Of(way) /\ ~Before(s[i], s[i])
    BY BeforeIsAnOrder
  <2> QED
    BY <2>1, <2>2, <2>3
<1>6. s \in Injection(1..n, S)
  BY <1>5, Fun_IsInj
<1>7. Cardinality(1..n) = n
  BY FS_Interval
<1>8. s \in Surjection(1..n, S)
  BY <1>1, <1>6, <1>7, FS_Injection
<1> QED
  BY <1>1, <1>3, <1>4, <1>8, Fun_SurjectionProperties

-----------------------------------------------------------------------------
(***************************************************************************)
(* The items: the changes in their order, with what precedes each line.    *)
(***************************************************************************)
\* The two labels.
Rise == Label(TRUE)
Fall == Label(FALSE)

ItemType == [change : Change, lead : Seq(EntryType)]
Up(item) == item.change.delta > 0

\* What may precede the line of an item: its own label, or nothing after an item alike.
Led(items, i) ==
    \/ items[i].lead = <<Rise>> /\ Up(items[i])
    \/ items[i].lead \in {<<Fall>>, <<Separator, Fall>>} /\ ~Up(items[i])
    \/ i > 1 /\ items[i].lead = <<>> /\ (Up(items[i]) <=> Up(items[i - 1]))

\* The entries of a page are entries.
LEMMA EntriesAreTyped ==
    /\ Rise \in EntryType /\ Rise.kind # "line" /\ Fall \in EntryType /\ Fall.kind # "line"
    /\ Separator \in EntryType /\ Separator.kind # "line"
    /\ Total \in EntryType /\ Total.kind # "line"
    /\ \A c \in Change : /\ Line(c) \in EntryType /\ Line(c).kind = "line"
                         /\ Line(c).change = c /\ Line(c).up = (c.delta > 0)
<1>1. NoChange \in Change
  BY DEF NoChange, Change
<1>2. \A c \in Change : (c.delta > 0) \in BOOLEAN
  OBVIOUS
<1> QED
  BY <1>1, <1>2 DEF Rise, Fall, Label, Separator, Total, Line, Entry, EntryType

\* Before within a section is Ranked.
LEMMA BeforeIsRanked ==
    ASSUME NEW way \in Ways, NEW a \in Of(way), NEW b \in Of(way), Before(a, b)
    PROVE  Ranked(a, b) /\ a # b
<1>1. a # b
  BY BeforeIsAnOrder
<1>2. a.delta \in Int /\ b.delta \in Int
  BY DEF Of, Change
<1>3. Abs(a.delta) >= Abs(b.delta) /\ Abs(a.delta) \in Int /\ Abs(b.delta) \in Int
  BY <1>2 DEF Before, Abs
<1> QED
  BY <1>1, <1>2, <1>3 DEF Ranked, Abs, Of

\* A section has its changes in their order; its first line is preceded by its lead.
LEMMA SectionIsRight ==
    ASSUME NEW way \in Ways, NEW S \in SUBSET Of(way), IsFiniteSet(S),
           NEW lead \in Seq(EntryType), NEW s, s = Section(S, lead)
    PROVE  /\ s \in Seq(ItemType) /\ Len(s) = Cardinality(S) /\ Cardinality(S) \in Nat
           /\ \A i \in 1..Len(s) : /\ s[i].change \in S
                                   /\ s[i].lead = IF i = 1 THEN lead ELSE <<>>
           /\ \A c \in S : \E i \in 1..Len(s) : s[i].change = c
           /\ \A i, j \in 1..Len(s) : i < j =>
                 /\ Ranked(s[i].change, s[j].change) /\ s[i].change # s[j].change
<1>1. PICK n \in Nat : n = Cardinality(S)
  BY SortedIsSorted
<1>2. PICK t \in [1..n -> S] : /\ t = Sorted(S) /\ Increasing(t)
                               /\ \A c \in S : \E i \in 1..n : t[i] = c
  BY <1>1, SortedIsSorted
<1>3. s = [i \in 1..n |-> [change |-> t[i], lead |-> IF i = 1 THEN lead ELSE <<>>]]
  BY <1>1, <1>2 DEF Section
<1>5. s \in Seq(ItemType) /\ Len(s) = n
  <2>1. ASSUME NEW i \in 1..n
        PROVE  s[i] \in ItemType
    <3>1. t[i] \in Change
      BY DEF Of
    <3>2. (IF i = 1 THEN lead ELSE <<>>) \in Seq(EntryType)
      OBVIOUS
    <3> QED
      BY <1>3, <3>1, <3>2 DEF ItemType
  <2> QED
    BY <1>3, <2>1
<1>6. \A i \in 1..n : s[i].change = t[i] /\ s[i].lead = IF i = 1 THEN lead ELSE <<>>
  BY <1>3
<1>7. \A i, j \in 1..n : i < j => Before(t[i], t[j])
  BY <1>2 DEF Increasing
<1>8. \A i, j \in 1..n : i < j => Ranked(t[i], t[j]) /\ t[i] # t[j]
  BY <1>7, BeforeIsRanked
<1>9. \A c \in S : \E i \in 1..n : s[i].change = c
  BY <1>2, <1>6
<1>10. \A i, j \in 1..n : i < j =>
          /\ Ranked(s[i].change, s[j].change) /\ s[i].change # s[j].change
  BY <1>6, <1>8
<1>11. \A i \in 1..n : s[i].change \in S
  BY <1>6
<1>12. /\ \A i \in 1..Len(s) : /\ s[i].change \in S
                               /\ s[i].lead = IF i = 1 THEN lead ELSE <<>>
       /\ \A c \in S : \E i \in 1..Len(s) : s[i].change = c
  BY <1>5, <1>6, <1>9, <1>11
<1>13. \A i, j \in 1..Len(s) : i < j =>
          /\ Ranked(s[i].change, s[j].change) /\ s[i].change # s[j].change
  BY <1>5, <1>10
<1> QED
  BY <1>1, <1>5, <1>12, <1>13

\* What is to be known of the items of some changes.
ItemsOf(changes, items) ==
    /\ items \in Seq(ItemType)
    /\ \A i \in 1..Len(items) : items[i].change \in changes /\ Led(items, i)
    /\ \A c \in changes : \E i \in 1..Len(items) : items[i].change = c
    /\ \A i, j \in 1..Len(items) : i < j =>
          /\ Ranked(items[i].change, items[j].change)
          /\ items[i].change # items[j].change

\* The items are those of the two sections, rising before falling.
LEMMA ItemsAreRight ==
    ASSUME NEW S \in SUBSET Change, IsFiniteSet(S), \A c \in S : c.delta # 0
    PROVE  ItemsOf(S, Items(S))
<1>1. PICK P : P = {c \in S : c.delta > 0}
  OBVIOUS
<1>2. PICK M : M = {c \in S : c.delta < 0}
  OBVIOUS
<1>3. /\ P \in SUBSET Of("rise") /\ M \in SUBSET Of("fall")
      /\ S = P \cup M /\ IsFiniteSet(P) /\ IsFiniteSet(M)
  <2>1. P \in SUBSET S /\ M \in SUBSET S
    BY <1>1, <1>2
  <2>2. IsFiniteSet(P) /\ IsFiniteSet(M)
    BY <2>1, FS_Subset
  <2>3. P \in SUBSET Of("rise") /\ M \in SUBSET Of("fall")
    BY <1>1, <1>2 DEF Of
  <2>4. \A c \in S : c.delta > 0 \/ c.delta < 0
    BY DEF Change
  <2> QED
    BY <1>1, <1>2, <2>1, <2>2, <2>3, <2>4
<1>4. PICK lead : /\ lead = IF P = {} THEN <<Fall>> ELSE <<Separator, Fall>>
                  /\ lead \in {<<Fall>>, <<Separator, Fall>>}
  OBVIOUS
<1>5. <<Rise>> \in Seq(EntryType) /\ lead \in Seq(EntryType)
  BY <1>4, EntriesAreTyped
<1>6. PICK s, first : s = Section(P, first) /\ first = <<Rise>>
  OBVIOUS
<1>7. PICK t : t = Section(M, lead)
  OBVIOUS
<1>8. /\ s \in Seq(ItemType)
      /\ \A i \in 1..Len(s) : /\ s[i].change \in P
                              /\ s[i].lead = IF i = 1 THEN <<Rise>> ELSE <<>>
      /\ \A c \in P : \E i \in 1..Len(s) : s[i].change = c
      /\ \A i, j \in 1..Len(s) : i < j =>
            /\ Ranked(s[i].change, s[j].change) /\ s[i].change # s[j].change
  <2>1. "rise" \in Ways
    BY DEF Ways
  <2>2. first \in Seq(EntryType) /\ s = Section(P, first)
    BY <1>5, <1>6
  <2>3. /\ s \in Seq(ItemType)
        /\ \A i \in 1..Len(s) : /\ s[i].change \in P
                                /\ s[i].lead = IF i = 1 THEN first ELSE <<>>
        /\ \A c \in P : \E i \in 1..Len(s) : s[i].change = c
        /\ \A i, j \in 1..Len(s) : i < j =>
              /\ Ranked(s[i].change, s[j].change) /\ s[i].change # s[j].change
    BY <1>3, <2>1, <2>2, SectionIsRight
  <2> QED
    BY <1>6, <2>3
<1>9. /\ t \in Seq(ItemType)
      /\ \A i \in 1..Len(t) : /\ t[i].change \in M
                              /\ t[i].lead = IF i = 1 THEN lead ELSE <<>>
      /\ \A c \in M : \E i \in 1..Len(t) : t[i].change = c
      /\ \A i, j \in 1..Len(t) : i < j =>
            /\ Ranked(t[i].change, t[j].change) /\ t[i].change # t[j].change
  <2>1. "fall" \in Ways
    BY DEF Ways
  <2> QED
    BY <1>3, <1>5, <1>7, <2>1, SectionIsRight
<1>10. PICK items : items = Items(S) /\ items = s \o t
  BY <1>1, <1>2, <1>4, <1>6, <1>7 DEF Items, Rise, Fall
<1>11. PICK m \in Nat, n \in Nat : m = Len(s) /\ n = Len(t)
  BY <1>8, <1>9, LenProperties
<1>12. /\ items \in Seq(ItemType) /\ Len(items) = m + n
       /\ \A i \in 1..m : items[i] = s[i]
       /\ \A i \in (m + 1)..(m + n) : i - m \in 1..n /\ items[i] = t[i - m]
  BY <1>8, <1>9, <1>10, <1>11, ConcatProperties
<1>13. \A a \in P, b \in M : Ranked(a, b) /\ a # b
  BY <1>3 DEF Ranked, Of, Change
<1>14. ASSUME NEW i \in 1..(m + n)
       PROVE  items[i].change \in S /\ Led(items, i)
  <2>1. CASE i \in 1..m
    <3>1. /\ items[i].change \in P /\ Up(items[i])
          /\ items[i].lead = IF i = 1 THEN <<Rise>> ELSE <<>>
      BY <1>3, <1>8, <1>11, <1>12, <2>1 DEF Up, Of
    <3>2. i > 1 => Up(items[i - 1])
      <4>1. i > 1 => i - 1 \in 1..m
        BY <2>1
      <4>2. i > 1 => items[i - 1].change \in P
        BY <1>8, <1>11, <1>12, <4>1
      <4> QED
        BY <1>3, <4>2 DEF Up, Of
    <3> QED
      BY <1>3, <3>1, <3>2 DEF Led
  <2>2. CASE i \in (m + 1)..(m + n)
    <3>1. /\ items[i].change \in M
          /\ items[i].lead = IF i = m + 1 THEN lead ELSE <<>>
      BY <1>9, <1>11, <1>12, <2>2
    <3>2. ~Up(items[i])
      BY <1>3, <3>1 DEF Up, Of, Change
    <3>3. i > m + 1 => ~Up(items[i - 1])
      <4>1. i > m + 1 => items[i - 1].change \in M
        <5>1. i > m + 1 => i - 1 \in (m + 1)..(m + n)
          BY <2>2
        <5> QED
          BY <1>9, <1>11, <1>12, <5>1
      <4> QED
        BY <1>3, <4>1 DEF Up, Of, Change
    <3> QED
      BY <1>3, <1>4, <2>2, <3>1, <3>2, <3>3 DEF Led
  <2> QED
    BY <2>1, <2>2
<1>15. ASSUME NEW c \in S
       PROVE  \E i \in 1..(m + n) : items[i].change = c
  <2>1. CASE c \in P
    BY <1>8, <1>11, <1>12, <2>1
  <2>2. CASE c \in M
    <3>1. PICK i \in 1..n : t[i].change = c
      BY <1>9, <1>11, <2>2
    <3>2. i + m \in (m + 1)..(m + n) /\ (i + m) - m = i
      OBVIOUS
    <3> QED
      BY <1>12, <3>1, <3>2
  <2> QED
    BY <1>3, <2>1, <2>2
<1>16. ASSUME NEW i \in 1..(m + n), NEW j \in 1..(m + n), i < j
       PROVE  Ranked(items[i].change, items[j].change) /\ items[i].change # items[j].change
  <2>1. CASE j \in 1..m
    <3>1. i \in 1..m /\ items[i] = s[i] /\ items[j] = s[j]
      BY <1>12, <1>16, <2>1
    <3> QED
      BY <1>8, <1>11, <1>16, <2>1, <3>1
  <2>2. CASE i \in 1..m /\ j \in (m + 1)..(m + n)
    BY <1>8, <1>9, <1>11, <1>12, <1>13, <2>2, SMTT(30)
  <2>3. CASE i \in (m + 1)..(m + n)
    <3>1. i - m \in 1..n /\ j - m \in 1..n /\ i - m < j - m
      BY <1>16, <2>3
    <3> QED
      BY <1>9, <1>11, <1>12, <1>16, <2>3, <3>1, SMTT(30)
  <2> QED
    BY <1>16, <2>1, <2>2, <2>3
<1>17. PICK p : p = Len(items) /\ p = m + n
  BY <1>12
<1>18. \A i \in 1..p : items[i].change \in S /\ Led(items, i)
  BY <1>14, <1>17
<1>19. \A c \in S : \E i \in 1..p : items[i].change = c
  BY <1>15, <1>17
<1>20. \A i, j \in 1..p : i < j =>
          /\ Ranked(items[i].change, items[j].change)
          /\ items[i].change # items[j].change
  BY <1>16, <1>17
<1>21. items \in Seq(ItemType) /\ p = Len(items)
  BY <1>12, <1>17
<1>22. ItemsOf(S, items)
  BY <1>18, <1>19, <1>20, <1>21, Zenon DEF ItemsOf
<1> QED
  BY <1>10, <1>22

-----------------------------------------------------------------------------
(***************************************************************************)
(* The books: the pages so far and the current one, after each item.       *)
(***************************************************************************)
BookType == [pages : Seq(Page), current : Page]
Blank == [pages |-> <<>>, current |-> <<Total>>]

\* The label of a change.
Own(c) == IF c.delta > 0 THEN Rise ELSE Fall

\* Label chooses it.
LEMMA OwnLabel ==
    ASSUME NEW c \in Change
    PROVE  /\ Label(c.delta > 0) = Own(c) /\ Label(Line(c).up) = Own(c)
           /\ Own(c) \in EntryType /\ Own(c).kind # "line"
<1>1. Label(c.delta > 0) = Own(c)
  <2>1. CASE c.delta > 0
    <3>1. (c.delta > 0) = TRUE
      BY <2>1
    <3> QED
      BY <2>1, <3>1 DEF Own, Rise
  <2>2. CASE ~(c.delta > 0)
    <3>1. (c.delta > 0) = FALSE
      BY <2>2
    <3> QED
      BY <2>2, <3>1 DEF Own, Fall
  <2> QED
    BY <2>1, <2>2
<1>2. Line(c).up = (c.delta > 0)
  BY DEF Line, Entry
<1>3. Label(Line(c).up) = Own(c)
  BY <1>1, <1>2, Zenon
<1> QED
  BY <1>1, <1>3, EntriesAreTyped DEF Own

\* What the current page would be with an item.
With(book, item) == book.current \o item.lead \o <<Line(item.change)>>

\* The page that follows one that is full.
Fresh(c) == <<Total, Own(c), Line(c)>>

\* An item is put on the current page or on a new one.
LEMMA AddItemIs ==
    ASSUME NEW limit, NEW book \in BookType, NEW item \in ItemType
    PROVE  /\ With(book, item) \in Page /\ Fresh(item.change) \in Page
           /\ Flushed(book) \in Seq(Page)
           /\ AddItem(limit, book, item) \in BookType
           /\ AddItem(limit, book, item) =
                  IF Size(With(book, item)) <= limit
                  THEN [pages |-> book.pages, current |-> With(book, item)]
                  ELSE [pages |-> Flushed(book), current |-> Fresh(item.change)]
<1>1. PICK c \in Change : c = item.change
  BY DEF ItemType
<1>2. PICK l \in EntryType : l = Line(c)
  BY EntriesAreTyped
<1>3. <<l>> \in Page /\ item.lead \in Page /\ book.current \in Page /\ book.pages \in Seq(Page)
  BY DEF Page, ItemType, BookType
<1>4. With(book, item) \in Page
  BY <1>1, <1>2, <1>3, ConcatProperties DEF With, Page
<1>5. Fresh(c) \in Page
  <2>1. Total \in EntryType /\ Own(c) \in EntryType
    BY OwnLabel, EntriesAreTyped
  <2> QED
    BY <1>2, <2>1 DEF Fresh, Page
<1>6. Flushed(book) \in Seq(Page)
  BY <1>3 DEF Flushed
<1>7. NextPage(book, Line(c)) = [pages |-> Flushed(book), current |-> Fresh(c)]
  BY OwnLabel DEF NextPage, Fresh
<1>8. AddItem(limit, book, item) = IF Size(With(book, item)) <= limit
                                   THEN [book EXCEPT !.current = With(book, item)]
                                   ELSE NextPage(book, Line(c))
  BY <1>1 DEF AddItem, With
<1>9. [book EXCEPT !.current = With(book, item)]
          = [pages |-> book.pages, current |-> With(book, item)]
  BY DEF BookType
<1>10. AddItem(limit, book, item) =
           IF Size(With(book, item)) <= limit
           THEN [pages |-> book.pages, current |-> With(book, item)]
           ELSE [pages |-> Flushed(book), current |-> Fresh(c)]
  BY <1>7, <1>8, <1>9
<1>11. AddItem(limit, book, item) \in BookType
  BY <1>3, <1>4, <1>5, <1>6, <1>10 DEF BookType
<1> QED
  BY <1>1, <1>4, <1>5, <1>6, <1>10, <1>11

\* Books keeps a book after each item, the first one blank.
LEMMA BooksAreKept ==
    ASSUME NEW limit, NEW items \in Seq(ItemType)
    PROVE  /\ Books(limit, items)[0] = Blank
           /\ \A n \in 0..Len(items) : Books(limit, items)[n] \in BookType
           /\ \A n \in 1..Len(items) :
                 Books(limit, items)[n] = AddItem(limit, Books(limit, items)[n - 1], items[n])
<1>1. PICK m \in Nat : m = Len(items)
  BY LenProperties
<1>2. Blank \in BookType
  BY EntriesAreTyped DEF Blank, BookType, Page
<1>3. PICK step : step = [n \in Nat \ {0} |-> [b \in BookType |->
                             IF n <= m THEN AddItem(limit, b, items[n]) ELSE b]]
  OBVIOUS
<1>4. step \in [Nat \ {0} -> [BookType -> BookType]]
  <2>1. ASSUME NEW n \in Nat \ {0}, NEW b \in BookType
        PROVE  (IF n <= m THEN AddItem(limit, b, items[n]) ELSE b) \in BookType
    <3>1. CASE n <= m
      <4>1. items[n] \in ItemType
        BY <1>1, <3>1, ElementOfSeq
      <4> QED
        BY <3>1, <4>1, AddItemIs
    <3> QED
      BY <3>1
  <2> QED
    BY <1>3, <2>1
<1>5. PICK f \in [0..m -> BookType] : Steps(f, m, Blank, step)
  BY <1>2, <1>4, FiniteRecursion
<1>6. ASSUME NEW n \in 1..m
      PROVE  f[n] = AddItem(limit, f[n - 1], items[n])
  <2>1. f[n] = step[n][f[n - 1]] /\ f[n - 1] \in BookType
    BY <1>5 DEF Steps
  <2> QED
    BY <1>3, <2>1
<1>7. f[0] = Blank
  BY <1>5 DEF Steps
<1>8. f = [n \in 0..m |-> IF n = 0 THEN Blank ELSE AddItem(limit, f[n - 1], items[n])]
  <2>1. \A n \in 0..m : n = 0 \/ n \in 1..m
    OBVIOUS
  <2> QED
    BY <1>6, <1>7, <2>1
<1>9. PICK B : B = Books(limit, items)
  OBVIOUS
<1>10. B = [n \in 0..m |-> IF n = 0 THEN Blank ELSE AddItem(limit, B[n - 1], items[n])]
  <2>1. B = CHOOSE g : g = [n \in 0..m |-> IF n = 0 THEN Blank
                                          ELSE AddItem(limit, g[n - 1], items[n])]
    BY <1>1, <1>9 DEF Books, Blank
  <2> QED
    BY <1>8, <2>1
<1>11. /\ B[0] = Blank
       /\ \A n \in 1..m : B[n] = AddItem(limit, B[n - 1], items[n])
  BY <1>10
<1> DEFINE T == {n \in Nat : n <= m => B[n] \in BookType}
<1>12. 0 \in T
  BY <1>2, <1>11
<1>13. ASSUME NEW n \in Nat, n \in T
       PROVE  n + 1 \in T
  <2>1. SUFFICES ASSUME n + 1 <= m
                 PROVE  B[n + 1] \in BookType
    OBVIOUS
  <2>2. B[n] \in BookType /\ B[n + 1] = AddItem(limit, B[n], items[n + 1])
    BY <1>11, <1>13, <2>1
  <2>3. items[n + 1] \in ItemType
    BY <1>1, <2>1, ElementOfSeq
  <2> QED
    BY <2>2, <2>3, AddItemIs
<1> HIDE DEF T
<1>14. Nat \subseteq T
  BY <1>12, <1>13, Induct
<1>15. \A n \in 0..m : B[n] \in BookType
  BY <1>14 DEF T
<1> QED
  BY <1>1, <1>9, <1>11, <1>15

-----------------------------------------------------------------------------
(***************************************************************************)
(* What the pages say.                                                     *)
(***************************************************************************)
\* The places are those of the lines.
LEMMA PlacesAre ==
    ASSUME NEW pages
    PROVE  \A x : x \in Places(pages) <=>
              \E p \in DOMAIN pages : \E i \in DOMAIN pages[p] :
                  x = <<p, i>> /\ pages[p][i].kind = "line"
<1>1. ASSUME NEW x, x \in Places(pages)
      PROVE  \E p \in DOMAIN pages : \E i \in DOMAIN pages[p] :
                 x = <<p, i>> /\ pages[p][i].kind = "line"
  <2>1. PICK p \in DOMAIN pages :
            x \in {p} \X {i \in DOMAIN pages[p] : pages[p][i].kind = "line"}
    BY <1>1 DEF Places
  <2> QED
    BY <2>1
<1>2. ASSUME NEW p \in DOMAIN pages, NEW i \in DOMAIN pages[p], pages[p][i].kind = "line"
      PROVE  <<p, i>> \in Places(pages)
  <2>1. <<p, i>> \in {p} \X {j \in DOMAIN pages[p] : pages[p][j].kind = "line"}
    BY <1>2
  <2> QED
    BY <2>1 DEF Places
<1> QED
  BY <1>1, <1>2

\* W says what V does, and then the change c.
OneMore(V, W, c) ==
    \E z : /\ Places(W) = Places(V) \cup {z}
           /\ ChangeAt(W, z) = c
           /\ \A x \in Places(V) : /\ ChangeAt(W, x) = ChangeAt(V, x)
                                   /\ ~Precedes(z, x)
           /\ ~Precedes(z, z)

\* The pages say the first n items, one after the other.
Says(W, items, n) ==
    /\ \A x \in Places(W) : \E k \in 1..n : ChangeAt(W, x) = items[k].change
    /\ \A k \in 1..n : \E x \in Places(W) : ChangeAt(W, x) = items[k].change
    /\ \A x, y \in Places(W) : Precedes(x, y) =>
          \E k, l \in 1..n : /\ k < l
                             /\ ChangeAt(W, x) = items[k].change
                             /\ ChangeAt(W, y) = items[l].change

\* They go on saying them when they say one more.
LEMMA SaysOneMore ==
    ASSUME NEW V, NEW W, NEW items, NEW n \in Nat, Says(V, items, n),
           OneMore(V, W, items[n + 1].change)
    PROVE  Says(W, items, n + 1)
<1>1. PICK z : /\ Places(W) = Places(V) \cup {z}
               /\ ChangeAt(W, z) = items[n + 1].change
               /\ \A x \in Places(V) : ChangeAt(W, x) = ChangeAt(V, x) /\ ~Precedes(z, x)
               /\ ~Precedes(z, z)
  BY DEF OneMore
<1>2. \A k \in 1..n : k \in 1..(n + 1) /\ k < n + 1
  OBVIOUS
<1>3. n + 1 \in 1..(n + 1) /\ \A k \in 1..(n + 1) : k \in 1..n \/ k = n + 1
  OBVIOUS
<1>4. ASSUME NEW x \in Places(W)
      PROVE  \E k \in 1..(n + 1) : ChangeAt(W, x) = items[k].change
  BY <1>1, <1>2, <1>3 DEF Says
<1>5. ASSUME NEW k \in 1..(n + 1)
      PROVE  \E x \in Places(W) : ChangeAt(W, x) = items[k].change
  <2>1. CASE k \in 1..n
    <3>1. PICK x \in Places(V) : ChangeAt(V, x) = items[k].change
      BY <2>1 DEF Says
    <3> QED
      BY <1>1, <3>1
  <2>2. CASE k = n + 1
    BY <1>1, <2>2
  <2> QED
    BY <1>3, <2>1, <2>2
<1>6. ASSUME NEW x \in Places(W), NEW y \in Places(W), Precedes(x, y)
      PROVE  \E k, l \in 1..(n + 1) : /\ k < l
                                      /\ ChangeAt(W, x) = items[k].change
                                      /\ ChangeAt(W, y) = items[l].change
  <2>1. x \in Places(V)
    BY <1>1, <1>6
  <2>2. CASE y \in Places(V)
    <3>1. PICK k \in 1..n, l \in 1..n : /\ k < l
                                        /\ ChangeAt(V, x) = items[k].change
                                        /\ ChangeAt(V, y) = items[l].change
      BY <1>6, <2>1, <2>2 DEF Says
    <3> QED
      BY <1>1, <1>2, <2>1, <2>2, <3>1
  <2>3. CASE y = z
    <3>1. PICK k \in 1..n : ChangeAt(V, x) = items[k].change
      BY <2>1 DEF Says
    <3> QED
      BY <1>1, <1>2, <1>3, <2>1, <2>3, <3>1
  <2> QED
    BY <1>1, <2>2, <2>3
<1> QED
  BY <1>4, <1>5, <1>6 DEF Says

\* The pages and, after them, the current one.
Whole(book) == Append(book.pages, book.current)

\* More entries on the last page, of which only the last is a line, are one change more.
LEMMA LongerLastPage ==
    ASSUME NEW pages \in Seq(Page), NEW old \in Page, NEW new \in Page, NEW n \in Nat,
           Len(new) = n, Len(old) < n, \A i \in 1..Len(old) : new[i] = old[i],
           \A i \in (Len(old) + 1)..(n - 1) : new[i].kind # "line",
           new[n].kind = "line"
    PROVE  OneMore(Append(pages, old), Append(pages, new), new[n].change)
<1>1. PICK m \in Nat, o \in Nat : m = Len(pages) /\ o = Len(old) /\ o < n
  BY DEF Page
<1>2. PICK V : V = Append(pages, old)
  OBVIOUS
<1>3. PICK W : W = Append(pages, new)
  OBVIOUS
<1>4. DOMAIN old = 1..o /\ DOMAIN new = 1..n /\ DOMAIN pages = 1..m
  BY <1>1 DEF Page
<1>5. /\ DOMAIN V = 1..(m + 1) /\ DOMAIN W = 1..(m + 1)
      /\ \A p \in 1..m : V[p] = pages[p] /\ W[p] = pages[p]
      /\ V[m + 1] = old /\ W[m + 1] = new
  BY <1>1, <1>2, <1>3
<1>6. \A p \in 1..(m + 1) : p \in 1..m \/ p = m + 1
  OBVIOUS
<1>7. \A i \in 1..n : i \in 1..o \/ i \in (o + 1)..(n - 1) \/ i = n
  BY <1>1
<1> DEFINE z == <<m + 1, n>>
<1>8. z \in Places(W)
  BY <1>1, <1>4, <1>5, PlacesAre
<1>9. ASSUME NEW x \in Places(V)
      PROVE  /\ x \in Places(W) /\ ChangeAt(W, x) = ChangeAt(V, x)
             /\ ~Precedes(z, x)
  <2>1. PICK p \in 1..(m + 1) : \E i \in DOMAIN V[p] :
                  x = <<p, i>> /\ V[p][i].kind = "line"
    BY <1>5, PlacesAre
  <2>2. PICK i \in DOMAIN V[p] : x = <<p, i>> /\ V[p][i].kind = "line"
    BY <2>1
  <2>3. CASE p \in 1..m
    <3>1. W[p] = V[p] /\ p < m + 1
      BY <1>5, <2>3
    <3> QED
      BY <1>5, <2>2, <2>3, <3>1, PlacesAre DEF ChangeAt, Precedes
  <2>4. CASE p = m + 1
    <3>1. i \in 1..o /\ i \in 1..n /\ i < n /\ W[p][i] = V[p][i]
      BY <1>1, <1>4, <1>5, <2>2, <2>4
    <3> QED
      BY <1>4, <1>5, <2>2, <2>4, <3>1, PlacesAre DEF ChangeAt, Precedes
  <2> QED
    BY <1>6, <2>3, <2>4
<1>10. ASSUME NEW x \in Places(W)
       PROVE  x \in Places(V) \/ x = z
  <2>1. PICK p \in 1..(m + 1) : \E i \in DOMAIN W[p] :
                  x = <<p, i>> /\ W[p][i].kind = "line"
    BY <1>5, PlacesAre
  <2>2. PICK i \in DOMAIN W[p] : x = <<p, i>> /\ W[p][i].kind = "line"
    BY <2>1
  <2>3. CASE p \in 1..m
    BY <1>5, <2>2, <2>3, PlacesAre
  <2>4. CASE p = m + 1
    <3>1. i \in 1..o \/ i = n
      BY <1>1, <1>4, <1>5, <1>7, <2>2, <2>4
    <3>2. CASE i \in 1..o
      BY <1>1, <1>4, <1>5, <2>2, <2>4, <3>2, PlacesAre
    <3> QED
      BY <2>2, <2>4, <3>1, <3>2
  <2> QED
    BY <1>6, <2>3, <2>4
<1>11. Places(W) = Places(V) \cup {z}
  BY <1>8, <1>9, <1>10
<1>12. ChangeAt(W, z) = new[n].change /\ ~Precedes(z, z)
  BY <1>5 DEF ChangeAt, Precedes
<1> QED
  BY <1>2, <1>3, <1>9, <1>11, <1>12 DEF OneMore

\* A page more, of which only the last entry is a line, is one change more.
LEMMA OnePageMore ==
    ASSUME NEW pages \in Seq(Page), NEW new \in Page, NEW n \in Nat \ {0},
           Len(new) = n, \A i \in 1..(n - 1) : new[i].kind # "line",
           new[n].kind = "line"
    PROVE  OneMore(pages, Append(pages, new), new[n].change)
<1>1. PICK m \in Nat : m = Len(pages)
  BY LenProperties
<1>2. PICK W : W = Append(pages, new)
  OBVIOUS
<1>3. DOMAIN new = 1..n /\ DOMAIN pages = 1..m
  BY <1>1 DEF Page
<1>4. /\ DOMAIN W = 1..(m + 1)
      /\ \A p \in 1..m : W[p] = pages[p]
      /\ W[m + 1] = new
  BY <1>1, <1>2
<1>5. \A p \in 1..(m + 1) : p \in 1..m \/ p = m + 1
  OBVIOUS
<1> DEFINE z == <<m + 1, n>>
<1>6. z \in Places(W)
  BY <1>1, <1>3, <1>4, PlacesAre
<1>7. ASSUME NEW x \in Places(pages)
      PROVE  /\ x \in Places(W) /\ ChangeAt(W, x) = ChangeAt(pages, x)
             /\ ~Precedes(z, x)
  <2>1. PICK p \in 1..m : \E i \in DOMAIN pages[p] :
                  x = <<p, i>> /\ pages[p][i].kind = "line"
    BY <1>3, PlacesAre
  <2>2. PICK i \in DOMAIN pages[p] : x = <<p, i>> /\ pages[p][i].kind = "line"
    BY <2>1
  <2>3. W[p] = pages[p] /\ p < m + 1 /\ p \in 1..(m + 1)
    BY <1>4
  <2> QED
    BY <1>4, <2>2, <2>3, PlacesAre DEF ChangeAt, Precedes
<1>8. ASSUME NEW x \in Places(W)
      PROVE  x \in Places(pages) \/ x = z
  <2>1. PICK p \in 1..(m + 1) : \E i \in DOMAIN W[p] :
                  x = <<p, i>> /\ W[p][i].kind = "line"
    BY <1>4, PlacesAre
  <2>2. PICK i \in DOMAIN W[p] : x = <<p, i>> /\ W[p][i].kind = "line"
    BY <2>1
  <2>3. CASE p \in 1..m
    BY <1>3, <1>4, <2>2, <2>3, PlacesAre
  <2>4. CASE p = m + 1
    BY <1>3, <1>4, <2>2, <2>4
  <2> QED
    BY <1>5, <2>3, <2>4
<1>9. Places(W) = Places(pages) \cup {z}
  BY <1>6, <1>7, <1>8
<1>10. ChangeAt(W, z) = new[n].change /\ ~Precedes(z, z)
  BY <1>4 DEF ChangeAt, Precedes
<1> QED
  BY <1>2, <1>7, <1>9, <1>10 DEF OneMore

-----------------------------------------------------------------------------
(***************************************************************************)
(* Each page can be read.                                                  *)
(***************************************************************************)
\* Above the i-th entry, and after the last entry, is the label of c.
Under(page, i, c) ==
    \E k \in 1..(i - 1) : page[k] = Own(c) /\ \A j \in (k + 1)..(i - 1) : page[j].kind = "line"

ReadablePage(limit, page) ==
    /\ Size(page) <= limit
    /\ \E i \in DOMAIN page : page[i].kind = "line"
    /\ \A i \in DOMAIN page : page[i].kind = "line" => Under(page, i, page[i].change)

\* A fresh page has three entries.
LEMMA FreshIs ==
    ASSUME NEW c \in Change
    PROVE  /\ Fresh(c) \in Page /\ Len(Fresh(c)) = 3
           /\ Fresh(c)[1] = Total /\ Fresh(c)[2] = Own(c) /\ Fresh(c)[3] = Line(c)
           /\ Total.kind # "line" /\ Own(c).kind # "line"
           /\ Line(c).kind = "line" /\ Line(c).change = c
<1>1. Total \in EntryType /\ Own(c) \in EntryType /\ Line(c) \in EntryType
  BY OwnLabel, EntriesAreTyped
<1>2. Fresh(c) \in Page
  BY <1>1 DEF Fresh, Page
<1>3. /\ Len(Fresh(c)) = 3
      /\ Fresh(c)[1] = Total /\ Fresh(c)[2] = Own(c) /\ Fresh(c)[3] = Line(c)
  BY DEF Fresh
<1> QED
  BY <1>2, <1>3, OwnLabel, EntriesAreTyped

\* A fresh page is within every limit.
LEMMA FreshFits ==
    ASSUME NEW c \in Change, c.domain <= N, NEW limit \in Limits
    PROVE  Size(Fresh(c)) <= limit
<1>1. PICK page : page = Fresh(c)
  OBVIOUS
<1>2. PICK d \in Nat : d = c.domain /\ d <= N
  BY DEF Change
<1>3. /\ Len(page) = 3
      /\ Width(page[1]) = 1 /\ Width(page[2]) = 1 /\ Width(page[3]) = d
  BY <1>1, <1>2, FreshIs DEF Width
<1>4. PICK f : f = [i \in 0..3 |-> IF i = 3 THEN 2 + d ELSE i]
  OBVIOUS
<1>5. f = [i \in 0..3 |-> IF i = 0 THEN 0 ELSE f[i - 1] + Width(page[i])]
  <2>1. \A i \in 0..3 : i = 0 \/ i = 1 \/ i = 2 \/ i = 3
    OBVIOUS
  <2>2. f[0] = 0 /\ f[1] = 1 /\ f[2] = 2 /\ f[3] = 2 + d
    BY <1>4
  <2>3. \A i \in 0..3 : f[i] = IF i = 0 THEN 0 ELSE f[i - 1] + Width(page[i])
    BY <1>3, <2>1, <2>2
  <2> QED
    BY <1>4, <2>3
<1>6. PICK g : /\ Size(page) = g[3]
               /\ g = [i \in 0..3 |-> IF i = 0 THEN 0 ELSE g[i - 1] + Width(page[i])]
  <2>1. PICK g : g = CHOOSE h : h = [i \in 0..3 |-> IF i = 0 THEN 0
                                                   ELSE h[i - 1] + Width(page[i])]
    OBVIOUS
  <2>2. Size(page) = g[3]
    BY <1>3, <2>1 DEF Size
  <2>3. g = [i \in 0..3 |-> IF i = 0 THEN 0 ELSE g[i - 1] + Width(page[i])]
    BY <1>5, <2>1
  <2> QED
    BY <2>2, <2>3
<1>7. g[0] = 0 /\ g[1] = 1 /\ g[2] = 2 /\ g[3] = 2 + d
  BY <1>3, <1>6
<1> QED
  BY <1>1, <1>2, <1>6, <1>7, Constants

\* A fresh page can be read.
LEMMA FreshIsReadable ==
    ASSUME NEW c \in Change, c.domain <= N, NEW limit \in Limits
    PROVE  ReadablePage(limit, Fresh(c)) /\ Under(Fresh(c), 4, c)
<1>1. PICK page \in Page : page = Fresh(c)
  BY FreshIs
<1>2. /\ Len(page) = 3 /\ page[1] = Total /\ page[2] = Own(c) /\ page[3] = Line(c)
      /\ page[1].kind # "line" /\ page[2].kind # "line"
      /\ page[3].kind = "line" /\ page[3].change = c
  BY <1>1, FreshIs
<1>3. DOMAIN page = 1..3
  BY <1>2 DEF Page
<1>4. Under(page, 3, c) /\ Under(page, 4, c)
  <2>1. 2 \in 1..2 /\ 2 \in 1..3 /\ (2 + 1)..(3 - 1) = {} /\ (2 + 1)..(4 - 1) = {3}
    OBVIOUS
  <2> QED
    BY <1>2, <2>1 DEF Under
<1>5. \A i \in 1..3 : page[i].kind = "line" => Under(page, i, page[i].change)
  <2>1. \A i \in 1..3 : i = 1 \/ i = 2 \/ i = 3
    OBVIOUS
  <2> QED
    BY <1>2, <1>4, <2>1
<1>6. Size(page) <= limit
  BY <1>1, FreshFits
<1>7. 3 \in DOMAIN page
  BY <1>3
<1> QED
  BY <1>1, <1>2, <1>3, <1>4, <1>5, <1>6, <1>7 DEF ReadablePage

\* new is the page with the item: the o entries of the page, q of a lead, and the line.
Parts(book, item, o, q, new) ==
    /\ o \in Nat /\ q \in Nat /\ new \in Page
    /\ o = Len(book.current) /\ q = Len(item.lead) /\ new = With(book, item)
    /\ Len(new) = o + q + 1
    /\ \A i \in 1..o : new[i] = book.current[i]
    /\ \A i \in 1..q : new[o + i] = item.lead[i]
    /\ new[o + q + 1] = Line(item.change)

\* It has these parts.
LEMMA WithIs ==
    ASSUME NEW book \in BookType, NEW item \in ItemType
    PROVE  \E o, q, new : Parts(book, item, o, q, new)
<1> DEFINE o == Len(book.current)
           q == Len(item.lead)
           new == With(book, item)
<1>1. PICK l \in EntryType : l = Line(item.change)
  BY EntriesAreTyped DEF ItemType
<1>2. PICK a \in Seq(EntryType), b \in Seq(EntryType), e \in Seq(EntryType) :
          a = book.current /\ b = item.lead /\ e = <<l>>
  <2>1. <<l>> \in Seq(EntryType)
    OBVIOUS
  <2>2. book.current \in Seq(EntryType) /\ item.lead \in Seq(EntryType)
    BY DEF BookType, Page, ItemType
  <2> QED
    BY <2>1, <2>2
<1>3. o \in Nat /\ q \in Nat /\ o = Len(a) /\ q = Len(b) /\ Len(e) = 1 /\ e[1] = l
  BY <1>2, LenProperties
<1> HIDE DEF o, q
<1>4. PICK ab \in Seq(EntryType) : ab = a \o b
  BY <1>2, ConcatProperties
<1>5. Len(ab) = o + q /\ \A i \in 1..(o + q) : ab[i] = IF i <= o THEN a[i] ELSE b[i - o]
  BY <1>3, <1>4, ConcatProperties
<1>6. new = ab \o e
  BY <1>1, <1>2, <1>4 DEF With
<1> HIDE DEF new
<1>7. /\ new \in Seq(EntryType) /\ Len(new) = o + q + 1
      /\ \A i \in 1..(o + q + 1) : new[i] = IF i <= o + q THEN ab[i] ELSE e[i - (o + q)]
  <2>1. /\ ab \o e \in Seq(EntryType) /\ Len(ab \o e) = Len(ab) + Len(e)
        /\ \A i \in 1..(Len(ab) + Len(e)) :
              (ab \o e)[i] = IF i <= Len(ab) THEN ab[i] ELSE e[i - Len(ab)]
    BY ConcatProperties
  <2>2. Len(ab) = o + q /\ Len(e) = 1
    BY <1>3, <1>5
  <2> QED
    BY <1>6, <2>1, <2>2
<1>8. ASSUME NEW i \in 1..o
      PROVE  new[i] = book.current[i]
  <2>1. i \in 1..(o + q) /\ i \in 1..(o + q + 1) /\ i <= o /\ i <= o + q
    BY <1>3
  <2> QED
    BY <1>2, <1>5, <1>7, <2>1
<1>9. ASSUME NEW i \in 1..q
      PROVE  new[o + i] = item.lead[i]
  <2>1. /\ o + i \in 1..(o + q) /\ o + i \in 1..(o + q + 1) /\ ~(o + i <= o)
        /\ o + i <= o + q /\ (o + i) - o = i
    BY <1>3
  <2> QED
    BY <1>2, <1>5, <1>7, <2>1
<1>10. new[o + q + 1] = l
  <2>1. /\ o + q + 1 \in 1..(o + q + 1) /\ ~(o + q + 1 <= o + q)
        /\ (o + q + 1) - (o + q) = 1
    BY <1>3
  <2> QED
    BY <1>3, <1>7, <2>1
<1> QED
  <2>1. new \in Page /\ new[o + q + 1] = Line(item.change)
    BY <1>1, <1>7, <1>10 DEF Page
  <2>2. o = Len(book.current) /\ q = Len(item.lead) /\ new = With(book, item)
    BY DEF o, q, new
  <2>3. Parts(book, item, o, q, new)
    BY <1>3, <1>7, <1>8, <1>9, <2>1, <2>2 DEF Parts
  <2> QED
    BY <2>3

-----------------------------------------------------------------------------
(***************************************************************************)
(* The invariant of the books.                                             *)
(***************************************************************************)
\* After n items the pages say them, every full page can be read, and the last one too,
\* under the label of the last item.
BookInv(limit, items, n, book) ==
    /\ book \in BookType
    /\ \A p \in DOMAIN book.pages : ReadablePage(limit, book.pages[p])
    /\ Says(Whole(book), items, n)
    /\ n = 0 => book = Blank
    /\ n > 0 => /\ ReadablePage(limit, book.current)
                /\ Under(book.current, Len(book.current) + 1, items[n].change)

\* The next item, and that there is one.
NextItem(S, items, n, item) ==
    /\ ItemsOf(S, items) /\ S \in SUBSET Change /\ \A c \in S : c.domain <= N
    /\ n \in Nat /\ n + 1 \in 1..Len(items) /\ item = items[n + 1]

\* What is known of it.
LEMMA NextItemIs ==
    ASSUME NEW S, NEW items, NEW n, NEW item, NextItem(S, items, n, item)
    PROVE  /\ item \in ItemType /\ item.change \in Change /\ item.change.domain <= N
           /\ \/ item.lead = <<Own(item.change)>>
              \/ item.lead = <<Separator, Own(item.change)>>
              \/ n > 0 /\ item.lead = <<>> /\ Own(item.change) = Own(items[n].change)
<1>1. /\ items \in Seq(ItemType) /\ item = items[n + 1] /\ n + 1 \in 1..Len(items) /\ n \in Nat
      /\ item.change \in S /\ Led(items, n + 1)
  BY DEF NextItem, ItemsOf
<1>2. item \in ItemType /\ item.change \in Change /\ item.change.domain <= N
  <2>1. item \in ItemType
    BY <1>1, ElementOfSeq
  <2> QED
    BY <1>1, <2>1 DEF NextItem, ItemType
<1>3. (n + 1) - 1 = n
  BY <1>1
<1>4. \/ item.lead = <<Own(item.change)>>
      \/ item.lead = <<Separator, Own(item.change)>>
      \/ n > 0 /\ item.lead = <<>> /\ Own(item.change) = Own(items[n].change)
  BY <1>1, <1>3 DEF Led, Up, Own
<1> QED
  BY <1>2, <1>4

\* A page with the item has the line under its own label, at once or after lines alike.
LEMMA LineIsUnderItsLabel ==
    ASSUME NEW limit, NEW S, NEW items, NEW n, NEW item, NEW book,
           NextItem(S, items, n, item), BookInv(limit, items, n, book),
           NEW o, NEW q, NEW new, Parts(book, item, o, q, new)
    PROVE  /\ Under(new, o + q + 1, item.change)
           /\ \A i \in 1..q : item.lead[i].kind # "line"
<1>1. book \in BookType /\ item \in ItemType /\ item.change \in Change
  BY NextItemIs DEF BookInv
<1>2. /\ o \in Nat /\ q \in Nat /\ new \in Page /\ Len(new) = o + q + 1
      /\ \A i \in 1..o : new[i] = book.current[i]
      /\ \A i \in 1..q : new[o + i] = item.lead[i]
      /\ o = Len(book.current) /\ q = Len(item.lead)
  BY DEF Parts
<1>3. PICK own \in EntryType : own = Own(item.change) /\ own.kind # "line"
  BY <1>1, OwnLabel
<1>4. Separator.kind # "line"
  BY EntriesAreTyped
<1>5. CASE item.lead = <<own>>
  <2>1. q = 1 /\ item.lead[1] = own
    BY <1>2, <1>5
  <2>2. new[o + 1] = own /\ o + 1 \in 1..((o + q + 1) - 1)
    BY <1>2, <2>1
  <2>3. ((o + 1) + 1)..((o + q + 1) - 1) = {}
    BY <1>2, <2>1
  <2>4. Under(new, o + q + 1, item.change)
    BY <1>3, <2>2, <2>3 DEF Under
  <2> QED
    BY <1>3, <2>1, <2>4
<1>6. CASE item.lead = <<Separator, own>>
  <2>1. q = 2 /\ item.lead[2] = own /\ item.lead[1] = Separator
    BY <1>2, <1>6
  <2>2. new[o + 2] = own /\ o + 2 \in 1..((o + q + 1) - 1)
    BY <1>2, <2>1
  <2>3. ((o + 2) + 1)..((o + q + 1) - 1) = {}
    BY <1>2, <2>1
  <2>4. Under(new, o + q + 1, item.change)
    BY <1>3, <2>2, <2>3 DEF Under
  <2>5. \A i \in 1..2 : i = 1 \/ i = 2
    OBVIOUS
  <2> QED
    BY <1>3, <1>4, <2>1, <2>4, <2>5
<1>7. CASE n > 0 /\ item.lead = <<>> /\ own = Own(items[n].change)
  <2>1. q = 0 /\ o + q + 1 = o + 1
    BY <1>2, <1>7
  <2>2. Under(book.current, o + 1, items[n].change)
    BY <1>2, <1>7 DEF BookInv
  <2>3. PICK k \in 1..o : /\ book.current[k] = own
                          /\ \A j \in (k + 1)..o : book.current[j].kind = "line"
    BY <1>2, <1>7, <2>2 DEF Under
  <2>4. new[k] = own /\ \A j \in (k + 1)..o : new[j].kind = "line"
    <3>1. k \in 1..o /\ \A j \in (k + 1)..o : j \in 1..o
      BY <1>2
    <3> QED
      BY <1>2, <2>3, <3>1
  <2>5. Under(new, o + 1, item.change)
    <3>1. (o + 1) - 1 = o
      BY <1>2
    <3> QED
      BY <1>3, <2>3, <2>4, <3>1 DEF Under
  <2> QED
    BY <2>1, <2>5
<1> QED
  <2>1. \/ item.lead = <<own>>
        \/ item.lead = <<Separator, own>>
        \/ n > 0 /\ item.lead = <<>> /\ own = Own(items[n].change)
    BY <1>3, NextItemIs
  <2> QED
    BY <1>5, <1>6, <1>7, <2>1

\* An item for which there is room goes on the current page.
LEMMA ItemFits ==
    ASSUME NEW limit, NEW S, NEW items, NEW n, NEW item, NEW book,
           NextItem(S, items, n, item), BookInv(limit, items, n, book),
           Size(With(book, item)) <= limit
    PROVE  BookInv(limit, items, n + 1, AddItem(limit, book, item))
<1>1. /\ book \in BookType /\ item \in ItemType /\ item.change \in Change
      /\ n \in Nat /\ item = items[n + 1]
  BY NextItemIs DEF BookInv, NextItem
<1>2. PICK o, q, new : Parts(book, item, o, q, new)
  BY <1>1, WithIs
<1>3. new = With(book, item) /\ o = Len(book.current) /\ q = Len(item.lead)
  BY <1>2 DEF Parts
<1>4. /\ o \in Nat /\ q \in Nat /\ new \in Page /\ Len(new) = o + q + 1
      /\ \A i \in 1..o : new[i] = book.current[i]
      /\ \A i \in 1..q : new[o + i] = item.lead[i]
      /\ new[o + q + 1] = Line(item.change)
  BY <1>2 DEF Parts
<1>5. PICK book2 : book2 = AddItem(limit, book, item)
  OBVIOUS
<1>6. book2 \in BookType /\ book2.pages = book.pages /\ book2.current = new
  BY <1>1, <1>3, <1>5, AddItemIs
<1>7. PICK last \in Nat : last = o + q + 1
  BY <1>4
<1>8. new[last].kind = "line" /\ new[last].change = item.change
  BY <1>1, <1>4, <1>7, EntriesAreTyped
<1>9. Under(new, last, item.change) /\ \A i \in 1..q : item.lead[i].kind # "line"
  <2>1. Under(new, o + q + 1, item.change) /\ \A i \in 1..q : item.lead[i].kind # "line"
    BY <1>2, LineIsUnderItsLabel
  <2> QED
    BY <1>7, <2>1
<1>10. \A i \in (o + 1)..(last - 1) : new[i].kind # "line"
  <2>1. ASSUME NEW i \in (o + 1)..(last - 1)
        PROVE  new[i].kind # "line"
    <3>1. i - o \in 1..q /\ o + (i - o) = i
      BY <1>4, <1>7
    <3> QED
      BY <1>4, <1>9, <3>1
  <2> QED
    BY <2>1
<1>11. Says(Whole(book2), items, n + 1)
  <2>1. book.pages \in Seq(Page) /\ book.current \in Page
    BY <1>1 DEF BookType
  <2>2. OneMore(Append(book.pages, book.current), Append(book.pages, new), item.change)
    <3>1. /\ Len(new) = last /\ Len(book.current) < last
          /\ \A i \in 1..Len(book.current) : new[i] = book.current[i]
          /\ \A i \in (Len(book.current) + 1)..(last - 1) : new[i].kind # "line"
      <4>1. Len(new) = last /\ o < last
        BY <1>4, <1>7
      <4>2. o = Len(book.current)
        BY <1>3
      <4>3. \A i \in (o + 1)..(last - 1) : new[i].kind # "line"
        BY <1>10
      <4>4. \A i \in 1..o : new[i] = book.current[i]
        BY <1>4
      <4> QED
        BY <4>1, <4>2, <4>3, <4>4
    <3>2. new[last].kind = "line" /\ new[last].change = item.change /\ new \in Page
      BY <1>4, <1>8
    <3> QED
      BY <2>1, <3>1, <3>2, LongerLastPage
  <2>3. OneMore(Whole(book), Whole(book2), items[n + 1].change)
    BY <1>1, <1>6, <2>2 DEF Whole
  <2> QED
    BY <1>1, <2>3, SaysOneMore DEF BookInv
<1>12. Under(new, last + 1, item.change)
  <2>1. PICK k \in 1..(last - 1) : /\ new[k] = Own(item.change)
                                   /\ \A j \in (k + 1)..(last - 1) : new[j].kind = "line"
    BY <1>9 DEF Under
  <2>2. \A j \in (k + 1)..last : j \in (k + 1)..(last - 1) \/ j = last
    BY <1>7
  <2>3. k \in 1..((last + 1) - 1) /\ (last + 1) - 1 = last
    BY <1>7
  <2> QED
    BY <1>8, <2>1, <2>2, <2>3 DEF Under
<1>13. ReadablePage(limit, new)
  <2>1. DOMAIN new = 1..last /\ DOMAIN book.current = 1..o
    BY <1>1, <1>3, <1>4, <1>7 DEF Page, BookType
  <2>2. last \in 1..last
    BY <1>4, <1>7
  <2>3. ASSUME NEW i \in 1..last, new[i].kind = "line"
        PROVE  Under(new, i, new[i].change)
    <3>1. CASE i = last
      BY <1>8, <1>9, <3>1
    <3>2. CASE i # last
      <4>1. i \in 1..o /\ new[i] = book.current[i]
        BY <1>4, <1>7, <1>10, <2>3, <3>2
      <4>2. n > 0
        <5>1. ASSUME n = 0
              PROVE  FALSE
          <6>1. book = Blank
            BY <5>1 DEF BookInv
          <6>2. book.current = <<Total>> /\ o = 1 /\ i = 1
            BY <1>3, <4>1, <6>1 DEF Blank
          <6> QED
            BY <2>3, <4>1, <6>2, EntriesAreTyped
        <5> QED
          BY <1>1, <5>1
      <4>3. Under(book.current, i, new[i].change)
        BY <2>1, <2>3, <4>1, <4>2 DEF BookInv, ReadablePage
      <4>4. PICK k \in 1..(i - 1) :
                /\ book.current[k] = Own(new[i].change)
                /\ \A j \in (k + 1)..(i - 1) : book.current[j].kind = "line"
        BY <4>3 DEF Under
      <4>5. new[k] = book.current[k] /\ \A j \in (k + 1)..(i - 1) : new[j] = book.current[j]
        BY <1>4, <4>1, <4>4
      <4> QED
        BY <4>4, <4>5 DEF Under
    <3> QED
      BY <3>1, <3>2
  <2> QED
    BY <1>3, <1>8, <2>1, <2>2, <2>3 DEF ReadablePage
<1>14. \A p \in DOMAIN book.pages : ReadablePage(limit, book.pages[p])
  BY DEF BookInv
<1> QED
  BY <1>1, <1>4, <1>5, <1>6, <1>7, <1>11, <1>12, <1>13, <1>14 DEF BookInv

\* An item for which there is no room goes on a fresh page.
LEMMA ItemTurnsThePage ==
    ASSUME NEW limit \in Limits, NEW S, NEW items, NEW n, NEW item, NEW book,
           NextItem(S, items, n, item), BookInv(limit, items, n, book),
           ~(Size(With(book, item)) <= limit)
    PROVE  BookInv(limit, items, n + 1, AddItem(limit, book, item))
<1>1. /\ book \in BookType /\ item \in ItemType
      /\ n \in Nat /\ item = items[n + 1]
  BY NextItemIs DEF BookInv, NextItem
<1>2. PICK c \in Change : c = item.change /\ c.domain <= N
  BY NextItemIs
<1>3. PICK new \in Page : new = Fresh(c)
  BY FreshIs
<1>4. /\ Len(new) = 3 /\ new[1] = Total
      /\ new[1].kind # "line" /\ new[2].kind # "line"
      /\ new[3].kind = "line" /\ new[3].change = c
  BY <1>3, FreshIs
<1>5. ReadablePage(limit, new) /\ Under(new, 4, c)
  BY <1>2, <1>3, FreshIsReadable
<1>6. PICK book2 : book2 = AddItem(limit, book, item)
  OBVIOUS
<1>7. book2 \in BookType /\ book2.pages = Flushed(book) /\ book2.current = new
  BY <1>1, <1>2, <1>3, <1>6, AddItemIs
<1>8. book.pages \in Seq(Page) /\ book.current \in Page
  BY <1>1 DEF BookType
<1>9. \A p \in DOMAIN book.pages : ReadablePage(limit, book.pages[p])
  BY DEF BookInv
<1>10. ReadablePage(limit, book2.current)
       /\ Under(book2.current, Len(book2.current) + 1, items[n + 1].change)
  <2>1. Len(book2.current) + 1 = 4
    <3>1. Len(book2.current) = 3
      BY <1>4, <1>7
    <3>2. \A z \in Nat : z = 3 => z + 1 = 4
      OBVIOUS
    <3> QED
      BY <3>1, <3>2
  <2>2. items[n + 1].change = c
    BY <1>1, <1>2
  <2> QED
    BY <1>5, <1>7, <2>1, <2>2
<1>11. CASE n = 0
  <2>1. book = Blank /\ Len(book.current) = 1 /\ book.current[1] = Total
    BY <1>11 DEF BookInv, Blank
  <2>2. book2.pages = book.pages
    BY <1>7, <2>1 DEF Flushed
  <2>3. OneMore(Append(book.pages, book.current), Append(book.pages, new), new[3].change)
    <3>1. /\ Len(book.current) < 3
          /\ \A i \in 1..Len(book.current) : new[i] = book.current[i]
      BY <1>4, <2>1
    <3>2. \A i \in (Len(book.current) + 1)..(3 - 1) : new[i].kind # "line"
      <4>1. (Len(book.current) + 1)..(3 - 1) = {2}
        BY <2>1
      <4> QED
        BY <1>4, <4>1
    <3> QED
      BY <1>4, <1>8, <3>1, <3>2, LongerLastPage
  <2>4. OneMore(Whole(book), Whole(book2), items[n + 1].change)
    BY <1>1, <1>2, <1>4, <1>7, <2>2, <2>3 DEF Whole
  <2>5. Says(Whole(book2), items, n + 1)
    BY <1>1, <2>4, SaysOneMore DEF BookInv
  <2> QED
    BY <1>1, <1>6, <1>7, <1>9, <1>10, <2>2, <2>5 DEF BookInv
<1>12. CASE n > 0
  <2>1. ReadablePage(limit, book.current) /\ Under(book.current, Len(book.current) + 1,
                                                   items[n].change)
    BY <1>12 DEF BookInv
  <2>2. Len(book.current) > 1
    <3>1. PICK o \in Nat : o = Len(book.current) /\ DOMAIN book.current = 1..o
      <4>1. book.current \in Page
        BY <1>8
      <4> QED
        BY <4>1 DEF Page
    <3>2. PICK i \in 1..o : book.current[i].kind = "line"
      BY <2>1, <3>1 DEF ReadablePage
    <3>3. PICK k \in 1..(i - 1) : TRUE
      BY <2>1, <3>1, <3>2 DEF ReadablePage, Under
    <3> QED
      BY <3>1, <3>2, <3>3
  <2>3. book2.pages = Append(book.pages, book.current)
    BY <1>7, <2>2 DEF Flushed
  <2>4. OneMore(Whole(book), Append(Whole(book), new), new[3].change)
    <3>1. Whole(book) \in Seq(Page)
      BY <1>8 DEF Whole
    <3>2. \A i \in 1..(3 - 1) : new[i].kind # "line"
      <4>1. \A i \in 1..(3 - 1) : i = 1 \/ i = 2
        OBVIOUS
      <4> QED
        BY <1>4, <4>1
    <3> QED
      <4>1. 3 \in Nat \ {0} /\ Len(new) = 3 /\ new[3].kind = "line"
        BY <1>4
      <4> QED
        BY <3>1, <3>2, <4>1, OnePageMore
  <2>5. OneMore(Whole(book), Whole(book2), items[n + 1].change)
    BY <1>1, <1>2, <1>4, <1>7, <2>3, <2>4 DEF Whole
  <2>6. Says(Whole(book2), items, n + 1)
    BY <1>1, <2>5, SaysOneMore DEF BookInv
  <2>7. \A p \in DOMAIN book2.pages : ReadablePage(limit, book2.pages[p])
    <3>1. PICK m \in Nat : m = Len(book.pages) /\ DOMAIN book.pages = 1..m
      BY <1>8
    <3>2. /\ DOMAIN book2.pages = 1..(m + 1)
          /\ \A p \in 1..m : book2.pages[p] = book.pages[p]
          /\ book2.pages[m + 1] = book.current
      BY <1>8, <2>3, <3>1
    <3>3. \A p \in 1..(m + 1) : p \in 1..m \/ p = m + 1
      OBVIOUS
    <3> QED
      BY <1>9, <2>1, <3>1, <3>2, <3>3
  <2> QED
    BY <1>1, <1>6, <1>7, <1>10, <2>6, <2>7 DEF BookInv
<1> QED
  BY <1>1, <1>11, <1>12

\* After any number of items the books are right.
LEMMA BooksAreRight ==
    ASSUME NEW limit \in Limits, NEW S, NEW items, ItemsOf(S, items), S \in SUBSET Change,
           \A c \in S : c.domain <= N
    PROVE  Len(items) \in Nat /\ BookInv(limit, items, Len(items), Books(limit, items)[Len(items)])
<1>1. PICK m \in Nat : m = Len(items) /\ items \in Seq(ItemType)
  BY LenProperties DEF ItemsOf
<1>2. PICK B : B = Books(limit, items)
  OBVIOUS
<1>3. /\ B[0] = Blank
      /\ \A n \in 1..m : B[n] = AddItem(limit, B[n - 1], items[n])
  BY <1>1, <1>2, BooksAreKept
<1> DEFINE T == {n \in Nat : n <= m => BookInv(limit, items, n, B[n])}
<1>4. 0 \in T
  <2>1. Blank \in BookType /\ Blank.pages = <<>> /\ Blank.current = <<Total>>
    BY EntriesAreTyped DEF Blank, BookType, Page
  <2>2. Places(Whole(Blank)) = {}
    <3>1. PICK W : W = Whole(Blank)
      OBVIOUS
    <3>2. DOMAIN W = {1} /\ W[1] = <<Total>>
      BY <2>1, <3>1 DEF Whole
    <3>3. PICK first : first = W[1] /\ DOMAIN first = {1} /\ first[1] = Total
      BY <3>2
    <3>4. Total.kind # "line"
      BY EntriesAreTyped
    <3> QED
      BY <3>1, <3>2, <3>3, <3>4, PlacesAre
  <2>3. Says(Whole(Blank), items, 0)
    BY <2>2 DEF Says
  <2>4. BookInv(limit, items, 0, Blank)
    BY <2>1, <2>3 DEF BookInv
  <2> QED
    BY <1>3, <2>4
<1>5. ASSUME NEW n \in Nat, n \in T
      PROVE  n + 1 \in T
  <2>1. SUFFICES ASSUME n + 1 <= m
                 PROVE  BookInv(limit, items, n + 1, B[n + 1])
    OBVIOUS
  <2>2. BookInv(limit, items, n, B[n])
    BY <1>5, <2>1
  <2>3. B[n + 1] = AddItem(limit, B[n], items[n + 1])
    BY <1>3, <2>1
  <2>4. NextItem(S, items, n, items[n + 1])
    BY <1>1, <2>1 DEF NextItem
  <2> QED
    BY <2>2, <2>3, <2>4, ItemFits, ItemTurnsThePage
<1> HIDE DEF T
<1>6. Nat \subseteq T
  BY <1>4, <1>5, Induct
<1> QED
  BY <1>1, <1>2, <1>6 DEF T

\* What a report of some changes is: pages that can be read and say them all in order.
ReportOf(limit, changes, pages) ==
    /\ pages \in Seq(Page)
    /\ changes # {} => Len(pages) > 0
    /\ \A p \in DOMAIN pages : ReadablePage(limit, pages[p])
    /\ {ChangeAt(pages, x) : x \in Places(pages)} = changes
    /\ \A x, y \in Places(pages) : Precedes(x, y) =>
          /\ Ranked(ChangeAt(pages, x), ChangeAt(pages, y))
          /\ ChangeAt(pages, x) # ChangeAt(pages, y)

\* BuildMessages writes one.
LEMMA MessagesAreAReport ==
    ASSUME NEW limit \in Limits, NEW S \in SUBSET Change, IsFiniteSet(S),
           \A c \in S : c.delta # 0 /\ c.domain <= N
    PROVE  ReportOf(limit, S, BuildMessages(limit, S))
<1>1. PICK items : items = Items(S) /\ ItemsOf(S, items)
  BY ItemsAreRight
<1>2. PICK m \in Nat : m = Len(items)
  BY <1>1, LenProperties DEF ItemsOf
<1>3. PICK book : book = Books(limit, items)[m] /\ BookInv(limit, items, m, book)
  BY <1>1, <1>2, BooksAreRight
<1>4. PICK pages : pages = BuildMessages(limit, S) /\ pages = Flushed(book)
  BY <1>1, <1>2, <1>3 DEF BuildMessages
<1>5. book \in BookType /\ book.pages \in Seq(Page) /\ book.current \in Page
  BY <1>3 DEF BookInv, BookType
<1>6. CASE m = 0
  <2>1. book = Blank /\ pages = <<>>
    BY <1>3, <1>4, <1>6 DEF BookInv, Blank, Flushed
  <2>2. S = {}
    BY <1>1, <1>2, <1>6 DEF ItemsOf
  <2>3. Places(pages) = {}
    BY <2>1, PlacesAre
  <2> QED
    BY <1>4, <2>1, <2>2, <2>3 DEF ReportOf
<1>7. CASE m > 0
  <2>1. ReadablePage(limit, book.current)
    BY <1>3, <1>7 DEF BookInv
  <2>2. Len(book.current) > 1
    <3>1. PICK o \in Nat : o = Len(book.current) /\ DOMAIN book.current = 1..o
      BY <1>5 DEF Page
    <3>2. PICK i \in 1..o : book.current[i].kind = "line"
      BY <2>1, <3>1 DEF ReadablePage
    <3>3. PICK k \in 1..(i - 1) : TRUE
      BY <2>1, <3>1, <3>2 DEF ReadablePage, Under
    <3> QED
      BY <3>1, <3>2, <3>3
  <2>3. pages = Append(book.pages, book.current)
    BY <1>4, <2>2 DEF Flushed
  <2>4. pages \in Seq(Page) /\ Len(pages) > 0
    BY <1>5, <2>3
  <2>5. \A p \in DOMAIN pages : ReadablePage(limit, pages[p])
    <3>1. PICK k \in Nat : k = Len(book.pages) /\ DOMAIN book.pages = 1..k
      BY <1>5
    <3>2. /\ DOMAIN pages = 1..(k + 1)
          /\ \A p \in 1..k : pages[p] = book.pages[p]
          /\ pages[k + 1] = book.current
      BY <1>5, <2>3, <3>1
    <3>3. \A p \in 1..(k + 1) : p \in 1..k \/ p = k + 1
      OBVIOUS
    <3>4. \A p \in DOMAIN book.pages : ReadablePage(limit, book.pages[p])
      BY <1>3 DEF BookInv
    <3> QED
      BY <2>1, <3>1, <3>2, <3>3, <3>4
  <2>6. Says(pages, items, m)
    BY <1>3, <2>3 DEF BookInv, Whole
  <2>7. /\ \A k \in 1..m : items[k].change \in S
        /\ \A c \in S : \E k \in 1..m : items[k].change = c
        /\ \A k, l \in 1..m : k < l => /\ Ranked(items[k].change, items[l].change)
                                       /\ items[k].change # items[l].change
    BY <1>1, <1>2 DEF ItemsOf
  <2>8. {ChangeAt(pages, x) : x \in Places(pages)} = S
    <3>1. ASSUME NEW x \in Places(pages)
          PROVE  ChangeAt(pages, x) \in S
      BY <2>6, <2>7 DEF Says
    <3>2. ASSUME NEW c \in S
          PROVE  \E x \in Places(pages) : c = ChangeAt(pages, x)
      BY <2>6, <2>7 DEF Says
    <3> QED
      BY <3>1, <3>2
  <2>9. ASSUME NEW x \in Places(pages), NEW y \in Places(pages), Precedes(x, y)
        PROVE  /\ Ranked(ChangeAt(pages, x), ChangeAt(pages, y))
               /\ ChangeAt(pages, x) # ChangeAt(pages, y)
    <3>1. PICK k \in 1..m, l \in 1..m : /\ k < l
                                        /\ ChangeAt(pages, x) = items[k].change
                                        /\ ChangeAt(pages, y) = items[l].change
      BY <2>6, <2>9 DEF Says
    <3> QED
      BY <2>7, <3>1
  <2> QED
    BY <1>4, <2>4, <2>5, <2>8, <2>9 DEF ReportOf
<1> QED
  BY <1>2, <1>6, <1>7

-----------------------------------------------------------------------------
(***************************************************************************)
(* The changes of a run.                                                   *)
(***************************************************************************)
\* The comparison compares what one source verified.
LEMMA ComparableIsVerified ==
    ASSUME NEW a \in Snapshots, NEW b \in Snapshots
    PROVE  ComparableSnapshots(a, b) <=> Verified(a) /\ Verified(b) /\ a.source = b.source
<1>1. ASSUME NEW s \in Snapshots
      PROVE  /\ Verified(s) => ComparableSource(s) = s.source /\ s.source # ""
             /\ ~Verified(s) => ComparableSource(s) = ""
  <2>1. s # NoSnapshot => /\ s \in [source : {"", "aizhan", "chinaz"}, valid : BOOLEAN,
                                    weights : [1..Fields -> Int \cup {NoWeight}]]
                          /\ s.valid => s.source # ""
    BY NotifierAssumption
  <2>2. s # NoSnapshot => s.source \in {"", "aizhan", "chinaz"} /\ (s.valid => s.source # "")
    BY <2>1
  <2> QED
    BY <2>2 DEF Verified, ComparableSource
<1> QED
  BY <1>1 DEF ComparableSnapshots

\* The changes are those that the property speaks of.
LEMMA ChangesAre ==
    ASSUME TypeOK
    PROVE  \A c : c \in Changes <=>
                     \E d \in Domain, f \in Field : IsChange(d, f) /\ c = ChangeOf(d, f)
<1>1. ASSUME NEW d \in Domain, Answered(d)
      PROVE  \A c : c \in ChangesForDomain(d, fetched[d][1], fetched[d][2]) <=>
                        \E f \in Field : IsChange(d, f) /\ c = ChangeOf(d, f)
  <2>1. fetched[d] \in Told
    BY <1>1 DEF Answered, TypeOK
  <2>2. PICK a \in Snapshots, b \in Snapshots : a = fetched[d][1] /\ b = fetched[d][2]
    BY <2>1 DEF Told
  <2>3. \A c : c \in ChangesForDomain(d, a, b) <=>
                   /\ ComparableSnapshots(a, b)
                   /\ \E f \in Field : /\ NoWeight \notin {a.weights[f], b.weights[f]}
                                       /\ a.weights[f] # b.weights[f]
                                       /\ c = [domain |-> d, field |-> f,
                                               delta |-> b.weights[f] - a.weights[f]]
    BY DEF ChangesForDomain
  <2>4. \A f \in Field : IsChange(d, f) <=> /\ ComparableSnapshots(a, b)
                                            /\ NoWeight \notin {a.weights[f], b.weights[f]}
                                            /\ a.weights[f] # b.weights[f]
    BY <1>1, <2>2, ComparableIsVerified DEF IsChange
  <2>5. \A f \in Field : ChangeOf(d, f) = [domain |-> d, field |-> f,
                                           delta |-> b.weights[f] - a.weights[f]]
    BY <2>2 DEF ChangeOf
  <2> QED
    BY <2>2, <2>3, <2>4, <2>5
<1>2. \A c : c \in Changes <=>
                \E d \in Domain : /\ Answered(d)
                                  /\ c \in ChangesForDomain(d, fetched[d][1], fetched[d][2])
  BY DEF Changes
<1>3. \A d \in Domain, f \in Field : IsChange(d, f) => Answered(d)
  BY DEF IsChange
<1> QED
  BY <1>1, <1>2, <1>3

\* They are finitely many, of the active domains, and none is a change by nothing.
LEMMA ChangesAreTyped ==
    ASSUME TypeOK
    PROVE  /\ Changes \in SUBSET Change /\ IsFiniteSet(Changes)
           /\ \A c \in Changes : c.delta # 0 /\ c.domain <= N
<1>1. N \in Nat /\ Fields \in Nat
  BY Constants
<1>2. ASSUME NEW d \in Domain, NEW f \in Field, IsChange(d, f)
      PROVE  ChangeOf(d, f) \in Change /\ ChangeOf(d, f).delta # 0
  <2>1. fetched[d] \in Told
    BY <1>2 DEF IsChange, Answered, TypeOK
  <2>2. PICK a \in Snapshots, b \in Snapshots : a = fetched[d][1] /\ b = fetched[d][2]
    BY <2>1 DEF Told
  <2>3. /\ a # NoSnapshot /\ b # NoSnapshot
        /\ a.weights[f] # NoWeight /\ b.weights[f] # NoWeight /\ a.weights[f] # b.weights[f]
    BY <1>2, <2>2 DEF IsChange, Verified
  <2>4. \A s \in Snapshots \ {NoSnapshot} : s.weights \in [1..Fields -> Int \cup {NoWeight}]
    BY NotifierAssumption
  <2>5. PICK x \in Int, y \in Int : x = a.weights[f] /\ y = b.weights[f] /\ x # y
    BY <2>3, <2>4 DEF Field
  <2>6. y - x \in Int /\ y - x # 0 /\ d \in Nat /\ f \in Nat
    BY <1>1, <2>5 DEF Domain, Field
  <2>7. ChangeOf(d, f) = [domain |-> d, field |-> f, delta |-> y - x]
    BY <2>2, <2>5 DEF ChangeOf
  <2> QED
    BY <2>6, <2>7 DEF Change
<1>3. ASSUME NEW c \in Changes
      PROVE  /\ c \in Change /\ c.delta # 0
             /\ c.domain \in Domain /\ c.field \in Field /\ c = ChangeOf(c.domain, c.field)
  <2>1. PICK d \in Domain, f \in Field : IsChange(d, f) /\ c = ChangeOf(d, f)
    BY ChangesAre
  <2>2. c.domain = d /\ c.field = f
    BY <2>1 DEF ChangeOf
  <2> QED
    BY <1>2, <2>1, <2>2
<1>4. IsFiniteSet(Changes)
  <2>1. IsFiniteSet(Domain) /\ IsFiniteSet(Field)
    BY <1>1, FS_Interval DEF Domain, Field
  <2>2. IsFiniteSet(Domain \X Field)
    BY <2>1, FS_Product
  <2>3. PICK g : g = [c \in Changes |-> <<c.domain, c.field>>]
    OBVIOUS
  <2>4. g \in [Changes -> Domain \X Field]
    BY <1>3, <2>3
  <2>5. ASSUME NEW a \in Changes, NEW b \in Changes, g[a] = g[b]
        PROVE  a = b
    <3>1. a.domain = b.domain /\ a.field = b.field
      BY <2>3, <2>5
    <3>2. a = ChangeOf(a.domain, a.field) /\ b = ChangeOf(b.domain, b.field)
      BY <1>3
    <3> QED
      BY <3>1, <3>2
  <2>6. g \in Injection(Changes, Domain \X Field)
    BY <2>4, <2>5, Fun_IsInj
  <2> QED
    BY <2>2, <2>6, FS_Injection
<1>5. \A c \in Changes : c.domain <= N
  BY <1>1, <1>3 DEF Domain
<1> QED
  BY <1>3, <1>4, <1>5

\* The messages of a run are a report of its changes.
LEMMA MessagesReport ==
    ASSUME TypeOK
    PROVE  ReportOf(config.limit, Changes, BuildMessages(config.limit, Changes))
<1>1. config.limit \in Limits
  BY DEF TypeOK
<1> QED
  BY <1>1, ChangesAreTyped, MessagesAreAReport

-----------------------------------------------------------------------------
(***************************************************************************)
(* A run of the daemon.                                                    *)
(***************************************************************************)
\* While it sends, delivery counts the posts behind it, a retry not counted.
Sending ==
    /\ \A d \in Domain : fetched[d] # <<"pending">>
    /\ Changes # {} /\ ReportOf(config.limit, Changes, messages)
    /\ delivery.message \in 1..Len(messages) /\ delivery.url \in Target
    /\ delivery.attempt \in {1, 2}
    /\ delivery.tried =
          (delivery.message - 1) * Urls + (delivery.url - 1) + (delivery.attempt - 1)
    /\ delivery.sent => ~delivery.unheard

RunInv ==
    /\ verdict # "none" => daemon.pc = "waiting"
    /\ daemon.pc \in {"listing", "comparing", "down"} => delivery = NoDelivery
    /\ \A p \in DOMAIN messages : ReadablePage(config.limit, messages[p])
    /\ daemon.pc = "sending" => Sending
    /\ SuccessMeansDelivered

DeliveryType == [message : Nat, url : Nat, attempt : Nat, sent : BOOLEAN,
                 heard : BOOLEAN, unheard : BOOLEAN, tried : Nat]

\* The first of two posts has failed.
Retried ==
    /\ delivery.attempt = 1 /\ delivery'.attempt = 2
    /\ delivery'.message = delivery.message /\ delivery'.url = delivery.url
    /\ delivery'.sent = delivery.sent /\ delivery'.unheard = delivery.unheard
    /\ delivery'.tried = delivery.tried + 1
    /\ UNCHANGED <<daemon, verdict>>

\* A webhook is done with.
DoneWith ==
    /\ delivery'.attempt = 1
    /\ delivery'.tried = delivery.tried + (IF delivery.attempt = 1 THEN 1 ELSE 0)
    /\ delivery'.sent => delivery.sent /\ (delivery'.unheard => delivery.unheard)
    /\ IF delivery.url = Urls
       THEN delivery'.url = 1 /\ delivery'.message = delivery.message + 1
       ELSE delivery'.url = delivery.url + 1 /\ delivery'.message = delivery.message
    /\ IF delivery.url = Urls /\ delivery.message = Len(messages)
       THEN \E v \in {"ok", "failed"} : Finish(v) /\ (v = "ok" => delivery'.sent /\ NoneFailed)
       ELSE UNCHANGED <<daemon, verdict>>

\* What a post does.
LEMMA PostIs ==
    ASSUME TypeOK, PostWebhookOnce
    PROVE  delivery' \in DeliveryType /\ (Retried \/ DoneWith)
<1>1. delivery \in DeliveryType
  BY DEF TypeOK, DeliveryType
<1>2. PICK h \in BOOLEAN, s \in BOOLEAN, u \in BOOLEAN :
          h = delivery.heard /\ s = delivery.sent /\ u = delivery.unheard
  BY <1>1 DEF DeliveryType
<1>3. PICK m \in Nat, l \in Nat, a \in Nat, t \in Nat :
          m = delivery.message /\ l = delivery.url /\ a = delivery.attempt /\ t = delivery.tried
  BY <1>1 DEF DeliveryType
<1>4. delivery = [message |-> m, url |-> l, attempt |-> a, sent |-> s,
                  heard |-> h, unheard |-> u, tried |-> t]
  BY <1>1, <1>2, <1>3 DEF DeliveryType
<1>5. PICK o \in {"ok", "lost", "failed"} :
        LET heard   == delivery.heard \/ o # "failed"
            again   == o # "ok" /\ delivery.attempt = 1
            last    == delivery.url = Urls /\ delivery.message = Len(messages)
            sent    == AndSent(delivery.sent, o = "ok")
            tried   == delivery.tried + (IF delivery.attempt = 1 THEN 1 ELSE 0)
            unheard == delivery.unheard \/ ~heard
        IN  /\ delivery' =
                 IF again THEN [delivery EXCEPT !.attempt = 2, !.heard = heard, !.tried = tried]
                 ELSE [message |-> delivery.message + (IF delivery.url = Urls THEN 1 ELSE 0),
                       url     |-> IF delivery.url = Urls THEN 1 ELSE delivery.url + 1,
                       attempt |-> 1, sent |-> sent,
                       heard |-> FALSE, unheard |-> unheard, tried |-> tried]
            /\ IF ~again /\ last THEN Finish(IF sent /\ NoneFailed THEN "ok" ELSE "failed")
                                 ELSE UNCHANGED <<daemon, verdict>>
  BY DEF PostWebhookOnce
<1>6. PICK heard \in BOOLEAN, sent \in BOOLEAN, unheard \in BOOLEAN :
          /\ heard = (delivery.heard \/ o # "failed")
          /\ sent = AndSent(delivery.sent, o = "ok")
          /\ unheard = (delivery.unheard \/ ~heard)
  BY DEF AndSent
<1>7. PICK tried \in Nat : tried = t + (IF a = 1 THEN 1 ELSE 0)
  BY <1>3
<1>8. sent => s /\ (unheard => u)
  BY <1>2, <1>6 DEF AndSent
<1>9. CASE o # "ok" /\ a = 1
  <2>1. /\ delivery' = [delivery EXCEPT !.attempt = 2, !.heard = heard, !.tried = tried]
        /\ UNCHANGED <<daemon, verdict>>
    BY <1>3, <1>5, <1>6, <1>7, <1>9
  <2>2. delivery' = [message |-> m, url |-> l, attempt |-> 2, sent |-> s,
                     heard |-> heard, unheard |-> u, tried |-> tried]
    BY <1>4, <2>1
  <2>3. delivery' \in DeliveryType
    BY <2>2 DEF DeliveryType
  <2>4. Retried
    BY <1>2, <1>3, <1>7, <1>9, <2>1, <2>2 DEF Retried
  <2> QED
    BY <2>3, <2>4
<1>10. CASE ~(o # "ok" /\ a = 1)
  <2>1. delivery' = [message |-> m + (IF l = Urls THEN 1 ELSE 0),
                     url |-> IF l = Urls THEN 1 ELSE l + 1, attempt |-> 1, sent |-> sent,
                     heard |-> FALSE, unheard |-> unheard, tried |-> tried]
    BY <1>3, <1>5, <1>6, <1>7, <1>10
  <2>2. delivery' \in DeliveryType
    BY <2>1 DEF DeliveryType
  <2>3. IF l = Urls /\ m = Len(messages)
        THEN Finish(IF sent /\ NoneFailed THEN "ok" ELSE "failed")
        ELSE UNCHANGED <<daemon, verdict>>
    BY <1>3, <1>5, <1>6, <1>10
  <2>4. /\ delivery'.attempt = 1 /\ delivery'.tried = tried
        /\ delivery'.sent = sent /\ delivery'.unheard = unheard
        /\ delivery'.url = (IF l = Urls THEN 1 ELSE l + 1)
        /\ delivery'.message = m + (IF l = Urls THEN 1 ELSE 0)
    BY <2>1
  <2>5. IF l = Urls THEN delivery'.url = 1 /\ delivery'.message = m + 1
                    ELSE delivery'.url = l + 1 /\ delivery'.message = m
    BY <2>4
  <2>6. delivery'.sent => delivery.sent /\ (delivery'.unheard => delivery.unheard)
    BY <1>2, <1>8, <2>4
  <2>7. IF l = Urls /\ m = Len(messages)
        THEN \E v \in {"ok", "failed"} : Finish(v) /\ (v = "ok" => delivery'.sent /\ NoneFailed)
        ELSE UNCHANGED <<daemon, verdict>>
    BY <2>3, <2>4
  <2>8. DoneWith
    BY <1>3, <1>7, <2>4, <2>5, <2>6, <2>7 DEF DoneWith
  <2> QED
    BY <2>2, <2>8
<1> QED
  BY <1>9, <1>10

\* The answers decide what the changes are.
LEMMA ChangesStay ==
    ASSUME UNCHANGED fetched
    PROVE  /\ Changes' = Changes /\ (NoneFailed' <=> NoneFailed)
           /\ \A d : Answered(d)' <=> Answered(d)
BY DEF Changes, NoneFailed, Answered

\* Steps that leave the run alone, or go on with one that has nothing to send yet.
LEMMA RunStays ==
    ASSUME TypeOK, RunInv, UNCHANGED <<config, fetched, messages, delivery, verdict>>,
           \/ daemon'.pc = daemon.pc
           \/ delivery = NoDelivery /\ verdict = "none" /\ daemon'.pc # "sending"
    PROVE  RunInv'
<1>1. Changes' = Changes /\ \A d : Answered(d)' <=> Answered(d)
  BY ChangesStay
<1>2. SuccessMeansDelivered'
  BY <1>1 DEF RunInv, SuccessMeansDelivered
<1>3. daemon'.pc = "sending" => Sending'
  BY <1>1 DEF RunInv, Sending
<1>4. \A p \in DOMAIN messages' : ReadablePage(config'.limit, messages'[p])
  BY DEF RunInv
<1>5. verdict' # "none" => daemon'.pc = "waiting"
  BY DEF RunInv
<1>6. daemon'.pc \in {"listing", "comparing", "down"} => delivery' = NoDelivery
  BY DEF RunInv
<1> QED
  BY <1>2, <1>3, <1>4, <1>5, <1>6 DEF RunInv

\* Steps that begin a run, or end the process.
LEMMA RunBegins ==
    ASSUME messages' = <<>>, delivery' = NoDelivery, verdict' = "none", daemon'.pc # "sending"
    PROVE  RunInv'
<1>1. SuccessMeansDelivered'
  BY DEF SuccessMeansDelivered
<1> QED
  BY <1>1 DEF RunInv

\* Steps that end a run that has sent nothing.
LEMMA RunEnds ==
    ASSUME daemon'.pc = "waiting", delivery' = NoDelivery, verdict' # "none",
           \A p \in DOMAIN messages' : ReadablePage(config'.limit, messages'[p]),
           verdict' = "ok" => Changes' = {} /\ \A d \in Domain : Answered(d)'
    PROVE  RunInv'
<1>1. SuccessMeansDelivered'
  BY DEF SuccessMeansDelivered
<1> QED
  BY <1>1 DEF RunInv

LEMMA RunList ==
    ASSUME TypeOK, RunInv, ListActiveDomains
    PROVE  RunInv'
<1>1. daemon.pc = "listing" /\ delivery = NoDelivery /\ verdict = "none"
  BY DEF ListActiveDomains, RunInv
<1>2. UNCHANGED <<config, fetched, messages, delivery>>
  BY DEF ListActiveDomains, outside
<1>3. CASE daemon' = [daemon EXCEPT !.pc = "comparing"] /\ UNCHANGED verdict
  <2>1. daemon'.pc # "sending"
    BY <1>3 DEF TypeOK
  <2> QED
    BY <1>1, <1>2, <1>3, <2>1, RunStays
<1>4. CASE Finish("failed")
  <2>1. daemon'.pc = "waiting" /\ verdict' = "failed"
    BY <1>4 DEF Finish, TypeOK
  <2>2. \A p \in DOMAIN messages' : ReadablePage(config'.limit, messages'[p])
    BY <1>2 DEF RunInv
  <2> QED
    BY <1>1, <1>2, <2>1, <2>2, RunEnds
<1> QED
  BY <1>3, <1>4 DEF ListActiveDomains

LEMMA RunFetch ==
    ASSUME TypeOK, RunInv, NEW d \in Domain, FetchOne(d)
    PROVE  RunInv'
<1>1. /\ daemon.pc = "comparing" /\ delivery = NoDelivery /\ verdict = "none"
      /\ UNCHANGED <<config, daemon, messages, delivery, verdict>>
  BY DEF FetchOne, RunInv, outside
<1>2. SuccessMeansDelivered'
  BY <1>1 DEF SuccessMeansDelivered
<1>3. \A p \in DOMAIN messages' : ReadablePage(config'.limit, messages'[p])
  BY <1>1 DEF RunInv
<1> QED
  BY <1>1, <1>2, <1>3 DEF RunInv

\* The comparison writes the pages.
LEMMA RunCompare ==
    ASSUME TypeOK, RunInv, Compare
    PROVE  RunInv'
<1>1. /\ daemon.pc = "comparing" /\ delivery = NoDelivery /\ verdict = "none"
      /\ \A d \in Domain : fetched[d] # <<"pending">>
      /\ messages' = BuildMessages(config.limit, Changes)
      /\ UNCHANGED <<config, clock, fetched>>
  BY DEF Compare, RunInv, outside
<1>2. /\ Changes' = Changes /\ (NoneFailed' <=> NoneFailed)
      /\ \A d : Answered(d)' <=> Answered(d)
  BY <1>1, ChangesStay
<1>3. ReportOf(config'.limit, Changes', messages')
  BY <1>1, <1>2, MessagesReport
<1>4. \A p \in DOMAIN messages' : ReadablePage(config'.limit, messages'[p])
  BY <1>3 DEF ReportOf
<1>5. CASE Changes # {} /\ config.enabled
  <2>1. /\ daemon' = [daemon EXCEPT !.pc = "sending"]
        /\ delivery' = [NoDelivery EXCEPT !.message = 1, !.url = 1, !.attempt = 1]
        /\ UNCHANGED verdict
    BY <1>5 DEF Compare
  <2>2. daemon'.pc = "sending"
    BY <2>1 DEF TypeOK
  <2>3. Changes' # {}
    BY <1>2, <1>5
  <2>4. Len(messages') > 0 /\ Len(messages') \in Nat
    BY <1>3, <2>3 DEF ReportOf
  <2>5. /\ delivery'.message = 1 /\ delivery'.url = 1 /\ delivery'.attempt = 1
        /\ delivery'.tried = 0 /\ delivery'.unheard = FALSE
    BY <2>1 DEF NoDelivery
  <2>6. delivery'.message \in 1..Len(messages') /\ delivery'.url \in Target
    BY <2>4, <2>5, Constants DEF Target
  <2>7. delivery'.tried = (delivery'.message - 1) * Urls + (delivery'.url - 1)
                              + (delivery'.attempt - 1)
    BY <2>5, Constants
  <2>8. ~delivery'.unheard
    BY <2>5
  <2>9. \A d \in Domain : fetched'[d] # <<"pending">>
    BY <1>1
  <2>10. delivery'.attempt \in {1, 2}
    BY <2>5
  <2>11. Sending'
    BY <1>3, <2>3, <2>6, <2>7, <2>8, <2>9, <2>10 DEF Sending
  <2>12. verdict' = "none"
    BY <1>1, <2>1
  <2>13. SuccessMeansDelivered'
    BY <2>12 DEF SuccessMeansDelivered
  <2> QED
    BY <1>4, <2>2, <2>11, <2>12, <2>13 DEF RunInv
<1>6. CASE ~(Changes # {} /\ config.enabled)
  <2>1. /\ Finish(IF Changes = {} /\ NoneFailed THEN "ok" ELSE "failed")
        /\ UNCHANGED delivery
    BY <1>6 DEF Compare
  <2>2. daemon'.pc = "waiting"
    BY <2>1 DEF Finish, TypeOK
  <2>3. verdict' # "none" /\ (verdict' = "ok" => Changes = {} /\ NoneFailed)
    BY <2>1 DEF Finish
  <2>4. NoneFailed => \A d \in Domain : Answered(d)
    BY <1>1 DEF NoneFailed, Answered
  <2> QED
    BY <1>1, <1>2, <1>4, <2>1, <2>2, <2>3, <2>4, RunEnds
<1> QED
  BY <1>5, <1>6

\* A post brings the run one step on, and the last one ends it.
LEMMA RunPost ==
    ASSUME TypeOK, RunInv, PostWebhookOnce
    PROVE  RunInv'
<1>1. /\ daemon.pc = "sending" /\ verdict = "none"
      /\ UNCHANGED <<config, clock, fetched, messages>>
  BY DEF PostWebhookOnce, RunInv, outside
<1>2. /\ Changes' = Changes /\ (NoneFailed' <=> NoneFailed)
      /\ \A d : Answered(d)' <=> Answered(d)
  BY <1>1, ChangesStay
<1>3. /\ \A d \in Domain : fetched[d] # <<"pending">>
      /\ Changes # {} /\ ReportOf(config.limit, Changes, messages)
      /\ delivery.message \in 1..Len(messages) /\ delivery.url \in Target
      /\ delivery.attempt \in {1, 2}
      /\ delivery.tried =
            (delivery.message - 1) * Urls + (delivery.url - 1) + (delivery.attempt - 1)
      /\ delivery.sent => ~delivery.unheard
  BY <1>1 DEF RunInv, Sending
<1>4. /\ \A d \in Domain : fetched'[d] # <<"pending">>
      /\ Changes' # {} /\ ReportOf(config'.limit, Changes', messages')
  BY <1>1, <1>2, <1>3
<1>5. \A p \in DOMAIN messages' : ReadablePage(config'.limit, messages'[p])
  BY <1>4 DEF ReportOf
<1>6. PICK n \in Nat : n = Len(messages) /\ n = Len(messages') /\ n > 0
  BY <1>1, <1>3 DEF ReportOf
<1>7. PICK q \in Nat \ {0} : q = Urls
  BY Constants
<1>8. PICK m \in 1..n, l \in 1..q, a \in {1, 2}, t \in Nat :
          /\ m = delivery.message /\ l = delivery.url /\ a = delivery.attempt
          /\ t = delivery.tried /\ t = (m - 1) * q + (l - 1) + (a - 1)
  BY <1>3, <1>6, <1>7 DEF Target, TypeOK
<1>9. CASE Retried
  <2>1. /\ delivery'.message = m /\ delivery'.url = l /\ delivery'.attempt = 2
        /\ delivery'.tried = t + 1 /\ a = 1
        /\ delivery'.sent = delivery.sent /\ delivery'.unheard = delivery.unheard
        /\ UNCHANGED <<daemon, verdict>>
    BY <1>8, <1>9 DEF Retried
  <2>2. delivery'.message \in 1..Len(messages') /\ delivery'.url \in Target
    BY <1>6, <1>7, <1>8, <2>1 DEF Target
  <2>3. delivery'.tried = (delivery'.message - 1) * Urls + (delivery'.url - 1)
                              + (delivery'.attempt - 1)
    BY <1>7, <1>8, <2>1
  <2>4. delivery'.sent => ~delivery'.unheard
    BY <1>3, <2>1
  <2>5. Sending'
    BY <1>4, <2>1, <2>2, <2>3, <2>4 DEF Sending
  <2>6. SuccessMeansDelivered'
    BY <1>1, <2>1 DEF SuccessMeansDelivered
  <2> QED
    BY <1>1, <1>5, <2>1, <2>5, <2>6 DEF RunInv
<1>10. CASE DoneWith /\ ~(l = q /\ m = n)
  <2>1. /\ delivery'.attempt = 1 /\ delivery'.tried = t + (IF a = 1 THEN 1 ELSE 0)
        /\ IF l = q THEN delivery'.url = 1 /\ delivery'.message = m + 1
                    ELSE delivery'.url = l + 1 /\ delivery'.message = m
        /\ UNCHANGED <<daemon, verdict>>
    BY <1>6, <1>7, <1>8, <1>10 DEF DoneWith
  <2>2. delivery'.sent => delivery.sent /\ (delivery'.unheard => delivery.unheard)
    BY <1>10 DEF DoneWith
  <2>3. delivery'.message \in 1..n /\ delivery'.url \in 1..q
    <3>1. m \in 1..n /\ l \in 1..q /\ n \in Nat /\ q \in Nat /\ ~(l = q /\ m = n)
      BY <1>10
    <3>2. CASE l = q
      BY <2>1, <3>1, <3>2
    <3>3. CASE l # q
      BY <2>1, <3>1, <3>3
    <3> QED
      BY <3>2, <3>3
  <2>4. delivery'.tried = t + 1 - (a - 1)
    BY <1>8, <2>1
  <2>5. delivery'.tried = (m - 1) * q + l
    BY <1>7, <1>8, <2>4
  <2>6. (m - 1) * q + q = m * q /\ (m - 1) * q \in Int
    BY <1>7, <1>8
  <2>7. delivery'.tried = (delivery'.message - 1) * Urls + (delivery'.url - 1)
                              + (delivery'.attempt - 1)
    <3>1. CASE l = q
      BY <1>7, <1>8, <2>1, <2>5, <2>6, <3>1
    <3>2. CASE l # q
      BY <1>7, <1>8, <2>1, <2>5, <2>6, <3>2
    <3> QED
      BY <3>1, <3>2
  <2>8. delivery'.message \in 1..Len(messages') /\ delivery'.url \in Target
    BY <1>6, <1>7, <2>3 DEF Target
  <2>9. delivery'.sent => ~delivery'.unheard
    BY <1>3, <2>2
  <2>10. delivery'.attempt \in {1, 2}
    BY <2>1
  <2>11. Sending'
    BY <1>4, <2>7, <2>8, <2>9, <2>10 DEF Sending
  <2>12. SuccessMeansDelivered'
    BY <1>1, <2>1 DEF SuccessMeansDelivered
  <2> QED
    BY <1>1, <1>5, <2>1, <2>11, <2>12 DEF RunInv
<1>11. CASE DoneWith /\ l = q /\ m = n
  <2>1. /\ delivery'.tried = t + (IF a = 1 THEN 1 ELSE 0)
        /\ \E v \in {"ok", "failed"} : Finish(v) /\ (v = "ok" => delivery'.sent /\ NoneFailed)
    BY <1>6, <1>7, <1>8, <1>11 DEF DoneWith
  <2>2. delivery'.sent => delivery.sent /\ (delivery'.unheard => delivery.unheard)
    BY <1>11 DEF DoneWith
  <2>3. daemon'.pc = "waiting" /\ (verdict' = "ok" => delivery'.sent /\ NoneFailed)
    BY <2>1 DEF Finish, TypeOK
  <2>4. delivery'.tried = (n - 1) * q + q
    <3>1. PICK x \in Int : x = (m - 1) * q /\ x = (n - 1) * q
      BY <1>11
    <3>2. t = x + (l - 1) + (a - 1) /\ l = q
      BY <1>8, <1>11, <3>1
    <3> QED
      BY <2>1, <3>1, <3>2
  <2>5. delivery'.tried = Len(messages') * Urls
    BY <1>6, <1>7, <2>4
  <2>6. NoneFailed => \A d \in Domain : Answered(d)'
    BY <1>2, <1>3 DEF NoneFailed, Answered
  <2>7. messages' # <<>>
    BY <1>6
  <2>8. verdict' = "ok" => ~delivery'.unheard
    BY <1>3, <2>2, <2>3
  <2>9. SuccessMeansDelivered'
    BY <2>3, <2>5, <2>6, <2>7, <2>8 DEF SuccessMeansDelivered
  <2> QED
    BY <1>5, <2>3, <2>9 DEF RunInv
<1> QED
  BY <1>9, <1>10, <1>11, PostIs

-----------------------------------------------------------------------------
(***************************************************************************)
(* The invariant.                                                          *)
(***************************************************************************)
NInv == TypeOK /\ DaysInv /\ RunInv

DaemonType == [pc : PlaceType, next : Nat, timer : Nat, setbacks : Nat, stopped : BOOLEAN]

\* How long a wait for the first day that has not come is.
LEMMA DelayIs ==
    ASSUME TypeOK
    PROVE  NextRun(clock) = Passed + 1 /\ Passed \in Nat /\ Delay \in Nat
           /\ NextRun(clock) * Day = clock + Delay
<1>1. PICK n \in Nat : n = NextRun(clock) /\ n = Passed + 1 /\ Passed \in Nat
  <2>1. Passed \in Nat /\ NextRun(clock) = Passed + 1
    BY DayHasCome DEF NextRun, Passed, TypeOK
  <2> QED
    BY <2>1
<1>2. ~(n * Day <= clock)
  BY <1>1, DayHasCome DEF Passed, TypeOK
<1>3. PICK x \in Nat : x = n * Day
  BY <1>1, Constants
<1> QED
  BY <1>1, <1>2, <1>3 DEF Delay, TypeOK

\* Who finishes a run waits for the first day that has not come.
LEMMA FinishIs ==
    ASSUME TypeOK, NEW v, Finish(v)
    PROVE  daemon' \in DaemonType /\ daemon'.pc = "waiting" /\ SetsOut /\ verdict' = v
<1>1. PICK n \in Nat, w \in Nat, s \in Nat : n = NextRun(clock) /\ w = Delay /\ s = setbacks
  BY DelayIs DEF TypeOK
<1>2. daemon' = [daemon EXCEPT !.pc = "waiting", !.next = n, !.timer = w, !.setbacks = s]
      /\ verdict' = v
  BY <1>1 DEF Finish
<1>3. /\ daemon' \in DaemonType /\ daemon'.pc = "waiting" /\ daemon'.next = n
      /\ daemon'.timer = w /\ daemon'.setbacks = s
  BY <1>1, <1>2 DEF TypeOK, DaemonType, PlaceType
<1> QED
  BY <1>1, <1>2, <1>3, DelayIs DEF SetsOut

\* So does a process that begins and does not report at once.
LEMMA BegunIs ==
    ASSUME TypeOK
    PROVE  /\ Begun \in DaemonType /\ Begun.pc \in {"listing", "waiting"}
           /\ Begun.next = Passed + 1 /\ Begun.next * Day = clock + Begun.timer
           /\ Begun.setbacks = setbacks
<1>1. PICK n \in Nat, w \in Nat, s \in Nat : n = NextRun(clock) /\ w = Delay /\ s = setbacks
  BY DelayIs DEF TypeOK
<1>2. PICK pc \in {"listing", "waiting"} :
          Begun = [pc |-> pc, next |-> n, timer |-> w, setbacks |-> s, stopped |-> FALSE]
  BY <1>1 DEF Begun
<1> QED
  BY <1>1, <1>2, DelayIs DEF DaemonType, PlaceType

\* The types of the daemon and of its run.
LEMMA Typed ==
    ASSUME TypeOK, UNCHANGED <<config, setbacks, reported>>, clock' \in Nat,
           daemon' \in DaemonType,
           fetched' \in [Domain -> Told \cup {<<"pending">>, <<"failed">>}],
           messages' \in Seq(Page), delivery' \in DeliveryType,
           verdict' \in {"none", "ok", "failed"}, missed' \in SUBSET Nat
    PROVE  TypeOK'
BY DEF TypeOK, DaemonType, DeliveryType

LEMMA NothingIsTyped ==
    /\ Pending \in [Domain -> Told \cup {<<"pending">>, <<"failed">>}]
    /\ NoDelivery \in DeliveryType /\ <<>> \in Seq(Page)
BY DEF Pending, NoDelivery, DeliveryType

LEMMA InitIsRight ==
    ASSUME Init
    PROVE  NInv
<1>1. clock = 1 /\ clock \in Nat /\ clock \div Day = 0
  <2>1. PICK d \in Nat : d = Day /\ d > 1
    BY Constants
  <2>2. 1 \div d = 0
    BY <2>1
  <2> QED
    BY <2>1, <2>2 DEF Init
<1>2. PICK pc \in {"listing", "waiting"} :
          daemon = [pc |-> pc, next |-> 1, timer |-> Day - 1, setbacks |-> 0, stopped |-> FALSE]
  <2>1. NextRun(clock) = 1 /\ Delay = Day - 1
    <3>1. NextRun(clock) = 1
      BY <1>1 DEF NextRun
    <3> QED
      BY <1>1, <3>1, Constants DEF Delay
  <2>2. \E pc \in {"listing", "waiting"} :
            Begun = [pc |-> pc, next |-> 1, timer |-> Day - 1, setbacks |-> setbacks,
                     stopped |-> FALSE]
    BY <2>1 DEF Begun
  <2> QED
    BY <2>2 DEF Init
<1>3. /\ fetched \in [Domain -> Told \cup {<<"pending">>, <<"failed">>}]
      /\ messages = <<>> /\ messages \in Seq(Page)
      /\ delivery = NoDelivery /\ delivery \in DeliveryType
      /\ verdict = "none" /\ reported = <<>> /\ missed = {} /\ setbacks = 0
      /\ config \in [limit : Limits, enabled : BOOLEAN, onStart : BOOLEAN]
  BY NothingIsTyped DEF Init
<1>4. TypeOK
  <2>1. daemon \in DaemonType
    BY <1>2, Constants DEF DaemonType, PlaceType
  <2> QED
    BY <1>1, <1>3, <2>1 DEF TypeOK, DeliveryType, DaemonType
<1>5. DaysInv
  <2>1. Passed = 0 /\ DOMAIN reported = {}
    BY <1>1, <1>3 DEF Passed
  <2>2. daemon.setbacks = 0 /\ daemon.next = 1 /\ daemon.timer = Day - 1
    BY <1>2
  <2>3. WaitIsLong
    BY <1>1, <1>3, <2>1, <2>2, Constants DEF WaitIsLong
  <2> QED
    BY <1>3, <2>1, <2>3 DEF DaysInv, InOrder, Accounted, RunsArePast, MissedArePast
<1>6. RunInv
  <2>1. SuccessMeansDelivered
    BY <1>3 DEF SuccessMeansDelivered
  <2> QED
    BY <1>2, <1>3, <2>1 DEF RunInv
<1> QED
  BY <1>4, <1>5, <1>6 DEF NInv

\* The clock goes on by itself, or is set.
LEMMA ClockIsRight ==
    ASSUME NInv, NEW now \in Nat, ClockReads(now), daemon' \in DaemonType,
           daemon'.pc = daemon.pc, daemon'.next = daemon.next,
           daemon'.setbacks = daemon.setbacks, setbacks' \in Nat,
           \/ setbacks' > setbacks
           \/ /\ setbacks' = setbacks /\ clock <= now
              /\ clock + daemon.timer <= now + daemon'.timer
    PROVE  NInv'
<1>1. /\ TypeOK /\ DaysInv /\ clock' = now
      /\ UNCHANGED <<config, fetched, messages, delivery, verdict, reported>>
  BY DEF NInv, ClockReads
<1>2. missed' \in SUBSET Nat
  <2>1. now \div Day \in Nat
    BY DayHasCome
  <2> QED
    <3>1. missed' \subseteq missed \cup 1..(now \div Day)
      BY DEF ClockReads
    <3> QED
      BY <2>1, <3>1 DEF NInv, TypeOK
<1>3. TypeOK'
  BY <1>1, <1>2 DEF TypeOK, DaemonType
<1>4. RunInv'
  BY <1>1, RunStays DEF NInv
<1>5. DaysInv'
  BY <1>1, DaysPass DEF DaemonType
<1> QED
  BY <1>3, <1>4, <1>5 DEF NInv

LEMMA TickIsRight ==
    ASSUME NInv, Tick
    PROVE  NInv'
<1>1. clock \in Nat /\ setbacks \in Nat /\ daemon \in DaemonType
  BY DEF NInv, TypeOK, DaemonType
<1>2. PICK t \in Nat : t = IF daemon.timer > 0 THEN daemon.timer - 1 ELSE 0
  BY <1>1 DEF DaemonType
<1>3. ClockReads(clock + 1) /\ daemon' = [daemon EXCEPT !.timer = t] /\ setbacks' = setbacks
  BY <1>2 DEF Tick
<1>4. /\ daemon' \in DaemonType /\ daemon'.pc = daemon.pc /\ daemon'.next = daemon.next
      /\ daemon'.setbacks = daemon.setbacks /\ daemon'.timer = t
  BY <1>1, <1>3 DEF DaemonType
<1>5. clock + daemon.timer <= (clock + 1) + daemon'.timer /\ clock <= clock + 1
  BY <1>1, <1>2, <1>4 DEF DaemonType
<1> QED
  BY <1>1, <1>3, <1>4, <1>5, ClockIsRight

LEMMA ChangeClockIsRight ==
    ASSUME NInv, ChangeClock
    PROVE  NInv'
<1>1. clock \in Nat /\ setbacks \in Nat /\ daemon \in DaemonType
  BY DEF NInv, TypeOK, DaemonType
<1>2. PICK c \in ClockChanges :
          /\ clock = c[1] /\ ClockReads(c[2])
          /\ setbacks' = setbacks + (IF c[2] < c[1] THEN 1 ELSE 0)
          /\ UNCHANGED daemon
  BY DEF ChangeClock
<1>3. c[2] \in Nat
  BY NotifierAssumption
<1>4. PICK now \in Nat : now = c[2]
  BY <1>3
<1>5. /\ ClockReads(now) /\ daemon' = daemon
      /\ setbacks' = setbacks + (IF now < clock THEN 1 ELSE 0)
  BY <1>2, <1>4
<1>6. setbacks' \in Nat /\ (setbacks' > setbacks \/ (setbacks' = setbacks /\ clock <= now))
  <2>1. CASE now < clock
    BY <1>1, <1>5, <2>1
  <2>2. CASE ~(now < clock)
    BY <1>1, <1>5, <2>2
  <2> QED
    BY <2>1, <2>2
<1>7. clock <= now => clock + daemon.timer <= now + daemon'.timer
  BY <1>1, <1>5 DEF DaemonType
<1> QED
  BY <1>1, <1>5, <1>6, <1>7, ClockIsRight

LEMMA FireIsRight ==
    ASSUME NInv, Fire
    PROVE  NInv'
<1>1. /\ TypeOK /\ daemon' = [daemon EXCEPT !.pc = "listing"]
      /\ reported' = Append(reported, [day |-> daemon.next, setbacks |-> daemon.setbacks])
      /\ fetched' = Pending /\ messages' = <<>> /\ delivery' = NoDelivery /\ verdict' = "none"
      /\ UNCHANGED <<config, clock, setbacks, missed>>
  BY DEF NInv, Fire, outside
<1>2. /\ daemon' \in DaemonType /\ daemon'.pc = "listing"
      /\ reported' \in Seq(RunType)
  <2>1. PICK r \in RunType : r = [day |-> daemon.next, setbacks |-> daemon.setbacks]
    BY <1>1 DEF TypeOK, RunType
  <2>2. reported' \in Seq(RunType)
    BY <1>1, <2>1 DEF TypeOK
  <2> QED
    BY <1>1, <2>2 DEF TypeOK, DaemonType, PlaceType
<1>3. TypeOK'
  BY <1>1, <1>2, NothingIsTyped DEF TypeOK, DaemonType, DeliveryType
<1>4. RunInv'
  BY <1>1, <1>2, RunBegins
<1> QED
  BY <1>3, <1>4, DaysFire DEF NInv

LEMMA ListIsRight ==
    ASSUME NInv, ListActiveDomains
    PROVE  NInv'
<1>1. /\ TypeOK /\ daemon.pc = "listing"
      /\ UNCHANGED <<config, clock, setbacks, fetched, messages, delivery, reported, missed>>
  BY DEF NInv, ListActiveDomains, outside
<1>2. /\ daemon' \in DaemonType /\ verdict' \in {"none", "ok", "failed"}
      /\ \/ daemon'.pc = "comparing" /\ daemon'.setbacks = daemon.setbacks
         \/ daemon'.pc = "waiting" /\ SetsOut
  <2>1. CASE daemon' = [daemon EXCEPT !.pc = "comparing"] /\ UNCHANGED verdict
    BY <1>1, <2>1 DEF TypeOK, DaemonType, PlaceType
  <2>2. CASE Finish("failed")
    BY <1>1, <2>2, FinishIs
  <2> QED
    BY <2>1, <2>2 DEF ListActiveDomains
<1>3. TypeOK'
  BY <1>1, <1>2 DEF TypeOK, DaemonType
<1>4. WaitsForNext
  BY <1>1, <1>2 DEF WaitsForNext, SetsOut
<1> QED
  BY <1>1, <1>3, <1>4, DaysStay, RunList DEF NInv

LEMMA FetchIsRight ==
    ASSUME NInv, NEW d \in Domain, FetchOne(d)
    PROVE  NInv'
<1>1. /\ TypeOK /\ daemon.pc = "comparing"
      /\ UNCHANGED <<config, clock, setbacks, daemon, messages, delivery, verdict,
                     reported, missed>>
  BY DEF NInv, FetchOne, outside
<1>2. PICK answer \in Told \cup {<<"failed">>} : fetched' = [fetched EXCEPT ![d] = answer]
  BY DEF FetchOne, Told
<1>3. TypeOK'
  BY <1>1, <1>2 DEF TypeOK
<1>4. WaitsForNext
  BY <1>1 DEF WaitsForNext
<1> QED
  BY <1>1, <1>3, <1>4, DaysStay, RunFetch DEF NInv

LEMMA CompareIsRight ==
    ASSUME NInv, Compare
    PROVE  NInv'
<1>1. /\ TypeOK /\ daemon.pc = "comparing" /\ verdict \in {"none", "ok", "failed"}
      /\ messages' = BuildMessages(config.limit, Changes)
      /\ UNCHANGED <<config, clock, setbacks, fetched, reported, missed>>
  BY DEF NInv, TypeOK, Compare, outside
<1>2. messages' \in Seq(Page)
  BY <1>1, MessagesReport DEF ReportOf
<1>3. /\ daemon' \in DaemonType /\ verdict' \in {"none", "ok", "failed"}
      /\ delivery' \in DeliveryType
      /\ \/ daemon'.pc = "sending" /\ daemon'.setbacks = daemon.setbacks
         \/ daemon'.pc = "waiting" /\ SetsOut
  <2>1. CASE Changes # {} /\ config.enabled
    <3>1. /\ daemon' = [daemon EXCEPT !.pc = "sending"]
          /\ delivery' = [NoDelivery EXCEPT !.message = 1, !.url = 1, !.attempt = 1]
          /\ UNCHANGED verdict
      BY <2>1 DEF Compare
    <3>2. daemon' \in DaemonType /\ daemon'.pc = "sending" /\ daemon'.setbacks = daemon.setbacks
      BY <1>1, <3>1 DEF TypeOK, DaemonType, PlaceType
    <3>3. delivery' \in DeliveryType
      BY <3>1, NothingIsTyped DEF DeliveryType
    <3> QED
      BY <1>1, <3>1, <3>2, <3>3
  <2>2. CASE ~(Changes # {} /\ config.enabled)
    <3>1. PICK v \in {"ok", "failed"} : Finish(v)
      BY <2>2 DEF Compare
    <3>2. delivery' = delivery /\ delivery \in DeliveryType
      BY <1>1, <2>2 DEF Compare, TypeOK, DeliveryType
    <3> QED
      BY <1>1, <3>1, <3>2, FinishIs
  <2> QED
    BY <2>1, <2>2
<1>4. TypeOK'
  BY <1>1, <1>2, <1>3, Typed DEF TypeOK
<1>5. WaitsForNext
  BY <1>1, <1>3 DEF WaitsForNext, SetsOut
<1> QED
  BY <1>1, <1>4, <1>5, DaysStay, RunCompare DEF NInv

LEMMA PostIsRight ==
    ASSUME NInv, PostWebhookOnce
    PROVE  NInv'
<1>1. /\ TypeOK /\ daemon.pc = "sending" /\ daemon \in DaemonType
      /\ verdict \in {"none", "ok", "failed"}
      /\ UNCHANGED <<config, clock, setbacks, fetched, messages, reported, missed>>
  BY DEF NInv, TypeOK, PostWebhookOnce, DaemonType, outside
<1>2. delivery' \in DeliveryType /\ (Retried \/ DoneWith)
  BY <1>1, PostIs
<1>3. /\ daemon' \in DaemonType /\ verdict' \in {"none", "ok", "failed"}
      /\ \/ daemon' = daemon
         \/ daemon'.pc = "waiting" /\ SetsOut
  <2>1. UNCHANGED <<daemon, verdict>> \/ \E v \in {"ok", "failed"} : Finish(v)
    BY <1>2 DEF Retried, DoneWith
  <2>2. CASE UNCHANGED <<daemon, verdict>>
    BY <1>1, <2>2
  <2>3. CASE \E v \in {"ok", "failed"} : Finish(v)
    <3>1. PICK v \in {"ok", "failed"} : Finish(v)
      BY <2>3
    <3> QED
      BY <1>1, <3>1, FinishIs
  <2> QED
    BY <2>1, <2>2, <2>3
<1>4. TypeOK'
  BY <1>1, <1>2, <1>3 DEF TypeOK, DaemonType, DeliveryType
<1>5. WaitsForNext
  BY <1>1, <1>3 DEF WaitsForNext, SetsOut
<1> QED
  BY <1>1, <1>4, <1>5, DaysStay, RunPost DEF NInv

LEMMA StopIsRight ==
    ASSUME NInv, Stop
    PROVE  NInv'
<1>1. /\ TypeOK /\ daemon' = [daemon EXCEPT !.stopped = TRUE]
      /\ UNCHANGED <<config, clock, setbacks, fetched, messages, delivery, verdict,
                     reported, missed>>
  BY DEF NInv, Stop, outside
<1>2. /\ daemon' \in DaemonType /\ daemon'.pc = daemon.pc /\ daemon'.next = daemon.next
      /\ daemon'.timer = daemon.timer /\ daemon'.setbacks = daemon.setbacks
  BY <1>1 DEF TypeOK, DaemonType
<1>3. TypeOK'
  BY <1>1, <1>2 DEF TypeOK, DaemonType
<1>4. WaitsForNext
  BY <1>2 DEF WaitsForNext
<1> QED
  BY <1>1, <1>2, <1>3, <1>4, DaysStay, RunStays DEF NInv

\* Exit and Crash.
LEMMA GoDownIsRight ==
    ASSUME NInv, GoDown
    PROVE  NInv'
<1>1. /\ TypeOK /\ daemon' = [daemon EXCEPT !.pc = "down"]
      /\ fetched' = Pending /\ messages' = <<>> /\ delivery' = NoDelivery /\ verdict' = "none"
      /\ UNCHANGED <<config, clock, setbacks, reported>>
  BY DEF NInv, GoDown, outside
<1>2. daemon' \in DaemonType /\ daemon'.pc = "down"
  BY <1>1 DEF TypeOK, DaemonType, PlaceType
<1>3. missed' \in SUBSET Nat
  BY <1>1 DEF GoDown, TypeOK
<1>4. TypeOK'
  BY <1>1, <1>2, <1>3, NothingIsTyped DEF TypeOK, DaemonType, DeliveryType
<1>5. RunInv'
  BY <1>1, <1>2, RunBegins
<1> QED
  BY <1>4, <1>5, DaysDown DEF NInv

LEMMA BootIsRight ==
    ASSUME NInv, Boot
    PROVE  NInv'
<1>1. /\ TypeOK /\ daemon.pc = "down" /\ daemon' = Begun
      /\ UNCHANGED <<config, clock, setbacks, fetched, messages, delivery, verdict,
                     reported, missed>>
  BY DEF NInv, Boot, outside
<1>2. /\ daemon' \in DaemonType /\ daemon'.pc \in {"listing", "waiting"}
      /\ SetsOut
  BY <1>1, BegunIs DEF SetsOut
<1>3. TypeOK'
  BY <1>1, <1>2 DEF TypeOK, DaemonType
<1>4. WaitsForNext
  BY <1>1, <1>2 DEF WaitsForNext, SetsOut
<1>5. delivery = NoDelivery /\ verdict = "none"
  BY <1>1 DEF NInv, RunInv, TypeOK
<1>6. RunInv'
  BY <1>1, <1>2, <1>5, RunStays DEF NInv
<1> QED
  BY <1>1, <1>3, <1>4, <1>6, DaysStay DEF NInv

\* Every step keeps the invariant.
LEMMA NextIsRight ==
    ASSUME NInv, [Next]_vars
    PROVE  NInv'
<1>1. CASE Tick
  BY <1>1, TickIsRight
<1>2. CASE Fire
  BY <1>2, FireIsRight
<1>12. CASE ChangeClock
  BY <1>12, ChangeClockIsRight
<1>3. CASE ListActiveDomains
  BY <1>3, ListIsRight
<1>4. CASE Compare
  BY <1>4, CompareIsRight
<1>5. CASE PostWebhookOnce
  BY <1>5, PostIsRight
<1>6. ASSUME NEW d \in Domain, FetchOne(d)
      PROVE  NInv'
  BY <1>6, FetchIsRight
<1>7. CASE Stop
  BY <1>7, StopIsRight
<1>8. CASE Exit
  BY <1>8, GoDownIsRight DEF Exit
<1>9. CASE Crash
  BY <1>9, GoDownIsRight DEF Crash
<1>10. CASE Boot
  BY <1>10, BootIsRight
<1>11. CASE UNCHANGED vars
  <2>1. UNCHANGED <<config, clock, setbacks, daemon, fetched, messages, delivery, verdict,
                    reported, missed>>
    BY <1>11 DEF vars
  <2>2. TypeOK' /\ WaitsForNext
    BY <2>1 DEF NInv, TypeOK, WaitsForNext
  <2> QED
    BY <2>1, <2>2, DaysStay, RunStays DEF NInv
<1> QED
  BY <1>1, <1>2, <1>3, <1>4, <1>5, <1>6, <1>7, <1>8, <1>9, <1>10, <1>11, <1>12 DEF Next

-----------------------------------------------------------------------------
(***************************************************************************)
(* The theorems.                                                           *)
(***************************************************************************)
\* The daemon's state always has its types, accounts for the days that have come, and
\* keeps count of what it has sent.
THEOREM Invariance == Spec => []NInv
BY InitIsRight, NextIsRight, PTL DEF Spec

\* No day is reported twice by schedule unless the clock was put back in between, and
\* none is left out but for a reason, whatever the wall clock does, however late the timer
\* and long a run, and whenever the process is stopped or dies.
THEOREM DaysAccounted == Spec => []EveryDayIsAccountedFor
<1>1. NInv => EveryDayIsAccountedFor
  <2> SUFFICES ASSUME NInv PROVE EveryDayIsAccountedFor
    OBVIOUS
  <2>1. \A i \in DOMAIN reported : reported[i] \in RunType
    BY DEF NInv, TypeOK
  <2>2. \A i \in DOMAIN reported : reported[i].day \in missed => reported[i].setbacks > 0
    BY <2>1 DEF NInv, DaysInv, RunsArePast, RunType
  <2>3. InOrder /\ Accounted
    BY DEF NInv, DaysInv
  <2> QED
    BY <2>2, <2>3 DEF InOrder, Accounted, Passed, EveryDayIsAccountedFor
<1> QED
  BY <1>1, Invariance, PTL

\* Where the wall clock is never put back, a day is reported once.
THEOREM OnceWithoutSetback == Spec => [](setbacks = 0 => OnceADay)
<1>1. NInv => (setbacks = 0 => OnceADay)
  <2> SUFFICES ASSUME NInv, setbacks = 0, NEW i \in DOMAIN reported, NEW j \in DOMAIN reported,
                      i < j
               PROVE  reported[i].day # reported[j].day
    <3>1. DOMAIN reported \subseteq Nat
      BY DEF NInv, TypeOK
    <3> QED
      BY <3>1 DEF OnceADay
  <2>1. \A k \in DOMAIN reported : /\ reported[k].day \in Nat /\ reported[k].setbacks \in Nat
                                  /\ reported[k].setbacks <= 0
    <3>1. \A k \in DOMAIN reported : reported[k] \in RunType
      BY DEF NInv, TypeOK
    <3> QED
      BY <3>1 DEF NInv, DaysInv, RunsArePast, RunType
  <2>2. reported[i].day < reported[j].day \/ reported[i].setbacks < reported[j].setbacks
    BY DEF NInv, DaysInv, InOrder
  <2> QED
    BY <2>1, <2>2
<1> QED
  BY <1>1, Invariance, PTL

\* A run that calls itself a success has asked every domain and brought every page to
\* every webhook, and one that fails after it began to send has tried them all, for any
\* number of pages and webhooks and any order of failures.
THEOREM Delivered == Spec => []SuccessMeansDelivered
<1>1. NInv => SuccessMeansDelivered
  BY DEF NInv, RunInv
<1> QED
  BY <1>1, Invariance, PTL

\* Each page can be read by itself, for any changes and any limit that has room for a
\* label and the longest line.
THEOREM Readable == Spec => []PagesAreReadable
<1>1. NInv => PagesAreReadable
  <2> SUFFICES ASSUME NInv, NEW p \in DOMAIN messages
               PROVE  LET page == messages[p] IN
                      /\ Size(page) <= config.limit
                      /\ \E i \in DOMAIN page : page[i].kind = "line"
                      /\ \A i \in DOMAIN page : page[i].kind = "line" =>
                            \E k \in 1..(i - 1) :
                                /\ page[k] = Label(page[i].change.delta > 0)
                                /\ \A j \in (k + 1)..(i - 1) : page[j].kind = "line"
    BY DEF PagesAreReadable
  <2>1. PICK page \in Page : page = messages[p]
    BY DEF NInv, TypeOK
  <2>2. ReadablePage(config.limit, page)
    BY <2>1 DEF NInv, RunInv
  <2>3. ASSUME NEW i \in DOMAIN page, page[i].kind = "line"
        PROVE  \E k \in 1..(i - 1) :
                   /\ page[k] = Label(page[i].change.delta > 0)
                   /\ \A j \in (k + 1)..(i - 1) : page[j].kind = "line"
    <3>1. Under(page, i, page[i].change)
      BY <2>2, <2>3 DEF ReadablePage
    <3>2. PICK c : c = page[i].change
      OBVIOUS
    <3>3. Own(c) = Label(c.delta > 0)
      <4>1. CASE c.delta > 0
        <5>1. (c.delta > 0) = TRUE
          BY <4>1
        <5> QED
          BY <5>1, Zenon DEF Own, Rise
      <4>2. CASE ~(c.delta > 0)
        <5>1. (c.delta > 0) = FALSE
          BY <4>2
        <5> QED
          BY <5>1, Zenon DEF Own, Fall
      <4> QED
        BY <4>1, <4>2
    <3> QED
      BY <3>1, <3>2, <3>3 DEF Under
  <2> QED
    BY <2>1, <2>2, <2>3 DEF ReadablePage
<1> QED
  BY <1>1, Invariance, PTL

\* The pages together say every change of one source between two verified results, once,
\* in order, and nothing else, for any answers, in whatever order they came.
THEOREM Reports == Spec => []EveryChangeIsReported
<1>1. NInv => EveryChangeIsReported
  <2> SUFFICES ASSUME NInv, daemon.pc = "sending"
               PROVE  /\ {ChangeAt(messages, x) : x \in Places(messages)} =
                            UNION {{ChangeOf(d, f) : f \in {g \in Field : IsChange(d, g)}} :
                                       d \in Domain}
                      /\ \A x, y \in Places(messages) : Precedes(x, y) =>
                            /\ Ranked(ChangeAt(messages, x), ChangeAt(messages, y))
                            /\ ChangeAt(messages, x) # ChangeAt(messages, y)
    BY DEF EveryChangeIsReported
  <2>1. ReportOf(config.limit, Changes, messages)
    BY DEF NInv, RunInv, Sending
  <2>2. \A c : c \in Changes <=>
                    \E d \in Domain, f \in Field : IsChange(d, f) /\ c = ChangeOf(d, f)
    BY ChangesAre DEF NInv
  <2>3. \A c : c \in UNION {{ChangeOf(d, f) : f \in {g \in Field : IsChange(d, g)}} : d \in Domain}
                 <=> \E d \in Domain, f \in Field : IsChange(d, f) /\ c = ChangeOf(d, f)
    OBVIOUS
  <2>4. Changes = UNION {{ChangeOf(d, f) : f \in {g \in Field : IsChange(d, g)}} : d \in Domain}
    BY <2>2, <2>3
  <2> QED
    BY <2>1, <2>4 DEF ReportOf
<1> QED
  BY <1>1, Invariance, PTL
=============================================================================
