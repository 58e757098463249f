--------------------------- MODULE RefreshProofs ---------------------------
(***************************************************************************)
(* Proofs about the refreshes of agents, titles and certificates, for any  *)
(* number of callers, workers, domains, refreshes and restarts: first what *)
(* every step of a refresh preserves, whatever its workers do between      *)
(* taking a domain and recording it, and then each refresh.                *)
(***************************************************************************)
EXTENDS AgentRefresh, TitleRefresh, CertificateRefresh, Integers, FiniteSetTheorems,
        Induction, TLAPS

USE RefreshAssumption

\* The part of the type invariant that no count depends on.
ControlTyped ==
    /\ refreshing \in BOOLEAN /\ canceled \in BOOLEAN
    /\ run \in [Callers -> RunType]
    /\ worker \in [Pool -> WorkerType]
    /\ used \in [runs : 0..MaxRuns, restarts : 0..MaxRestarts]

\* The workers of a refresh come and go with it, and so do the domains it has left.
WorkersBelong ==
    /\ \A c \in Callers, w \in Workers :
          run[c].pc \notin {"handing", "waiting"} => worker[<<c, w>>].pc = "none"
    /\ \A c \in Callers : run[c].pc # "handing" => run[c].left = {}
    /\ \A c \in Callers, w \in Workers :
          worker[<<c, w>>].pc = "busy" => worker[<<c, w>>].domain \in Domains

\* A refresh counts from zero.
CountsFromZero ==
    \A c \in Callers : run[c].pc = "list" => progress.total = 0 /\ progress.completed = 0

\* The part of the invariant that is about counts.
CountsOK == progress \in Progress /\ ProgressAddsUp /\ CountsFromZero

\* The inductive invariant of the service, on which the modules that extend it build.
ServiceInv ==
    ServiceTypeOK /\ OneRefresh /\ ProgressAddsUp /\ WorkersBelong /\ CountsFromZero

\* Every step of the service.
ServiceNext ==
    \/ \E c \in Callers :
        \/ RefreshAsync(c) \/ ResetProgress(c) \/ List(c) \/ CloseJobs(c)
        \/ Wait(c) \/ FinishProgress(c) \/ Release(c)
    \/ \E c \in Callers, w \in Workers :
        Hand(c, w) \/ Return(c, w) \/ \E ok \in BOOLEAN : Record(c, w, ok)
    \/ Cancel \/ RestartService

-----------------------------------------------------------------------------
(***************************************************************************)
(* Sets and records.                                                       *)
(***************************************************************************)

\* The domains, and the workers of one refresh, can be counted.
LEMMA Counting ==
    /\ Cardinality(Domains) \in Nat /\ Count \subseteq Nat
    /\ \A D \in SUBSET Domains : IsFiniteSet(D) /\ Cardinality(D) \in Count
    /\ \A c : IsFiniteSet(Busy(c)) /\ Cardinality(Busy(c)) \in Nat
<1>1. Cardinality(Domains) \in Nat
  BY FS_CardinalityType
<1>2. ASSUME NEW D \in SUBSET Domains
      PROVE  IsFiniteSet(D) /\ Cardinality(D) \in Count
  BY <1>1, FS_Subset, FS_CardinalityType DEF Count
<1>3. ASSUME NEW c
      PROVE  IsFiniteSet(Busy(c)) /\ Cardinality(Busy(c)) \in Nat
  BY FS_Subset, FS_CardinalityType DEF Busy
<1>4. Count \subseteq Nat
  BY <1>1 DEF Count
<1> QED
  BY <1>1, <1>2, <1>3, <1>4

\* Counts that add up and stay below a total that counts domains are a progress.
LEMMA CountsAreProgress ==
    ASSUME NEW p \in [running : BOOLEAN, total : Nat, completed : Nat,
                      succeeded : Nat, failed : Nat],
           p.completed = p.succeeded + p.failed, p.completed <= p.total,
           p.total <= Cardinality(Domains)
    PROVE  p \in Progress
<1>1. Cardinality(Domains) \in Nat
  BY Counting
<1>2. /\ p.total \in Count /\ p.completed \in Count
      /\ p.succeeded \in Count /\ p.failed \in Count
  BY <1>1 DEF Count
<1>3. p.running \in BOOLEAN
  OBVIOUS
<1>4. p = [running |-> p.running, total |-> p.total, completed |-> p.completed,
           succeeded |-> p.succeeded, failed |-> p.failed]
  OBVIOUS
<1> QED
  BY <1>2, <1>3, <1>4 DEF Progress

\* The fields of a progress are natural numbers.
LEMMA ProgressFields ==
    ASSUME NEW p \in Progress
    PROVE  /\ p \in [running : BOOLEAN, total : Nat, completed : Nat,
                     succeeded : Nat, failed : Nat]
           /\ p.total <= Cardinality(Domains)
<1>1. p.total \in Count /\ p.completed \in Count /\ p.succeeded \in Count /\ p.failed \in Count
  BY DEF Progress
<1>2. p.total \in Nat /\ p.completed \in Nat /\ p.succeeded \in Nat /\ p.failed \in Nat
  BY <1>1, Counting
<1>3. p.total <= Cardinality(Domains)
  BY <1>1, Counting DEF Count
<1>4. p = [running |-> p.running, total |-> p.total, completed |-> p.completed,
           succeeded |-> p.succeeded, failed |-> p.failed]
  BY DEF Progress
<1>5. p.running \in BOOLEAN
  BY DEF Progress
<1> QED
  BY <1>2, <1>3, <1>4, <1>5

-----------------------------------------------------------------------------
(***************************************************************************)
(* One lemma for each part of the invariant.                               *)
(***************************************************************************)

\* The flag, the refreshes and their workers keep their types.
LEMMA ControlTypes ==
    ASSUME ControlTyped, ServiceNext
    PROVE  ControlTyped'
<1>1. ASSUME NEW c \in Callers, RefreshAsync(c)
      PROVE  ControlTyped'
  <2> USE DEF ControlTyped, RunType
  <2>1. used' \in [runs : 0..MaxRuns, restarts : 0..MaxRestarts]
    BY <1>1 DEF RefreshAsync
  <2>2. run' \in [Callers -> RunType]
    BY <1>1 DEF RefreshAsync
  <2> QED
    BY <1>1, <2>1, <2>2 DEF RefreshAsync
<1>2. ASSUME NEW c \in Callers, ResetProgress(c)
      PROVE  ControlTyped'
  BY <1>2 DEF ResetProgress, ControlTyped, RunType
<1>3. ASSUME NEW c \in Callers, NEW domains \in SUBSET Domains, Listed(c, domains)
      PROVE  ControlTyped'
  BY <1>3 DEF Listed, ControlTyped, RunType, WorkerType, ReadyWorker
<1>4. ASSUME NEW c \in Callers, ListingFails(c)
      PROVE  ControlTyped'
  BY <1>4 DEF ListingFails, ControlTyped, RunType
<1>5. ASSUME NEW c \in Callers, CloseJobs(c)
      PROVE  ControlTyped'
  BY <1>5 DEF CloseJobs, ControlTyped, RunType
<1>6. ASSUME NEW c \in Callers, Wait(c)
      PROVE  ControlTyped'
  BY <1>6 DEF Wait, ControlTyped, RunType
<1>7. ASSUME NEW c \in Callers, FinishProgress(c)
      PROVE  ControlTyped'
  BY <1>7 DEF FinishProgress, ControlTyped, RunType
<1>8. ASSUME NEW c \in Callers, Release(c)
      PROVE  ControlTyped'
  BY <1>8 DEF Release, ControlTyped, RunType, NoRun
<1>9. ASSUME NEW c \in Callers, NEW w \in Workers, Hand(c, w)
      PROVE  ControlTyped'
  <2> USE DEF ControlTyped, RunType, WorkerType, Pool
  <2>1. PICK d \in run[c].left :
            /\ run' = [run EXCEPT ![c].left = @ \ {d}]
            /\ worker' = [worker EXCEPT ![<<c, w>>] = [pc |-> "busy", domain |-> d]]
    BY <1>9 DEF Hand
  <2>2. d \in Domains
    OBVIOUS
  <2>3. run' \in [Callers -> RunType]
    BY <2>1, <2>2, ZenonT(30)
  <2>4. worker' \in [Pool -> WorkerType]
    BY <2>1, <2>2
  <2> QED
    BY <1>9, <2>3, <2>4 DEF Hand
<1>10. ASSUME NEW c \in Callers, NEW w \in Workers, Return(c, w)
       PROVE  ControlTyped'
  BY <1>10 DEF Return, ControlTyped, WorkerType, Pool, NoWorker
<1>11. ASSUME NEW c \in Callers, NEW w \in Workers, NEW ok \in BOOLEAN, Record(c, w, ok)
       PROVE  ControlTyped'
  BY <1>11 DEF Record, ControlTyped, WorkerType, Pool, ReadyWorker
<1>12. CASE Cancel
  BY <1>12 DEF Cancel, ControlTyped
<1>13. CASE RestartService
  <2> USE <1>13 DEF RestartService, ControlTyped
  <2>1. run' \in [Callers -> RunType] /\ worker' \in [Pool -> WorkerType]
    BY DEF RunType, WorkerType, NoRun, NoWorker
  <2>2. used' \in [runs : 0..MaxRuns, restarts : 0..MaxRestarts]
    OBVIOUS
  <2> QED
    BY <2>1, <2>2
<1> QED
  BY <1>1, <1>2, <1>3, <1>4, <1>5, <1>6, <1>7, <1>8, <1>9, <1>10, <1>11, <1>12, <1>13
     DEF ServiceNext, List

\* One refresh is under way, and its domains are each with one worker or left.
LEMMA OneRefreshKept ==
    ASSUME ControlTyped, OneRefresh, WorkersBelong, ServiceNext
    PROVE  OneRefresh' /\ WorkersBelong'
<1> USE DEF ControlTyped, OneRefresh, WorkersBelong
<1>1. ASSUME NEW c \in Callers, RefreshAsync(c)
      PROVE  OneRefresh' /\ WorkersBelong'
  BY <1>1 DEF RefreshAsync, RunType
<1>2. ASSUME NEW c \in Callers, ResetProgress(c)
      PROVE  OneRefresh' /\ WorkersBelong'
  BY <1>2 DEF ResetProgress, RunType
<1>3. ASSUME NEW c \in Callers, NEW domains \in SUBSET Domains, Listed(c, domains)
      PROVE  OneRefresh' /\ WorkersBelong'
  BY <1>3 DEF Listed, RunType, Pool, ReadyWorker
<1>4. ASSUME NEW c \in Callers, ListingFails(c)
      PROVE  OneRefresh' /\ WorkersBelong'
  BY <1>4 DEF ListingFails, RunType
<1>5. ASSUME NEW c \in Callers, CloseJobs(c)
      PROVE  OneRefresh' /\ WorkersBelong'
  BY <1>5 DEF CloseJobs, RunType
<1>6. ASSUME NEW c \in Callers, Wait(c)
      PROVE  OneRefresh' /\ WorkersBelong'
  BY <1>6 DEF Wait, RunType
<1>7. ASSUME NEW c \in Callers, FinishProgress(c)
      PROVE  OneRefresh' /\ WorkersBelong'
  BY <1>7 DEF FinishProgress, RunType
<1>8. ASSUME NEW c \in Callers, Release(c)
      PROVE  OneRefresh' /\ WorkersBelong'
  BY <1>8 DEF Release, RunType, NoRun
<1>9. ASSUME NEW c \in Callers, NEW w \in Workers, Hand(c, w)
      PROVE  OneRefresh' /\ WorkersBelong'
  <2>1. PICK d \in run[c].left :
            /\ run' = [run EXCEPT ![c].left = @ \ {d}]
            /\ worker' = [worker EXCEPT ![<<c, w>>] = [pc |-> "busy", domain |-> d]]
    BY <1>9 DEF Hand
  <2> QED
    BY <1>9, <2>1 DEF Hand, RunType, WorkerType, Pool
<1>10. ASSUME NEW c \in Callers, NEW w \in Workers, Return(c, w)
       PROVE  OneRefresh' /\ WorkersBelong'
  BY <1>10 DEF Return, WorkerType, Pool, NoWorker
<1>11. ASSUME NEW c \in Callers, NEW w \in Workers, NEW ok \in BOOLEAN, Record(c, w, ok)
       PROVE  OneRefresh' /\ WorkersBelong'
  BY <1>11 DEF Record, WorkerType, Pool, ReadyWorker
<1>12. CASE Cancel
  BY <1>12 DEF Cancel
<1>13. CASE RestartService
  BY <1>13 DEF RestartService, NoRun, NoWorker, Pool
<1> HIDE DEF ControlTyped, OneRefresh, WorkersBelong
<1> QED
  BY <1>1, <1>2, <1>3, <1>4, <1>5, <1>6, <1>7, <1>8, <1>9, <1>10, <1>11, <1>12, <1>13
     DEF ServiceNext, List

\* What is left and who is busy can be counted, before and after a step.
LEMMA RestCounted ==
    ASSUME ControlTyped
    PROVE  \A c \in Callers :
              /\ run[c].left \in SUBSET Domains /\ IsFiniteSet(run[c].left)
              /\ Cardinality(run[c].left) \in Nat
              /\ IsFiniteSet(Busy(c)) /\ Cardinality(Busy(c)) \in Nat
BY Counting DEF ControlTyped, RunType

\* Only the refresh that is under way has counts to account for.
LEMMA OneRefreshCounts ==
    ASSUME NEW c \in Callers, OneRefresh', run'[c].pc # "idle",
           progress' \in Progress,
           progress'.completed = progress'.succeeded + progress'.failed,
           progress'.completed <= progress'.total,
           run'[c].pc \in {"list", "handing", "waiting", "finish"} => progress'.running,
           run'[c].pc = "list" => progress'.total = 0 /\ progress'.completed = 0,
           LET rest == Cardinality(run'[c].left) + Cardinality(Busy(c)') IN
           /\ run'[c].pc \in {"handing", "waiting"} =>
                 progress'.completed + rest <= progress'.total
           /\ run'[c].pc \in {"handing", "waiting", "finish"} /\ ~canceled' =>
                 progress'.completed + rest = progress'.total
    PROVE  CountsOK'
<1>1. \A b \in Callers \ {c} : run'[b].pc = "idle"
  BY DEF OneRefresh
<1>2. ProgressAddsUp'
  BY <1>1 DEF ProgressAddsUp
<1>3. CountsFromZero'
  BY <1>1 DEF CountsFromZero
<1> QED
  BY <1>2, <1>3 DEF CountsOK

\* A refresh that begins, or ends, has no domain left and no busy worker.
LEMMA NoRest ==
    ASSUME ControlTyped, WorkersBelong, NEW c \in Callers,
           run[c].pc \notin {"handing", "waiting"}
    PROVE  Cardinality(run[c].left) = 0 /\ Cardinality(Busy(c)) = 0
<1>1. Busy(c) = {} /\ run[c].left = {}
  BY DEF WorkersBelong, Busy
<1> QED
  BY <1>1, FS_EmptySet

\* Steps that change neither what is left of a refresh nor who is busy: the counts
\* stay, but for a new refresh, that begins with none.
LEMMA QuietStepsCount ==
    ASSUME ControlTyped, OneRefresh, OneRefresh', WorkersBelong, CountsOK, NEW c \in Callers,
           \/ RefreshAsync(c) \/ ResetProgress(c) \/ ListingFails(c) \/ Wait(c)
           \/ FinishProgress(c) \/ Release(c)
    PROVE  CountsOK'
<1>1. worker' = worker
  BY DEF RefreshAsync, ResetProgress, ListingFails, Wait, FinishProgress, Release
<1>2. \A b \in Callers : Busy(b)' = Busy(b)
  BY <1>1 DEF Busy
<1> USE <1>2, RestCounted DEF ControlTyped
<1>3. CASE RefreshAsync(c)
  BY <1>3 DEF RefreshAsync, RunType, CountsOK, ProgressAddsUp, CountsFromZero
<1>4. CASE ResetProgress(c)
  <2>1. progress' = [NoProgress EXCEPT !.running = TRUE] /\ run'[c].pc = "list"
    BY <1>4 DEF ResetProgress, RunType
  <2>2. progress' \in Progress
    <3>1. 0 \in Count
      BY Counting DEF Count
    <3> QED
      BY <2>1, <3>1 DEF NoProgress, Progress
  <2> QED
    BY <2>1, <2>2, OneRefreshCounts DEF NoProgress
<1>5. CASE ListingFails(c)
  <2>1. run[c].pc = "list" /\ run'[c].pc = "finish" /\ run'[c].left = run[c].left
    BY <1>5 DEF ListingFails, RunType
  <2>2. progress' = progress /\ canceled' = canceled
    BY <1>5 DEF ListingFails
  <2>3. Cardinality(run[c].left) = 0 /\ Cardinality(Busy(c)) = 0
    BY <2>1, NoRest
  <2>4. progress.total = 0 /\ progress.completed = 0 /\ progress.running
    BY <2>1 DEF CountsOK, CountsFromZero, ProgressAddsUp
  <2> QED
    BY <2>1, <2>2, <2>3, <2>4, OneRefreshCounts DEF CountsOK, ProgressAddsUp
<1>6. CASE Wait(c)
  BY <1>6 DEF Wait, RunType, CountsOK, ProgressAddsUp, CountsFromZero
<1>7. CASE FinishProgress(c)
  <2>1. /\ run'[c].pc = "release" /\ canceled' = canceled
        /\ progress' = [progress EXCEPT !.running = FALSE]
    BY <1>7 DEF FinishProgress, RunType
  <2>2. progress' \in Progress
    BY <2>1 DEF Progress, CountsOK
  <2>3. /\ progress'.total = progress.total /\ progress'.completed = progress.completed
        /\ progress'.succeeded = progress.succeeded /\ progress'.failed = progress.failed
    BY <2>1 DEF Progress, CountsOK
  <2> QED
    BY <2>1, <2>2, <2>3, OneRefreshCounts DEF CountsOK, ProgressAddsUp
<1>8. CASE Release(c)
  BY <1>8 DEF Release, RunType, NoRun, CountsOK, ProgressAddsUp, CountsFromZero
<1> QED
  BY <1>3, <1>4, <1>5, <1>6, <1>7, <1>8

\* The total of a refresh is the number of the domains it will hand out.
LEMMA ListedCounts ==
    ASSUME ControlTyped, WorkersBelong, CountsOK, OneRefresh',
           NEW c \in Callers, NEW domains \in SUBSET Domains, Listed(c, domains)
    PROVE  CountsOK'
<1>1. /\ run[c].pc = "list" /\ run'[c].pc = "handing" /\ run'[c].left = domains
      /\ progress' = [progress EXCEPT !.total = Cardinality(domains)]
  BY DEF Listed, ControlTyped
<1>2. Cardinality(domains) \in Count /\ Cardinality(domains) \in Nat
  BY Counting
<1>3. progress' \in Progress
  BY <1>1, <1>2 DEF CountsOK, Progress
<1>4. /\ progress'.total = Cardinality(domains) /\ progress'.completed = 0
      /\ progress'.succeeded = progress.succeeded /\ progress'.failed = progress.failed
      /\ progress.completed = 0 /\ progress'.running
  BY <1>1 DEF CountsOK, Progress, CountsFromZero, ProgressAddsUp
<1>5. Busy(c)' = {}
  BY DEF Busy, Listed, ReadyWorker, Pool
<1>6. Cardinality(Busy(c)') = 0
  BY <1>5, FS_EmptySet
<1> QED
  BY <1>1, <1>2, <1>3, <1>4, <1>6, OneRefreshCounts DEF CountsOK, ProgressAddsUp

\* A domain that is handed out is no longer left, but with a busy worker.
LEMMA HandCounts ==
    ASSUME ControlTyped, WorkersBelong, CountsOK, OneRefresh, OneRefresh',
           NEW c \in Callers, NEW w \in Workers, Hand(c, w)
    PROVE  CountsOK'
<1>1. PICK d \in run[c].left :
          /\ run' = [run EXCEPT ![c].left = @ \ {d}]
          /\ worker' = [worker EXCEPT ![<<c, w>>] = [pc |-> "busy", domain |-> d]]
  BY DEF Hand
<1>2. /\ run[c].pc = "handing" /\ run'[c].pc = "handing" /\ run'[c].left = run[c].left \ {d}
      /\ progress' = progress /\ canceled' = canceled
      /\ worker[<<c, w>>].pc = "ready"
  BY <1>1 DEF Hand, ControlTyped, RunType
<1>3. Busy(c)' = Busy(c) \cup {w} /\ w \notin Busy(c)
  BY <1>1, <1>2 DEF Busy, ControlTyped, Pool
<1>4. Cardinality(Busy(c)') = Cardinality(Busy(c)) + 1
  BY <1>3, RestCounted, FS_AddElement
<1>5. Cardinality(run'[c].left) = Cardinality(run[c].left) - 1
  <2>1. d \in run[c].left /\ IsFiniteSet(run[c].left)
    BY <1>1, RestCounted
  <2> QED
    BY <1>2, <2>1, FS_RemoveElement
<1>6. /\ Cardinality(run[c].left) \in Nat /\ Cardinality(Busy(c)) \in Nat
      /\ progress.completed \in Nat
  BY RestCounted, ProgressFields DEF CountsOK
<1>7. Cardinality(run'[c].left) + Cardinality(Busy(c)')
        = Cardinality(run[c].left) + Cardinality(Busy(c))
  BY <1>4, <1>5, <1>6
<1> QED
  BY <1>2, <1>7, OneRefreshCounts DEF CountsOK, ProgressAddsUp

\* What is left when the channel is closed is given up, and that only when the
\* context is done.
LEMMA CloseCounts ==
    ASSUME ControlTyped, WorkersBelong, CountsOK, OneRefresh',
           NEW c \in Callers, CloseJobs(c)
    PROVE  CountsOK'
<1>1. /\ run[c].pc = "handing" /\ run'[c].pc = "waiting" /\ run'[c].left = {}
      /\ run[c].left = {} \/ canceled
      /\ progress' = progress /\ canceled' = canceled /\ worker' = worker
  BY DEF CloseJobs, ControlTyped
<1>2. Busy(c)' = Busy(c)
  BY <1>1 DEF Busy
<1>3. Cardinality(run'[c].left) = 0
  BY <1>1, FS_EmptySet
<1>4. /\ Cardinality(run[c].left) \in Nat /\ Cardinality(Busy(c)) \in Nat
      /\ ~canceled => Cardinality(run[c].left) = 0
  BY <1>1, RestCounted, FS_EmptySet
<1>5. /\ progress.completed \in Nat /\ progress.total \in Nat
      /\ progress \in Progress
      /\ progress.completed = progress.succeeded + progress.failed
      /\ progress.completed <= progress.total /\ progress.running
      /\ progress.completed + (Cardinality(run[c].left) + Cardinality(Busy(c)))
            <= progress.total
      /\ ~canceled => progress.completed + (Cardinality(run[c].left) + Cardinality(Busy(c)))
                        = progress.total
  BY <1>1, ProgressFields DEF CountsOK, ProgressAddsUp
<1>6. /\ progress.completed + (0 + Cardinality(Busy(c))) <= progress.total
      /\ ~canceled => progress.completed + (0 + Cardinality(Busy(c))) = progress.total
  BY <1>4, <1>5
<1> QED
  BY <1>1, <1>2, <1>3, <1>5, <1>6, OneRefreshCounts

\* Recording a domain turns one busy worker into one completed domain.
LEMMA RecordCounts ==
    ASSUME ControlTyped, CountsOK, OneRefresh, OneRefresh',
           NEW c \in Callers, NEW w \in Workers, NEW ok \in BOOLEAN, Record(c, w, ok)
    PROVE  CountsOK'
<1>1. worker[<<c, w>>].pc = "busy" /\ run' = run /\ canceled' = canceled
  BY DEF Record
<1>2. run[c].pc \in {"handing", "waiting"}
  BY <1>1 DEF OneRefresh
<1>3. Busy(c)' = Busy(c) \ {w} /\ w \in Busy(c)
  BY <1>1 DEF Busy, Record, ControlTyped, Pool, ReadyWorker
<1>4. Cardinality(Busy(c)') = Cardinality(Busy(c)) - 1
  BY <1>3, RestCounted, FS_RemoveElement
<1>5. Cardinality(Busy(c)) \in Nat /\ Cardinality(Busy(c)) # 0
  BY <1>3, RestCounted, FS_EmptySet
<1>6. /\ progress.total \in Nat /\ progress.completed \in Nat
      /\ progress.succeeded \in Nat /\ progress.failed \in Nat
      /\ progress.total <= Cardinality(Domains) /\ progress.running \in BOOLEAN
  BY ProgressFields DEF CountsOK
<1>7. /\ progress'.total = progress.total /\ progress'.running = progress.running
      /\ progress'.completed = progress.completed + 1
      /\ progress'.succeeded = IF ok THEN progress.succeeded + 1 ELSE progress.succeeded
      /\ progress'.failed = IF ok THEN progress.failed ELSE progress.failed + 1
      /\ progress' = [running |-> progress'.running, total |-> progress'.total,
                      completed |-> progress'.completed,
                      succeeded |-> progress'.succeeded, failed |-> progress'.failed]
  BY DEF Record, CountsOK, Progress
<1>8. /\ progress'.completed = progress'.succeeded + progress'.failed
      /\ progress.completed + (Cardinality(run[c].left) + Cardinality(Busy(c))) <= progress.total
  BY <1>2, <1>6, <1>7 DEF CountsOK, ProgressAddsUp
<1>9. progress'.completed <= progress'.total
  BY <1>5, <1>6, <1>7, <1>8, RestCounted
<1>10. progress' \in Progress
  BY <1>6, <1>7, <1>8, <1>9, CountsAreProgress
<1>11. /\ ~canceled => progress.completed + (Cardinality(run[c].left) + Cardinality(Busy(c)))
                         = progress.total
       /\ progress.running
  BY <1>2 DEF CountsOK, ProgressAddsUp
<1>12. /\ progress'.completed + (Cardinality(run'[c].left) + Cardinality(Busy(c)'))
              <= progress'.total
       /\ ~canceled' => progress'.completed
              + (Cardinality(run'[c].left) + Cardinality(Busy(c)')) = progress'.total
  BY <1>1, <1>4, <1>5, <1>6, <1>7, <1>8, <1>11, RestCounted
<1> QED
  BY <1>1, <1>2, <1>7, <1>8, <1>9, <1>10, <1>11, <1>12, OneRefreshCounts

\* A worker that returns was not busy, and a stop that is announced loosens what the
\* counts say; a restart resets them.
LEMMA OtherStepsCount ==
    ASSUME ControlTyped, CountsOK,
           Cancel \/ RestartService \/ \E c \in Callers, w \in Workers : Return(c, w)
    PROVE  CountsOK'
<1>1. CASE Cancel
  BY <1>1, RestCounted DEF Cancel, Busy, CountsOK, ProgressAddsUp, CountsFromZero
<1>2. CASE RestartService
  <2>1. progress' = NoProgress /\ \A c \in Callers : run'[c].pc = "idle"
    BY <1>2 DEF RestartService, NoRun
  <2>2. 0 \in Count
    BY Counting DEF Count
  <2> QED
    BY <2>1, <2>2 DEF NoProgress, Progress, CountsOK, ProgressAddsUp, CountsFromZero
<1>3. ASSUME NEW c \in Callers, NEW w \in Workers, Return(c, w)
      PROVE  CountsOK'
  <2>1. \A b \in Callers : Busy(b)' = Busy(b)
    BY <1>3 DEF Return, Busy, ControlTyped, Pool, NoWorker
  <2> QED
    BY <1>3, <2>1 DEF Return, CountsOK, ProgressAddsUp, CountsFromZero
<1> QED
  BY <1>1, <1>2, <1>3

-----------------------------------------------------------------------------
(***************************************************************************)
(* All of it together.                                                     *)
(***************************************************************************)

\* The type invariant splits into control and counts.
LEMMA ServiceInvParts ==
    ServiceInv <=> ControlTyped /\ OneRefresh /\ WorkersBelong /\ CountsOK
BY DEF ServiceInv, ServiceTypeOK, ControlTyped, CountsOK

\* The service begins with nothing under way.
LEMMA ServiceInitInv ==
    ASSUME ServiceInit
    PROVE  ServiceInv
<1>1. 0 \in Count /\ progress = NoProgress
  BY Counting DEF ServiceInit, Count
<1>2. CountsOK
  BY <1>1 DEF ServiceInit, NoRun, NoProgress, Progress, CountsOK, ProgressAddsUp, CountsFromZero
<1>3. ControlTyped
  <2>1. NoRun \in RunType /\ NoWorker \in WorkerType
    BY DEF NoRun, RunType, NoWorker, WorkerType
  <2>2. [runs |-> 0, restarts |-> 0] \in [runs : 0..MaxRuns, restarts : 0..MaxRestarts]
    OBVIOUS
  <2> QED
    BY <2>1, <2>2 DEF ServiceInit, ControlTyped
<1>4. OneRefresh /\ WorkersBelong
  BY DEF ServiceInit, OneRefresh, WorkersBelong, NoRun, NoWorker, Pool
<1> QED
  BY <1>2, <1>3, <1>4, ServiceInvParts

\* Every step of the service preserves its invariant.
LEMMA ServiceStepInv ==
    ASSUME ServiceInv, ServiceNext
    PROVE  ServiceInv'
<1> USE ServiceInvParts
<1>1. ControlTyped'
  BY ControlTypes
<1>2. OneRefresh' /\ WorkersBelong'
  BY OneRefreshKept
<1>3. CountsOK'
  BY <1>2, QuietStepsCount, ListedCounts, HandCounts, CloseCounts, RecordCounts, OtherStepsCount
     DEF ServiceNext, List
<1> QED
  BY <1>1, <1>2, <1>3
     DEF ServiceInv, ServiceTypeOK, ControlTyped, CountsOK

-----------------------------------------------------------------------------
(***************************************************************************)
(* Agents: type correctness, OneRefresh, ProgressAddsUp, FailureIsUnanimous, *)
(* and that the slots taken of an agent are those of the requests under way. *)
(***************************************************************************)
USE AgentAssumption

\* What TypeOK says beyond ServiceTypeOK.
CheckTyped ==
    /\ localFirst \in BOOLEAN
    /\ next \in Nat
    /\ semaphore \in [Agent -> 0..MaxConcurrent]
    /\ check \in [Pool -> [pc : {"none", "local", "turn", "wait", "request", "good", "bad"},
                           start : Agent, offset : Agent]]
    /\ failed \in [Pool -> SUBSET Agent]

\* Only a worker that has a domain is checking one.
ChecksBelong == \A x \in Pool : worker[x].pc # "busy" => check[x].pc = "none"

\* A check has been failed by the agents it has gone through, from its turn on.
FailedSoFar ==
    \A x \in Pool :
        /\ check[x].pc \in {"none", "local", "turn"} => failed[x] = {}
        /\ check[x].pc \in {"wait", "request"} =>
              failed[x] = {(check[x].start + i) % N : i \in 0..(check[x].offset - 1)}

\* The slots taken of an agent are those of the requests under way to it: none is lost
\* and none is released twice, whatever way a request has ended.
Requesting(a) == {x \in Pool : check[x].pc = "request" /\ agent(x) = a}
SlotsAreHeld == \A a \in Agent : semaphore[a] = Cardinality(Requesting(a))

\* The part of the invariant that is about checks, and all of it.
CheckInv == CheckTyped /\ ChecksBelong /\ FailedSoFar /\ FailureIsUnanimous /\ SlotsAreHeld
AgentIInv == ServiceInv /\ CheckInv

-----------------------------------------------------------------------------
(***************************************************************************)
(* The round robin.                                                        *)
(***************************************************************************)

\* A remainder is the number of an agent.
LEMMA RemainderIsAgent ==
    ASSUME NEW n \in Nat
    PROVE  n % N \in Agent
BY DEF Agent

\* Numbers of agents are their own remainders, also after one turn.
LEMMA RemainderOfAgent ==
    ASSUME NEW a \in Agent
    PROVE  a % N = a /\ (a + N) % N = a
BY DEF Agent

\* From wherever it begins, a check that goes through N agents goes through all.
LEMMA EveryAgentHasItsTurn ==
    ASSUME NEW s \in Agent
    PROVE  {(s + i) % N : i \in 0..(N - 1)} = Agent
<1>1. ASSUME NEW i \in 0..(N - 1)
      PROVE  (s + i) % N \in Agent
  BY RemainderIsAgent DEF Agent
<1>2. ASSUME NEW a \in Agent
      PROVE  \E i \in 0..(N - 1) : (s + i) % N = a
  <2>1. CASE s <= a
    <3>1. a - s \in 0..(N - 1) /\ s + (a - s) = a
      BY <2>1 DEF Agent
    <3> QED
      BY <3>1, RemainderOfAgent
  <2>2. CASE a < s
    <3>1. (a + N) - s \in 0..(N - 1) /\ s + ((a + N) - s) = a + N
      BY <2>2 DEF Agent
    <3> QED
      BY <3>1, RemainderOfAgent
  <2> QED
    BY <2>1, <2>2 DEF Agent
<1> QED
  BY <1>1, <1>2

\* One more failure.
LEMMA OneMoreTurn ==
    ASSUME NEW s \in Agent, NEW k \in Agent
    PROVE  {(s + i) % N : i \in 0..(k - 1)} \cup {(s + k) % N} = {(s + i) % N : i \in 0..k}
<1>1. k \in Nat /\ 0..k = 0..(k - 1) \cup {k}
  BY DEF Agent
<1> QED
  BY <1>1

-----------------------------------------------------------------------------
(***************************************************************************)
(* The steps of the service, and the one that begins a check.              *)
(***************************************************************************)

\* Every step is one of the service or leaves its variables alone.
LEMMA StepOfService ==
    ASSUME AgentNext
    PROVE  ServiceNext \/ UNCHANGED serviceVars
BY ZenonT(30) DEF AgentNext, AgentGoroutineStep, Goroutine, AgentWorkerStep, HandCheck, CheckStep,
       CheckLocally,
       TakeTurn, GiveUpWaiting, Answer, Acquire, RecordCheck, RestartAgents, ServiceNext

\* The service's part of the invariant is kept by every step.
LEMMA AgentServicePart ==
    ASSUME ServiceInv, [AgentNext]_agentRefreshVars
    PROVE  ServiceInv'
<1>1. CASE ServiceNext
  BY <1>1, ServiceStepInv
<1>2. CASE UNCHANGED serviceVars
  BY <1>2 DEF serviceVars, ServiceInv, ServiceTypeOK, OneRefresh, ProgressAddsUp, Busy,
              WorkersBelong, CountsFromZero
<1> QED
  BY <1>1, <1>2, StepOfService DEF agentRefreshVars

\* The steps of the service in between leave the checks alone.
LEMMA ServiceStepsKeepChecks ==
    ASSUME ServiceInv, CheckInv, UNCHANGED agentVars,
           \/ \E c \in Callers : RefreshAsync(c) \/ Goroutine(c)
           \/ \E c \in Callers, w \in Workers : Return(c, w)
           \/ Cancel
    PROVE  CheckInv'
<1>1. CheckTyped' /\ FailedSoFar' /\ SlotsAreHeld'
  BY DEF CheckInv, agentVars, CheckTyped, FailedSoFar, SlotsAreHeld, Requesting, agent
<1>2. canceled => canceled'
  BY DEF RefreshAsync, Goroutine, ResetProgress, List, Listed, ListingFails, CloseJobs,
         Wait, FinishProgress, Release, Return, Cancel
<1>3. FailureIsUnanimous'
  BY <1>2 DEF CheckInv, agentVars, FailureIsUnanimous
<1>4. \A x \in Pool : worker'[x].pc # "busy" => worker[x].pc # "busy"
  <2>1. ASSUME NEW c \in Callers, NEW domains \in SUBSET Domains, Listed(c, domains)
        PROVE  \A x \in Pool : worker'[x].pc # "busy" => worker[x].pc # "busy"
    BY <2>1 DEF Listed, ServiceInv, WorkersBelong, Pool
  <2>2. ASSUME NEW c \in Callers, NEW w \in Workers, Return(c, w)
        PROVE  \A x \in Pool : worker'[x].pc # "busy" => worker[x].pc # "busy"
    BY <2>2 DEF Return, ServiceInv, ServiceTypeOK
  <2> QED
    BY <2>1, <2>2 DEF RefreshAsync, Goroutine, ResetProgress, List, ListingFails, CloseJobs,
                      Wait, FinishProgress, Release, Cancel
<1>5. ChecksBelong'
  BY <1>4 DEF CheckInv, agentVars, ChecksBelong
<1> QED
  BY <1>1, <1>3, <1>5 DEF CheckInv

-----------------------------------------------------------------------------
(***************************************************************************)
(* The steps of a check.                                                   *)
(***************************************************************************)

\* The requests to an agent can be counted, and the agent asked is one.
LEMMA RequestsCounted ==
    /\ \A a : IsFiniteSet(Requesting(a)) /\ Cardinality(Requesting(a)) \in Nat
    /\ CheckTyped => \A x \in Pool : agent(x) \in Agent
<1>1. IsFiniteSet(Pool)
  BY FS_Product DEF Pool
<1>2. ASSUME NEW a
      PROVE  IsFiniteSet(Requesting(a)) /\ Cardinality(Requesting(a)) \in Nat
  BY <1>1, FS_Subset, FS_CardinalityType DEF Requesting
<1>3. ASSUME CheckTyped, NEW x \in Pool
      PROVE  agent(x) \in Agent
  <2>1. check[x].start + check[x].offset \in Nat
    BY <1>3 DEF CheckTyped, Agent
  <2> QED
    BY <2>1, RemainderIsAgent DEF agent
<1> QED
  BY <1>2, <1>3

\* A check that neither was nor is a request holds no slot.
LEMMA SlotsUntouched ==
    ASSUME CheckTyped, SlotsAreHeld, semaphore' = semaphore, NEW x \in Pool,
           check'[x].pc # "request", check[x].pc # "request",
           \A y \in Pool \ {x} : check'[y] = check[y]
    PROVE  SlotsAreHeld'
<1>1. \A a : Requesting(a)' = Requesting(a)
  BY DEF Requesting, agent
<1> QED
  BY <1>1 DEF SlotsAreHeld

\* A worker that takes a domain begins its check.
LEMMA HandCheckInv ==
    ASSUME ServiceInv, CheckInv, NEW c \in Callers, NEW w \in Workers, HandCheck(c, w)
    PROVE  CheckInv'
<1> DEFINE x == <<c, w>>
<1>1. x \in Pool /\ worker[x].pc = "ready" /\ canceled' = canceled
  BY DEF HandCheck, Hand, Pool
<1>2. check[x].pc = "none"
  BY <1>1 DEF CheckInv, ChecksBelong
<1>3. /\ check' = [check EXCEPT ![x].pc = IF localFirst THEN "local" ELSE "turn"]
      /\ failed' = failed /\ localFirst' = localFirst /\ next' = next
      /\ semaphore' = semaphore
  BY DEF HandCheck
<1>4. /\ check'[x].pc \in {"local", "turn"}
      /\ \A y \in Pool \ {x} : check'[y] = check[y] /\ worker'[y] = worker[y]
      /\ worker'[x].pc = "busy"
  BY <1>1, <1>3 DEF CheckInv, CheckTyped, HandCheck, Hand, ServiceInv, ServiceTypeOK
<1>5. CheckTyped'
  BY <1>3, ZenonT(30) DEF CheckInv, CheckTyped
<1>6. SlotsAreHeld'
  BY <1>1, <1>2, <1>3, <1>4, SlotsUntouched DEF CheckInv
<1>7. ChecksBelong' /\ FailedSoFar' /\ FailureIsUnanimous'
  BY <1>1, <1>2, <1>3, <1>4 DEF CheckInv, ChecksBelong, FailedSoFar, FailureIsUnanimous
<1> QED
  BY <1>5, <1>6, <1>7 DEF CheckInv

\* A check goes on within its worker's turn: the local check ends, or its turn is taken.
LEMMA QuietCheckInv ==
    ASSUME CheckInv, NEW x \in Pool, CheckLocally(x) \/ TakeTurn(x)
    PROVE  CheckInv'
<1>1. /\ check[x].pc \in {"local", "turn"} /\ canceled' = canceled /\ worker' = worker
      /\ failed' = failed /\ localFirst' = localFirst /\ semaphore' = semaphore
      /\ next' \in Nat
  BY DEF CheckLocally, TakeTurn, CheckInv, CheckTyped, serviceVars
<1>2. PICK p \in {"good", "turn", "wait"}, s \in Agent :
          /\ check' = [check EXCEPT ![x] = [pc |-> p, start |-> s, offset |-> 0]]
  <2>1. 0 \in Agent /\ (next \in Nat => next % N \in Agent)
    BY RemainderIsAgent DEF Agent
  <2> QED
    BY <2>1 DEF CheckLocally, TakeTurn, Verdict, NotChecking, CheckInv, CheckTyped
<1>3. /\ check'[x] = [pc |-> p, start |-> s, offset |-> 0]
      /\ \A y \in Pool \ {x} : check'[y] = check[y]
      /\ failed[x] = {}
  BY <1>1, <1>2 DEF CheckInv, CheckTyped, FailedSoFar
<1>4. CheckTyped'
  <2>1. 0 \in Agent
    BY DEF Agent
  <2> QED
    BY <1>1, <1>2, <2>1 DEF CheckInv, CheckTyped
<1>5. SlotsAreHeld'
  BY <1>1, <1>3, SlotsUntouched DEF CheckInv
<1>6. FailedSoFar'
  BY <1>1, <1>3 DEF CheckInv, FailedSoFar
<1>7. ChecksBelong' /\ FailureIsUnanimous'
  BY <1>1, <1>3 DEF CheckInv, ChecksBelong, FailureIsUnanimous
<1> QED
  BY <1>4, <1>5, <1>6, <1>7 DEF CheckInv

\* The agent that has failed joins those that have; after the last of them the check
\* is given up, and before only because the context is done.
LEMMA AdvanceInv ==
    ASSUME CheckInv, NEW x \in Pool, check[x].pc \in {"wait", "request"}, Advance(x),
           worker' = worker, canceled' = canceled
    PROVE  /\ check' \in [Pool -> [pc : {"none", "local", "turn", "wait", "request",
                                         "good", "bad"}, start : Agent, offset : Agent]]
           /\ failed' \in [Pool -> SUBSET Agent]
           /\ ChecksBelong' /\ FailedSoFar' /\ FailureIsUnanimous'
           /\ check'[x].pc # "request" /\ \A y \in Pool \ {x} : check'[y] = check[y]
<1> DEFINE s == check[x].start
           k == check[x].offset
           through(n) == {(s + i) % N : i \in 0..n}
<1>1. /\ s \in Agent /\ k \in Agent /\ 0 \in Agent /\ agent(x) = (s + k) % N
      /\ agent(x) \in Agent
  BY RequestsCounted DEF CheckInv, CheckTyped, agent, Agent
<1>2. failed[x] = through(k - 1)
  BY DEF CheckInv, FailedSoFar
<1>3. failed[x] \cup {agent(x)} = through(k)
  BY <1>1, <1>2, OneMoreTurn
<1>4. /\ failed' = [failed EXCEPT ![x] = @ \cup {agent(x)}]
      /\ failed'[x] = through(k) /\ \A y \in Pool \ {x} : failed'[y] = failed[y]
      /\ failed' \in [Pool -> SUBSET Agent]
  BY <1>1, <1>3 DEF Advance, CheckInv, CheckTyped
<1>5. worker[x].pc = "busy"
  BY DEF CheckInv, ChecksBelong
<1>6. CASE k = N - 1 \/ (canceled /\ ~localFirst)
  <2>1. check' = [check EXCEPT ![x] = [pc |-> "bad", start |-> 0, offset |-> 0]]
    BY <1>6 DEF Advance, Verdict, NotChecking
  <2>2. /\ check'[x] = [pc |-> "bad", start |-> 0, offset |-> 0]
        /\ check'[x].pc = "bad"
        /\ \A y \in Pool \ {x} : check'[y] = check[y]
    BY <2>1 DEF CheckInv, CheckTyped
  <2>3. check' \in [Pool -> [pc : {"none", "local", "turn", "wait", "request",
                                   "good", "bad"}, start : Agent, offset : Agent]]
    BY <1>1, <2>1 DEF CheckInv, CheckTyped
  <2>4. canceled \/ failed'[x] = Agent
    BY <1>1, <1>4, <1>6, EveryAgentHasItsTurn
  <2>5. ChecksBelong' /\ FailureIsUnanimous'
    BY <1>4, <1>5, <2>2, <2>4 DEF CheckInv, ChecksBelong, FailureIsUnanimous
  <2>6. FailedSoFar'
    BY <1>4, <2>2 DEF CheckInv, FailedSoFar
  <2> QED
    BY <1>4, <2>2, <2>3, <2>5, <2>6
<1>7. CASE ~(k = N - 1 \/ (canceled /\ ~localFirst))
  <2>1. check' = [check EXCEPT ![x].pc = "wait", ![x].offset = @ + 1]
    BY <1>7 DEF Advance
  <2>2. k + 1 \in Agent
    BY <1>1, <1>7 DEF Agent
  <2>3. /\ check'[x].pc = "wait" /\ check'[x].start = s /\ check'[x].offset = k + 1
        /\ \A y \in Pool \ {x} : check'[y] = check[y]
    BY <2>1 DEF CheckInv, CheckTyped
  <2>4. check' \in [Pool -> [pc : {"none", "local", "turn", "wait", "request",
                                   "good", "bad"}, start : Agent, offset : Agent]]
    BY <2>1, <2>2, ZenonT(30) DEF CheckInv, CheckTyped
  <2>5. (k + 1) - 1 = k
    BY <1>1 DEF Agent
  <2>6. FailedSoFar'
    BY <1>4, <2>3, <2>5 DEF CheckInv, FailedSoFar
  <2>7. ChecksBelong' /\ FailureIsUnanimous'
    BY <1>4, <1>5, <2>3 DEF CheckInv, ChecksBelong, FailureIsUnanimous
  <2> QED
    BY <1>4, <2>3, <2>4, <2>6, <2>7
<1> QED
  BY <1>6, <1>7

\* A worker that gives up waiting for a slot takes none.
LEMMA GiveUpWaitingInv ==
    ASSUME CheckInv, NEW x \in Pool, GiveUpWaiting(x)
    PROVE  CheckInv'
<1>1. /\ check[x].pc = "wait" /\ Advance(x) /\ worker' = worker /\ canceled' = canceled
      /\ localFirst' = localFirst /\ next' = next /\ semaphore' = semaphore
  BY DEF GiveUpWaiting, serviceVars
<1>2. /\ CheckTyped' /\ ChecksBelong' /\ FailedSoFar' /\ FailureIsUnanimous'
      /\ check'[x].pc # "request" /\ \A y \in Pool \ {x} : check'[y] = check[y]
  BY <1>1, AdvanceInv DEF CheckInv, CheckTyped
<1> QED
  BY <1>1, <1>2, SlotsUntouched DEF CheckInv

\* The slot a worker takes is counted as the request it makes.
LEMMA AcquireInv ==
    ASSUME CheckInv, NEW x \in Pool, Acquire(x)
    PROVE  CheckInv'
<1>1. /\ check[x].pc = "wait" /\ semaphore[agent(x)] < MaxConcurrent
      /\ semaphore' = [semaphore EXCEPT ![agent(x)] = @ + 1]
      /\ check' = [check EXCEPT ![x].pc = "request"]
      /\ worker' = worker /\ canceled' = canceled /\ failed' = failed
      /\ localFirst' = localFirst /\ next' = next
  BY DEF Acquire, serviceVars
<1>2. /\ check'[x].pc = "request" /\ check'[x].start = check[x].start
      /\ check'[x].offset = check[x].offset
      /\ \A y \in Pool \ {x} : check'[y] = check[y]
  BY <1>1 DEF CheckInv, CheckTyped
<1>3. PICK a0 \in Agent : a0 = agent(x)
  BY RequestsCounted DEF CheckInv
<1>4. /\ Requesting(a0)' = Requesting(a0) \cup {x} /\ x \notin Requesting(a0)
      /\ \A a \in Agent \ {a0} : Requesting(a)' = Requesting(a)
  BY <1>1, <1>2, <1>3 DEF Requesting, agent
<1>5. SlotsAreHeld'
  <2>1. Cardinality(Requesting(a0)') = Cardinality(Requesting(a0)) + 1
    BY <1>4, RequestsCounted, FS_AddElement
  <2>2. semaphore'[a0] = semaphore[a0] + 1
    BY <1>1, <1>3 DEF CheckInv, CheckTyped
  <2>3. \A a \in Agent \ {a0} : semaphore'[a] = semaphore[a]
    BY <1>1, <1>3 DEF CheckInv, CheckTyped
  <2> QED
    BY <1>4, <2>1, <2>2, <2>3 DEF CheckInv, SlotsAreHeld
<1>6. CheckTyped'
  BY <1>1, <1>3 DEF CheckInv, CheckTyped
<1>7. ChecksBelong' /\ FailedSoFar' /\ FailureIsUnanimous'
  BY <1>1, <1>2 DEF CheckInv, ChecksBelong, FailedSoFar, FailureIsUnanimous
<1> QED
  BY <1>5, <1>6, <1>7 DEF CheckInv

\* The slot is given back with the answer, whatever the answer is.
LEMMA AnswerInv ==
    ASSUME CheckInv, NEW x \in Pool, Answer(x)
    PROVE  CheckInv'
<1>1. /\ check[x].pc = "request"
      /\ semaphore' = [semaphore EXCEPT ![agent(x)] = @ - 1]
      /\ worker' = worker /\ canceled' = canceled
      /\ localFirst' = localFirst /\ next' = next
      /\ (Verdict(x, "good") /\ UNCHANGED failed) \/ Advance(x)
  BY DEF Answer, Released, serviceVars
<1>2. /\ check' \in [Pool -> [pc : {"none", "local", "turn", "wait", "request",
                                    "good", "bad"}, start : Agent, offset : Agent]]
      /\ failed' \in [Pool -> SUBSET Agent]
      /\ ChecksBelong' /\ FailedSoFar' /\ FailureIsUnanimous'
      /\ check'[x].pc # "request" /\ \A y \in Pool \ {x} : check'[y] = check[y]
  <2>1. CASE Advance(x)
    BY <1>1, <2>1, AdvanceInv
  <2>2. CASE Verdict(x, "good") /\ UNCHANGED failed
    <3>1. /\ check' = [check EXCEPT ![x] = [pc |-> "good", start |-> 0, offset |-> 0]]
          /\ failed' = failed
      <4>1. [NotChecking EXCEPT !.pc = "good"] = [pc |-> "good", start |-> 0, offset |-> 0]
        BY DEF NotChecking
      <4> QED
        BY <2>2, <4>1 DEF Verdict
    <3>6. 0 \in Agent
      BY DEF Agent
    <3>2. check'[x].pc = "good" /\ \A y \in Pool \ {x} : check'[y] = check[y]
      BY <3>1 DEF CheckInv, CheckTyped
    <3>3. check' \in [Pool -> [pc : {"none", "local", "turn", "wait", "request",
                                     "good", "bad"}, start : Agent, offset : Agent]]
      BY <3>1, <3>6 DEF CheckInv, CheckTyped
    <3>4. worker[x].pc = "busy"
      BY <1>1 DEF CheckInv, ChecksBelong
    <3>5. ChecksBelong' /\ FailedSoFar' /\ FailureIsUnanimous'
      BY <1>1, <3>1, <3>2, <3>4 DEF CheckInv, ChecksBelong, FailedSoFar, FailureIsUnanimous
    <3> QED
      BY <3>1, <3>2, <3>3, <3>5 DEF CheckInv, CheckTyped
  <2> QED
    BY <1>1, <2>1, <2>2
<1>3. PICK a0 \in Agent : a0 = agent(x)
  BY RequestsCounted DEF CheckInv
<1>4. /\ Requesting(a0)' = Requesting(a0) \ {x} /\ x \in Requesting(a0)
      /\ \A a \in Agent \ {a0} : Requesting(a)' = Requesting(a)
  BY <1>1, <1>2, <1>3 DEF Requesting, agent
<1>5. Cardinality(Requesting(a0)') = Cardinality(Requesting(a0)) - 1
  BY <1>4, RequestsCounted, FS_RemoveElement, ZenonT(30)
<1>6. Cardinality(Requesting(a0)) \in Nat \ {0}
  BY <1>4, RequestsCounted, FS_EmptySet
<1>7. /\ semaphore[a0] = Cardinality(Requesting(a0))
      /\ semaphore'[a0] = semaphore[a0] - 1
      /\ \A a \in Agent \ {a0} : semaphore'[a] = semaphore[a]
  BY <1>1, <1>3 DEF CheckInv, CheckTyped, SlotsAreHeld
<1>8. SlotsAreHeld'
  BY <1>4, <1>5, <1>7 DEF CheckInv, SlotsAreHeld
<1>9. semaphore' \in [Agent -> 0..MaxConcurrent]
  BY <1>1, <1>3, <1>6, <1>7, SMTT(30) DEF CheckInv, CheckTyped
<1> QED
  BY <1>1, <1>2, <1>8, <1>9 DEF CheckInv, CheckTyped

\* A check that is recorded leaves nothing behind.
LEMMA RecordCheckInv ==
    ASSUME CheckInv, NEW c \in Callers, NEW w \in Workers, RecordCheck(c, w)
    PROVE  CheckInv'
<1> DEFINE x == <<c, w>>
<1>1. /\ x \in Pool /\ check[x].pc \in {"good", "bad"}
      /\ check' = [check EXCEPT ![x] = [pc |-> "none", start |-> 0, offset |-> 0]]
      /\ failed' = [failed EXCEPT ![x] = {}]
      /\ worker' = [worker EXCEPT ![x] = ReadyWorker] /\ canceled' = canceled
      /\ localFirst' = localFirst /\ next' = next /\ semaphore' = semaphore
  BY DEF RecordCheck, Record, NotChecking, Pool
<1>2. /\ check'[x].pc = "none" /\ failed'[x] = {}
      /\ \A y \in Pool \ {x} : check'[y] = check[y] /\ failed'[y] = failed[y]
      /\ \A y \in Pool \ {x} : worker'[y].pc # "busy" => worker[y].pc # "busy"
  <2>1. \A y \in Pool \ {x} : worker'[y].pc # "busy" => worker[y].pc # "busy"
    BY <1>1 DEF ReadyWorker
  <2> QED
    BY <1>1, <2>1 DEF CheckInv, CheckTyped
<1>3. CheckTyped'
  <2>1. 0 \in Agent
    BY DEF Agent
  <2> QED
    BY <1>1, <2>1 DEF CheckInv, CheckTyped
<1>4. SlotsAreHeld'
  BY <1>1, <1>2, SlotsUntouched DEF CheckInv
<1>5. ChecksBelong' /\ FailedSoFar' /\ FailureIsUnanimous'
  BY <1>1, <1>2, SMTT(30) DEF CheckInv, ChecksBelong, FailedSoFar, FailureIsUnanimous
<1> QED
  BY <1>3, <1>4, <1>5 DEF CheckInv

\* At the start there is no check, and no slot is taken.
LEMMA InitCheckInv ==
    ASSUME AgentInit
    PROVE  CheckInv
<1>1. CheckTyped
  <2>1. NotChecking \in [pc : {"none", "local", "turn", "wait", "request", "good", "bad"},
                     start : Agent, offset : Agent]
    BY DEF NotChecking, Agent
  <2> QED
    BY <2>1 DEF AgentInit, CheckTyped
<1>2. ChecksBelong /\ FailedSoFar /\ FailureIsUnanimous
  BY DEF AgentInit, ChecksBelong, FailedSoFar, FailureIsUnanimous, NotChecking
<1>3. \A a \in Agent : Requesting(a) = {}
  BY DEF AgentInit, Requesting, NotChecking
<1>4. SlotsAreHeld
  BY <1>3, FS_EmptySet DEF AgentInit, SlotsAreHeld
<1> QED
  BY <1>1, <1>2, <1>4 DEF CheckInv

\* A restart drops all checks, and with them their slots.
LEMMA AgentRestartInv ==
    ASSUME CheckInv, RestartAgents
    PROVE  CheckInv'
<1>1. /\ check' = [x \in Pool |-> NotChecking] /\ failed' = [x \in Pool |-> {}]
      /\ semaphore' = [a \in Agent |-> 0] /\ next' = 0 /\ localFirst' = localFirst
  BY DEF RestartAgents
<1>2. CheckTyped'
  <2>1. NotChecking \in [pc : {"none", "local", "turn", "wait", "request", "good", "bad"},
                     start : Agent, offset : Agent]
    BY DEF NotChecking, Agent
  <2> QED
    BY <1>1, <2>1 DEF CheckTyped, CheckInv
<1>3. ChecksBelong' /\ FailedSoFar' /\ FailureIsUnanimous'
  BY <1>1 DEF ChecksBelong, FailedSoFar, FailureIsUnanimous, NotChecking
<1>4. \A a \in Agent : Requesting(a)' = {}
  BY <1>1 DEF Requesting, NotChecking
<1>5. SlotsAreHeld'
  BY <1>1, <1>4, FS_EmptySet DEF SlotsAreHeld
<1> QED
  BY <1>2, <1>3, <1>5 DEF CheckInv

-----------------------------------------------------------------------------
(***************************************************************************)
(* The theorems.                                                           *)
(***************************************************************************)

\* The invariant holds at the start.
LEMMA AgentInitInv ==
    ASSUME AgentInit
    PROVE  AgentIInv
<1>1. ServiceInv
  BY ServiceInitInv DEF AgentInit
<1>2. CheckInv
  BY InitCheckInv
<1> QED
  BY <1>1, <1>2 DEF AgentIInv

\* Every step keeps it.
LEMMA AgentNextInv ==
    ASSUME AgentIInv, [AgentNext]_agentRefreshVars
    PROVE  AgentIInv'
<1>1. ServiceInv /\ CheckInv
  BY DEF AgentIInv
<1>2. ServiceInv'
  BY <1>1, AgentServicePart
<1>3. CheckInv'
  <2>1. ASSUME NEW c \in Callers, RefreshAsync(c) /\ UNCHANGED agentVars
        PROVE  CheckInv'
    BY <1>1, <2>1, ServiceStepsKeepChecks
  <2>2. ASSUME NEW c \in Callers, AgentGoroutineStep(c)
        PROVE  CheckInv'
    BY <1>1, <2>2, ServiceStepsKeepChecks, HandCheckInv DEF AgentGoroutineStep
  <2>3. ASSUME NEW c \in Callers, NEW w \in Workers, AgentWorkerStep(c, w) \/ Acquire(<<c, w>>)
        PROVE  CheckInv'
    <3>1. <<c, w>> \in Pool
      BY DEF Pool
    <3> QED
      BY <1>1, <2>3, <3>1, ServiceStepsKeepChecks, QuietCheckInv, GiveUpWaitingInv,
         AcquireInv, AnswerInv, RecordCheckInv DEF AgentWorkerStep, CheckStep
  <2>4. CASE Cancel /\ UNCHANGED agentVars
    BY <1>1, <2>4, ServiceStepsKeepChecks
  <2>5. CASE RestartAgents
    BY <1>1, <2>5, AgentRestartInv
  <2>6. CASE UNCHANGED agentRefreshVars
    BY <1>1, <2>6 DEF agentRefreshVars, serviceVars, agentVars, CheckInv, CheckTyped, ChecksBelong,
                      FailedSoFar, FailureIsUnanimous, SlotsAreHeld, Requesting, agent
  <2> QED
    BY <2>1, <2>2, <2>3, <2>4, <2>5, <2>6 DEF AgentNext
<1> QED
  BY <1>2, <1>3 DEF AgentIInv

\* The inductive invariant holds in every reachable state.
THEOREM AgentInvariance == AgentSpec => []AgentIInv
<1>1. AgentInit => AgentIInv
  BY AgentInitInv
<1>2. AgentIInv /\ [AgentNext]_agentRefreshVars => AgentIInv'
  BY AgentNextInv
<1> QED
  BY <1>1, <1>2, PTL DEF AgentSpec

\* Type correctness; in particular an agent never has more than MaxConcurrent requests,
\* and its count of slots never falls below zero.
THEOREM AgentTypeCorrect == AgentSpec => []AgentTypeOK
<1>1. AgentIInv => AgentTypeOK
  BY DEF AgentIInv, ServiceInv, CheckInv, CheckTyped, AgentTypeOK
<1> QED
  BY <1>1, AgentInvariance, PTL

\* One refresh at a time, and no domain with two workers.
THEOREM OneRefreshAtATime == AgentSpec => []OneRefresh
<1>1. AgentIInv => OneRefresh
  BY DEF AgentIInv, ServiceInv
<1> QED
  BY <1>1, AgentInvariance, PTL

\* The progress adds up, in whatever order the workers record their domains.
THEOREM ProgressIsRight == AgentSpec => []ProgressAddsUp
<1>1. AgentIInv => ProgressAddsUp
  BY DEF AgentIInv, ServiceInv
<1> QED
  BY <1>1, AgentInvariance, PTL

\* A check fails only when all agents have failed it, or the context is done.
THEOREM UnanimousFailure == AgentSpec => []FailureIsUnanimous
<1>1. AgentIInv => FailureIsUnanimous
  BY DEF AgentIInv, CheckInv
<1> QED
  BY <1>1, AgentInvariance, PTL

\* The slots taken of each agent are those of the requests under way to it.
THEOREM SlotsAreReturned == AgentSpec => []SlotsAreHeld
<1>1. AgentIInv => SlotsAreHeld
  BY DEF AgentIInv, CheckInv
<1> QED
  BY <1>1, AgentInvariance, PTL

HIDE AgentAssumption

-----------------------------------------------------------------------------
(***************************************************************************)
(* Titles: type correctness, ReadIsCurrent and HistoryIsTheChange.         *)
(***************************************************************************)
USE TitleAssumption

\* What TypeOK says beyond ServiceTypeOK.
SaveTyped ==
    /\ titles \in [Domains -> DomainTitle]
    /\ changes \in [Domains -> Seq(Change)]
    /\ saving \in [Pool -> SavingType]
    /\ lost \in [Domains -> Nat]

\* Only a worker that has a domain is saving its title.
TitleSavesBelong == \A x \in Pool : worker[x].pc # "busy" => saving[x].pc = "none"

\* A title is saved after an agent has told it, and no domain has one before.
SavesKnow ==
    /\ \A x \in Pool : saving[x].pc \in {"find", "write", "append"} => saving[x].title \in Titles
    /\ \A d \in Domains : ~titles[d].exists => titles[d] = Unchecked

\* A change that is about to be appended leads from the last title of the history, if
\* that is complete, to the current one.
LastTitle(d) == changes[d][Len(changes[d])].new
AppendIsNext ==
    \A x \in Pool : saving[x].pc = "append" =>
        LET d == worker[x].domain IN
        /\ Changed(saving[x]) /\ titles[d].title = saving[x].title
        /\ lost[d] = 0 /\ changes[d] # <<>> => LastTitle(d) = saving[x].seen.title

\* What the history h, of whose changes some are pending and some are lost, tells of
\* the current title and the counter.
Pending(s) == IF s.pc = "append" THEN 1 ELSE 0
Tells(h, pending, missing, title, count) ==
    /\ count = Len(h) + pending + missing
    /\ \A i \in 1..Len(h) : h[i].old # h[i].new
    /\ missing = 0 =>
          /\ \A i \in 2..Len(h) : h[i].old = h[i-1].new
          /\ h # <<>> /\ pending = 0 => h[Len(h)].new = title

\* The inductive invariant.
SaveInv ==
    /\ SaveTyped /\ TitleSavesBelong /\ SavesKnow /\ AppendIsNext
    /\ ReadIsCurrent /\ HistoryIsTheChange
TitleIInv == ServiceInv /\ SaveInv

-----------------------------------------------------------------------------
(***************************************************************************)
(* Who saves what.                                                         *)
(***************************************************************************)

\* Workers that save have domains, and different ones.
LEMMA SavingDomains ==
    ASSUME ServiceInv, TitleSavesBelong, NEW x \in Pool, saving[x].pc # "none"
    PROVE  /\ worker[x].pc = "busy" /\ worker[x].domain \in Domains
           /\ \A y \in Pool \ {x} : saving[y].pc # "none" => worker[y].domain # worker[x].domain
<1>1. worker[x].pc = "busy" /\ \A y \in Pool : saving[y].pc # "none" => worker[y].pc = "busy"
  BY DEF TitleSavesBelong
<1>2. worker[x].domain \in Domains
  BY <1>1 DEF ServiceInv, WorkersBelong, Pool
<1> QED
  BY <1>1, <1>2 DEF ServiceInv, OneRefresh

\* Those who are about to append to a history can be counted.
LEMMA AppendingCounted ==
    \A d : IsFiniteSet(Appending(d)) /\ Cardinality(Appending(d)) \in Nat
<1>1. IsFiniteSet(Pool)
  BY FS_Product DEF Pool
<1> QED
  BY <1>1, FS_Subset, FS_CardinalityType DEF Appending

\* Only the worker that has a domain appends to its history.
LEMMA AppendingAlone ==
    ASSUME ServiceInv, TitleSavesBelong, NEW x \in Pool, saving[x].pc # "none",
           NEW d, d = worker[x].domain
    PROVE  /\ saving[x].pc = "append" => Appending(d) = {x} /\ Cardinality(Appending(d)) = 1
           /\ saving[x].pc # "append" => Appending(d) = {} /\ Cardinality(Appending(d)) = 0
<1>1. \A y \in Pool \ {x} : saving[y].pc = "append" => worker[y].domain # d
  BY SavingDomains
<1>2. saving[x].pc = "append" => Appending(d) = {x}
  BY <1>1 DEF Appending
<1>3. saving[x].pc # "append" => Appending(d) = {}
  BY <1>1 DEF Appending
<1> QED
  BY <1>2, <1>3, FS_EmptySet, FS_Singleton

-----------------------------------------------------------------------------
(***************************************************************************)
(* The two shapes of a step.                                               *)
(***************************************************************************)

\* Workers begin or end their saves, and nothing is written.
LEMMA FrameStepInv ==
    ASSUME SaveInv, titles' = titles, changes' = changes, lost' = lost,
           saving' \in [Pool -> SavingType],
           \A x \in Pool : \/ saving'[x] = saving[x] /\ worker'[x] = worker[x]
                           \/ /\ saving'[x].pc \in {"none", "check"}
                              /\ saving[x].pc \in {"none", "saved", "unsaved"},
           \A x \in Pool : worker'[x].pc # "busy" => saving'[x].pc = "none"
    PROVE  SaveInv'
<1>1. SaveTyped' /\ TitleSavesBelong'
  BY DEF SaveInv, SaveTyped, TitleSavesBelong
<1>2. SavesKnow' /\ ReadIsCurrent'
  BY DEF SaveInv, SavesKnow, ReadIsCurrent
<1>3. AppendIsNext'
  BY DEF SaveInv, AppendIsNext, LastTitle, Changed
<1>4. \A d : Appending(d)' = Appending(d)
  BY DEF Appending
<1>5. HistoryIsTheChange'
  BY <1>4 DEF SaveInv, HistoryIsTheChange
<1> QED
  BY <1>1, <1>2, <1>3, <1>5 DEF SaveInv

\* A worker goes on with its save, and writes about its own domain only.
LocalStep(x, d) ==
    /\ worker' = worker
    /\ SaveTyped'
    /\ saving'[x].pc # "none"
    /\ \A y \in Pool \ {x} : saving'[y] = saving[y]
    /\ \A e \in Domains \ {d} :
          titles'[e] = titles[e] /\ changes'[e] = changes[e] /\ lost'[e] = lost[e]
    /\ saving'[x].pc \in {"find", "write", "append"} => saving'[x].title \in Titles
    /\ ~titles'[d].exists => titles'[d] = Unchecked
    /\ saving'[x].pc = "write" => saving'[x].seen = titles'[d]
    /\ saving'[x].pc = "append" =>
          /\ Changed(saving'[x]) /\ titles'[d].title = saving'[x].title
          /\ lost'[d] = 0 /\ changes'[d] # <<>> =>
                changes'[d][Len(changes'[d])].new = saving'[x].seen.title
    /\ Tells(changes'[d], Pending(saving'[x]), lost'[d], titles'[d].title, titles'[d].count)

\* Such a step disturbs no other save, because no other worker has the domain.
LEMMA LocalStepInv ==
    ASSUME ServiceInv, SaveInv, NEW x \in Pool, saving[x].pc # "none",
           NEW d \in Domains, d = worker[x].domain, LocalStep(x, d)
    PROVE  SaveInv'
<1> USE DEF LocalStep
<1>1. /\ worker[x].pc = "busy"
      /\ \A y \in Pool \ {x} : saving[y].pc # "none" => worker[y].domain \in Domains \ {d}
  BY SavingDomains DEF SaveInv
<1>2. TitleSavesBelong'
  BY <1>1 DEF SaveInv, TitleSavesBelong
<1>3. SavesKnow' /\ ReadIsCurrent'
  BY <1>1 DEF SaveInv, SavesKnow, ReadIsCurrent
<1>4. AppendIsNext'
  BY <1>1, SMTT(30) DEF SaveInv, AppendIsNext, LastTitle, Changed
<1>5. \A e \in Domains \ {d} : Appending(e)' = Appending(e)
  BY <1>1 DEF Appending
<1>6. /\ saving'[x].pc = "append" => Appending(d)' = {x} /\ Cardinality(Appending(d)') = 1
      /\ saving'[x].pc # "append" => Appending(d)' = {} /\ Cardinality(Appending(d)') = 0
  <2>1. saving'[x].pc = "append" => Appending(d)' = {x}
    BY <1>1 DEF Appending
  <2>2. saving'[x].pc # "append" => Appending(d)' = {}
    BY <1>1 DEF Appending
  <2>3. Cardinality({x}) = 1 /\ Cardinality({}) = 0
    BY FS_EmptySet, FS_Singleton
  <2> QED
    BY <2>1, <2>2, <2>3
<1>7. HistoryIsTheChange'
  <2> SUFFICES ASSUME NEW e \in Domains
               PROVE  LET h == changes'[e] IN
                      /\ titles'[e].count = Len(h) + Cardinality(Appending(e)') + lost'[e]
                      /\ \A i \in 1..Len(h) : h[i].old # h[i].new
                      /\ lost'[e] = 0 =>
                            /\ \A i \in 2..Len(h) : h[i].old = h[i-1].new
                            /\ h # <<>> /\ Appending(e)' = {} =>
                                  h[Len(h)].new = titles'[e].title
    BY DEF HistoryIsTheChange
  <2>1. CASE e # d
    BY <1>5, <2>1 DEF SaveInv, HistoryIsTheChange
  <2>2. CASE e = d
    BY <1>6, <2>2 DEF Tells, Pending
  <2> QED
    BY <2>1, <2>2
<1> QED
  BY <1>2, <1>3, <1>4, <1>7 DEF SaveInv

-----------------------------------------------------------------------------
(***************************************************************************)
(* The steps.                                                              *)
(***************************************************************************)

\* The steps of the service in between leave the saves alone.
LEMMA ServiceStepSaves ==
    ASSUME ServiceInv, SaveInv, TitleServiceStep
    PROVE  SaveInv'
<1>1. titles' = titles /\ changes' = changes /\ lost' = lost /\ saving' = saving
  BY DEF TitleServiceStep
<1>2. \A x \in Pool : worker[x].pc = "busy" => worker'[x] = worker[x]
  <2>1. ASSUME NEW c \in Callers, NEW domains \in SUBSET Domains, Listed(c, domains)
        PROVE  \A x \in Pool : worker[x].pc = "busy" => worker'[x] = worker[x]
    BY <2>1 DEF Listed, ServiceInv, WorkersBelong, Pool
  <2>2. ASSUME NEW c \in Callers, NEW w \in Workers, Return(c, w)
        PROVE  \A x \in Pool : worker[x].pc = "busy" => worker'[x] = worker[x]
    BY <2>2 DEF Return, ServiceInv, ServiceTypeOK
  <2> QED
    BY <2>1, <2>2 DEF TitleServiceStep, RefreshAsync, ResetProgress, List, ListingFails,
                      CloseJobs, Wait, FinishProgress, Release, Cancel
<1>3. \A x \in Pool : /\ saving'[x] = saving[x]
                      /\ worker[x].pc # "busy" => saving[x].pc = "none"
  BY <1>1 DEF SaveInv, TitleSavesBelong
<1>4. saving' \in [Pool -> SavingType]
  BY <1>1 DEF SaveInv, SaveTyped
<1> QED
  BY <1>1, <1>2, <1>3, <1>4, FrameStepInv

\* A save begins where none is under way.
LEMMA HandTitleInv ==
    ASSUME ServiceInv, SaveInv, NEW c \in Callers, NEW w \in Workers, HandTitle(c, w)
    PROVE  SaveInv'
<1> DEFINE x == <<c, w>>
<1>1. /\ x \in Pool /\ worker[x].pc = "ready"
      /\ titles' = titles /\ changes' = changes /\ lost' = lost
      /\ saving' = [saving EXCEPT ![x].pc = "check"]
  BY DEF HandTitle, Hand, Pool
<1>2. saving[x].pc = "none"
  BY <1>1 DEF SaveInv, TitleSavesBelong
<1>3. /\ saving'[x].pc = "check" /\ worker'[x].pc = "busy"
      /\ \A y \in Pool \ {x} : saving'[y] = saving[y] /\ worker'[y] = worker[y]
  BY <1>1 DEF HandTitle, Hand, SaveInv, SaveTyped, ServiceInv, ServiceTypeOK
<1>4. saving' \in [Pool -> SavingType]
  BY <1>1 DEF SaveInv, SaveTyped, SavingType
<1> QED
  BY <1>1, <1>2, <1>3, <1>4, FrameStepInv DEF SaveInv, TitleSavesBelong

\* A save that is recorded is over.
LEMMA RecordTitleInv ==
    ASSUME ServiceInv, SaveInv, NEW c \in Callers, NEW w \in Workers, RecordTitle(c, w)
    PROVE  SaveInv'
<1> DEFINE x == <<c, w>>
<1>1. /\ x \in Pool /\ saving[x].pc \in {"saved", "unsaved"}
      /\ titles' = titles /\ changes' = changes /\ lost' = lost
      /\ saving' = [saving EXCEPT ![x] = NotSaving]
  BY DEF RecordTitle, Pool
<1>2. NotSaving \in SavingType /\ NotSaving.pc = "none"
  BY DEF NotSaving, SavingType, Unchecked, DomainTitle
<1>3. /\ saving'[x].pc = "none"
      /\ \A y \in Pool \ {x} : saving'[y] = saving[y] /\ worker'[y] = worker[y]
  BY <1>1, <1>2 DEF RecordTitle, Record, SaveInv, SaveTyped, ServiceInv, ServiceTypeOK
<1>4. saving' \in [Pool -> SavingType]
  BY <1>1, <1>2 DEF SaveInv, SaveTyped
<1> QED
  BY <1>1, <1>3, <1>4, FrameStepInv DEF SaveInv, TitleSavesBelong

\* What is known of the domain whose title a worker is saving.
LEMMA OwnDomain ==
    ASSUME ServiceInv, SaveInv, NEW x \in Pool, saving[x].pc # "none",
           NEW d, d = worker[x].domain
    PROVE  /\ d \in Domains /\ titles[d] \in DomainTitle /\ lost[d] \in Nat
           /\ changes[d] \in Seq(Change) /\ Len(changes[d]) \in Nat
           /\ ~titles[d].exists => titles[d] = Unchecked
           /\ Tells(changes[d], Pending(saving[x]), lost[d], titles[d].title, titles[d].count)
<1>1. d \in Domains
  BY SavingDomains DEF SaveInv
<1>2. /\ titles[d] \in DomainTitle /\ lost[d] \in Nat
      /\ changes[d] \in Seq(Change) /\ Len(changes[d]) \in Nat
  BY <1>1 DEF SaveInv, SaveTyped
<1>3. /\ saving[x].pc = "append" => Appending(d) = {x} /\ Cardinality(Appending(d)) = 1
      /\ saving[x].pc # "append" => Appending(d) = {} /\ Cardinality(Appending(d)) = 0
  BY AppendingAlone DEF SaveInv
<1>4. LET h == changes[d] IN
      /\ titles[d].count = Len(h) + Cardinality(Appending(d)) + lost[d]
      /\ \A i \in 1..Len(h) : h[i].old # h[i].new
      /\ lost[d] = 0 =>
            /\ \A i \in 2..Len(h) : h[i].old = h[i-1].new
            /\ h # <<>> /\ Appending(d) = {} => h[Len(h)].new = titles[d].title
  BY <1>1 DEF SaveInv, HistoryIsTheChange
<1>5. ~titles[d].exists => titles[d] = Unchecked
  BY <1>1 DEF SaveInv, SavesKnow
<1>6. Tells(changes[d], Pending(saving[x]), lost[d], titles[d].title, titles[d].count)
  <2>1. CASE saving[x].pc = "append"
    BY <1>3, <1>4, <2>1 DEF Tells, Pending
  <2>2. CASE saving[x].pc # "append"
    BY <1>3, <1>4, <2>2 DEF Tells, Pending
  <2> QED
    BY <2>1, <2>2
<1> QED
  BY <1>1, <1>2, <1>5, <1>6

\* Only the position of a worker in its save changes.
LEMMA NextPosition ==
    ASSUME saving \in [Pool -> SavingType], NEW x \in Pool,
           NEW p \in {"failure", "write", "append", "saved", "unsaved"},
           saving' = [saving EXCEPT ![x].pc = p]
    PROVE  /\ saving' \in [Pool -> SavingType]
           /\ saving'[x].pc = p /\ saving'[x].title = saving[x].title
           /\ saving'[x].seen = saving[x].seen
           /\ \A y \in Pool \ {x} : saving'[y] = saving[y]
BY DEF SavingType

\* Checking and finding the title write nothing.
LEMMA ReadingInv ==
    ASSUME ServiceInv, SaveInv, NEW c \in Callers, NEW w \in Workers,
           CheckTitle(c, w) \/ FindTitle(c, w)
    PROVE  SaveInv'
<1>0. PICK x \in Pool : x = <<c, w>>
  BY DEF Pool
<1>1. PICK d : x = <<c, w>> /\ d = worker[x].domain
  BY <1>0
<1>2. /\ saving[x].pc \in {"check", "find"}
      /\ titles' = titles /\ changes' = changes /\ lost' = lost /\ worker' = worker
  BY <1>1 DEF CheckTitle, FindTitle, serviceVars
<1>3. /\ d \in Domains /\ titles[d] \in DomainTitle
      /\ ~titles[d].exists => titles[d] = Unchecked
      /\ Tells(changes[d], Pending(saving[x]), lost[d], titles[d].title, titles[d].count)
  BY <1>1, <1>2, OwnDomain
<1>4. saving[x] \in SavingType /\ saving \in [Pool -> SavingType]
  BY DEF SaveInv, SaveTyped
<1>5. /\ saving' \in [Pool -> SavingType]
      /\ saving'[x].pc \in {"find", "failure", "write"}
      /\ \A y \in Pool \ {x} : saving'[y] = saving[y]
      /\ saving'[x].pc \in {"find", "write"} => saving'[x].title \in Titles
      /\ saving'[x].pc = "write" => saving'[x].seen = titles[d]
  <2>1. ASSUME NEW t \in Titles,
               saving' = [saving EXCEPT ![x].pc = "find", ![x].title = t]
        PROVE  /\ saving' \in [Pool -> SavingType]
               /\ saving'[x].pc = "find" /\ saving'[x].title = t
               /\ \A y \in Pool \ {x} : saving'[y] = saving[y]
    BY <1>4, <2>1 DEF SavingType
  <2>2. CASE saving' = [saving EXCEPT ![x].pc = "failure"]
    BY <1>4, <2>2, NextPosition
  <2>3. CASE FindTitle(c, w)
    BY <1>1, <1>2, <1>3, <2>3 DEF FindTitle, SavingType, SaveInv, SaveTyped, SavesKnow
  <2> QED
    BY <1>1, <2>1, <2>2, <2>3 DEF CheckTitle
<1>6. SaveTyped'
  BY <1>2, <1>5 DEF SaveInv, SaveTyped
<1>7. LocalStep(x, d)
  BY <1>2, <1>3, <1>5, <1>6 DEF LocalStep, Pending
<1> QED
  BY <1>1, <1>2, <1>3, <1>7, LocalStepInv

\* A failed check leaves the title as it is.
LEMMA SaveFailureInv ==
    ASSUME ServiceInv, SaveInv, NEW c \in Callers, NEW w \in Workers,
           SaveDomainTitleFailure(c, w)
    PROVE  SaveInv'
<1>0. PICK x \in Pool : x = <<c, w>>
  BY DEF Pool
<1>1. PICK d : x = <<c, w>> /\ d = worker[x].domain
  BY <1>0
<1>2. /\ saving[x].pc = "failure"
      /\ changes' = changes /\ lost' = lost /\ worker' = worker
      /\ titles' = [titles EXCEPT ![d].exists = TRUE, ![d].failed = TRUE]
      /\ saving' = [saving EXCEPT ![x].pc = "unsaved"]
  BY <1>1 DEF SaveDomainTitleFailure, serviceVars
<1>3. /\ d \in Domains /\ titles[d] \in DomainTitle
      /\ Tells(changes[d], Pending(saving[x]), lost[d], titles[d].title, titles[d].count)
  BY <1>1, <1>2, OwnDomain
<1>4. /\ titles' \in [Domains -> DomainTitle]
      /\ titles'[d].exists /\ titles'[d].title = titles[d].title
      /\ titles'[d].count = titles[d].count
      /\ \A e \in Domains \ {d} : titles'[e] = titles[e]
  BY <1>2, <1>3 DEF SaveInv, SaveTyped, DomainTitle
<1>5. /\ saving' \in [Pool -> SavingType] /\ saving'[x].pc = "unsaved"
      /\ \A y \in Pool \ {x} : saving'[y] = saving[y]
  BY <1>2, NextPosition DEF SaveInv, SaveTyped
<1>6. SaveTyped'
  BY <1>2, <1>4, <1>5 DEF SaveInv, SaveTyped
<1>7. LocalStep(x, d)
  BY <1>2, <1>3, <1>4, <1>5, <1>6 DEF LocalStep, Pending
<1> QED
  BY <1>1, <1>2, <1>3, <1>7, LocalStepInv

\* The first title of a domain is no change.
LEMMA InsertTitleInv ==
    ASSUME ServiceInv, SaveInv, NEW c \in Callers, NEW w \in Workers, InsertTitle(c, w)
    PROVE  SaveInv'
<1>0. PICK x \in Pool : x = <<c, w>>
  BY DEF Pool
<1>1. PICK d : x = <<c, w>> /\ d = worker[x].domain
  BY <1>0
<1>2. /\ saving[x].pc = "write" /\ ~saving[x].seen.exists
      /\ changes' = changes /\ lost' = lost /\ worker' = worker
  BY <1>1 DEF InsertTitle, serviceVars
<1>3. /\ d \in Domains /\ titles[d] \in DomainTitle /\ lost[d] \in Nat
      /\ changes[d] \in Seq(Change) /\ Len(changes[d]) \in Nat
      /\ ~titles[d].exists => titles[d] = Unchecked
      /\ Tells(changes[d], Pending(saving[x]), lost[d], titles[d].title, titles[d].count)
  BY <1>1, <1>2, OwnDomain
<1>4. titles[d] = Unchecked /\ ~titles[d].exists /\ saving[x].title \in Titles
  BY <1>1, <1>2, <1>3 DEF SaveInv, ReadIsCurrent, SavesKnow
<1>5. /\ titles' = [titles EXCEPT ![d] =
                       [Unchecked EXCEPT !.exists = TRUE, !.title = saving[x].title]]
      /\ saving' = [saving EXCEPT ![x].pc = "saved"]
  BY <1>1, <1>4 DEF InsertTitle
<1>6. /\ titles' \in [Domains -> DomainTitle]
      /\ titles'[d].exists /\ titles'[d].title = saving[x].title /\ titles'[d].count = 0
      /\ \A e \in Domains \ {d} : titles'[e] = titles[e]
  BY <1>3, <1>4, <1>5 DEF SaveInv, SaveTyped, DomainTitle, Unchecked
<1>7. /\ saving' \in [Pool -> SavingType] /\ saving'[x].pc = "saved"
      /\ \A y \in Pool \ {x} : saving'[y] = saving[y]
  BY <1>5, NextPosition DEF SaveInv, SaveTyped
<1>8. SaveTyped'
  BY <1>2, <1>6, <1>7 DEF SaveInv, SaveTyped
<1>9. Len(changes[d]) = 0 /\ lost[d] = 0 /\ changes[d] = <<>>
  <2>1. Len(changes[d]) + 0 + lost[d] = 0
    BY <1>2, <1>3, <1>4 DEF Tells, Pending, Unchecked
  <2> QED
    BY <1>3, <2>1
<1>10. Tells(changes[d], 0, lost[d], saving[x].title, 0)
  BY <1>9 DEF Tells
<1>11. LocalStep(x, d)
  BY <1>2, <1>6, <1>7, <1>8, <1>10 DEF LocalStep, Pending
<1> QED
  BY <1>1, <1>2, <1>3, <1>11, LocalStepInv

\* An update counts a change, that it is then about to append, exactly if the title it
\* replaces was known and is another one.
LEMMA UpdateTitleInv ==
    ASSUME ServiceInv, SaveInv, NEW c \in Callers, NEW w \in Workers, UpdateTitle(c, w)
    PROVE  SaveInv'
<1>0. PICK x \in Pool : x = <<c, w>>
  BY DEF Pool
<1>1. PICK d : x = <<c, w>> /\ d = worker[x].domain
  BY <1>0
<1>2. /\ saving[x].pc = "write"
      /\ changes' = changes /\ lost' = lost /\ worker' = worker
  BY <1>1 DEF UpdateTitle, serviceVars
<1>3. /\ d \in Domains /\ titles[d] \in DomainTitle /\ lost[d] \in Nat
      /\ changes[d] \in Seq(Change) /\ Len(changes[d]) \in Nat
      /\ Tells(changes[d], Pending(saving[x]), lost[d], titles[d].title, titles[d].count)
  BY <1>1, <1>2, OwnDomain
<1>4. saving[x].seen = titles[d] /\ saving[x].title \in Titles
  BY <1>1, <1>2 DEF SaveInv, ReadIsCurrent, SavesKnow
<1>5. Tells(changes[d], 0, lost[d], titles[d].title, titles[d].count)
  BY <1>2, <1>3 DEF Pending
<1>6. PICK n : n = IF Changed(saving[x]) THEN titles[d].count + 1 ELSE titles[d].count
  OBVIOUS
<1>7. /\ titles' = [titles EXCEPT ![d] =
                       [exists |-> TRUE, title |-> saving[x].title, failed |-> FALSE, count |-> n]]
      /\ saving' = [saving EXCEPT ![x].pc = IF Changed(saving[x]) THEN "append" ELSE "saved"]
  BY <1>1, <1>6 DEF UpdateTitle
<1>8. titles[d].count \in Nat /\ n \in Nat
  BY <1>3, <1>6 DEF DomainTitle
<1>9. /\ titles' \in [Domains -> DomainTitle]
      /\ titles'[d].exists /\ titles'[d].title = saving[x].title /\ titles'[d].count = n
      /\ \A e \in Domains \ {d} : titles'[e] = titles[e]
  BY <1>3, <1>4, <1>7, <1>8 DEF SaveInv, SaveTyped, DomainTitle
<1>10. /\ saving' \in [Pool -> SavingType]
       /\ saving'[x].pc = IF Changed(saving[x]) THEN "append" ELSE "saved"
       /\ saving'[x].title = saving[x].title /\ saving'[x].seen = saving[x].seen
       /\ \A y \in Pool \ {x} : saving'[y] = saving[y]
  BY <1>7, NextPosition DEF SaveInv, SaveTyped
<1>11. SaveTyped'
  BY <1>2, <1>9, <1>10 DEF SaveInv, SaveTyped
<1>12. CASE Changed(saving[x])
  <2>1. Tells(changes[d], 1, lost[d], saving[x].title, n)
    <3>1. n = titles[d].count + 1
      BY <1>6, <1>12
    <3>2. n = Len(changes[d]) + 1 + lost[d]
      BY <1>3, <1>5, <1>8, <3>1 DEF Tells
    <3>3. /\ \A i \in 1..Len(changes[d]) : changes[d][i].old # changes[d][i].new
          /\ lost[d] = 0 =>
                \A i \in 2..Len(changes[d]) : changes[d][i].old = changes[d][i-1].new
      BY <1>5, Zenon DEF Tells
    <3>4. 1 # 0
      OBVIOUS
    <3> QED
      BY <3>2, <3>3, <3>4, Zenon DEF Tells
  <2>2. lost[d] = 0 /\ changes[d] # <<>> =>
           changes[d][Len(changes[d])].new = saving[x].seen.title
    BY <1>4, <1>5 DEF Tells
  <2>3. LocalStep(x, d)
    BY <1>2, <1>4, <1>9, <1>10, <1>11, <1>12, <2>1, <2>2 DEF LocalStep, Pending, Changed
  <2> QED
    BY <1>1, <1>2, <1>3, <2>3, LocalStepInv
<1>13. CASE ~Changed(saving[x])
  <2>1. changes[d] # <<>> => changes[d][Len(changes[d])].new \in Titles
    <3>1. changes[d] # <<>> => changes[d][Len(changes[d])] \in Change
      BY <1>3
    <3> QED
      BY <3>1 DEF Change
  <2>2. titles[d].title = NoTitle \/ titles[d].title = saving[x].title
    BY <1>4, <1>13 DEF Changed
  <2>3. Tells(changes[d], 0, lost[d], saving[x].title, n)
    BY <1>5, <1>6, <1>13, <2>1, <2>2 DEF Tells
  <2>4. LocalStep(x, d)
    BY <1>2, <1>4, <1>9, <1>10, <1>11, <1>13, <2>3 DEF LocalStep, Pending
  <2> QED
    BY <1>1, <1>2, <1>3, <2>4, LocalStepInv
<1> QED
  BY <1>12, <1>13

\* A change that leads on from the end of a history extends it.
LEMMA TellsAppended ==
    ASSUME NEW h \in Seq(Change), NEW change \in Change, NEW missing \in Nat,
           NEW title, NEW count,
           Tells(h, 1, missing, title, count), change.old # change.new, change.new = title,
           missing = 0 /\ h # <<>> => h[Len(h)].new = change.old
    PROVE  Tells(Append(h, change), 0, missing, title, count)
<1> DEFINE g == Append(h, change)
<1>1. /\ Len(h) \in Nat /\ Len(g) = Len(h) + 1 /\ g[Len(h) + 1] = change
      /\ \A i \in 1..Len(h) : g[i] = h[i]
  OBVIOUS
<1>2. count = Len(g) + 0 + missing
  BY <1>1 DEF Tells
<1>3. ASSUME NEW i \in 1..Len(g)
      PROVE  g[i].old # g[i].new
  BY <1>1 DEF Tells
<1>4. ASSUME missing = 0, NEW i \in 2..Len(g)
      PROVE  g[i].old = g[i-1].new
  <2>1. CASE i = Len(g)
    <3>1. i - 1 = Len(h) /\ i - 1 \in 1..Len(h) /\ h # <<>>
      BY <1>1, <2>1
    <3> QED
      BY <1>1, <1>4, <2>1, <3>1
  <2>2. CASE i # Len(g)
    <3>1. i \in 2..Len(h) /\ i - 1 \in 1..Len(h) /\ i \in 1..Len(h)
      BY <1>1, <2>2
    <3> QED
      BY <1>1, <1>4, <3>1 DEF Tells
  <2> QED
    BY <2>1, <2>2
<1>5. g[Len(g)].new = title
  BY <1>1
<1> HIDE DEF g
<1>6. Tells(g, 0, missing, title, count)
  BY <1>2, <1>3, <1>4, <1>5 DEF Tells
<1> QED
  BY <1>6 DEF g

\* The history is extended by the change that was counted.
LEMMA AppendChangeInv ==
    ASSUME ServiceInv, SaveInv, NEW c \in Callers, NEW w \in Workers, AppendChange(c, w)
    PROVE  SaveInv'
<1>0. PICK x \in Pool : x = <<c, w>>
  BY DEF Pool
<1>1. PICK d : x = <<c, w>> /\ d = worker[x].domain
  BY <1>0
<1>2. /\ saving[x].pc = "append"
      /\ titles' = titles /\ lost' = lost /\ worker' = worker
      /\ saving' = [saving EXCEPT ![x].pc = "saved"]
      /\ changes' = [changes EXCEPT ![d] =
                        Append(@, [old |-> saving[x].seen.title, new |-> saving[x].title])]
  BY <1>1 DEF AppendChange, serviceVars
<1>3. /\ d \in Domains /\ titles[d] \in DomainTitle /\ lost[d] \in Nat
      /\ changes[d] \in Seq(Change) /\ Len(changes[d]) \in Nat
      /\ ~titles[d].exists => titles[d] = Unchecked
      /\ Tells(changes[d], Pending(saving[x]), lost[d], titles[d].title, titles[d].count)
  BY <1>1, <1>2, OwnDomain
<1>4. /\ Changed(saving[x]) /\ titles[d].title = saving[x].title
      /\ lost[d] = 0 /\ changes[d] # <<>> =>
            changes[d][Len(changes[d])].new = saving[x].seen.title
  BY <1>1, <1>2 DEF SaveInv, AppendIsNext, LastTitle
<1>5. PICK change : change = [old |-> saving[x].seen.title, new |-> saving[x].title]
  OBVIOUS
<1>6. /\ change \in Change /\ change.old = saving[x].seen.title /\ change.new = saving[x].title
      /\ change.old # change.new
  <2>1. saving[x].title \in Titles /\ saving[x].seen.title \in Titles
    BY <1>2, <1>4 DEF SaveInv, SavesKnow, SaveTyped, SavingType, DomainTitle, Changed
  <2> QED
    BY <1>4, <1>5, <2>1 DEF Change, Changed
<1>7. /\ changes' \in [Domains -> Seq(Change)] /\ changes'[d] = Append(changes[d], change)
      /\ \A e \in Domains \ {d} : changes'[e] = changes[e]
  <2>1. Append(changes[d], change) \in Seq(Change)
    BY <1>3, <1>6
  <2> QED
    BY <1>2, <1>3, <1>5, <2>1 DEF SaveInv, SaveTyped
<1>8. /\ saving' \in [Pool -> SavingType] /\ saving'[x].pc = "saved"
      /\ \A y \in Pool \ {x} : saving'[y] = saving[y]
  BY <1>2, NextPosition DEF SaveInv, SaveTyped
<1>9. SaveTyped'
  BY <1>2, <1>7, <1>8 DEF SaveInv, SaveTyped
<1>10. Tells(changes[d], 1, lost[d], titles[d].title, titles[d].count)
  BY <1>2, <1>3 DEF Pending
<1>11. Tells(Append(changes[d], change), 0, lost[d], titles[d].title, titles[d].count)
  BY <1>3, <1>4, <1>6, <1>10, TellsAppended
<1>12. LocalStep(x, d)
  BY <1>2, <1>3, <1>7, <1>8, <1>9, <1>11 DEF LocalStep, Pending
<1> QED
  BY <1>1, <1>2, <1>3, <1>12, LocalStepInv

\* A change that cannot be appended is counted all the same, and lost.
LEMMA OperationFailsInv ==
    ASSUME ServiceInv, SaveInv, NEW c \in Callers, NEW w \in Workers, OperationFails(c, w)
    PROVE  SaveInv'
<1>0. PICK x \in Pool : x = <<c, w>>
  BY DEF Pool
<1>1. PICK d : x = <<c, w>> /\ d = worker[x].domain
  BY <1>0
<1>2. /\ saving[x].pc \in {"failure", "find", "write", "append"}
      /\ titles' = titles /\ changes' = changes /\ worker' = worker
      /\ saving' = [saving EXCEPT ![x].pc = "unsaved"]
      /\ lost' = IF saving[x].pc = "append" THEN [lost EXCEPT ![d] = @ + 1] ELSE lost
  BY <1>1 DEF OperationFails, serviceVars
<1>3. /\ d \in Domains /\ titles[d] \in DomainTitle /\ lost[d] \in Nat
      /\ changes[d] \in Seq(Change) /\ Len(changes[d]) \in Nat
      /\ ~titles[d].exists => titles[d] = Unchecked
      /\ Tells(changes[d], Pending(saving[x]), lost[d], titles[d].title, titles[d].count)
  BY <1>1, <1>2, OwnDomain
<1>4. /\ saving' \in [Pool -> SavingType] /\ saving'[x].pc = "unsaved"
      /\ \A y \in Pool \ {x} : saving'[y] = saving[y]
  BY <1>2, NextPosition DEF SaveInv, SaveTyped
<1>5. /\ lost' \in [Domains -> Nat] /\ \A e \in Domains \ {d} : lost'[e] = lost[e]
      /\ lost'[d] = IF saving[x].pc = "append" THEN lost[d] + 1 ELSE lost[d]
  BY <1>2, <1>3 DEF SaveInv, SaveTyped
<1>6. SaveTyped'
  BY <1>2, <1>4, <1>5 DEF SaveInv, SaveTyped
<1>7. Tells(changes[d], 0, lost'[d], titles[d].title, titles[d].count)
  <2>1. CASE saving[x].pc = "append"
    <3>0. PICK n \in Nat, m \in Nat : n = Len(changes[d]) /\ m = lost[d]
      BY <1>3
    <3>1. lost'[d] = lost[d] + 1 /\ lost'[d] # 0 /\ Len(changes[d]) + 1 + lost[d]
                                                     = Len(changes[d]) + 0 + lost'[d]
      <4>1. lost'[d] = m + 1
        BY <1>5, <2>1, <3>0
      <4> QED
        BY <3>0, <4>1
    <3>2. Tells(changes[d], 1, lost[d], titles[d].title, titles[d].count)
      BY <1>3, <2>1 DEF Pending
    <3> QED
      BY <3>1, <3>2 DEF Tells
  <2>2. CASE saving[x].pc # "append"
    <3>1. lost'[d] = lost[d] /\ Pending(saving[x]) = 0
      BY <1>5, <2>2 DEF Pending
    <3> QED
      BY <1>3, <3>1
  <2> QED
    BY <2>1, <2>2
<1>8. LocalStep(x, d)
  BY <1>2, <1>3, <1>4, <1>6, <1>7 DEF LocalStep, Pending
<1> QED
  BY <1>1, <1>2, <1>3, <1>8, LocalStepInv

\* A restart loses the changes that were about to be appended, and what was read.
LEMMA TitleRestartInv ==
    ASSUME SaveInv, RestartTitles
    PROVE  SaveInv'
<1>1. /\ titles' = titles /\ changes' = changes /\ saving' = [x \in Pool |-> NotSaving]
      /\ lost' = [d \in Domains |-> lost[d] + Cardinality(Appending(d))]
  BY DEF RestartTitles
<1>2. NotSaving \in SavingType /\ NotSaving.pc = "none"
  BY DEF NotSaving, SavingType, Unchecked, DomainTitle
<1>3. \A x \in Pool : saving'[x].pc = "none"
  BY <1>1, <1>2
<1>4. lost' \in [Domains -> Nat]
  BY <1>1, AppendingCounted DEF SaveInv, SaveTyped
<1>5. SaveTyped' /\ TitleSavesBelong' /\ SavesKnow' /\ AppendIsNext' /\ ReadIsCurrent'
  BY <1>1, <1>2, <1>3, <1>4
     DEF SaveInv, SaveTyped, TitleSavesBelong, SavesKnow, AppendIsNext, ReadIsCurrent
<1>6. \A d \in Domains : Appending(d)' = {} /\ Cardinality(Appending(d)') = 0
  BY <1>3, FS_EmptySet DEF Appending
<1>7. HistoryIsTheChange'
  <2> SUFFICES ASSUME NEW d \in Domains
               PROVE  LET h == changes[d] IN
                      /\ titles[d].count = Len(h) + 0 + lost'[d]
                      /\ \A i \in 1..Len(h) : h[i].old # h[i].new
                      /\ lost'[d] = 0 =>
                            /\ \A i \in 2..Len(h) : h[i].old = h[i-1].new
                            /\ h # <<>> => h[Len(h)].new = titles[d].title
    BY <1>1, <1>6 DEF HistoryIsTheChange
  <2>1. /\ lost[d] \in Nat /\ Cardinality(Appending(d)) \in Nat /\ Len(changes[d]) \in Nat
        /\ Cardinality(Appending(d)) = 0 => Appending(d) = {}
        /\ lost'[d] = lost[d] + Cardinality(Appending(d))
    BY <1>1, AppendingCounted, FS_EmptySet DEF SaveInv, SaveTyped
  <2>2. LET h == changes[d] IN
        /\ titles[d].count = Len(h) + Cardinality(Appending(d)) + lost[d]
        /\ \A i \in 1..Len(h) : h[i].old # h[i].new
        /\ lost[d] = 0 =>
              /\ \A i \in 2..Len(h) : h[i].old = h[i-1].new
              /\ h # <<>> /\ Appending(d) = {} => h[Len(h)].new = titles[d].title
    BY DEF SaveInv, HistoryIsTheChange
  <2>3. lost'[d] = 0 => lost[d] = 0 /\ Appending(d) = {}
    BY <2>1
  <2> QED
    BY <2>1, <2>2, <2>3
<1> QED
  BY <1>5, <1>7 DEF SaveInv

-----------------------------------------------------------------------------
(***************************************************************************)
(* The theorems.                                                           *)
(***************************************************************************)

\* The invariant holds at the start.
LEMMA TitleInitInv ==
    ASSUME TitleInit
    PROVE  TitleIInv
<1>1. ServiceInv
  BY ServiceInitInv DEF TitleInit
<1>2. Unchecked \in DomainTitle /\ NotSaving \in SavingType /\ NotSaving.pc = "none"
  BY DEF NotSaving, SavingType, Unchecked, DomainTitle
<1>3. SaveTyped /\ TitleSavesBelong /\ SavesKnow /\ AppendIsNext /\ ReadIsCurrent
  BY <1>2 DEF TitleInit, SaveTyped, TitleSavesBelong, SavesKnow, AppendIsNext, ReadIsCurrent
<1>4. \A d : Appending(d) = {} /\ Cardinality(Appending(d)) = 0
  BY <1>2, FS_EmptySet DEF TitleInit, Appending
<1>5. HistoryIsTheChange
  BY <1>4 DEF TitleInit, HistoryIsTheChange, Unchecked
<1> QED
  BY <1>1, <1>3, <1>5 DEF TitleIInv, SaveInv

\* Every step is one of the service or leaves its variables alone.
LEMMA TitleServicePart ==
    ASSUME ServiceInv, [TitleNext]_titleVars
    PROVE  ServiceInv'
<1>1. ASSUME NEW c \in Callers, NEW w \in Workers, RecordTitle(c, w)
      PROVE  ServiceNext
  <2>1. CASE saving[<<c, w>>].pc = "saved"
    <3>1. Record(c, w, TRUE)
      BY <1>1, <2>1 DEF RecordTitle, Record
    <3> QED
      BY <3>1 DEF ServiceNext
  <2>2. CASE saving[<<c, w>>].pc # "saved"
    <3>1. Record(c, w, FALSE)
      BY <1>1, <2>2 DEF RecordTitle, Record
    <3> QED
      BY <3>1 DEF ServiceNext
  <2> QED
    BY <2>1, <2>2
<1>2. ServiceNext \/ UNCHANGED serviceVars
  <2>1. CASE TitleServiceStep \/ RestartTitles
    BY <2>1 DEF TitleServiceStep, RestartTitles, ServiceNext
  <2>2. ASSUME NEW c \in Callers, NEW w \in Workers, TitleWorkerStep(c, w)
        PROVE  ServiceNext \/ UNCHANGED serviceVars
    <3>1. CASE HandTitle(c, w)
      BY <3>1 DEF HandTitle, ServiceNext
    <3> QED
      BY <1>1, <2>2, <3>1 DEF TitleWorkerStep, CheckTitle, SaveDomainTitleFailure, FindTitle,
         InsertTitle, UpdateTitle, AppendChange, OperationFails
  <2>3. CASE UNCHANGED titleVars
    BY <2>3 DEF titleVars
  <2> QED
    BY <2>1, <2>2, <2>3 DEF TitleNext
<1>3. CASE ServiceNext
  BY <1>3, ServiceStepInv
<1>4. CASE UNCHANGED serviceVars
  BY <1>4 DEF serviceVars, ServiceInv, ServiceTypeOK, OneRefresh, ProgressAddsUp, Busy,
              WorkersBelong, CountsFromZero
<1> QED
  BY <1>2, <1>3, <1>4

\* Every step keeps the invariant.
LEMMA TitleNextInv ==
    ASSUME TitleIInv, [TitleNext]_titleVars
    PROVE  TitleIInv'
<1>1. ServiceInv /\ SaveInv
  BY DEF TitleIInv
<1>2. ServiceInv'
  BY <1>1, TitleServicePart
<1>3. SaveInv'
  <2>1. ASSUME NEW c \in Callers, NEW w \in Workers, TitleWorkerStep(c, w)
        PROVE  SaveInv'
    BY <1>1, <2>1, HandTitleInv, ReadingInv, SaveFailureInv, InsertTitleInv, UpdateTitleInv,
       AppendChangeInv, OperationFailsInv, RecordTitleInv DEF TitleWorkerStep
  <2>2. CASE UNCHANGED titleVars
    BY <1>1, <2>2, ZenonT(30) DEF titleVars, serviceVars, SaveInv, SaveTyped, TitleSavesBelong,
       SavesKnow, Changed, AppendIsNext, LastTitle, ReadIsCurrent, HistoryIsTheChange, Appending
  <2> QED
    BY <1>1, <2>1, <2>2, ServiceStepSaves, TitleRestartInv DEF TitleNext
<1> QED
  BY <1>2, <1>3 DEF TitleIInv

\* The inductive invariant holds in every reachable state.
THEOREM TitleInvariance == TitleSpec => []TitleIInv
<1>1. TitleInit => TitleIInv
  BY TitleInitInv
<1>2. TitleIInv /\ [TitleNext]_titleVars => TitleIInv'
  BY TitleNextInv
<1> QED
  BY <1>1, <1>2, PTL DEF TitleSpec

\* Type correctness.
THEOREM TitleTypeCorrect == TitleSpec => []TitleTypeOK
<1>1. TitleIInv => TitleTypeOK
  BY DEF TitleIInv, ServiceInv, SaveInv, SaveTyped, TitleTypeOK
<1> QED
  BY <1>1, TitleInvariance, PTL

\* A save decides on no stale title, although finding and writing are two operations.
THEOREM SavesReadCurrentTitles == TitleSpec => []ReadIsCurrent
<1>1. TitleIInv => ReadIsCurrent
  BY DEF TitleIInv, SaveInv
<1> QED
  BY <1>1, TitleInvariance, PTL

\* The counter and the history of a domain's title agree, up to what was lost.
THEOREM HistoryIsRight == TitleSpec => []HistoryIsTheChange
<1>1. TitleIInv => HistoryIsTheChange
  BY DEF TitleIInv, SaveInv
<1> QED
  BY <1>1, TitleInvariance, PTL

HIDE TitleAssumption

-----------------------------------------------------------------------------
(***************************************************************************)
(* Certificates: type correctness, ListIsTheFile, LatestIsNewest,         *)
(* OldChecksAreGone and RecentChecksAreKept, for any retention period.     *)
(***************************************************************************)
USE CertificateAssumption

\* What TypeOK says beyond ServiceTypeOK.
CertTyped ==
    /\ today \in 1..MaxDay
    /\ active \in SUBSET Domains
    /\ history \in SUBSET Check
    /\ latest \in [Domains -> Check \cup {NoCheck}]
    /\ task \in [Callers -> TaskType]
    /\ save \in [Pool -> SaveType]
    /\ stale \in SUBSET Check

\* The task of a goroutine goes with the position of its refresh: it synchronizes before
\* it has listed the domains, and cleans when all its workers have returned.
Syncing  == {"clear", "set", "list"}
Cleaning == {"failures", "find", "successes", "cleaned"}
TasksBelong ==
    \A c \in Callers :
        /\ task[c].pc \in Syncing => run[c].pc = "list"
        /\ task[c].pc \in Cleaning =>
              run[c].pc = "waiting" /\ \A w \in Workers : worker[<<c, w>>].pc = "none"

\* Only a worker that has a domain is saving its certificate.
CertSavesBelong == \A x \in Pool : worker[x].pc # "busy" => save[x].pc = "none"

\* While flags are being set, those of no other domain are.
FlagsFollow == \A c \in Callers : task[c].pc = "set" => active \subseteq task[c].domains

\* Nothing is older than what is being saved: it belongs to the last refresh.
RunsInOrder ==
    /\ \A c \in Callers : run[c].pc # "idle" => used.runs >= 1
    /\ \A h \in history : h.run <= used.runs
    /\ \A d \in Domains : latest[d].run <= used.runs
    /\ \A x \in Pool : save[x].pc \in {"append", "replace"} =>
          save[x].check \in Check /\ save[x].check.run = used.runs

\* Nothing is dated in the future.
DaysInOrder ==
    /\ \A h \in history : h.day <= today
    /\ \A x \in Pool : save[x].check.day <= today
    /\ \A c \in Callers : task[c].before <= today

\* How far the cleanup of a history h has come, at position pc, before the day n: the
\* failures, and the successes of the domains that are not in D, are dealt with.
CleanSoFar(h, pc, n, D, newest) ==
    /\ pc \in {"find", "successes", "cleaned"} => \A e \in h : Expired(e.day, n) => e.ok
    /\ pc \in {"successes", "cleaned"} =>
          \A e \in h : Expired(e.day, n) /\ (pc = "successes" => e.domain \notin D) =>
              ~Expired(e.day, newest[e.domain])
CleanupGoesOn ==
    \A c \in Callers :
        /\ CleanSoFar(history, task[c].pc, task[c].before, task[c].domains, task[c].newest)
        /\ task[c].pc = "successes" =>
              \A d \in task[c].domains : task[c].newest[d] = NewestSuccess(d)

\* The inductive invariant.
OrderInv == RunsInOrder /\ DaysInOrder /\ LatestIsNewest
CertInv ==
    /\ CertTyped /\ TasksBelong /\ CertSavesBelong /\ FlagsFollow /\ ListIsTheFile
    /\ OrderInv /\ CleanupGoesOn
CertIInv == ServiceInv /\ CertInv

-----------------------------------------------------------------------------
(***************************************************************************)
(* The greatest of some days.                                              *)
(***************************************************************************)

\* Some natural numbers that have a bound have a greatest one.
LEMMA Greatest ==
    ASSUME NEW bound \in Nat, NEW S \in SUBSET (0..bound), S # {}
    PROVE  \E n \in S : \A m \in S : m <= n
<1> DEFINE T == {n \in Nat : bound - n \in S}
<1>1. PICK s \in S : TRUE
  OBVIOUS
<1>2. bound - s \in T
  BY <1>1
<1>3. PICK n \in T : \A m \in T : n <= m
  BY <1>2, Least
<1>4. ASSUME NEW m \in S
      PROVE  m <= bound - n
  <2>1. bound - m \in T
    OBVIOUS
  <2> QED
    BY <1>3, <2>1
<1> QED
  BY <1>4

\* The day of the newest success is a day.
LEMMA NewestIsADay ==
    ASSUME CertInv, NEW d \in Domains
    PROVE  NewestSuccess(d) \in Nat
<1>1. CASE Successes(d) = {}
  BY <1>1 DEF NewestSuccess
<1>2. CASE Successes(d) # {}
  <2> DEFINE S == {h.day : h \in Successes(d)}
  <2>1. today \in Nat
    BY DEF CertInv, CertTyped
  <2>2. S \in SUBSET (0..today) /\ S # {}
    BY <1>2, <2>1 DEF Successes, CertInv, CertTyped, Check, OrderInv, DaysInOrder
  <2>3. \E n \in S : \A m \in S : m <= n
    <3> HIDE DEF S
    <3> QED
      BY <2>1, <2>2, Greatest
  <2>4. \E n \in S : \A h \in Successes(d) : h.day <= n
    BY <2>3
  <2>5. NewestSuccess(d) \in S
    BY <1>2, <2>4 DEF NewestSuccess
  <2> QED
    BY <2>2, <2>5
<1> QED
  BY <1>1, <1>2

\* The newest success depends only on the successes.
LEMMA SameNewest ==
    ASSUME NEW d, Successes(d)' = Successes(d)
    PROVE  NewestSuccess(d)' = NewestSuccess(d)
BY DEF NewestSuccess

-----------------------------------------------------------------------------
(***************************************************************************)
(* Who does what when.                                                     *)
(***************************************************************************)

\* A worker that saves belongs to the refresh under way, and nobody cleans.
LEMMA Saving ==
    ASSUME ServiceInv, CertInv, NEW x \in Pool, save[x].pc # "none"
    PROVE  /\ worker[x].pc = "busy" /\ worker[x].domain \in Domains
           /\ refreshing /\ used.runs >= 1
           /\ \A c \in Callers : task[c].pc \notin Cleaning
<1>1. worker[x].pc = "busy"
  BY DEF CertInv, CertSavesBelong
<1>2. PICK c \in Callers, w \in Workers : x = <<c, w>>
  BY DEF Pool
<1>3. /\ run[c].pc \in {"handing", "waiting"} /\ refreshing
      /\ \A b \in Callers \ {c} : run[b].pc = "idle"
  BY <1>1, <1>2 DEF ServiceInv, OneRefresh
<1>4. worker[x].domain \in Domains /\ used.runs >= 1
  BY <1>1, <1>2, <1>3 DEF ServiceInv, WorkersBelong, CertInv, OrderInv, RunsInOrder
<1>5. \A b \in Callers : task[b].pc \notin Cleaning
  BY <1>1, <1>2, <1>3 DEF CertInv, TasksBelong
<1> QED
  BY <1>1, <1>3, <1>4, <1>5

\* Only the refresh that is under way has a task.
LEMMA TaskAlone ==
    ASSUME ServiceInv, CertInv, NEW c \in Callers, run[c].pc # "idle"
    PROVE  \A b \in Callers \ {c} : task[b].pc = "none"
<1>1. \A b \in Callers \ {c} : run[b].pc = "idle"
  BY DEF ServiceInv, OneRefresh
<1>2. \A b \in Callers : task[b].pc \in {"none"} \cup Syncing \cup Cleaning
  BY DEF CertInv, CertTyped, TaskType, Syncing, Cleaning
<1> QED
  BY <1>1, <1>2 DEF CertInv, TasksBelong

-----------------------------------------------------------------------------
(***************************************************************************)
(* Types.                                                                  *)
(***************************************************************************)

\* Who has nothing to do has a task and a save of their types.
LEMMA NothingTyped == NoTask \in TaskType /\ NoSave \in SaveType /\ NoCheck.run = 0
<1>1. NoTask \in TaskType
  BY DEF NoTask, TaskType
<1>2. NoSave \in SaveType
  BY DEF NoSave, SaveType
<1> QED
  BY <1>1, <1>2 DEF NoCheck

\* Only the position of a goroutine in its task changes.
LEMMA NextTask ==
    ASSUME task \in [Callers -> TaskType], NEW c \in Callers,
           NEW p \in Syncing \cup Cleaning, task' = [task EXCEPT ![c].pc = p]
    PROVE  /\ task' \in [Callers -> TaskType]
           /\ task'[c].pc = p /\ task'[c].domains = task[c].domains
           /\ task'[c].before = task[c].before /\ task'[c].newest = task[c].newest
           /\ \A b \in Callers \ {c} : task'[b] = task[b]
BY DEF TaskType, Syncing, Cleaning

\* A goroutine keeps the types.
LEMMA GoroutineTypes ==
    ASSUME ServiceInv, CertInv, NEW c \in Callers, CertGoroutineStep(c)
    PROVE  CertTyped'
<1> USE NothingTyped DEF CertInv, CertTyped
<1>1. CASE LoadFile(c)
  <2>1. PICK domains \in SUBSET Domains :
            task' = [task EXCEPT ![c].pc = "clear", ![c].domains = domains]
    BY <1>1 DEF LoadFile
  <2>2. task' \in [Callers -> TaskType]
    BY <2>1 DEF TaskType
  <2> QED
    BY <1>1, <2>2 DEF LoadFile
<1>2. CASE ClearFlags(c)
  BY <1>2 DEF ClearFlags, TaskType
<1>3. CASE SetFlag(c)
  <2>1. PICK d \in task[c].domains :
            /\ active' = active \cup {d}
            /\ task' = [task EXCEPT ![c].pc =
                           IF task[c].domains \subseteq active' THEN "list" ELSE "set"]
    BY <1>3 DEF SetFlag
  <2>2. active' \in SUBSET Domains
    BY <2>1 DEF TaskType
  <2>3. task' \in [Callers -> TaskType]
    BY <2>1 DEF TaskType
  <2> QED
    BY <1>3, <2>2, <2>3 DEF SetFlag
<1>4. CASE ListCertificateDomains(c) \/ SyncFails(c) \/ EndCleanup(c)
  BY <1>4 DEF ListCertificateDomains, SyncFails, EndCleanup
<1>5. CASE StartCleanup(c)
  <2>1. task' = [task EXCEPT ![c].pc = "failures", ![c].before = today] /\ today \in Nat
    BY <1>5 DEF StartCleanup
  <2>2. task' \in [Callers -> TaskType]
    BY <2>1 DEF TaskType
  <2> QED
    BY <1>5, <2>2 DEF StartCleanup
<1>6. CASE DeleteFailures(c)
  BY <1>6 DEF DeleteFailures, TaskType
<1>7. CASE FindNewest(c)
  <2>1. [d \in Domains |-> NewestSuccess(d)] \in [Domains -> Nat]
    BY NewestIsADay
  <2>2. {d \in Domains : Successes(d) # {}} \in SUBSET Domains
    OBVIOUS
  <2> QED
    BY <1>7, <2>1, <2>2, ZenonT(30) DEF FindNewest, TaskType
<1>8. CASE DeleteSuccesses(c)
  <2>1. history' \in SUBSET Check
    BY <1>8 DEF DeleteSuccesses
  <2>2. ASSUME NEW d \in Domains, task' = [task EXCEPT ![c].domains = @ \ {d}]
        PROVE  task' \in [Callers -> TaskType]
    BY <2>2 DEF TaskType
  <2>3. ASSUME task' = [task EXCEPT ![c].pc = "cleaned"]
        PROVE  task' \in [Callers -> TaskType]
    BY <2>3, NextTask DEF Cleaning
  <2>4. task' \in [Callers -> TaskType]
    BY <1>8, <2>2, <2>3 DEF DeleteSuccesses, TaskType
  <2> QED
    BY <1>8, <2>1, <2>4 DEF DeleteSuccesses
<1> QED
  BY <1>1, <1>2, <1>3, <1>4, <1>5, <1>6, <1>7, <1>8 DEF CertGoroutineStep

\* What a check has found of a domain.
LEMMA CheckIsTyped ==
    ASSUME ServiceInv, CertInv, NEW x \in Pool, save[x].pc # "none", NEW ok \in BOOLEAN,
           NEW h, h = [domain |-> worker[x].domain, day |-> today, ok |-> ok, run |-> used.runs]
    PROVE  h \in Check /\ h.run = used.runs /\ h.day = today /\ h.domain \in Domains
<1>1. worker[x].domain \in Domains /\ used.runs >= 1
  BY Saving
<1>2. used.runs \in 1..MaxRuns /\ today \in Nat
  BY <1>1 DEF ServiceInv, ServiceTypeOK, CertInv, CertTyped
<1> QED
  BY <1>1, <1>2 DEF Check

\* A worker keeps the types.
LEMMA WorkerTypes ==
    ASSUME ServiceInv, CertInv, NEW c \in Callers, NEW w \in Workers, CertWorkerStep(c, w)
    PROVE  CertTyped'
<1> USE NothingTyped DEF CertInv, CertTyped
<1>0. <<c, w>> \in Pool
  BY DEF Pool
<1>1. CASE HandCertificate(c, w)
  BY <1>1 DEF HandCertificate, SaveType
<1>2. CASE CheckCertificate(c, w)
  <2>0. PICK ok \in BOOLEAN : save' = [save EXCEPT ![<<c, w>>] =
            [pc |-> "append", check |-> [domain |-> worker[<<c, w>>].domain, day |-> today,
                                         ok |-> ok, run |-> used.runs]]]
    BY <1>2 DEF CheckCertificate
  <2>1. PICK h : /\ h = [domain |-> worker[<<c, w>>].domain, day |-> today,
                         ok |-> ok, run |-> used.runs]
                 /\ save' = [save EXCEPT ![<<c, w>>] = [pc |-> "append", check |-> h]]
    BY <2>0
  <2>2. h \in Check
    BY <1>0, <1>2, <2>1, CheckIsTyped DEF CheckCertificate
  <2>3. [pc |-> "append", check |-> h] \in SaveType
    BY <2>2 DEF SaveType
  <2> QED
    BY <1>2, <2>1, <2>3 DEF CheckCertificate
<1>3. CASE AppendHistory(c, w)
  BY <1>0, <1>3 DEF AppendHistory, SaveType, OrderInv, RunsInOrder
<1>4. CASE ReplaceLatest(c, w)
  <2>1. save[<<c, w>>].check \in Check
    BY <1>0, <1>4 DEF ReplaceLatest, OrderInv, RunsInOrder
  <2>2. latest' \in [Domains -> Check \cup {NoCheck}]
    BY <1>4, <2>1 DEF ReplaceLatest
  <2> QED
    BY <1>4, <2>2 DEF ReplaceLatest, SaveType
<1>5. CASE SaveFails(c, w)
  <2>1. save[<<c, w>>].check \in Check
    BY <1>0, <1>5 DEF SaveFails, OrderInv, RunsInOrder
  <2> QED
    BY <1>5, <2>1 DEF SaveFails, SaveType
<1>6. CASE RecordCertificate(c, w)
  BY <1>6 DEF RecordCertificate
<1> QED
  BY <1>1, <1>2, <1>3, <1>4, <1>5, <1>6 DEF CertWorkerStep

-----------------------------------------------------------------------------
(***************************************************************************)
(* Positions: TasksBelong, SavesBelong, FlagsFollow and ListIsTheFile.     *)
(***************************************************************************)

\* The positions agree with each other.
InPlace == TasksBelong /\ CertSavesBelong /\ FlagsFollow /\ ListIsTheFile

\* The steps of the service in between give and take no task and no save.
LEMMA ServicePlaces ==
    ASSUME ServiceInv, CertInv, CertServiceStep
    PROVE  InPlace'
<1> USE DEF InPlace, CertInv, CertTyped, TaskType, Syncing, Cleaning, TasksBelong,
            ServiceInv, ServiceTypeOK
<1>0. UNCHANGED certVars
  BY DEF CertServiceStep
<1>1. FlagsFollow' /\ ListIsTheFile'
  BY <1>0 DEF certVars, FlagsFollow, ListIsTheFile
<1>2. CertSavesBelong'
  <2>1. \A x \in Pool : worker[x].pc = "busy" => worker'[x] = worker[x]
    BY DEF CertServiceStep, RefreshAsync, ResetProgress, CloseJobs, FinishProgress, Release, Cancel,
           Return
  <2> QED
    BY <1>0, <2>1 DEF certVars, CertSavesBelong
<1>3. TasksBelong'
  <2>1. CASE Cancel
    BY <1>0, <2>1 DEF certVars, Cancel
  <2>2. ASSUME NEW c \in Callers, NEW w \in Workers, Return(c, w)
        PROVE  TasksBelong'
    BY <1>0, <2>2 DEF certVars, Return, NoWorker
  <2>3. ASSUME NEW c \in Callers,
               \/ RefreshAsync(c) \/ ResetProgress(c) \/ CloseJobs(c)
               \/ FinishProgress(c) \/ Release(c)
        PROVE  TasksBelong'
    <3>1. worker' = worker /\ task' = task
      BY <1>0, <2>3 DEF certVars, RefreshAsync, ResetProgress, CloseJobs, FinishProgress, Release
    <3>2. /\ run[c].pc \notin {"list", "waiting"}
          /\ \A b \in Callers \ {c} : run'[b] = run[b]
      BY <2>3 DEF RefreshAsync, ResetProgress, CloseJobs, FinishProgress, Release
    <3> QED
      BY <3>1, <3>2
  <2> QED
    BY <2>1, <2>2, <2>3 DEF CertServiceStep
<1> QED
  BY <1>1, <1>2, <1>3

\* A goroutine gives itself the tasks that go with its position.
LEMMA GoroutinePlaces ==
    ASSUME ServiceInv, CertInv, NEW c \in Callers, CertGoroutineStep(c)
    PROVE  InPlace'
<1> USE DEF CertInv, CertTyped
<1>1. run[c].pc \in {"list", "waiting"}
  BY DEF CertGoroutineStep, LoadFile, ClearFlags, SetFlag, ListCertificateDomains, SyncFails,
         StartCleanup, DeleteFailures, FindNewest, DeleteSuccesses, EndCleanup, Listed,
         ListingFails, Wait, TasksBelong, Syncing, Cleaning
<1>2. \A b \in Callers \ {c} : task[b].pc = "none"
  BY <1>1, TaskAlone
<1>3. \A b \in Callers \ {c} : task'[b] = task[b]
  BY DEF CertGoroutineStep, LoadFile, ClearFlags, SetFlag, ListCertificateDomains, SyncFails,
         StartCleanup, DeleteFailures, FindNewest, DeleteSuccesses, EndCleanup
<1>4. /\ task'[c].pc \in Syncing => run'[c].pc = "list"
      /\ task'[c].pc \in Cleaning =>
            run'[c].pc = "waiting" /\ \A w \in Workers : worker'[<<c, w>>].pc = "none"
      /\ task'[c].pc = "set" => active' \subseteq task'[c].domains
      /\ task'[c].pc = "list" => active' = task'[c].domains
  <2> USE DEF serviceVars, TasksBelong, Syncing, Cleaning
  <2>1. CASE LoadFile(c)
    <3>1. PICK domains \in SUBSET Domains :
              task' = [task EXCEPT ![c].pc = "clear", ![c].domains = domains]
      BY <2>1 DEF LoadFile
    <3>2. task'[c].pc = "clear"
      BY <3>1 DEF TaskType
    <3> QED
      BY <2>1, <3>2 DEF LoadFile
  <2>2. CASE ClearFlags(c)
    BY <2>2, NextTask DEF ClearFlags
  <2>3. CASE SetFlag(c)
    <3>1. PICK d \in task[c].domains, p \in {"set", "list"} :
              /\ active' = active \cup {d}
              /\ p = IF task[c].domains \subseteq active' THEN "list" ELSE "set"
              /\ task' = [task EXCEPT ![c].pc = p]
      BY <2>3 DEF SetFlag
    <3>2. task'[c].pc = p /\ task'[c].domains = task[c].domains
      BY <3>1, NextTask
    <3>3. task[c].pc = "set" /\ active' \subseteq task[c].domains /\ run' = run
      BY <2>3, <3>1 DEF SetFlag, FlagsFollow
    <3> QED
      BY <3>1, <3>2, <3>3
  <2>4. CASE ListCertificateDomains(c) \/ SyncFails(c) \/ EndCleanup(c)
    BY <2>4 DEF ListCertificateDomains, SyncFails, EndCleanup, NoTask
  <2>5. CASE StartCleanup(c)
    <3>1. task' = [task EXCEPT ![c].pc = "failures", ![c].before = today]
      BY <2>5 DEF StartCleanup
    <3>2. task'[c].pc = "failures"
      BY <3>1 DEF TaskType
    <3> QED
      BY <2>5, <3>2 DEF StartCleanup
  <2>6. CASE DeleteFailures(c)
    BY <2>6, NextTask DEF DeleteFailures
  <2>7. CASE FindNewest(c)
    <3>1. task'[c].pc = "successes"
      BY <2>7 DEF FindNewest, TaskType
    <3> QED
      BY <2>7, <3>1 DEF FindNewest
  <2>8. CASE DeleteSuccesses(c)
    <3>1. task'[c].pc \in {"successes", "cleaned"}
      BY <2>8 DEF DeleteSuccesses, TaskType
    <3> QED
      BY <2>8, <3>1 DEF DeleteSuccesses
  <2> QED
    BY <2>1, <2>2, <2>3, <2>4, <2>5, <2>6, <2>7, <2>8 DEF CertGoroutineStep
<1>5. TasksBelong' /\ FlagsFollow' /\ ListIsTheFile'
  BY <1>2, <1>3, <1>4 DEF TasksBelong, FlagsFollow, ListIsTheFile, Syncing, Cleaning
<1>6. CertSavesBelong'
  <2>1. save' = save /\ \A x \in Pool : worker[x].pc = "busy" => worker'[x] = worker[x]
    <3>1. CASE ListCertificateDomains(c)
      BY <3>1 DEF ListCertificateDomains, Listed, ServiceInv, WorkersBelong, Pool
    <3> QED
      BY <3>1 DEF CertGoroutineStep, LoadFile, ClearFlags, SetFlag, SyncFails, StartCleanup,
         DeleteFailures, FindNewest, DeleteSuccesses, EndCleanup, serviceVars, ListingFails, Wait
  <2> QED
    BY <2>1 DEF CertSavesBelong
<1> QED
  BY <1>5, <1>6 DEF InPlace

\* A worker that begins its save has a domain, and one that has none has ended it.
LEMMA WorkerPlaces ==
    ASSUME ServiceInv, CertInv, NEW c \in Callers, NEW w \in Workers, CertWorkerStep(c, w)
    PROVE  InPlace'
<1> USE DEF CertInv, CertTyped
<1>1. task' = task /\ active' = active
  BY DEF CertWorkerStep, HandCertificate, CheckCertificate, AppendHistory, ReplaceLatest,
         SaveFails, RecordCertificate
<1>2. FlagsFollow' /\ ListIsTheFile'
  BY <1>1 DEF FlagsFollow, ListIsTheFile
<1>3. CASE HandCertificate(c, w)
  <2>1. /\ <<c, w>> \in Pool /\ worker'[<<c, w>>].pc = "busy"
        /\ run[c].pc = "handing" /\ \A b \in Callers : run'[b].pc = run[b].pc
        /\ \A x \in Pool \ {<<c, w>>} : worker'[x] = worker[x] /\ save'[x] = save[x]
    BY <1>3 DEF HandCertificate, Hand, ServiceInv, ServiceTypeOK, RunType, Pool
  <2>2. CertSavesBelong'
    BY <2>1 DEF CertSavesBelong
  <2>3. TasksBelong'
    BY <1>1, <2>1 DEF TasksBelong, Cleaning, Syncing, Pool
  <2> QED
    BY <1>2, <2>2, <2>3 DEF InPlace
<1>4. CASE RecordCertificate(c, w)
  <2>1. /\ <<c, w>> \in Pool /\ save'[<<c, w>>].pc = "none"
        /\ run' = run /\ worker'[<<c, w>>].pc = "ready" /\ worker[<<c, w>>].pc = "busy"
        /\ \A x \in Pool \ {<<c, w>>} : worker'[x] = worker[x] /\ save'[x] = save[x]
    BY <1>4 DEF RecordCertificate, Record, ServiceInv, ServiceTypeOK, ReadyWorker, NoSave, Pool
  <2>2. CertSavesBelong'
    BY <2>1 DEF CertSavesBelong
  <2>3. TasksBelong'
    BY <1>1, <2>1 DEF TasksBelong, Cleaning, Syncing, Pool
  <2> QED
    BY <1>2, <2>2, <2>3 DEF InPlace
<1>5. CASE \/ CheckCertificate(c, w) \/ AppendHistory(c, w) \/ ReplaceLatest(c, w)
           \/ SaveFails(c, w)
  <2>1. /\ run' = run /\ worker' = worker /\ save[<<c, w>>].pc # "none" /\ <<c, w>> \in Pool
        /\ \A x \in Pool \ {<<c, w>>} : save'[x] = save[x]
    BY <1>5 DEF CheckCertificate, AppendHistory, ReplaceLatest, SaveFails, serviceVars, Pool
  <2>2. CertSavesBelong' /\ TasksBelong'
    BY <1>1, <2>1 DEF CertSavesBelong, TasksBelong
  <2> QED
    BY <1>2, <2>2 DEF InPlace
<1> QED
  BY <1>3, <1>4, <1>5 DEF CertWorkerStep

-----------------------------------------------------------------------------
(***************************************************************************)
(* The order in time: OrderInv.                                            *)
(***************************************************************************)

\* Steps that save nothing: entries may leave the history, and a new refresh begins
\* only where nothing is being saved.
LEMMA QuietOrder ==
    ASSUME CertInv, CertTyped', history' \subseteq history, latest' = latest, save' = save,
           stale' = stale,
           used'.runs = used.runs \/ ( /\ used'.runs = used.runs + 1
                                       /\ \A x \in Pool : save[x].pc = "none"),
           used.runs \in Nat, used'.runs \in Nat,
           \A c \in Callers : run'[c].pc # "idle" => run[c].pc # "idle" \/ used'.runs >= 1,
           today' \in Nat, today <= today',
           \A c \in Callers : task'[c].before <= today'
    PROVE  OrderInv'
<1> USE DEF CertInv, CertTyped, OrderInv
<1>1. /\ \A h \in history : h.run \in Nat /\ h.day \in Nat
      /\ \A d \in Domains : latest[d].run \in Nat
      /\ \A x \in Pool : save[x].check.day \in Nat
      /\ today \in Nat
  BY DEF Check, NoCheck, SaveType
<1>2. RunsInOrder'
  BY <1>1 DEF RunsInOrder
<1>3. DaysInOrder'
  BY <1>1 DEF DaysInOrder
<1>4. LatestIsNewest'
  BY DEF LatestIsNewest
<1> QED
  BY <1>2, <1>3, <1>4

\* The steps of the service in between leave the order alone.
LEMMA ServiceOrder ==
    ASSUME ServiceInv, CertInv, CertServiceStep
    PROVE  OrderInv'
<1>1. UNCHANGED certVars
  BY DEF CertServiceStep
<1>2. CertTyped'
  BY <1>1 DEF certVars, CertInv, CertTyped
<1>3. used.runs \in Nat /\ today \in Nat
  BY DEF ServiceInv, ServiceTypeOK, CertInv, CertTyped
<1>4. \A c \in Callers : task'[c].before <= today'
  BY <1>1 DEF certVars, CertInv, OrderInv, DaysInOrder
<1>5. CASE \E c \in Callers : RefreshAsync(c)
  <2>1. ~refreshing /\ used'.runs = used.runs + 1
    BY <1>5 DEF RefreshAsync, ServiceInv, ServiceTypeOK
  <2>2. \A x \in Pool : save[x].pc = "none"
    BY <2>1, Saving
  <2> QED
    BY <1>1, <1>2, <1>3, <1>4, <2>1, <2>2, QuietOrder DEF certVars
<1>6. CASE ~\E c \in Callers : RefreshAsync(c)
  <2>1. used' = used /\ \A c \in Callers : run'[c].pc # "idle" => run[c].pc # "idle"
    BY <1>6 DEF CertServiceStep, ResetProgress, CloseJobs, FinishProgress, Release, Cancel, Return,
                ServiceInv, ServiceTypeOK, RunType, NoRun
  <2> QED
    BY <1>1, <1>2, <1>3, <1>4, <2>1, QuietOrder DEF certVars
<1> QED
  BY <1>5, <1>6

\* A goroutine saves nothing, and deletes from the history.
LEMMA GoroutineOrder ==
    ASSUME ServiceInv, CertInv, CertTyped', NEW c \in Callers, CertGoroutineStep(c)
    PROVE  OrderInv'
<1>1. used.runs \in Nat /\ today \in Nat /\ task \in [Callers -> TaskType]
  BY DEF ServiceInv, ServiceTypeOK, CertInv, CertTyped
<1>2. /\ history' \subseteq history /\ latest' = latest /\ save' = save /\ stale' = stale
      /\ used' = used /\ today' = today
  BY DEF CertGoroutineStep, LoadFile, ClearFlags, SetFlag, ListCertificateDomains, SyncFails,
         StartCleanup, DeleteFailures, FindNewest, DeleteSuccesses, EndCleanup, serviceVars,
         Listed, ListingFails, Wait
<1>3. \A b \in Callers : run'[b].pc # "idle" => run[b].pc # "idle"
  BY DEF CertGoroutineStep, LoadFile, ClearFlags, SetFlag, ListCertificateDomains, SyncFails,
         StartCleanup, DeleteFailures, FindNewest, DeleteSuccesses, EndCleanup, serviceVars,
         Listed, ListingFails, Wait, ServiceInv, ServiceTypeOK, RunType
<1>4. \A b \in Callers : task'[b].before \in {task[b].before, today, 0}
  <2>1. CASE StartCleanup(c)
    <3>1. task' = [task EXCEPT ![c].pc = "failures", ![c].before = today]
      BY <2>1 DEF StartCleanup
    <3> QED
      BY <1>1, <3>1 DEF TaskType
  <2>2. CASE LoadFile(c)
    <3>1. PICK domains \in SUBSET Domains :
              task' = [task EXCEPT ![c].pc = "clear", ![c].domains = domains]
      BY <2>2 DEF LoadFile
    <3> QED
      BY <1>1, <3>1 DEF TaskType
  <2>3. CASE ListCertificateDomains(c) \/ SyncFails(c) \/ EndCleanup(c)
    BY <1>1, <2>3 DEF ListCertificateDomains, SyncFails, EndCleanup, NoTask
  <2>4. CASE ClearFlags(c) \/ SetFlag(c) \/ DeleteFailures(c)
    BY <1>1, <2>4 DEF ClearFlags, SetFlag, DeleteFailures, TaskType
  <2>5. CASE FindNewest(c)
    BY <1>1, <2>5 DEF FindNewest, TaskType
  <2>6. CASE DeleteSuccesses(c)
    BY <1>1, <2>6 DEF DeleteSuccesses, TaskType
  <2> QED
    BY <2>1, <2>2, <2>3, <2>4, <2>5, <2>6 DEF CertGoroutineStep
<1>5. \A b \in Callers : task'[b].before <= today'
  BY <1>1, <1>2, <1>4 DEF CertInv, OrderInv, DaysInOrder
<1> QED
  BY <1>1, <1>2, <1>3, <1>5, QuietOrder

\* A worker saves what is newer than everything saved before.
LEMMA WorkerOrder ==
    ASSUME ServiceInv, CertInv, NEW c \in Callers, NEW w \in Workers, CertWorkerStep(c, w)
    PROVE  OrderInv'
<1>0. PICK x \in Pool : x = <<c, w>>
  BY DEF Pool
<1>1. /\ used'.runs = used.runs /\ today' = today /\ task' = task
      /\ \A b \in Callers : run'[b].pc # "idle" => run[b].pc # "idle"
      /\ \A y \in Pool \ {x} : save'[y] = save[y]
  <2>1. /\ used' = used /\ today' = today /\ task' = task
        /\ \A y \in Pool \ {x} : save'[y] = save[y]
    BY <1>0 DEF CertWorkerStep, HandCertificate, CheckCertificate, AppendHistory, ReplaceLatest,
                SaveFails, RecordCertificate, serviceVars, Hand, Record, CertInv, CertTyped
  <2>2. run' = run \/ Hand(c, w)
    BY DEF CertWorkerStep, HandCertificate, CheckCertificate, AppendHistory, ReplaceLatest,
           SaveFails, RecordCertificate, serviceVars, Record
  <2>3. \A b \in Callers : run'[b].pc # "idle" => run[b].pc # "idle"
    BY <2>2 DEF Hand, ServiceInv, ServiceTypeOK, RunType
  <2> QED
    BY <2>1, <2>3
<1>2. /\ used.runs \in Nat /\ today \in Nat
      /\ save \in [Pool -> SaveType] /\ latest \in [Domains -> Check \cup {NoCheck}]
      /\ history \in SUBSET Check
  BY DEF ServiceInv, ServiceTypeOK, CertInv, CertTyped
<1> USE DEF CertInv, OrderInv, RunsInOrder, DaysInOrder, LatestIsNewest
<1>3. CASE HandCertificate(c, w)
  <2>1. /\ save'[x].pc = "check" /\ save'[x].check = save[x].check /\ save[x].pc = "none"
        /\ history' = history /\ latest' = latest /\ stale' = stale
    BY <1>0, <1>2, <1>3 DEF HandCertificate, Hand, SaveType, CertSavesBelong
  <2> QED
    BY <1>1, <2>1
<1>4. CASE CheckCertificate(c, w)
  <2>0. PICK ok \in BOOLEAN : save' = [save EXCEPT ![x] =
            [pc |-> "append", check |-> [domain |-> worker[x].domain, day |-> today,
                                         ok |-> ok, run |-> used.runs]]]
    BY <1>0, <1>4 DEF CheckCertificate
  <2>1. PICK h : /\ h = [domain |-> worker[x].domain, day |-> today,
                         ok |-> ok, run |-> used.runs]
                 /\ save' = [save EXCEPT ![x] = [pc |-> "append", check |-> h]]
    BY <2>0
  <2>2. save[x].pc = "check" /\ history' = history /\ latest' = latest /\ stale' = stale
    BY <1>0, <1>4 DEF CheckCertificate
  <2>3. h \in Check /\ h.run = used.runs /\ h.day = today
    BY <2>1, <2>2, CheckIsTyped
  <2>4. save'[x].pc = "append" /\ save'[x].check = h
    BY <1>2, <2>1
  <2> QED
    BY <1>1, <1>2, <2>2, <2>3, <2>4
<1>5. CASE AppendHistory(c, w)
  <2>1. /\ save[x].pc = "append" /\ save'[x].pc = "replace" /\ save'[x].check = save[x].check
        /\ history' = history \cup {save[x].check} /\ latest' = latest /\ stale' = stale
    BY <1>0, <1>2, <1>5 DEF AppendHistory, SaveType
  <2> QED
    BY <1>1, <1>2, <2>1
<1>6. CASE ReplaceLatest(c, w)
  <2>1. /\ save[x].pc = "replace" /\ save'[x].pc = "saved" /\ save'[x].check = save[x].check
        /\ history' = history /\ stale' = stale
        /\ latest' = [latest EXCEPT ![save[x].check.domain] = save[x].check]
    BY <1>0, <1>2, <1>6 DEF ReplaceLatest, SaveType
  <2>2. save[x].check \in Check /\ save[x].check.run = used.runs
    BY <2>1
  <2>3. \A d \in Domains : latest'[d].run = used.runs \/ latest'[d] = latest[d]
    BY <1>2, <2>1, <2>2
  <2>4. \A d \in Domains : latest'[d].run <= used.runs
    BY <1>2, <2>3
  <2>5. LatestIsNewest'
    <3> SUFFICES ASSUME NEW h \in history
                 PROVE  \/ h.run <= latest'[h.domain].run
                        \/ h \in stale
                        \/ \E y \in Pool : save'[y].pc = "replace" /\ save'[y].check = h
      BY <2>1
    <3>1. h.run <= used.runs /\ h.domain \in Domains
      BY <1>2 DEF Check
    <3>2. CASE \E y \in Pool \ {x} : save[y].pc = "replace" /\ save[y].check = h
      BY <1>1, <3>2
    <3>3. CASE save[x].check = h
      BY <1>2, <2>1, <2>2, <3>1, <3>3
    <3>4. CASE h.run <= latest[h.domain].run
      BY <2>3, <3>1, <3>4
    <3> QED
      BY <3>2, <3>3, <3>4
  <2> QED
    BY <1>1, <1>2, <2>1, <2>4, <2>5
<1>7. CASE SaveFails(c, w)
  <2>1. /\ save'[x].pc = "unsaved" /\ save'[x].check = save[x].check
        /\ history' = history /\ latest' = latest /\ stale \subseteq stale'
        /\ save[x].pc = "replace" => save[x].check \in stale'
    <3>1. /\ save[x].pc \in {"append", "replace"} /\ save' = [save EXCEPT ![x].pc = "unsaved"]
          /\ history' = history /\ latest' = latest
      BY <1>0, <1>7 DEF SaveFails
    <3>2. save'[x].pc = "unsaved" /\ save'[x].check = save[x].check
      BY <1>2, <3>1 DEF SaveType
    <3>3. stale \subseteq stale' /\ (save[x].pc = "replace" => save[x].check \in stale')
      BY <1>0, <1>7 DEF SaveFails
    <3> QED
      BY <3>1, <3>2, <3>3
  <2> QED
    BY <1>1, <2>1
<1>8. CASE RecordCertificate(c, w)
  <2>1. /\ save[x].pc # "replace" /\ save'[x].pc = "none" /\ save'[x].check.day = 0
        /\ history' = history /\ latest' = latest /\ stale' = stale
    BY <1>0, <1>2, <1>8 DEF RecordCertificate, NoSave, NoCheck
  <2> QED
    BY <1>1, <1>2, <2>1
<1> QED
  BY <1>3, <1>4, <1>5, <1>6, <1>7, <1>8 DEF CertWorkerStep

-----------------------------------------------------------------------------
(***************************************************************************)
(* The cleanup: CleanupGoesOn.                                             *)
(***************************************************************************)

\* Steps that leave the history and the tasks of those who clean alone.
LEMMA QuietCleanup ==
    ASSUME CertInv, history' = history,
           \A c \in Callers : task'[c] = task[c] \/ task'[c].pc \notin Cleaning \ {"failures"}
    PROVE  CleanupGoesOn'
<1>1. ASSUME NEW c \in Callers
      PROVE  /\ CleanSoFar(history', task'[c].pc, task'[c].before, task'[c].domains,
                           task'[c].newest)
             /\ task'[c].pc = "successes" =>
                   \A d \in task'[c].domains : task'[c].newest[d] = NewestSuccess(d)'
  <2>1. CASE task'[c] = task[c]
    <3>1. \A d : NewestSuccess(d)' = NewestSuccess(d)
      BY DEF NewestSuccess, Successes
    <3> QED
      BY <2>1, <3>1 DEF CertInv, CleanupGoesOn
  <2>2. CASE task'[c].pc \notin Cleaning \ {"failures"}
    BY <2>2 DEF Cleaning, CleanSoFar
  <2> QED
    BY <2>1, <2>2
<1> QED
  BY <1>1 DEF CleanupGoesOn

\* Nobody appends to the history while it is cleaned.
LEMMA WorkerCleanup ==
    ASSUME ServiceInv, CertInv, NEW c \in Callers, NEW w \in Workers, CertWorkerStep(c, w)
    PROVE  CleanupGoesOn'
<1>1. task' = task
  BY DEF CertWorkerStep, HandCertificate, CheckCertificate, AppendHistory, ReplaceLatest,
         SaveFails, RecordCertificate
<1>2. CASE history' = history
  BY <1>1, <1>2, QuietCleanup
<1>3. CASE history' # history
  <2>1. save[<<c, w>>].pc = "append" /\ <<c, w>> \in Pool
    BY <1>3 DEF CertWorkerStep, HandCertificate, CheckCertificate, AppendHistory, ReplaceLatest,
                SaveFails, RecordCertificate, Pool
  <2>2. \A b \in Callers : task'[b].pc \notin Cleaning
    BY <1>1, <2>1, Saving
  <2> QED
    BY <2>2 DEF CleanupGoesOn, CleanSoFar, Cleaning
<1> QED
  BY <1>2, <1>3

\* One goroutine cleans; what it has cleaned stays clean.
LEMMA GoroutineCleanup ==
    ASSUME ServiceInv, CertInv, NEW c \in Callers, CertGoroutineStep(c)
    PROVE  CleanupGoesOn'
<1>1. task \in [Callers -> TaskType] /\ history \in SUBSET Check
  BY DEF CertInv, CertTyped
<1>2. CASE \/ LoadFile(c) \/ ClearFlags(c) \/ SetFlag(c) \/ ListCertificateDomains(c)
           \/ SyncFails(c) \/ StartCleanup(c) \/ EndCleanup(c)
  <2>1. history' = history /\ \A b \in Callers \ {c} : task'[b] = task[b]
    BY <1>1, <1>2 DEF LoadFile, ClearFlags, SetFlag, ListCertificateDomains, SyncFails,
                StartCleanup, EndCleanup
  <2>2. task'[c].pc \notin Cleaning \ {"failures"}
    <3>1. CASE LoadFile(c)
      <4>1. PICK domains \in SUBSET Domains :
                task' = [task EXCEPT ![c].pc = "clear", ![c].domains = domains]
        BY <3>1 DEF LoadFile
      <4> QED
        BY <1>1, <4>1 DEF TaskType, Cleaning
    <3>2. CASE StartCleanup(c)
      <4>1. task' = [task EXCEPT ![c].pc = "failures", ![c].before = today]
        BY <3>2 DEF StartCleanup
      <4> QED
        BY <1>1, <4>1 DEF TaskType, Cleaning
    <3>3. CASE ClearFlags(c)
      BY <1>1, <3>3 DEF ClearFlags, TaskType, Cleaning
    <3>4. CASE SetFlag(c)
      BY <1>1, <3>4 DEF SetFlag, TaskType, Cleaning
    <3>5. CASE ListCertificateDomains(c) \/ SyncFails(c) \/ EndCleanup(c)
      BY <1>1, <3>5 DEF ListCertificateDomains, SyncFails, EndCleanup, NoTask, Cleaning
    <3> QED
      BY <1>2, <3>1, <3>2, <3>3, <3>4, <3>5
  <2> QED
    BY <2>1, <2>2, QuietCleanup
<1>3. CASE DeleteFailures(c) \/ FindNewest(c) \/ DeleteSuccesses(c)
  <2>1. run[c].pc = "waiting" /\ \A b \in Callers \ {c} : task'[b] = task[b]
    BY <1>1, <1>3 DEF DeleteFailures, FindNewest, DeleteSuccesses, CertInv, TasksBelong, Cleaning
  <2>2. \A b \in Callers \ {c} : task'[b].pc = "none"
    BY <2>1, TaskAlone
  <2>3. CleanSoFar(history, task[c].pc, task[c].before, task[c].domains, task[c].newest)
    BY DEF CertInv, CleanupGoesOn
  <2>4. /\ CleanSoFar(history', task'[c].pc, task'[c].before, task'[c].domains, task'[c].newest)
        /\ task'[c].pc = "successes" =>
              \A d \in task'[c].domains : task'[c].newest[d] = NewestSuccess(d)'
    <3>1. CASE DeleteFailures(c)
      <4>1. /\ task' = [task EXCEPT ![c].pc = "find"]
            /\ history' = {h \in history : h.ok \/ ~Expired(h.day, task[c].before)}
        BY <3>1 DEF DeleteFailures
      <4>2. task'[c].pc = "find" /\ task'[c].before = task[c].before
        BY <1>1, <4>1, NextTask DEF Cleaning
      <4> QED
        BY <4>1, <4>2 DEF CleanSoFar
    <3>2. CASE FindNewest(c)
      <4>1. /\ task[c].pc = "find" /\ task'[c].pc = "successes" /\ history' = history
            /\ task'[c].before = task[c].before
            /\ task'[c].domains = {d \in Domains : Successes(d) # {}}
            /\ task'[c].newest = [d \in Domains |-> NewestSuccess(d)]
        BY <1>1, <3>2 DEF FindNewest, TaskType
      <4>2. \A h \in history : Expired(h.day, task[c].before) => h.ok /\ h.domain \in Domains
        BY <1>1, <2>3, <4>1 DEF CleanSoFar, Check
      <4>3. \A h \in history : Expired(h.day, task[c].before) => h.domain \in task'[c].domains
        BY <4>1, <4>2 DEF Successes
      <4>4. \A d : NewestSuccess(d)' = NewestSuccess(d)
        BY <4>1 DEF NewestSuccess, Successes
      <4> QED
        BY <4>1, <4>2, <4>3, <4>4 DEF CleanSoFar
    <3>3. CASE DeleteSuccesses(c)
      <4>1. task[c].pc = "successes"
        BY <3>3 DEF DeleteSuccesses
      <4>2. CASE task'[c].pc = "successes"
        <5>1. PICK d \in task[c].domains :
                  /\ history' = history \ {h \in Successes(d) : Expired(h.day, KeptUntil(c, d))}
                  /\ task' = [task EXCEPT ![c].domains = @ \ {d}]
          BY <1>1, <3>3, <4>2 DEF DeleteSuccesses, TaskType
        <5>2. /\ task'[c].before = task[c].before /\ task'[c].newest = task[c].newest
              /\ task'[c].domains = task[c].domains \ {d}
          BY <1>1, <5>1 DEF TaskType
        <5>3. \A e \in task'[c].domains : NewestSuccess(e)' = NewestSuccess(e)
          <6>1. \A e : e # d => Successes(e)' = Successes(e)
            BY <5>1 DEF Successes
          <6> QED
            BY <5>2, <6>1, SameNewest
        <5>4. ASSUME NEW h \in history', Expired(h.day, task[c].before), h.domain = d
              PROVE  ~Expired(h.day, task[c].newest[d])
          <6>1. h.ok
            BY <2>3, <4>1, <5>1, <5>4 DEF CleanSoFar
          <6>2. ~Expired(h.day, KeptUntil(c, d))
            BY <5>1, <5>4, <6>1 DEF Successes
          <6> QED
            BY <5>4, <6>2 DEF KeptUntil
        <5>5. CleanSoFar(history', task'[c].pc, task'[c].before, task'[c].domains,
                         task'[c].newest)
          BY <2>3, <4>1, <4>2, <5>1, <5>2, <5>4 DEF CleanSoFar
        <5>6. \A e \in task'[c].domains : task'[c].newest[e] = NewestSuccess(e)
          BY <4>1, <5>2 DEF CertInv, CleanupGoesOn
        <5> QED
          BY <5>3, <5>5, <5>6
      <4>3. CASE task'[c].pc # "successes"
        <5>1. /\ task[c].domains = {} /\ history' = history
              /\ task' = [task EXCEPT ![c].pc = "cleaned"]
          BY <1>1, <3>3, <4>3 DEF DeleteSuccesses, TaskType
        <5>2. /\ task'[c].pc = "cleaned" /\ task'[c].before = task[c].before
              /\ task'[c].newest = task[c].newest
          BY <1>1, <5>1, NextTask DEF Cleaning
        <5> QED
          BY <2>3, <4>1, <5>1, <5>2 DEF CleanSoFar
      <4> QED
        BY <4>2, <4>3
    <3> QED
      BY <1>3, <3>1, <3>2, <3>3
  <2> QED
    BY <2>2, <2>4 DEF CleanupGoesOn, CleanSoFar
<1> QED
  BY <1>2, <1>3 DEF CertGoroutineStep

-----------------------------------------------------------------------------
(***************************************************************************)
(* The rest: a new day, and a restart.                                     *)
(***************************************************************************)

\* A new day makes nothing later than it.
LEMMA NewDayInv ==
    ASSUME ServiceInv, CertInv, NewDay
    PROVE  CertInv'
<1> USE DEF CertInv
<1>1. /\ today \in Nat /\ today' = today + 1 /\ today' \in 1..MaxDay
      /\ UNCHANGED <<serviceVars, active, history, latest, task, save, stale>>
  BY DEF NewDay, CertTyped
<1>2. CertTyped'
  BY <1>1 DEF CertTyped
<1>3. InPlace'
  BY <1>1 DEF serviceVars, InPlace, TasksBelong, CertSavesBelong, FlagsFollow, ListIsTheFile
<1>4. OrderInv'
  <2>1. used' = used /\ run' = run /\ used.runs \in Nat /\ used'.runs \in Nat
    BY <1>1 DEF serviceVars, ServiceInv, ServiceTypeOK
  <2>2. \A c \in Callers : task'[c].before <= today'
    <3>1. \A c \in Callers : task[c].before \in Nat /\ task[c].before <= today
      BY DEF CertTyped, TaskType, OrderInv, DaysInOrder
    <3> QED
      BY <1>1, <3>1
  <2> QED
    BY <1>1, <1>2, <2>1, <2>2, QuietOrder
<1>5. CleanupGoesOn'
  BY <1>1, QuietCleanup
<1> QED
  BY <1>2, <1>3, <1>4, <1>5 DEF InPlace

\* A restart forgets tasks and saves; what was about to become the latest state does not.
LEMMA CertRestartInv ==
    ASSUME ServiceInv, CertInv, RestartCerts
    PROVE  CertInv'
<1> USE DEF CertInv
<1>1. /\ UNCHANGED <<today, active, history, latest>>
      /\ task' = [c \in Callers |-> NoTask] /\ save' = [x \in Pool |-> NoSave]
      /\ stale' = stale \cup {save[x].check : x \in {y \in Pool : save[y].pc = "replace"}}
      /\ used'.runs = used.runs /\ \A c \in Callers : run'[c].pc = "idle"
  BY DEF RestartCerts, RestartService, NoRun, ServiceInv, ServiceTypeOK
<1>2. /\ \A c \in Callers : task'[c].pc = "none" /\ task'[c].before = 0
      /\ \A x \in Pool : save'[x].pc = "none" /\ save'[x].check.day = 0
  BY <1>1 DEF NoTask, NoSave, NoCheck
<1>3. CertTyped'
  <2>1. \A x \in Pool : save[x].pc = "replace" => save[x].check \in Check
    BY DEF OrderInv, RunsInOrder
  <2>2. stale' \in SUBSET Check
    BY <1>1, <2>1 DEF CertTyped
  <2> QED
    BY <1>1, <2>2, NothingTyped DEF CertTyped
<1>4. InPlace'
  BY <1>2 DEF InPlace, TasksBelong, CertSavesBelong, FlagsFollow, ListIsTheFile, Syncing, Cleaning
<1>5. OrderInv'
  <2>1. RunsInOrder' /\ DaysInOrder'
    BY <1>1, <1>2 DEF OrderInv, RunsInOrder, DaysInOrder, CertTyped
  <2>2. LatestIsNewest'
    BY <1>1 DEF OrderInv, LatestIsNewest
  <2> QED
    BY <2>1, <2>2 DEF OrderInv
<1>6. CleanupGoesOn'
  BY <1>1, <1>2, QuietCleanup DEF Cleaning
<1> QED
  BY <1>3, <1>4, <1>5, <1>6 DEF InPlace

-----------------------------------------------------------------------------
(***************************************************************************)
(* The theorems.                                                           *)
(***************************************************************************)

\* The invariant holds at the start.
LEMMA CertInitInv ==
    ASSUME CertInit
    PROVE  CertIInv
<1>1. ServiceInv
  BY ServiceInitInv DEF CertInit
<1>2. /\ \A c \in Callers : task[c].pc = "none" /\ task[c].before = 0
      /\ \A x \in Pool : save[x].pc = "none" /\ save[x].check.day = 0
      /\ \A c \in Callers : run[c].pc = "idle"
  BY DEF CertInit, ServiceInit, NoRun, NoTask, NoSave, NoCheck
<1>3. CertTyped /\ used.runs = 0
  BY NothingTyped DEF CertInit, ServiceInit, CertTyped
<1>4. TasksBelong /\ CertSavesBelong /\ FlagsFollow /\ ListIsTheFile /\ CleanupGoesOn
  BY <1>2 DEF TasksBelong, CertSavesBelong, FlagsFollow, ListIsTheFile, CleanupGoesOn, CleanSoFar,
              Syncing, Cleaning
<1>5. OrderInv
  BY <1>2, <1>3, NothingTyped DEF CertInit, OrderInv, RunsInOrder, DaysInOrder, LatestIsNewest
<1> QED
  BY <1>1, <1>3, <1>4, <1>5 DEF CertIInv, CertInv

\* Every step is one of the service or leaves its variables alone.
LEMMA CertServicePart ==
    ASSUME ServiceInv, CertInv, [CertNext]_certRefreshVars
    PROVE  ServiceInv'
<1>1. ASSUME NEW c \in Callers, NEW w \in Workers, RecordCertificate(c, w)
      PROVE  ServiceNext
  <2>1. CASE save[<<c, w>>].pc = "saved" /\ save[<<c, w>>].check.ok
    <3>1. Record(c, w, TRUE)
      BY <1>1, <2>1 DEF RecordCertificate, Record
    <3> QED
      BY <3>1 DEF ServiceNext
  <2>2. CASE ~(save[<<c, w>>].pc = "saved" /\ save[<<c, w>>].check.ok)
    <3>1. Record(c, w, FALSE)
      BY <1>1, <2>2 DEF RecordCertificate, Record
    <3> QED
      BY <3>1 DEF ServiceNext
  <2> QED
    BY <2>1, <2>2
<1>2. ServiceNext \/ UNCHANGED serviceVars
  <2>1. CASE CertServiceStep \/ RestartCerts
    BY <2>1 DEF CertServiceStep, RestartCerts, ServiceNext
  <2>2. ASSUME NEW c \in Callers, NEW w \in Workers, CertWorkerStep(c, w)
        PROVE  ServiceNext \/ UNCHANGED serviceVars
    <3>1. CASE HandCertificate(c, w)
      BY <3>1 DEF HandCertificate, ServiceNext
    <3> QED
      BY <1>1, <2>2, <3>1 DEF CertWorkerStep, CheckCertificate, AppendHistory, ReplaceLatest,
                              SaveFails
  <2>3. ASSUME NEW c \in Callers, CertGoroutineStep(c)
        PROVE  ServiceNext \/ UNCHANGED serviceVars
    <3>1. CASE ListCertificateDomains(c)
      <4>1. List(c)
        BY <3>1 DEF ListCertificateDomains, List, CertInv, CertTyped
      <4> QED
        BY <4>1 DEF ServiceNext
    <3>2. CASE SyncFails(c)
      BY <3>2 DEF SyncFails, List, ServiceNext
    <3>3. CASE EndCleanup(c)
      BY <3>3 DEF EndCleanup, ServiceNext
    <3> QED
      BY <2>3, <3>1, <3>2, <3>3 DEF CertGoroutineStep, LoadFile, ClearFlags, SetFlag, StartCleanup,
                                    DeleteFailures, FindNewest, DeleteSuccesses
  <2>4. CASE UNCHANGED certRefreshVars \/ NewDay
    BY <2>4 DEF certRefreshVars, NewDay
  <2> QED
    BY <2>1, <2>2, <2>3, <2>4 DEF CertNext
<1>3. CASE ServiceNext
  BY <1>3, ServiceStepInv
<1>4. CASE UNCHANGED serviceVars
  BY <1>4 DEF serviceVars, ServiceInv, ServiceTypeOK, OneRefresh, ProgressAddsUp, Busy,
              WorkersBelong, CountsFromZero
<1> QED
  BY <1>2, <1>3, <1>4

\* Every step keeps the invariant.
LEMMA CertNextInv ==
    ASSUME CertIInv, [CertNext]_certRefreshVars
    PROVE  CertIInv'
<1>1. ServiceInv /\ CertInv
  BY DEF CertIInv
<1>2. ServiceInv'
  BY <1>1, CertServicePart
<1>3. CertInv'
  <2>1. CASE CertServiceStep
    <3>1. CertTyped' /\ CleanupGoesOn'
      BY <1>1, <2>1, QuietCleanup DEF CertServiceStep, certVars, CertInv, CertTyped
    <3> QED
      BY <1>1, <2>1, <3>1, ServicePlaces, ServiceOrder DEF CertInv, InPlace
  <2>2. ASSUME NEW c \in Callers, CertGoroutineStep(c)
        PROVE  CertInv'
    BY <1>1, <2>2, GoroutineTypes, GoroutinePlaces, GoroutineOrder, GoroutineCleanup
       DEF CertInv, InPlace
  <2>3. ASSUME NEW c \in Callers, NEW w \in Workers, CertWorkerStep(c, w)
        PROVE  CertInv'
    BY <1>1, <2>3, WorkerTypes, WorkerPlaces, WorkerOrder, WorkerCleanup DEF CertInv, InPlace
  <2>4. CASE UNCHANGED certRefreshVars
    <3>1. CertTyped' /\ CleanupGoesOn'
      BY <1>1, <2>4, QuietCleanup DEF certRefreshVars, certVars, CertInv, CertTyped
    <3>2. InPlace' /\ OrderInv'
      BY <1>1, <2>4 DEF certRefreshVars, serviceVars, certVars, CertInv, InPlace, TasksBelong,
                        CertSavesBelong,
         FlagsFollow, ListIsTheFile, OrderInv, RunsInOrder, DaysInOrder, LatestIsNewest
    <3> QED
      BY <3>1, <3>2 DEF CertInv, InPlace
  <2> QED
    BY <1>1, <2>1, <2>2, <2>3, <2>4, NewDayInv, CertRestartInv DEF CertNext
<1> QED
  BY <1>2, <1>3 DEF CertIInv

\* The inductive invariant holds in every reachable state.
THEOREM CertInvariance == CertSpec => []CertIInv
<1>1. CertInit => CertIInv
  BY CertInitInv
<1>2. CertIInv /\ [CertNext]_certRefreshVars => CertIInv'
  BY CertNextInv
<1> QED
  BY <1>1, <1>2, PTL DEF CertSpec

\* Type correctness.
THEOREM CertTypeCorrect == CertSpec => []CertTypeOK
<1>1. CertIInv => CertTypeOK
  BY DEF CertIInv, ServiceInv, CertInv, CertTyped, CertTypeOK
<1> QED
  BY <1>1, CertInvariance, PTL

\* A refresh lists the domains of the file it has loaded.
THEOREM RefreshesListTheFile == CertSpec => []ListIsTheFile
<1>1. CertIInv => ListIsTheFile
  BY DEF CertIInv, CertInv
<1> QED
  BY <1>1, CertInvariance, PTL

\* A cleanup that comes to its end leaves nothing that is out of its retention period.
THEOREM CleanupIsComplete == CertSpec => []OldChecksAreGone
<1>1. CertIInv => OldChecksAreGone
  BY DEF CertIInv, CertInv, CleanupGoesOn, CleanSoFar, OldChecksAreGone
<1> QED
  BY <1>1, CertInvariance, PTL

\* What is older than the retention period before a day is older than it before a later one.
LEMMA ExpiredLater ==
    ASSUME NEW d \in Nat, NEW m \in Nat, NEW n \in Nat, m <= n, Expired(d, m)
    PROVE  Expired(d, n)
BY DEF Expired

\* A step deletes nothing that is in its retention period.
LEMMA DeletionsAreDue ==
    ASSUME CertIInv, CertNext, NEW h \in history \ history'
    PROVE  Expired(h.day, today) /\ (h.ok => Expired(h.day, NewestSuccess(h.domain)))
<1>1. /\ today \in Nat /\ h \in Check /\ h.day \in Nat /\ h.domain \in Domains
      /\ task \in [Callers -> TaskType]
  BY DEF CertIInv, CertInv, CertTyped, Check
<1>2. PICK c \in Callers : DeleteFailures(c) \/ DeleteSuccesses(c)
  BY ZenonT(30) DEF CertNext, CertServiceStep, certVars, CertGoroutineStep, CertWorkerStep,
         LoadFile, ClearFlags, SetFlag,
         ListCertificateDomains, SyncFails, StartCleanup, FindNewest, EndCleanup,
         HandCertificate, CheckCertificate, AppendHistory, ReplaceLatest, SaveFails,
         RecordCertificate, NewDay, RestartCerts
<1>3. task[c].before \in Nat /\ task[c].before <= today
  BY <1>1 DEF TaskType, CertIInv, CertInv, OrderInv, DaysInOrder
<1>4. CASE DeleteFailures(c)
  <2>1. ~h.ok /\ Expired(h.day, task[c].before)
    BY <1>4 DEF DeleteFailures
  <2> QED
    BY <1>1, <1>3, <2>1, ExpiredLater
<1>5. CASE DeleteSuccesses(c)
  <2>1. PICK d \in task[c].domains : h \in Successes(d) /\ Expired(h.day, KeptUntil(c, d))
    BY <1>5 DEF DeleteSuccesses
  <2>2. h.domain = d /\ task[c].pc = "successes" /\ d \in Domains
    BY <1>1, <1>5, <2>1 DEF Successes, DeleteSuccesses
  <2>3. task[c].newest[d] = NewestSuccess(d) /\ NewestSuccess(d) \in Nat
    BY <2>1, <2>2, NewestIsADay DEF CertIInv, CertInv, CleanupGoesOn
  <2>4. /\ KeptUntil(c, d) \in Nat /\ KeptUntil(c, d) <= task[c].before
        /\ KeptUntil(c, d) <= NewestSuccess(d)
    BY <1>3, <2>3 DEF KeptUntil
  <2>5. Expired(h.day, task[c].before) /\ Expired(h.day, NewestSuccess(d))
    BY <1>1, <1>3, <2>1, <2>3, <2>4, ExpiredLater
  <2> QED
    BY <1>1, <1>3, <2>2, <2>5, ExpiredLater
<1> QED
  BY <1>2, <1>4, <1>5

\* The history keeps its retention period, by today and by each domain's newest success.
THEOREM RetentionIsKept == CertSpec => RecentChecksAreKept
<1>1. CertIInv /\ [CertNext]_certRefreshVars =>
          [\A h \in history \ history' :
              /\ Expired(h.day, today)
              /\ h.ok => Expired(h.day, NewestSuccess(h.domain))]_certRefreshVars
  BY DeletionsAreDue
<1> QED
  BY <1>1, CertInvariance, PTL DEF CertSpec, RecentChecksAreKept

\* An entry that the history has, or that it may have lost to a cleanup.
KeptOrOld(e) == e \in history \/ Expired(e.day, today)

\* What is the latest state, or about to become it, has been appended.
AppendedInv ==
    /\ LatestIsInHistory
    /\ \A x \in Pool : save[x].pc = "replace" => KeptOrOld(save[x].check)

\* What has been appended stays so: a cleanup deletes only what is old, and it gets no younger.
LEMMA KeptOrOldStays ==
    ASSUME CertIInv, [CertNext]_certRefreshVars, NEW e \in Check, KeptOrOld(e)
    PROVE  KeptOrOld(e)'
<1>1. e.day \in Nat /\ today \in Nat
  BY DEF Check, CertIInv, CertInv, CertTyped
<1>2. today' \in Nat /\ today <= today'
  <2>1. today' = today \/ today' = today + 1
    BY ZenonT(30) DEF CertNext, CertServiceStep, certVars, certRefreshVars, CertGoroutineStep,
           CertWorkerStep, LoadFile, ClearFlags, SetFlag, ListCertificateDomains, SyncFails,
           StartCleanup, DeleteFailures, FindNewest, DeleteSuccesses, EndCleanup,
           HandCertificate, CheckCertificate, AppendHistory, ReplaceLatest, SaveFails,
           RecordCertificate, NewDay, RestartCerts
  <2> QED
    BY <1>1, <2>1
<1>3. Expired(e.day, today) => Expired(e.day, today')
  BY <1>1, <1>2, ExpiredLater
<1>4. CASE CertNext
  <2>1. e \in history \ history' => Expired(e.day, today)
    BY <1>4, DeletionsAreDue
  <2> QED
    BY <1>3, <2>1 DEF KeptOrOld
<1>5. CASE UNCHANGED certRefreshVars
  BY <1>3, <1>5 DEF KeptOrOld, certRefreshVars, certVars
<1> QED
  BY <1>4, <1>5

\* What a step does to the saves under way and to the latest states.
LEMMA SavesGoOn ==
    ASSUME CertIInv, [CertNext]_certRefreshVars
    PROVE  /\ \A x \in Pool : save'[x].pc = "replace" =>
                 \/ save[x].pc = "replace" /\ save'[x].check = save[x].check
                 \/ save'[x].check \in history'
           /\ \A d \in Domains :
                 \/ latest'[d] = latest[d]
                 \/ \E x \in Pool : save[x].pc = "replace" /\ latest'[d] = save[x].check
<1>1. save \in [Pool -> SaveType] /\ latest \in [Domains -> Check \cup {NoCheck}]
  BY DEF CertIInv, CertInv, CertTyped
<1>2. ASSUME NEW c \in Callers, NEW w \in Workers, CertWorkerStep(c, w)
      PROVE  /\ \A x \in Pool : save'[x].pc = "replace" =>
                   \/ save[x].pc = "replace" /\ save'[x].check = save[x].check
                   \/ save'[x].check \in history'
             /\ \A d \in Domains :
                   \/ latest'[d] = latest[d]
                   \/ \E x \in Pool : save[x].pc = "replace" /\ latest'[d] = save[x].check
  <2>1. PICK z \in Pool : z = <<c, w>>
    BY DEF Pool
  <2>2. CASE HandCertificate(c, w)
    <3>1. save' = [save EXCEPT ![z].pc = "check"] /\ latest' = latest
      BY <2>1, <2>2 DEF HandCertificate
    <3> QED
      BY <1>1, <3>1 DEF SaveType
  <2>3. CASE CheckCertificate(c, w)
    <3>1. PICK h : save' = [save EXCEPT ![z] = [pc |-> "append", check |-> h]]
      BY <2>1, <2>3 DEF CheckCertificate
    <3>2. latest' = latest
      BY <2>3 DEF CheckCertificate
    <3> QED
      BY <1>1, <3>1, <3>2
  <2>4. CASE AppendHistory(c, w)
    <3>1. /\ save' = [save EXCEPT ![z].pc = "replace"] /\ latest' = latest
          /\ history' = history \cup {save[z].check}
      BY <2>1, <2>4 DEF AppendHistory
    <3> QED
      BY <1>1, <3>1 DEF SaveType
  <2>5. CASE ReplaceLatest(c, w)
    <3>1. /\ save[z].pc = "replace" /\ save' = [save EXCEPT ![z].pc = "saved"]
          /\ latest' = [latest EXCEPT ![save[z].check.domain] = save[z].check]
      BY <2>1, <2>5 DEF ReplaceLatest
    <3> QED
      BY <1>1, <3>1 DEF SaveType
  <2>6. CASE SaveFails(c, w)
    <3>1. save' = [save EXCEPT ![z].pc = "unsaved"] /\ latest' = latest
      BY <2>1, <2>6 DEF SaveFails
    <3> QED
      BY <1>1, <3>1 DEF SaveType
  <2>7. CASE RecordCertificate(c, w)
    <3>1. save' = [save EXCEPT ![z] = NoSave] /\ latest' = latest
      BY <2>1, <2>7 DEF RecordCertificate
    <3> QED
      BY <1>1, <3>1 DEF NoSave
  <2> QED
    BY <1>2, <2>2, <2>3, <2>4, <2>5, <2>6, <2>7 DEF CertWorkerStep
<1>3. ASSUME NEW c \in Callers, CertGoroutineStep(c)
      PROVE  save' = save /\ latest' = latest
  BY <1>3 DEF CertGoroutineStep, LoadFile, ClearFlags, SetFlag, ListCertificateDomains, SyncFails,
         StartCleanup, DeleteFailures, FindNewest, DeleteSuccesses, EndCleanup
<1>4. CASE CertServiceStep \/ NewDay \/ UNCHANGED certRefreshVars
  <2>1. save' = save /\ latest' = latest
    BY <1>4 DEF CertServiceStep, NewDay, certRefreshVars, certVars
  <2> QED
    BY <2>1
<1>5. CASE RestartCerts
  <2>1. save' = [x \in Pool |-> NoSave] /\ latest' = latest
    BY <1>5 DEF RestartCerts
  <2> QED
    BY <2>1 DEF NoSave
<1> QED
  BY <1>2, <1>3, <1>4, <1>5 DEF CertNext

\* Every step keeps what has been appended and what is shown together.
LEMMA AppendedStays ==
    ASSUME CertIInv, AppendedInv, [CertNext]_certRefreshVars
    PROVE  AppendedInv'
<1>1. /\ latest \in [Domains -> Check \cup {NoCheck}]
      /\ \A x \in Pool : save[x].pc = "replace" => save[x].check \in Check
  BY DEF CertIInv, CertInv, CertTyped, OrderInv, RunsInOrder
<1>2. ASSUME NEW e \in Check, KeptOrOld(e)
      PROVE  e \in history' \/ Expired(e.day, today')
  BY <1>2, KeptOrOldStays DEF KeptOrOld
<1>3. ASSUME NEW x \in Pool, save[x].pc = "replace"
      PROVE  save[x].check \in history' \/ Expired(save[x].check.day, today')
  <2>1. PICK e \in Check : e = save[x].check
    BY <1>1, <1>3
  <2>2. KeptOrOld(e)
    BY <1>3, <2>1 DEF AppendedInv
  <2> QED
    BY <1>2, <2>1, <2>2
<1>4. ASSUME NEW x \in Pool, save'[x].pc = "replace"
      PROVE  save'[x].check \in history' \/ Expired(save'[x].check.day, today')
  <2>1. CASE save'[x].check \in history'
    BY <2>1
  <2>2. CASE save[x].pc = "replace" /\ save'[x].check = save[x].check
    BY <1>3, <2>2
  <2> QED
    BY <1>4, <2>1, <2>2, SavesGoOn
<1>5. ASSUME NEW d \in Domains
      PROVE  \/ latest'[d] = NoCheck \/ latest'[d] \in history'
             \/ Expired(latest'[d].day, today')
  <2>1. CASE latest'[d] = latest[d]
    <3>1. PICK e \in Check \cup {NoCheck} : e = latest[d]
      BY <1>1
    <3>2. e = NoCheck \/ KeptOrOld(e)
      BY <3>1 DEF AppendedInv, LatestIsInHistory, KeptOrOld
    <3> QED
      BY <1>2, <2>1, <3>1, <3>2
  <2>2. ASSUME NEW x \in Pool, save[x].pc = "replace", latest'[d] = save[x].check
        PROVE  latest'[d] \in history' \/ Expired(latest'[d].day, today')
    BY <1>3, <2>2
  <2> QED
    BY <2>1, <2>2, SavesGoOn
<1> QED
  BY <1>4, <1>5 DEF AppendedInv, LatestIsInHistory, KeptOrOld

\* The latest state of a domain is as new as its history, up to failed replacements, and
\* has been appended to it.
THEOREM LatestIsRight == CertSpec => []LatestIsCurrent
<1>1. CertInit => AppendedInv
  BY DEF CertInit, AppendedInv, LatestIsInHistory, NoSave
<1>2. CertIInv /\ AppendedInv /\ [CertNext]_certRefreshVars => AppendedInv'
  BY AppendedStays
<1>3. CertIInv /\ AppendedInv => LatestIsCurrent
  BY DEF CertIInv, CertInv, OrderInv, AppendedInv, LatestIsCurrent
<1> QED
  BY <1>1, <1>2, <1>3, CertInvariance, PTL DEF CertSpec
=============================================================================
