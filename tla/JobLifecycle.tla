---------------------------- MODULE JobLifecycle ----------------------------
(***************************************************************************)
(* What the collection queue promises of its jobs, with no word about      *)
(* workers, memory, errors or crashes: a day has one open job at a time,   *)
(* work that is interrupted goes back to the queue for free, a recorded    *)
(* failure is charged, at most MaxRetries of them are forgiven, and what   *)
(* is settled is never worked on again.  JobQueue implements it.           *)
(***************************************************************************)
EXTENDS Naturals

CONSTANTS Jobs, Keys, KeyOf, MaxRetries

VARIABLES
    state,     \* of each job: "absent", "waiting", "working" or "done"
    failures   \* recorded failures of each job that were forgiven

lifecycle == <<state, failures>>

LifecycleInit ==
    /\ state = [j \in Jobs |-> "absent"]
    /\ failures = [j \in Jobs |-> 0]

\* All the jobs of S change to one state.
Become(S, s) == state' = [j \in Jobs |-> IF j \in S THEN s ELSE state[j]]

Submit(j) ==
    /\ state[j] = "absent"
    /\ \A i \in Jobs : KeyOf[i] = KeyOf[j] => state[i] \in {"absent", "done"}
    /\ Become({j}, "waiting")
    /\ UNCHANGED failures

Take(j) ==
    /\ state[j] = "waiting"
    /\ Become({j}, "working")
    /\ UNCHANGED failures

\* An interrupted attempt is not a failure.
GiveBack(S) ==
    /\ \A j \in S : state[j] = "working"
    /\ Become(S, "waiting")
    /\ UNCHANGED failures

ChargeFailure(j) ==
    /\ state[j] = "working"
    /\ failures[j] < MaxRetries
    /\ failures' = [failures EXCEPT ![j] = @ + 1]
    /\ Become({j}, "waiting")

Settle(j) ==
    /\ state[j] = "working"
    /\ Become({j}, "done")
    /\ UNCHANGED failures

\* Only waiting jobs are canceled: what is being worked on is finished.
Drop(S) ==
    /\ \A j \in S : state[j] = "waiting"
    /\ Become(S, "done")
    /\ UNCHANGED failures

LifecycleNext ==
    \/ \E j \in Jobs : Submit(j) \/ Take(j) \/ ChargeFailure(j) \/ Settle(j)
    \/ \E S \in SUBSET Jobs : GiveBack(S) \/ Drop(S)

LifecycleSpec == LifecycleInit /\ [][LifecycleNext]_lifecycle
=============================================================================
