--------------------------- MODULE SourceCircuit ---------------------------
(***************************************************************************)
(* What the scrapers of Aizhan and Chinaz have in common: one request at a *)
(* time, random delays, and a circuit that a block closes for longer when  *)
(* blocks repeat.                                                          *)
(*                                                                         *)
(* Time passes only where the code waits: for a slot, for a timer, for an  *)
(* answer or for a job.  Timers fire on time.                              *)
(***************************************************************************)
EXTENDS Naturals

CONSTANTS
    Nobody,               \* nobody has the slot
    MinDelay, MaxDelay,
    BaseCooldown, Hour,
    RetryAfters,          \* what Retry-After says, in units from now; 0: nothing
    MaxTime               \* bound on the clock

\* NewAizhan, NewChinazSupplement and config.go validate the delays and the cooldowns.
ASSUME CircuitAssumption ==
    /\ MinDelay \in Nat /\ MaxDelay \in Nat /\ MinDelay <= MaxDelay
    /\ BaseCooldown \in Nat \ {0} /\ Hour \in Nat /\ BaseCooldown <= Hour
    /\ RetryAfters \subseteq Nat /\ 0 \in RetryAfters
    /\ MaxTime \in Nat

VARIABLES
    clock,
    quietUntil      \* history: the end of the silence the source has asked for

Later(s, t) == IF s > t THEN s ELSE t

\* The base doubled once for every block before this one, up to an hour.
Doubled[n \in Nat] ==
    IF n <= 1 THEN BaseCooldown
    ELSE IF Doubled[n - 1] < Hour THEN 2 * Doubled[n - 1] ELSE Doubled[n - 1]
CooldownAfter(n) == IF Doubled[n] > Hour THEN Hour ELSE Doubled[n]
=============================================================================
