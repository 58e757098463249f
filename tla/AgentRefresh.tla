---------------------------- MODULE AgentRefresh ----------------------------
(***************************************************************************)
(* RefreshService, with workers that check their domains through the       *)
(* remote agents they share.  A check begins with the agent that is next   *)
(* in turn and goes on to the others as long as they fail; an agent takes  *)
(* a limited number of requests at a time.  A certificate is first checked *)
(* from here, and the agents are asked only if that fails; a title is      *)
(* always asked of the agents.                                             *)
(*                                                                         *)
(* What a check saves is left open: see TitleRefresh, CertificateRefresh.  *)
(*                                                                         *)
(* A definition marked "Slip" is no part of the specification: it is a     *)
(* plausible mistake in the definition below it, that a property notices.  *)
(***************************************************************************)
EXTENDS RefreshService

CONSTANTS
    N,              \* the agents are 0..N-1
    MaxConcurrent   \* requests an agent takes at a time

\* The constructors validate the numbers.
ASSUME AgentAssumption == N \in Nat \ {0} /\ MaxConcurrent \in Nat \ {0}

VARIABLES
    localFirst, \* the certificate's checker, not the title's; never changes
    next,       \* AgentChecker.next, the counter of the round robin
    semaphore,  \* certificateAgentClient.semaphore: the slots taken of each agent
    check,      \* each worker's position, where it has begun, and how far it is
    failed      \* ghost: the agents that have failed the check under way

agentVars == <<localFirst, next, semaphore, check, failed>>
agentRefreshVars == <<serviceVars, agentVars>>

Agent == 0..(N - 1)
NotChecking == [pc |-> "none", start |-> 0, offset |-> 0]

AgentTypeOK ==
    /\ ServiceTypeOK
    /\ localFirst \in BOOLEAN
    /\ next \in Nat
    /\ semaphore \in [Agent -> 0..MaxConcurrent]
    /\ check \in [Pool -> [pc : {"none", "local", "turn", "wait", "request", "good", "bad"},
                           start : Agent, offset : Agent]]
    /\ failed \in [Pool -> SUBSET Agent]

AgentInit ==
    /\ ServiceInit
    /\ localFirst \in BOOLEAN
    /\ next = 0
    /\ semaphore = [a \in Agent |-> 0]
    /\ check = [x \in Pool |-> NotChecking]
    /\ failed = [x \in Pool |-> {}]

HandCheck(c, w) ==
    /\ Hand(c, w)
    /\ check' = [check EXCEPT ![<<c, w>>].pc = IF localFirst THEN "local" ELSE "turn"]
    /\ UNCHANGED <<localFirst, next, semaphore, failed>>

Verdict(x, v) == check' = [check EXCEPT ![x] = [NotChecking EXCEPT !.pc = v]]

\* The TLS handshake from here; its failure is reported only if the agents fail too.
CheckLocally(x) ==
    /\ check[x].pc = "local"
    /\ Verdict(x, "good") \/ Verdict(x, "turn")
    /\ UNCHANGED <<serviceVars, localFirst, next, semaphore, failed>>

\* The counter is advanced and read in one atomic operation.
TakeTurn(x) ==
    /\ check[x].pc = "turn"
    /\ next' = next + 1
    /\ check' = [check EXCEPT ![x] = [pc |-> "wait", start |-> next % N, offset |-> 0]]
    /\ UNCHANGED <<serviceVars, localFirst, semaphore, failed>>

\* Slip: the turn is that of whoever has begun last.
agentByTurn(x) == (next + check[x].offset) % N

agent(x) == (check[x].start + check[x].offset) % N

Acquire(x) ==
    /\ check[x].pc = "wait"
    /\ semaphore[agent(x)] < MaxConcurrent
    /\ semaphore' = [semaphore EXCEPT ![agent(x)] = @ + 1]
    /\ check' = [check EXCEPT ![x].pc = "request"]
    /\ UNCHANGED <<serviceVars, localFirst, next, failed>>

\* The agent has failed the check: the title's checker stops if the context is done,
\* the certificate's goes on to the agents that are left all the same.
Advance(x) ==
    /\ failed' = [failed EXCEPT ![x] = @ \cup {agent(x)}]
    /\ IF check[x].offset = N - 1 \/ (canceled /\ ~localFirst)
       THEN Verdict(x, "bad")
       ELSE check' = [check EXCEPT ![x].pc = "wait", ![x].offset = @ + 1]

\* The select may take this branch although there is a slot.
GiveUpWaiting(x) ==
    /\ check[x].pc = "wait" /\ canceled
    /\ Advance(x)
    /\ UNCHANGED <<serviceVars, localFirst, next, semaphore>>

\* Slip: an agent that fails a check keeps its slot.
ReleasedIfGood(x, good) == IF good THEN [semaphore EXCEPT ![agent(x)] = @ - 1] ELSE semaphore

Released(x, good) == [semaphore EXCEPT ![agent(x)] = @ - 1]

\* An answer of the agent, or none within the time limit.
Answer(x) ==
    /\ check[x].pc = "request"
    /\ \E good \in BOOLEAN :
        /\ semaphore' = Released(x, good)
        /\ IF good THEN Verdict(x, "good") /\ UNCHANGED failed ELSE Advance(x)
    /\ UNCHANGED <<serviceVars, localFirst, next>>

\* A domain counts as succeeded if its check has succeeded and its save has.
RecordCheck(c, w) ==
    /\ check[<<c, w>>].pc \in {"good", "bad"}
    /\ \E ok \in BOOLEAN :
        /\ ok => check[<<c, w>>].pc = "good"
        /\ Record(c, w, ok)
    /\ check' = [check EXCEPT ![<<c, w>>] = NotChecking]
    /\ failed' = [failed EXCEPT ![<<c, w>>] = {}]
    /\ UNCHANGED <<localFirst, next, semaphore>>

RestartAgents ==
    /\ RestartService
    /\ next' = 0
    /\ semaphore' = [a \in Agent |-> 0]
    /\ check' = [x \in Pool |-> NotChecking]
    /\ failed' = [x \in Pool |-> {}]
    /\ UNCHANGED localFirst

AgentGoroutineStep(c) ==
    \/ Goroutine(c) /\ UNCHANGED agentVars
    \/ \E w \in Workers : HandCheck(c, w)

CheckStep(x) == CheckLocally(x) \/ TakeTurn(x) \/ GiveUpWaiting(x) \/ Answer(x)

AgentWorkerStep(c, w) ==
    \/ CheckStep(<<c, w>>) \/ RecordCheck(c, w)
    \/ Return(c, w) /\ UNCHANGED agentVars

AgentNext ==
    \/ \E c \in Callers :
        \/ RefreshAsync(c) /\ UNCHANGED agentVars
        \/ AgentGoroutineStep(c)
        \/ \E w \in Workers : AgentWorkerStep(c, w) \/ Acquire(<<c, w>>)
    \/ Cancel /\ UNCHANGED agentVars
    \/ RestartAgents

AgentSpec == AgentInit /\ [][AgentNext]_agentRefreshVars

\* Goroutines run on; a request and a save have a time limit; and a channel serves the
\* checks that wait for an agent in order, so that none waits for ever.
Fairness ==
    \A c \in Callers :
        /\ WF_agentRefreshVars(AgentGoroutineStep(c))
        /\ \A w \in Workers : /\ WF_agentRefreshVars(AgentWorkerStep(c, w))
                             /\ SF_agentRefreshVars(Acquire(<<c, w>>))

FairSpec == AgentSpec /\ Fairness

(***************************************************************************)
(* Properties                                                              *)
(***************************************************************************)
\* A check fails only after each agent has failed it, whatever turn it began with and
\* however many other checks have taken turns meanwhile; unless the context is done.
FailureIsUnanimous ==
    \A x \in Pool : check[x].pc = "bad" => canceled \/ failed[x] = Agent
=============================================================================
