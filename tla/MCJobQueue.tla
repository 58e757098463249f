---------------------------- MODULE MCJobQueue ----------------------------
(* Instances of JobQueue: the jobs are numbered, and job j belongs to the      *)
(* key of its position in a fixed assignment.                                  *)
EXTENDS JobQueueInv

\* One domain, one day, two jobs of that day.
OneKey       == {"k"}
OneDomain    == {"d"}
DomainOfOne  == [k \in OneKey |-> "d"]
TwoJobs      == {1, 2}
KeyOfOne     == [j \in TwoJobs |-> "k"]
=============================================================================
