-------------------------- MODULE MCLoginLimiter --------------------------
\* Instances of LoginLimiter for TLC.
EXTENDS LoginLimiter, TLC

\* Requests, addresses and accounts are interchangeable: no property names one.
Symmetry == Permutations(Requests) \cup Permutations(IPs) \cup Permutations(Users)
=============================================================================
