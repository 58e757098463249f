-------------------------- MODULE MCAizhanSource --------------------------
\* Instances of AizhanSource for TLC.
EXTENDS AizhanSource, TLC

\* The callers are interchangeable: no property names one.
Symmetry == Permutations(Callers)
=============================================================================
