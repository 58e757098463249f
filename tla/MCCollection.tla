--------------------------- MODULE MCCollection ---------------------------
\* Instances of Collection for TLC.
EXTENDS Collection, TLC

\* The domains are interchangeable if all of them are in the file, and the properties
\* are safety properties.
Symmetry == Permutations(Domains)
=============================================================================
