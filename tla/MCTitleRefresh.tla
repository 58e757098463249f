-------------------------- MODULE MCTitleRefresh --------------------------
\* Instances of TitleRefresh for TLC.
EXTENDS TitleRefresh, TLC

\* All of them are interchangeable, and every property checked with it is a safety property.
Symmetry ==
    Permutations(Callers) \cup Permutations(Workers) \cup Permutations(Domains)
        \cup Permutations(Titles)
=============================================================================
