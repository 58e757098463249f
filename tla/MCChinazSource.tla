-------------------------- MODULE MCChinazSource --------------------------
\* Instances of ChinazSource for TLC.
EXTENDS ChinazSource

\* The page and the weights; the page and two fields.
RequestsOfEach == [q \in {"weights", "supplement"} |-> IF q = "weights" THEN 2 ELSE 3]

\* Two and three units of time.
TimeoutOfEach == [q \in {"weights", "supplement"} |-> IF q = "weights" THEN 2 ELSE 3]
=============================================================================
