----------------------- MODULE MCCertificateRefresh -----------------------
\* Instances of CertificateRefresh for TLC.
EXTENDS CertificateRefresh, TLC

\* All of them are interchangeable, and every property checked with it is a safety property.
Symmetry == Permutations(Callers) \cup Permutations(Workers) \cup Permutations(Domains)
=============================================================================
