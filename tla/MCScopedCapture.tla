-------------------------- MODULE MCScopedCapture --------------------------
EXTENDS ScopedCapture, TLC

\* Companies and request identities are interchangeable.
Symmetry == Permutations(Companies) \cup Permutations(Requests)
=============================================================================
