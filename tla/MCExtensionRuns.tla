-------------------------- MODULE MCExtensionRuns --------------------------
EXTENDS ExtensionRuns

\* A run that fits into the pool and one that does not.
MCSizes == {1, 2}
=============================================================================
