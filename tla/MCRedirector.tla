---------------------------- MODULE MCRedirector ----------------------------
EXTENDS RedirectorProperties, TLC

\* Clients and workers are named only to be told apart.
Symmetry == Permutations(Clients) \cup Permutations(Workers)
=============================================================================
