----------------------------- MODULE MCResolver -----------------------------
(* Instances of the resolver.                                              *)
EXTENDS ResolverProperties, TLC

Symmetry == Permutations(Clients) \cup Permutations(Tcp)
=============================================================================
