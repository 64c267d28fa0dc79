---------------------------- MODULE QueryScopesMC ----------------------------
EXTENDS QueryScopes, TLC

Symmetry == Permutations(Clients) \cup Permutations(Scripts) \cup Permutations(Requests)
=============================================================================
