----------------------------- MODULE MCSessions -----------------------------
EXTENDS Sessions, TLC

Symmetry == Permutations(Users) \cup Permutations(Ids) \cup Permutations(Requests)
=============================================================================
