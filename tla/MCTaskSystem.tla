--------------------------- MODULE MCTaskSystem ----------------------------
EXTENDS TaskSystem, TLC
Interchangeable == Permutations(Handlers) \cup Permutations(Clients) \cup Permutations(Products)
=============================================================================
