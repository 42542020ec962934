---- MODULE MC_Divert ----
EXTENDS Divert, TLC
\* Handles are only compared: their values can be swapped.
Symmetry == Permutations(Handles)
====
