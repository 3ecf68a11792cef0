--------------------------- MODULE MCVirtioBridge ---------------------------
(* Model-checking instances of VirtioBridge.                                *)
EXTENDS VirtioBridge, TLC

Symmetry == Permutations(CPU) \cup Permutations(Irq)
=============================================================================
