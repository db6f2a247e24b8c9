----------------------------- MODULE MCFrontend -----------------------------
(* Instances of Frontend for TLC.                                          *)
EXTENDS Frontend, TLC

Symmetry == Permutations(Slots) \cup Permutations(Tenants)
=============================================================================
