----------------------------- MODULE MCDelivery -----------------------------
(* Instances of Delivery for TLC.                                          *)
EXTENDS Delivery, TLC

Symmetry == Permutations(Writers) \cup Permutations(Threads)
=============================================================================
