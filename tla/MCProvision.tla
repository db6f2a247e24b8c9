----------------------------- MODULE MCProvision -----------------------------
(* Instances of Provision for TLC.                                         *)
EXTENDS Provision, TLC

CONSTANTS k1, k2, k3, k4

MCKeys == {k1, k2, k3, k4}

(* k1 and k4 share a 12-character prefix.                                  *)
MCKeyId == [k \in MCKeys |-> IF k = k2 THEN "id2"
                             ELSE IF k = k3 THEN "id3" ELSE "id1"]

Symmetry == Permutations(Slots) \cup Permutations(Tenants)
            \cup Permutations({k1, k4}) \cup Permutations({k2, k3})
=============================================================================
