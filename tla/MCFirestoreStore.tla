-------------------------- MODULE MCFirestoreStore --------------------------
(* An instance of FirestoreStore for TLC.                                  *)
EXTENDS FirestoreStore, TLC

CONSTANTS k1, k2

MCKeyId == k1 :> "id1" @@ k2 :> "id2"
=============================================================================
