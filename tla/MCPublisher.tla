----------------------------- MODULE MCPublisher -----------------------------
(* Instances of Publisher for TLC: one call of two keys and one of one key. *)
EXTENDS Publisher, TLC
CONSTANTS c1, c2, k1, k2, k3, f1

Batches == c1 :> <<k1, k2>> @@ c2 :> <<k3>>
CallSet == {c1, c2}
=============================================================================
