---------------------------- MODULE MCLmdbWriter ----------------------------
(* A transaction, a batch and a reservation, two of them at a time, on an LMDB storage that *)
(* is closed and opened again.                                                              *)
EXTENDS LmdbWriter

AtMostTwo == Cardinality({a \in Actors : act[a].pc # "idle"}) <= 2

\* What follows one of the three races is not explored.
Small == AtMostTwo /\ slips = {}
=============================================================================
