--------------------------- MODULE MCVersionedStore -------------------------
(* An instance of VersionedStore for TLC.                                  *)
EXTENDS VersionedStore, TLC

CONSTANTS a, r1, r2

TwoKeys    == 1 .. 2
OneValue   == {a}
TwoReaders == {r1, r2}

\* Readers are interchangeable.
Symmetric == Permutations({r1, r2})
=============================================================================
