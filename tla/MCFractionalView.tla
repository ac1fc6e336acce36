--------------------------- MODULE MCFractionalView ---------------------------
(* An alphabet of three digits and two heads on each side.  A key is two or *)
(* three characters longer with every insert at one gap, so a cap of a few  *)
(* characters is passed by the fourth insert and windows are respaced.      *)
EXTENDS FractionalView, TLC

\* The collection never looks at an id but to compare it.
IdSymmetry == Permutations(Ids)

TwoTails == {<<1>>, <<2>>}
=============================================================================
