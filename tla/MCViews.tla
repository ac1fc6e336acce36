------------------------------ MODULE MCViews ------------------------------
(***************************************************************************)
(* Views for TLC: every kind of view, two primitives, a list and a set as  *)
(* compound values, three keys.                                            *)
(***************************************************************************)
EXTENDS Views

MCStructures == Roots \cup {"dict", "flat_list", "list", "set"}
MCBoxes == {[kind |-> "list", items |-> <<2, 1>>], [kind |-> "set", items |-> <<1>>]}
=============================================================================
