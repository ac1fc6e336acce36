------------------------------ MODULE MCStorages ----------------------------
(* Storages for TLC: two contexts, and the kinds of context worth pairing.    *)
EXTENDS Storages, TLC

CONSTANTS c1, c2

TwoContexts == {c1, c2}
Plan(a, b) == c1 :> a @@ c2 :> b
TwoOfEach ==
    {Plan("txn", "txn"), Plan("txn", "reserving"), Plan("txn", "batch"), Plan("txn", "snapshot"),
     Plan("batch", "batch"), Plan("reserving", "batch"), Plan("snapshot", "batch"),
     Plan("snapshot", "reserving"), Plan("snapshot", "snapshot"), Plan("reserving", "reserving")}
=============================================================================
