--------------------------- MODULE SnapshotStore ----------------------------
(***************************************************************************)
(* What the in-memory store promises: a database whose commits apply a     *)
(* write set as a whole or not at all, and snapshots that behave like      *)
(* copies of it taken at open (storage contract, sections 1 and 2).        *)
(***************************************************************************)
CONSTANTS Keys, Values, Absent, Deleted, Readers, None

VARIABLES
    db,      \* the committed value of each key, Absent where there is none
    view,    \* view[r]: the copy reader r opened, or None
    write    \* the write set of the transaction: a value, Deleted or None per key

Init == /\ db = [k \in Keys |-> Absent]
        /\ view = [r \in Readers |-> None]
        /\ write = None

Open(r) == /\ view[r] = None
           /\ view' = [view EXCEPT ![r] = db]
           /\ UNCHANGED <<db, write>>

Close(r) == /\ view' = [view EXCEPT ![r] = None]
            /\ UNCHANGED <<db, write>>

Begin == /\ write = None
         /\ write' = [k \in Keys |-> None]
         /\ UNCHANGED <<db, view>>

Stage(k, v) == /\ write # None
               /\ write' = [write EXCEPT ![k] = v]
               /\ UNCHANGED <<db, view>>

Commit == /\ write # None
          /\ db' = [k \in Keys |-> CASE write[k] = None -> db[k]
                                     [] write[k] = Deleted -> Absent
                                     [] OTHER -> write[k]]
          /\ write' = None
          /\ UNCHANGED view

\* An abort, or a commit that raised.
Discard == write' = None /\ UNCHANGED <<db, view>>

\* The storage is closed: its data, its snapshots and its writer are gone.
Reset == /\ db' = [k \in Keys |-> Absent]
         /\ view' = [r \in Readers |-> None]
         /\ write' = None

Next == \/ Begin \/ Commit \/ Discard \/ Reset
        \/ \E k \in Keys, v \in Values \cup {Deleted} : Stage(k, v)
        \/ \E r \in Readers : Open(r) \/ Close(r)

Spec == Init /\ [][Next]_<<db, view, write>>
=============================================================================
