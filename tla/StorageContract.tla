--------------------------- MODULE StorageContract --------------------------
(* What every storage promises the contexts begun on it, whatever happens to  *)
(* the storage meanwhile: a context that lives reads the state it began on,   *)
(* one that ended reads nothing more, and a write lands in the life of the    *)
(* storage its context began in, on the very state that was read: no other    *)
(* write landed between. A batch reads nothing, and is free of the last       *)
(* promise (blind), or also of the life (roaming).                            *)
EXTENDS Naturals

CONSTANTS Contexts

VARIABLES
    life,      \* how often the storage was closed
    db,        \* the number of commits in it
    state,     \* state[c] in "none", "active", "committed", "aborted"
    bornIn,    \* the life c began in, and the commits it began on
    base,
    reading,   \* the contexts with a read under way
    answer,    \* the state the latest read of c answered from
    fading,    \* the contexts whose view is being taken away
    blind,     \* whose writes may land on another state than they began on,
    roaming    \*   and in another life

contractVars == <<life, db, state, bornIn, base, reading, answer>>

Active == {c \in Contexts : state[c] = "active"}

Init ==
    /\ life = 0 /\ db = 0
    /\ state = [c \in Contexts |-> "none"]
    /\ bornIn = [c \in Contexts |-> 0]
    /\ base = [c \in Contexts |-> 0]
    /\ reading = {}
    /\ answer = [c \in Contexts |-> 0]

Begin(c) ==
    /\ state[c] = "none"
    /\ state' = [state EXCEPT ![c] = "active"]
    /\ bornIn' = [bornIn EXCEPT ![c] = life]
    /\ base' = [base EXCEPT ![c] = db]
    /\ UNCHANGED <<life, db, reading, answer>>

StartRead(c) ==
    /\ c \in Active
    /\ reading' = reading \cup {c}
    /\ UNCHANGED <<life, db, state, bornIn, base, answer>>

\* A read whose context ended under it may answer anything; one whose view is fading may
\* answer from the state that comes.
Read(c) ==
    /\ c \in Active \cup reading
    /\ \E v \in 0 .. db : /\ c \in Active => v = base[c] \/ (c \in fading /\ v = db)
                          /\ answer' = [answer EXCEPT ![c] = v]
    /\ reading' = reading \ {c}
    /\ UNCHANGED <<life, db, state, bornIn, base>>

Commit(c) ==
    /\ c \in Active
    /\ c \in roaming \/ bornIn[c] = life
    /\ c \in roaming \cup blind \/ base[c] = db
    /\ db' = db + 1
    /\ state' = [state EXCEPT ![c] = "committed"]
    /\ UNCHANGED <<life, bornIn, base, reading, answer>>

\* Contexts end, and reads with an error.
Ended ==
    /\ \E lost \in SUBSET Active :
          state' = [c \in Contexts |-> IF c \in lost THEN "aborted" ELSE state[c]]
    /\ reading' \in SUBSET reading

End ==
    /\ Ended
    /\ UNCHANGED <<life, db, bornIn, base, answer>>

\* Another process commits; a replica that catches up with it takes open views away.
Elsewhere ==
    /\ db' \in {db, db + 1}
    /\ Ended
    /\ UNCHANGED <<life, bornIn, base, answer>>

\* The storage is closed; one in memory is empty then.
Close ==
    /\ life' = life + 1
    /\ db' \in {0, db}
    /\ Ended
    /\ UNCHANGED <<bornIn, base, answer>>

Next ==
    \/ \E c \in Contexts : Begin(c) \/ StartRead(c) \/ Read(c) \/ Commit(c)
    \/ End \/ Elsewhere \/ Close

Spec == Init /\ [][Next]_contractVars
=============================================================================
