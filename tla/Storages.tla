------------------------------- MODULE Storages ------------------------------
(* The three storages side by side, one per behaviour, against the contract   *)
(* they share.                                                                *)
EXTENDS StorageCore

CONSTANTS Backends, MaxIdle, Modes

ASSUME StoragesAssumption == Backends \subseteq {"memory", "SQLite", "RocksDB"}

VARIABLES
    which,
    pins,
    idle, conns, open, file, reserved, pid, inherited, poisoned, touched,
    mode, native, closing, foreign, epoch, catching, moved, astray,
    elsewhere

M == INSTANCE MemStorage
S == INSTANCE SqliteStorage
R == INSTANCE RocksStorage

memOnly == pins
sqliteOnly == <<idle, conns, open, file, reserved, pid, inherited, poisoned, touched>>
rocksOnly == <<mode, native, closing, foreign, epoch, catching, moved, astray>>
allVars == <<opened, active, db, life, lock, holder, ctx, owner, child, elsewhere,
             memOnly, sqliteOnly, rocksOnly, which>>

Init ==
    /\ which \in Backends
    /\ M!Init /\ S!Init /\ R!Init
    /\ which # "RocksDB" => mode = "primary"

Next ==
    \/ which = "memory" /\ M!Next /\ UNCHANGED <<which, sqliteOnly, rocksOnly, elsewhere>>
    \/ which = "SQLite" /\ S!Next /\ UNCHANGED <<which, memOnly, rocksOnly>>
    \/ which = "RocksDB" /\ R!Next /\ UNCHANGED <<which, memOnly, sqliteOnly>>

Spec == Init /\ [][Next]_allVars
-----------------------------------------------------------------------------
Contract ==
    INSTANCE StorageContract WITH
        state <- [c \in Contexts |-> ctx[c].state],
        bornIn <- [c \in Contexts |-> ctx[c].life],
        base <- [c \in Contexts |-> ctx[c].base],
        reading <- {c \in Contexts : ctx[c].pc = "read"},
        answer <- [c \in Contexts |-> ctx[c].answer],
        fading <- {c \in Contexts : ctx[c].kind = "snapshot" /\ moved},
        blind <- {c \in Contexts : ctx[c].kind = "batch" \/ (which = "memory" /\ ~opened)},
        roaming <- {c \in Contexts : ctx[c].kind = "batch" /\ which = "SQLite"}

\* Every storage does to its contexts only what the contract allows, whatever closes,
\* reopens or forks it meanwhile: a write lands in the life it began in, on the state it
\* began on, and a context that lives reads that state; but a view of a secondary may answer
\* from the next one while a catch-up takes it away. A batch promises less; so does a
\* closed storage in memory, whose data are about to be dropped. On RocksDB this ends once
\* a writer reaches a database opened after its slot was replaced (begin_transaction and
\* _write_batch do not look at the slot again, as the others do).
KeepsContract ==
    /\ Contract!Init
    /\ [][astray' = {} => Contract!Next]_<<life, db, ctx>>

\* Once every call has returned nothing of it is left: no slot is held, no context is
\* registered, no version is pinned, every connection is closed or pooled and holds no
\* file lock, and a closed storage has no connection and no database. A thread lost in a fork
\* leaves its slot held on RocksDB, where nothing runs at the fork, and on a SQLite storage
\* that was closed at the fork: there until close runs in the child.
NothingLeftBehind ==
    Quiet =>
        LET Gone == {c \in Contexts : At(c, "gone")} IN
        /\ holder = NoOne \/ (holder \in Gone /\ (which = "RocksDB" \/ pid # "own"))
        /\ active \subseteq Gone /\ pins \subseteq Gone
        /\ conns \subseteq inherited /\ file \in inherited \cup {NoOne}
        /\ open = idle + Cardinality(conns)
        /\ ~opened => idle = 0 /\ native = 0

\* A forked child never runs a statement on a connection of its parent, nor frees one.
InheritedUntouched == ~touched
=============================================================================
