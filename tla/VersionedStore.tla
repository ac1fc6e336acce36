--------------------------- MODULE VersionedStore ---------------------------
(***************************************************************************)
(* The in-memory store (_backends/storages/mem/store.py): live state, the  *)
(* versions open snapshots still need. One transaction at a time writes    *)
(* (it holds the writer slot); snapshots read beside it. StoreScans adds   *)
(* the paged scans.                                                        *)
(*                                                                         *)
(* Every operation under VersionedStore.lock is one step on the record st. *)
(* Encoded keys are integers, in the order of the encoding.                *)
(***************************************************************************)
EXTENDS Integers, FiniteSets, Sequences

CONSTANTS
    Keys, Values,
    Readers,        \* snapshots, opened and closed again and again
    Absent,         \* ABSENT: no value
    Live,           \* LIVE: no recorded version, read live
    Deleted,        \* DELETED: a staged delete
    None,
    MaxSeq,         \* bound: commits per generation
    MaxGen          \* bound: generations of the store

ASSUME KeysAssumption == Keys \subseteq Int /\ None \notin Keys
ASSUME ValuesAssumption ==
    /\ Values \cap {Absent, Live, Deleted, None} = {}
    /\ Absent \notin {Live, Deleted, None} /\ Live \notin {Deleted, None} /\ Deleted # None
ASSUME ReadersAssumption == IsFiniteSet(Readers)
ASSUME BoundsAssumption == MaxSeq \in Nat /\ MaxGen \in Nat

VARIABLES
    st,      \* the VersionedStore
    token,   \* token[r]: the pin of reader r's snapshot, or None
    txn      \* the write transaction, or None

vars == <<st, token, txn>>

Seqs    == 0 .. MaxSeq
Tokens  == [gen : 0 .. MaxGen, seq : Seqs]
Entries == Values \cup {Absent}

Stores ==
    [gen : 0 .. MaxGen, seq : Seqs,
     live : [Keys -> Entries], index : SUBSET Keys,
     history : [Keys -> Seq([seq : Seqs, old : Entries])], histIndex : SUBSET Keys,
     log : SUBSET [seq : Seqs, key : Keys],
     pins : [Seqs -> Nat], deferred : Seq(Tokens)]

\* The write set: what each key was staged to, None where it was not.
WriteSets == [Keys -> Values \cup {Deleted, None}]

Txns == [gen : 0 .. MaxGen, pending : WriteSets]

\* None is no record and no function.
ASSUME NoneAssumption == None \notin Tokens \cup WriteSets \cup Txns

TypeOK ==
    /\ st \in Stores
    /\ token \in [Readers -> Tokens \cup {None}]
    /\ txn \in Txns \cup {None}

EmptyStore(gen) ==
    [gen |-> gen, seq |-> 0,
     live |-> [k \in Keys |-> Absent], index |-> {},
     history |-> [k \in Keys |-> <<>>], histIndex |-> {}, log |-> {},
     pins |-> [s \in Seqs |-> 0], deferred |-> <<>>]

Init ==
    /\ st = EmptyStore(0)
    /\ token = [r \in Readers |-> None]
    /\ txn = None

-----------------------------------------------------------------------------
(* Pins, and the versions they keep.                                       *)

Pinned(s) == {q \in Seqs : s.pins[q] # 0}

\* A release is one less; a token from before a reset is ignored.
ReleasePins(s, n) == [s EXCEPT !.pins = [q \in Seqs |->
                          IF n[q] >= s.pins[q] THEN 0 ELSE s.pins[q] - n[q]]]

Release(s, t) ==
    IF t.gen # s.gen THEN s
    ELSE ReleasePins(s, [q \in Seqs |-> IF q = t.seq THEN 1 ELSE 0])

Drain(s) ==
    LET dropped(q) == {i \in 1 .. Len(s.deferred) : s.deferred[i] = [gen |-> s.gen, seq |-> q]}
    IN  [ReleasePins(s, [q \in Seqs |-> Cardinality(dropped(q))]) EXCEPT !.deferred = <<>>]

\* Log records up to the oldest pin go, and as many of the oldest versions of their keys.
Trim(s) ==
    LET old == {r \in s.log : \A q \in Pinned(s) : r.seq <= q}
        count(k) == Cardinality({r \in old : r.key = k})
        history  == [k \in Keys |-> SubSeq(s.history[k], count(k) + 1, Len(s.history[k]))]
    IN  [s EXCEPT !.log = @ \ old,
                  !.history = history,
                  !.histIndex = @ \ {r.key : r \in {r \in old : history[r.key] = <<>>}}]

Pin(s) == LET d == Drain(s) IN [d EXCEPT !.pins[d.seq] = @ + 1]

\* Mutants of Unpin: nothing is trimmed.
UnpinKeeps(s, t) == Drain(Release(s, t))

Unpin(s, t) == Trim(Drain(Release(s, t)))

UnpinLater(s, t) == [s EXCEPT !.deferred = Append(@, t)]

\* The first version recorded after seq: what a commit after it overwrote.
VersionAt(s, k, seq) ==
    LET later == {i \in 1 .. Len(s.history[k]) : s.history[k][i].seq > seq}
        first == CHOOSE i \in later : \A j \in later : i <= j
    IN  IF later = {} THEN Live ELSE s.history[k][first].old

GetAt(s, k, seq) ==
    LET v == VersionAt(s, k, seq) IN IF v = Live THEN s.live[k] ELSE v

-----------------------------------------------------------------------------
(* Commit.                                                                 *)

\* Keys whose staged op changes the store: a delete of an absent key does not.
Effective(s, ops) == {k \in Keys : ops[k] # None /\ ~(ops[k] = Deleted /\ s.live[k] = Absent)}

\* Mutants of Records: a key with a version of any age is taken as recorded.
RecordsFirst(s, k) == Pinned(s) # {} /\ s.history[k] = <<>>

\* The newest pin still reads the key live, so this commit must record what it overwrites.
Records(s, k) ==
    /\ Pinned(s) # {}
    /\ \/ s.history[k] = <<>>
       \/ \E q \in Pinned(s) : s.history[k][Len(s.history[k])].seq <= q

\* The loop of apply, once it has handled the keys in changed and recorded versions
\* for those in recorded: the keys of a write set are distinct, so their order is
\* immaterial.
Apply(s, ops, changed, recorded) ==
    [s EXCEPT
        !.live  = [k \in Keys |-> IF k \notin changed THEN @[k]
                                  ELSE IF ops[k] = Deleted THEN Absent ELSE ops[k]],
        !.index = (@ \ {k \in changed : ops[k] = Deleted})
                     \cup {k \in changed : ops[k] # Deleted},
        !.history = [k \in Keys |->
            IF k \in recorded THEN Append(@[k], [seq |-> s.seq + 1, old |-> s.live[k]])
            ELSE @[k]],
        !.histIndex = @ \cup recorded,
        !.log = @ \cup [seq : {s.seq + 1}, key : recorded]]

\* Mutants of Undo: a key stays in the history index with its last version gone.
UndoKeepsIndex(s, was, changed, recorded) ==
    [s EXCEPT
        !.live  = [k \in Keys |-> IF k \in changed THEN was[k] ELSE @[k]],
        !.index = (@ \ {k \in changed : was[k] = Absent})
                     \cup {k \in changed : was[k] # Absent},
        !.history = [k \in Keys |->
            IF k \in recorded THEN SubSeq(@[k], 1, Len(@[k]) - 1) ELSE @[k]],
        !.log = {r \in @ : ~(r.seq = s.seq + 1 /\ r.key \in recorded)}]

\* _undo: entries put back, and the records of this commit dropped from the end.
Undo(s, was, changed, recorded) ==
    [s EXCEPT
        !.live  = [k \in Keys |-> IF k \in changed THEN was[k] ELSE @[k]],
        !.index = (@ \ {k \in changed : was[k] = Absent})
                     \cup {k \in changed : was[k] # Absent},
        !.history = [k \in Keys |->
            IF k \in recorded THEN SubSeq(@[k], 1, Len(@[k]) - 1) ELSE @[k]],
        !.histIndex = @ \ {k \in recorded : Len(s.history[k]) = 1},
        !.log = {r \in @ : ~(r.seq = s.seq + 1 /\ r.key \in recorded)}]

\* Deferred releases are applied before a commit looks at the pins.
Drained(s) == IF s.deferred = <<>> THEN s ELSE Trim(Drain(s))

Committed(s, ops) ==
    LET d == Drained(s)
        changed == Effective(d, ops)
    IN  [Apply(d, ops, changed, {k \in changed : Records(d, k)}) EXCEPT !.seq = @ + 1]

\* The commit raised at key f: the index refused the key (nothing changed yet), or
\* the history index did (the entry had changed and no version was recorded).
RolledBack(s, ops, before, f, entryChanged) ==
    LET d == Drained(s)
        changed  == Effective(d, ops) \cap before
        recorded == {k \in changed : Records(d, k)}
        done     == IF entryChanged THEN changed \cup {f} ELSE changed
    IN  Undo(Apply(d, ops, done, recorded), d.live, done, recorded)

-----------------------------------------------------------------------------
(* Snapshots.                                                              *)

OpenSnapshot(r) ==
    /\ token[r] = None
    /\ st' = Pin(st)
    /\ token' = [token EXCEPT ![r] = [gen |-> st.gen, seq |-> st.seq]]
    /\ UNCHANGED txn

CloseSnapshot(r) ==
    /\ token[r] # None
    /\ st' = Unpin(st, token[r])
    /\ token' = [token EXCEPT ![r] = None]
    /\ UNCHANGED txn

\* The finalizer of a dropped snapshot.
DropSnapshot(r) ==
    /\ token[r] # None
    /\ st' = UnpinLater(st, token[r])
    /\ token' = [token EXCEPT ![r] = None]
    /\ UNCHANGED txn

-----------------------------------------------------------------------------
(* The write transaction.                                                  *)

Staged(pending) == {k \in Keys : pending[k] # None}

BeginTxn ==
    /\ txn = None
    /\ txn' = [gen |-> st.gen, pending |-> [k \in Keys |-> None]]
    /\ UNCHANGED <<st, token>>

Stage(k, v) ==
    /\ txn # None
    /\ txn' = [txn EXCEPT !.pending[k] = v]
    /\ UNCHANGED <<st, token>>

EndTxn == txn' = None /\ UNCHANGED token

Commit ==
    /\ txn # None
    /\ txn.gen = st.gen
    /\ st.seq < MaxSeq
    /\ st' = IF Staged(txn.pending) = {} THEN st ELSE Committed(st, txn.pending)
    /\ EndTxn

\* A key of the write set cannot be ordered against those of an index.
CommitFails(f, entryChanged) ==
    /\ txn # None
    /\ txn.gen = st.gen
    /\ st.seq < MaxSeq
    /\ LET d == Drained(st) IN
        /\ f \in Effective(d, txn.pending)
        /\ IF entryChanged THEN Pinned(d) # {} /\ d.history[f] = <<>>
           ELSE txn.pending[f] # Deleted /\ d.live[f] = Absent
    /\ \E before \in SUBSET (Staged(txn.pending) \ {f}) :
          st' = RolledBack(st, txn.pending, before, f, entryChanged)
    /\ EndTxn

\* The storage was closed since this write began: StorageClosedError, nothing changes.
CommitStale ==
    /\ txn # None
    /\ txn.gen # st.gen
    /\ UNCHANGED st
    /\ EndTxn

Abort ==
    /\ txn # None
    /\ UNCHANGED st
    /\ EndTxn

\* A pin taken before may still be released after.
Reset ==
    /\ st.gen < MaxGen
    /\ st' = EmptyStore(st.gen + 1)
    /\ UNCHANGED <<token, txn>>

-----------------------------------------------------------------------------

SnapshotStep(r) == OpenSnapshot(r) \/ CloseSnapshot(r) \/ DropSnapshot(r)

TxnStep ==
    \/ BeginTxn \/ Commit \/ CommitStale \/ Abort
    \/ \E k \in Keys, v \in Values \cup {Deleted} : Stage(k, v)
    \/ \E f \in Keys, entryChanged \in BOOLEAN : CommitFails(f, entryChanged)

Next == Reset \/ TxnStep \/ \E r \in Readers : SnapshotStep(r)

Spec == Init /\ [][Next]_vars

-----------------------------------------------------------------------------
(* Properties.                                                             *)

\* What reader r's snapshot reads, key by key.
ReadAll(r) ==
    IF token[r] = None \/ token[r].gen # st.gen THEN None
    ELSE [k \in Keys |-> GetAt(st, k, token[r].seq)]

Abstract == INSTANCE SnapshotStore WITH
    db <- st.live,
    view <- [r \in Readers |-> ReadAll(r)],
    write <- IF txn = None \/ txn.gen # st.gen THEN None ELSE txn.pending

\* Snapshots are copies: whatever is committed, rolled back half way, trimmed for a
\* snapshot that closed or was collected, or released late across a reset, an open
\* snapshot reads the committed state it opened on, all of it; a commit applies its
\* whole write set, and one that raised half way nothing (contract: atomic, never
\* torn, bound at open).
SnapshotsAreCopies == Abstract!Spec

\* Versions do not outlive their readers: once no snapshot is open and no collected
\* one waits to be released, no version is retained. A pin released twice, or never,
\* would either free versions still read or keep every later version for ever.
NothingRetained ==
    Pinned(st) = {} /\ st.deferred = <<>> =>
        st.log = {} /\ st.histIndex = {} /\ \A k \in Keys : st.history[k] = <<>>

\* The indexes scans walk name exactly the keys that are live and those with versions,
\* and the log trimming goes by names exactly the versions: also after a commit that
\* failed half way.
IndexesAgree ==
    /\ st.index = {k \in Keys : st.live[k] # Absent}
    /\ st.histIndex = {k \in Keys : st.history[k] # <<>>}
    /\ st.log = UNION {{[seq |-> st.history[k][i].seq, key |-> k] :
                          i \in 1 .. Len(st.history[k])} : k \in Keys}
=============================================================================
