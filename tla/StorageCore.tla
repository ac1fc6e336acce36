----------------------------- MODULE StorageCore ----------------------------
(* What the in-memory, SQLite and RocksDB storages share: threads that each   *)
(* use one context, the thread that opens and closes the storage, and the     *)
(* writer slot as the contexts see it (WriterSlot has its inside).            *)
EXTENDS Naturals, FiniteSets

CONSTANTS
    Contexts,    \* one context each, used by a thread of its own
    Plans,       \* what kind of context each thread may begin
    NoOne,
    MaxOpens,    \* bound: times the storage is opened
    MaxElsewhere \* bound: commits of another process

\* A transaction, a slot reserved to begin one on, a snapshot, and a batch of writes.
Kinds == {"txn", "reserving", "snapshot", "batch"}

ASSUME CoreAssumption ==
    IsFiniteSet(Contexts) /\ NoOne \notin Contexts /\ Plans \subseteq [Contexts -> Kinds]

VARIABLES
    opened,      \* the storage: _opened, the registered contexts, the commits in it,
    active,      \*   and its life: what a reopen, or a reset of the data, moves on
    db,
    life,
    lock,        \* the writer slot: the lock that is current, by number, and its holder
    holder,
    ctx,         \* the contexts, each with where its thread is
    owner,       \* the thread that opens and closes
    child        \* whether this process was forked from the one modelled so far

\* The record of a thread before it begins its context.
Fresh(kind) ==
    [kind |-> kind, pc |-> "idle", closed |-> FALSE, state |-> "none", lock |-> 0,
     life |-> 0, base |-> 0, answer |-> 0, token |-> 0]

CoreInit ==
    /\ opened = FALSE /\ active = {} /\ db = 0 /\ life = 0
    /\ lock = 1 /\ holder = NoOne
    /\ ctx \in {[c \in Contexts |-> Fresh(plan[c])] : plan \in Plans}
    /\ owner = [pc |-> "idle", opens |-> 0, toEnd |-> {}]
    /\ child = FALSE

At(c, pc) == ctx[c].pc = pc

Writes(c) == ctx[c].kind # "snapshot"

Goto(c, pc) == ctx' = [ctx EXCEPT ![c].pc = pc]

\* The record of c once it has begun on the data as it is now.
Began(c, pc) ==
    [ctx[c] EXCEPT !.pc = pc, !.state = "active", !.life = life, !.base = db]

\* The state of a context that ends here, if it had begun and no commit decided it.
Over(c) == IF ctx[c].state = "active" THEN "aborted" ELSE ctx[c].state

\* WriterLock.release: nothing is released once the lock is not the current one.
Released(c) == IF ctx[c].lock = lock /\ holder = c THEN NoOne ELSE holder

-----------------------------------------------------------------------------
(* The wait for the writer slot.                                            *)

Ask(c) ==
    /\ At(c, "take")
    /\ ctx' = [ctx EXCEPT ![c] = [@ EXCEPT !.pc = "wait", !.lock = lock]]
    /\ UNCHANGED holder

Granted(c) == At(c, "wait") /\ ctx[c].lock = lock /\ holder = NoOne /\ holder' = c

\* The wait ends in a timeout, or in StorageClosedError when close replaced the lock.
Denied(c) ==
    /\ At(c, "wait")
    /\ ctx[c].lock # lock \/ holder # NoOne
    /\ ctx' = [ctx EXCEPT ![c] = [@ EXCEPT !.pc = "done", !.closed = TRUE, !.state = Over(c)]]
    /\ UNCHANGED holder

Replaced == lock' = lock + 1 /\ holder' = NoOne
-----------------------------------------------------------------------------
(* The opener, and what a forked child inherits.                            *)

MayOpen == owner.pc = "idle" /\ ~opened /\ owner.opens < MaxOpens

\* Threads do not survive a fork: only the forking one, here the opener, is in the child.
Survives(c) == IF ctx[c].pc \in {"idle", "done"} THEN ctx[c].pc ELSE "gone"

MayFork == ~child /\ owner.pc = "idle"

\* Every call has returned, and every context was ended or dropped.
Quiet == owner.pc = "idle" /\ \A c \in Contexts : ctx[c].pc \in {"idle", "done", "gone"}
=============================================================================
