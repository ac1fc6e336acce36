---------------------------- MODULE SqliteStorage ---------------------------
(* The SQLite storage: a pool of connections, a file lock shared with other   *)
(* processes, and contexts begun, used and ended while another thread closes  *)
(* and reopens the storage, or forks. life moves on as close replaces the     *)
(* slot.                                                                      *)
EXTENDS StorageCore

CONSTANT MaxIdle    \* connections the pool keeps

VARIABLES
    idle,        \* the pool: how many connections wait in it
    conns,       \* the contexts, threads or slots that have a connection in hand
    open,        \* how many connections of this process are open
    file,        \* who holds the file's write lock
    reserved,    \* _reserved_slots
    pid,         \* whose process id _pid is: "own", the "parent"'s, or "taken" from the parent's
                 \*   by an open that did not look
    inherited,   \* in a child: whose connections are the parent's
    poisoned,    \* in a child: whether writes are refused
    touched,     \* history: whether the child used or freed a connection of the parent
    elsewhere    \* bound: commits of other processes

poolVars == <<idle, conns, open, file>>
forkVars == <<pid, inherited, poisoned, touched>>
sqliteVars == <<opened, active, db, life, lock, holder, ctx, owner, child, poolVars, reserved,
                forkVars, elsewhere>>

Init ==
    /\ CoreInit
    /\ idle = 0 /\ conns = {} /\ open = 0 /\ file = NoOne
    /\ reserved = {} /\ pid = "own" /\ inherited = {} /\ poisoned = FALSE /\ touched = FALSE
    /\ elsewhere = 0

-----------------------------------------------------------------------------
(* Connections.                                                             *)

\* _acquire_connection: a pooled one, or a new one.
Acquire(c) ==
    /\ conns' = conns \cup {c}
    /\ IF idle > 0 THEN idle' = idle - 1 /\ UNCHANGED open ELSE open' = open + 1 /\ UNCHANGED idle

\* Mutant: a connection goes back to the pool of a storage that is closed.
GiveConn_Pools(c) ==
    /\ conns' = conns \ {c}
    /\ IF c \notin conns THEN UNCHANGED <<idle, open>>
       ELSE IF idle < MaxIdle THEN idle' = idle + 1 /\ UNCHANGED open
       ELSE open' = open - 1 /\ UNCHANGED idle
    /\ file' = IF file = c THEN NoOne ELSE file
    /\ touched' = (touched \/ (c \in conns /\ c \in inherited))

\* _release_connection: rolled back, then pooled if the storage is open and has room. No
\* statement may run on a connection the parent of a fork left behind.
GiveConn(c) ==
    /\ conns' = conns \ {c}
    /\ IF c \notin conns THEN UNCHANGED <<idle, open>>
       ELSE IF opened /\ idle < MaxIdle THEN idle' = idle + 1 /\ UNCHANGED open
       ELSE open' = open - 1 /\ UNCHANGED idle
    /\ file' = IF file = c THEN NoOne ELSE file
    /\ touched' = (touched \/ (c \in conns /\ c \in inherited))

\* A finalizer closes the connection outright.
DropConn(c) ==
    /\ conns' = conns \ {c}
    /\ open' = IF c \in conns THEN open - 1 ELSE open
    /\ file' = IF file = c THEN NoOne ELSE file
    /\ touched' = (touched \/ (c \in conns /\ c \in inherited))
    /\ UNCHANGED idle

KeepConns == UNCHANGED <<poolVars, touched>>

KeepOthers == UNCHANGED <<pid, inherited, poisoned, elsewhere>>

\* token = 1: the transaction was begun on a reserved slot.
FromSlot(c) == ctx[c].token = 1

\* The end of a call that holds neither a connection nor the slot.
Done(c) == [ctx[c] EXCEPT !.pc = "done", !.closed = TRUE, !.state = Over(c)]

-----------------------------------------------------------------------------
(* Beginning a context.                                                     *)

\* _require_open, and the refusal of writes in a child of a parent that was writing.
Call(c) ==
    /\ At(c, "idle")
    /\ Goto(c, IF ~opened \/ (poisoned /\ Writes(c)) THEN "done"
               ELSE CASE ctx[c].kind = "snapshot" -> "connect"
                      [] ctx[c].kind = "batch" -> "register"
                      [] OTHER -> "take")
    /\ UNCHANGED <<opened, active, db, life, lock, holder, owner, child, reserved>>
    /\ KeepConns /\ KeepOthers

TakeSlot(c) ==
    /\ \/ Ask(c)
       \/ Granted(c) /\ Goto(c, "connect")
    /\ UNCHANGED <<opened, active, db, life, lock, owner, child, reserved>>
    /\ KeepConns /\ KeepOthers

GiveUp(c) ==
    /\ Denied(c)
    /\ active' = active \ {c}
    /\ UNCHANGED <<opened, db, life, lock, owner, child, reserved>>
    /\ KeepConns /\ KeepOthers

Connect(c) ==
    /\ At(c, "connect")
    /\ Goto(c, "begin")
    /\ Acquire(c)
    /\ UNCHANGED <<opened, active, db, life, lock, holder, owner, child, reserved, file, touched>>
    /\ KeepOthers

\* BEGIN and a first read for a snapshot; BEGIN IMMEDIATE, which waits for the file lock.
BeginOn(c) ==
    /\ At(c, "begin")
    /\ IF Writes(c) THEN file = NoOne /\ file' = c ELSE UNCHANGED file
    /\ LET pc == IF ctx[c].kind \in {"txn", "batch"} THEN "recheck" ELSE "register"
       IN  ctx' = [ctx EXCEPT ![c] = IF ctx[c].state = "none" THEN Began(c, pc)
                                     ELSE [ctx[c] EXCEPT !.pc = pc]]
    /\ UNCHANGED <<opened, active, db, life, lock, holder, owner, child, reserved,
                   idle, conns, open, touched>>
    /\ KeepOthers

\* No connection is to be had, or BEGIN fails, for a busy file lock or otherwise: the
\* connection goes back, and so does the slot, to the holder of the reservation if any.
BeginFails(c) ==
    /\ ctx[c].pc \in {"connect", "begin"}
    /\ IF FromSlot(c) /\ ctx[c].lock = lock
       THEN /\ ctx' = [ctx EXCEPT ![c] = [@ EXCEPT !.pc = "reserved", !.kind = "reserving"]]
            /\ UNCHANGED holder
       ELSE /\ ctx' = [ctx EXCEPT ![c] = Done(c)]
            /\ holder' = Released(c)
    /\ active' = active \ {c}
    /\ GiveConn(c)
    /\ UNCHANGED <<opened, db, life, lock, owner, child, reserved>>
    /\ KeepOthers

\* A close while BEGIN IMMEDIATE waited released the slot on this caller's behalf.
Recheck(c) ==
    /\ At(c, "recheck")
    /\ IF ctx[c].lock = lock
       THEN /\ Goto(c, IF ctx[c].kind = "batch" THEN "apply" ELSE "register")
            /\ KeepConns
            /\ UNCHANGED active
       ELSE /\ ctx' = [ctx EXCEPT ![c] = Done(c)]
            /\ GiveConn(c)
            /\ active' = active \ {c}
    /\ UNCHANGED <<opened, db, life, lock, holder, owner, child, reserved>>
    /\ KeepOthers

\* Registered under the state lock if the storage is open, and for writers if the slot
\* taken is still the slot; otherwise ended.
RegisterBegun(c) ==
    /\ At(c, "register") /\ ctx[c].kind # "batch"
    /\ IF opened /\ (Writes(c) => ctx[c].lock = lock)
       THEN /\ IF ctx[c].kind = "reserving"
               THEN Goto(c, "reserved") /\ reserved' = reserved \cup {c} /\ UNCHANGED active
               ELSE Goto(c, "use") /\ active' = active \cup {c} /\ UNCHANGED reserved
            /\ UNCHANGED holder
            /\ KeepConns
       ELSE /\ ctx' = [ctx EXCEPT ![c] = Done(c)]
            /\ holder' = Released(c)
            /\ GiveConn(c)
            /\ UNCHANGED <<active, reserved>>
    /\ UNCHANGED <<opened, db, life, lock, owner, child>>
    /\ KeepOthers

\* A batch registers without another look, and takes no lock.
RegisterBatch(c) ==
    /\ At(c, "register") /\ ctx[c].kind = "batch"
    /\ Goto(c, "use")
    /\ active' = active \cup {c}
    /\ UNCHANGED <<opened, db, life, lock, holder, owner, child, reserved>>
    /\ KeepConns /\ KeepOthers

\* begin_transaction(write_slot=...): a slot from before a close is refused, and its
\* connection goes back.
TakeOver(c) ==
    /\ At(c, "reserved") /\ opened
    /\ IF ctx[c].lock = lock
       THEN Goto(c, "detach") /\ KeepConns
       ELSE ctx' = [ctx EXCEPT ![c] = Done(c)] /\ GiveConn(c)
    /\ UNCHANGED <<opened, active, db, life, lock, holder, owner, child, reserved>>
    /\ KeepOthers

\* The connection comes with the slot, unless a close took it back meanwhile: then the
\* transaction begins on one of its own, as without a reservation.
Detach(c) ==
    /\ At(c, "detach")
    /\ ctx' = [ctx EXCEPT ![c] = [@ EXCEPT !.kind = "txn", !.token = 1,
                                           !.pc = IF c \in conns THEN "register" ELSE "connect"]]
    /\ UNCHANGED <<opened, active, db, life, lock, holder, owner, child, reserved>>
    /\ KeepConns /\ KeepOthers

ReleaseSlot(c) ==
    /\ At(c, "reserved")
    /\ ctx' = [ctx EXCEPT ![c] = Done(c)]
    /\ holder' = Released(c)
    /\ GiveConn(c)
    /\ UNCHANGED <<opened, active, db, life, lock, owner, child, reserved>>
    /\ KeepOthers

\* _reserved_slots is a weak set: a slot leaves it when nobody refers to it any more.
Collected(c) ==
    /\ c \in reserved /\ ctx[c].pc \notin {"reserved", "detach"}
    /\ reserved' = reserved \ {c}
    /\ UNCHANGED <<opened, active, db, life, lock, holder, ctx, owner, child>>
    /\ KeepConns /\ KeepOthers

-----------------------------------------------------------------------------
(* Using and ending it. Statements, and the end of the context, run under the *)
(* lock of the context.                                                     *)

Read(c) ==
    /\ At(c, "use") /\ ctx[c].kind # "batch" /\ ~ctx[c].closed /\ c \in conns
    /\ ctx' = [ctx EXCEPT ![c].answer = ctx[c].base]
    /\ touched' = (touched \/ c \in inherited)
    /\ UNCHANGED <<opened, active, db, life, lock, holder, owner, child, reserved, poolVars>>
    /\ KeepOthers

\* write of a batch: the slot and the file lock are waited for outside the context's lock.
Write(c) ==
    /\ At(c, "use") /\ ctx[c].kind = "batch"
    /\ Goto(c, IF ctx[c].closed THEN "done" ELSE "take")
    /\ UNCHANGED <<opened, active, db, life, lock, holder, owner, child, reserved>>
    /\ KeepConns /\ KeepOthers

\* COMMIT ends the context; a write or a COMMIT that fails ends it rolled back.
Committed(c) ==
    /\ db' = db + 1
    /\ ctx' = [ctx EXCEPT ![c] = [@ EXCEPT !.pc = "done", !.closed = TRUE, !.state = "committed"]]

Failed(c) == ctx' = [ctx EXCEPT ![c] = Done(c)] /\ UNCHANGED db

\* _end: only the call that finds the connection ends the context, and the connection and
\* the slot go back once. A commit that finds none was overtaken by close.
Commit(c) ==
    /\ At(c, "use") /\ ctx[c].kind = "txn"
    /\ IF ctx[c].closed \/ c \notin conns
       THEN Goto(c, "done") /\ UNCHANGED <<db, holder>> /\ KeepConns
       ELSE /\ Committed(c) \/ Failed(c)
            /\ holder' = Released(c)
            /\ GiveConn(c)
    /\ active' = active \ {c}
    /\ UNCHANGED <<opened, life, lock, owner, child, reserved>>
    /\ KeepOthers

\* The batch is applied and committed in one go, unless close ended it, or the storage.
ApplyBatch(c) ==
    /\ At(c, "apply")
    /\ (~ctx[c].closed /\ opened /\ Committed(c)) \/ Failed(c)
    /\ holder' = Released(c)
    /\ active' = active \ {c}
    /\ GiveConn(c)
    /\ UNCHANGED <<opened, life, lock, owner, child, reserved>>
    /\ KeepOthers

\* abort, and close of a snapshot. A batch that is being written has no connection yet:
\* the end only marks it closed.
EndContext(c, pc) ==
    /\ ctx' = [ctx EXCEPT ![c] = [@ EXCEPT !.pc = pc, !.closed = TRUE,
                                           !.state = IF ctx[c].closed THEN ctx[c].state ELSE Over(c)]]
    /\ IF ctx[c].closed \/ ctx[c].kind = "batch"
       THEN UNCHANGED holder /\ KeepConns
       ELSE holder' = Released(c) /\ GiveConn(c)

Abort(c) ==
    /\ At(c, "use")
    /\ EndContext(c, "done")
    /\ active' = active \ {c}
    /\ UNCHANGED <<opened, db, life, lock, owner, child, reserved>>
    /\ KeepOthers

\* The finalizers close the connection outright and release the slot by identity.
Drop(c) ==
    /\ ctx[c].pc \in {"use", "reserved"} /\ ctx[c].kind # "batch"
    /\ ctx' = [ctx EXCEPT ![c] = Done(c)]
    /\ holder' = Released(c)
    /\ active' = active \ {c}
    /\ reserved' = reserved \ {c}
    /\ DropConn(c)
    /\ UNCHANGED <<opened, db, life, lock, owner, child>>
    /\ KeepOthers

-----------------------------------------------------------------------------
(* open, close, other processes, and a fork.                                *)

\* _pid is this process's from here on, whether or not the parent's state was dropped.
Open ==
    /\ MayOpen
    /\ opened' = TRUE
    /\ idle' = idle + 1 /\ open' = open + 1
    /\ pid' = IF pid = "parent" THEN "taken" ELSE pid
    /\ owner' = [owner EXCEPT !.opens = @ + 1]
    /\ UNCHANGED <<active, db, life, lock, holder, ctx, child, conns, file, reserved, inherited,
                   poisoned, touched, elsewhere>>

\* One locked section: closed from here on; the contexts, the reserved slots and the idle
\* connections are collected.
Close ==
    /\ owner.pc = "idle" /\ opened
    /\ opened' = FALSE
    /\ owner' = [owner EXCEPT !.pc = "closing", !.toEnd = active \cup {c \in reserved : ctx[c].kind = "reserving"}]
    /\ active' = {} /\ reserved' = {}
    /\ idle' = 0 /\ open' = open - idle
    /\ UNCHANGED <<db, life, lock, holder, ctx, child, conns, file, forkVars, elsewhere>>

\* A reserved slot keeps its in-process lock; only its connection goes, unless it has gone
\* to the transaction that is being begun.
CloseContext(c) ==
    /\ owner.pc = "closing" /\ c \in owner.toEnd
    /\ \/ /\ ctx[c].kind = "reserving"
          /\ ctx' = [ctx EXCEPT ![c].state = IF c \in conns THEN Over(c) ELSE @]
          /\ GiveConn(c)
          /\ UNCHANGED holder
       \/ /\ ctx[c].kind # "reserving" /\ At(c, "register")
          /\ UNCHANGED <<ctx, holder>> /\ KeepConns
       \/ /\ ctx[c].kind # "reserving" /\ ~At(c, "register")
          /\ EndContext(c, ctx[c].pc)
    /\ owner' = [owner EXCEPT !.toEnd = @ \ {c}]
    /\ UNCHANGED <<opened, active, db, life, lock, child, reserved>>
    /\ KeepOthers

ReplaceSlot ==
    /\ owner.pc = "closing" /\ owner.toEnd = {}
    /\ Replaced /\ life' = life + 1
    /\ owner' = [owner EXCEPT !.pc = "idle"]
    /\ UNCHANGED <<opened, active, db, ctx, child, reserved, elsewhere, poolVars, forkVars>>

\* Another process writes, while it holds the file lock.
Elsewhere ==
    /\ file = NoOne /\ elsewhere < MaxElsewhere
    /\ elsewhere' = elsewhere + 1
    /\ db' = db + 1
    /\ UNCHANGED <<opened, active, life, lock, holder, ctx, owner, child, reserved, poolVars, forkVars>>

\* What _check_fork drops: the contexts are marked ended without a statement, the idle
\* connections are parked, the slot is replaced, and writes are refused if one was under way.
Forget ==
    /\ ctx' = [c \in Contexts |->
                 [ctx[c] EXCEPT !.pc = Survives(c), !.closed = @ \/ c \in active,
                                !.state = IF c \in active THEN Over(c) ELSE @]]
    /\ active' = {} /\ reserved' = {}
    /\ poisoned' = (holder # NoOne \/ reserved # {} \/ \E c \in active : ctx[c].kind = "txn")
    /\ idle' = 0 /\ open' = open - idle
    /\ Replaced

\* Mutant: the contexts the parent had open stay registered in the child.
Fork_KeepsContexts ==
    /\ MayFork
    /\ child' = TRUE
    /\ ctx' = [c \in Contexts |-> [ctx[c] EXCEPT !.pc = Survives(c)]]
    /\ inherited' = conns
    /\ poisoned' = (holder # NoOne \/ reserved # {} \/ \E c \in active : ctx[c].kind = "txn")
    /\ idle' = 0 /\ open' = open - idle
    /\ Replaced
    /\ UNCHANGED <<opened, active, db, life, owner, conns, file, reserved, pid, touched, elsewhere>>

\* The fork hook of the child visits the open storages. A closed one keeps the parent's
\* state, with the slot that a begin astride the close may hold.
Fork ==
    /\ MayFork
    /\ child' = TRUE
    /\ inherited' = conns
    /\ IF opened
       THEN Forget /\ UNCHANGED pid
       ELSE /\ pid' = "parent"
            /\ ctx' = [c \in Contexts |-> [ctx[c] EXCEPT !.pc = Survives(c)]]
            /\ UNCHANGED <<active, reserved, poisoned, idle, open, lock, holder>>
    /\ UNCHANGED <<opened, db, life, owner, conns, file, touched, elsewhere>>

\* close of a storage the hook did not visit: _check_fork, and nothing else. Begins find it
\* closed before they look.
CheckFork ==
    /\ owner.pc = "idle" /\ pid = "parent"
    /\ Forget
    /\ pid' = "own"
    /\ UNCHANGED <<opened, db, life, owner, child, conns, file, inherited, touched, elsewhere>>

Next ==
    \/ \E c \in Contexts :
          \/ Call(c) \/ TakeSlot(c) \/ GiveUp(c) \/ Connect(c) \/ BeginOn(c) \/ BeginFails(c)
          \/ Recheck(c) \/ RegisterBegun(c) \/ RegisterBatch(c) \/ TakeOver(c) \/ Detach(c)
          \/ ReleaseSlot(c) \/ Collected(c) \/ Read(c) \/ Write(c) \/ Commit(c) \/ ApplyBatch(c)
          \/ Abort(c) \/ Drop(c) \/ CloseContext(c)
    \/ Open \/ Close \/ ReplaceSlot \/ Elsewhere \/ Fork \/ CheckFork
=============================================================================
