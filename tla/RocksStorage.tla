---------------------------- MODULE RocksStorage ----------------------------
(* The RocksDB storage: a native database whose close waits for calls on it,  *)
(* write transactions under the writer slot, and the read-only secondary,     *)
(* whose snapshots lose their view when it catches up with the primary. life  *)
(* moves on with every open; db is what this process sees of the data.        *)
EXTENDS StorageCore

CONSTANT Modes    \* "primary", "secondary"

VARIABLES
    mode,
    native,       \* the native database: which open it is of, or 0 once closed
    closing,      \* _closing
    foreign,      \* _pid is not this process's: the database is the parent's
    epoch,        \* _secondary_epoch
    catching,     \* the thread that holds the state lock while the secondary catches up,
    moved,        \*   and whether the data have moved and the views are not yet retired
    elsewhere,    \* bound: commits of the primary the secondary has seen
    astray        \* history: writers on a database opened after their slot was replaced

nativeVars == <<native, closing, foreign>>
replicaVars == <<mode, epoch, catching, moved, elsewhere>>
rocksVars == <<opened, active, db, life, lock, holder, ctx, owner, child,
               nativeVars, replicaVars, astray>>

Init ==
    /\ CoreInit
    /\ mode \in Modes
    /\ native = 0 /\ closing = FALSE /\ foreign = FALSE
    /\ epoch = 0 /\ catching = NoOne /\ moved = FALSE /\ elsewhere = 0
    /\ astray = {}

IsOpen == opened /\ native # 0 /\ ~closing /\ ~foreign

\* The state lock is free: no secondary is catching up under it.
StateLockFree == catching = NoOne

-----------------------------------------------------------------------------
(* Beginning a context.                                                     *)

\* A secondary is read only.
Call(c) ==
    /\ At(c, "idle")
    /\ ctx' = [ctx EXCEPT
                ![c] = [@ EXCEPT !.token = native,
                                 !.pc = IF ~IsOpen \/ (mode = "secondary" /\ Writes(c)) THEN "done"
                                        ELSE CASE ctx[c].kind = "snapshot" -> "begin"
                                               [] ctx[c].kind = "batch" -> "register"
                                               [] OTHER -> "take"]]
    /\ UNCHANGED <<opened, active, db, life, lock, holder, owner, child, nativeVars, replicaVars,
                   astray>>

\* A batch that got the slot looks once more whether the storage is open.
TakeSlot(c) ==
    /\ \/ Ask(c)
       \/ /\ Granted(c)
          /\ ctx' = [ctx EXCEPT ![c].pc = CASE ctx[c].kind = "txn" -> "begin"
                                            [] ctx[c].kind = "batch" -> "recheck"
                                            [] OTHER -> "reserved"]
    /\ UNCHANGED <<opened, active, db, life, lock, owner, child, nativeVars, replicaVars, astray>>

GiveUp(c) ==
    /\ Denied(c)
    /\ active' = active \ {c}
    /\ UNCHANGED <<opened, db, life, lock, owner, child, nativeVars, replicaVars, astray>>

TakeOver(c) ==
    /\ At(c, "reserved")
    /\ IsOpen /\ ctx[c].lock = lock
    /\ Goto(c, "begin")
    /\ UNCHANGED <<opened, active, db, life, lock, holder, owner, child, nativeVars, replicaVars,
                   astray>>

ReleaseSlot(c) ==
    /\ At(c, "reserved")
    /\ Goto(c, "done")
    /\ holder' = Released(c)
    /\ UNCHANGED <<opened, active, db, life, lock, owner, child, nativeVars, replicaVars, astray>>

\* The native transaction, on whatever database is open by now; a closed one refuses, and
\* the slot goes back, to the holder of the reservation if any.
BeginTxn(c) ==
    /\ At(c, "begin") /\ Writes(c)
    /\ IF native # 0
       THEN /\ ctx' = [ctx EXCEPT ![c] = [Began(c, "register") EXCEPT !.token = native, !.kind = "txn"]]
            /\ astray' = IF ctx[c].lock # lock THEN astray \cup {c} ELSE astray
            /\ UNCHANGED holder
       ELSE /\ Goto(c, IF ctx[c].kind = "reserving" /\ ctx[c].lock = lock THEN "reserved" ELSE "done")
            /\ holder' = IF ctx[c].kind = "reserving" THEN holder ELSE Released(c)
            /\ UNCHANGED astray
    /\ UNCHANGED <<opened, active, db, life, lock, owner, child, nativeVars, replicaVars>>

\* A native snapshot of the database that was open at the call; then it is registered, or
\* closed.
BeginSnapshot(c) ==
    /\ At(c, "begin") /\ ctx[c].kind = "snapshot" /\ mode = "primary"
    /\ ctx' = [ctx EXCEPT ![c] = IF ctx[c].token = native THEN Began(c, "register")
                                 ELSE [ctx[c] EXCEPT !.pc = "done"]]
    /\ UNCHANGED <<opened, active, db, life, lock, holder, owner, child, nativeVars, replicaVars,
                   astray>>

\* Transactions and batches register without another look at the storage.
Register(c) ==
    /\ At(c, "register") /\ StateLockFree
    /\ IF ctx[c].kind = "snapshot" /\ ~(opened /\ ~closing)
       THEN /\ ctx' = [ctx EXCEPT ![c] = [@ EXCEPT !.pc = "done", !.closed = TRUE, !.state = Over(c)]]
            /\ UNCHANGED active
       ELSE /\ Goto(c, "use")
            /\ active' = active \cup {c}
    /\ UNCHANGED <<opened, db, life, lock, holder, owner, child, nativeVars, replicaVars, astray>>

-----------------------------------------------------------------------------
(* The secondary.                                                           *)

News == elsewhere < MaxElsewhere /\ elsewhere' = elsewhere + 1 /\ db' = db + 1

\* Under the state lock the data move, with or without news: for a begin, if that is due and
\* no snapshot is open, or if the secondary has fallen too far behind; for a read whose file
\* the primary compacted away. Views are read meanwhile: a read takes no state lock.
CatchUp(c) ==
    /\ mode = "secondary" /\ StateLockFree /\ IsOpen
    /\ At(c, "read") \/ (At(c, "begin") /\ ctx[c].kind = "snapshot")
    /\ News \/ UNCHANGED <<elsewhere, db>>
    /\ catching' = c /\ moved' = TRUE
    /\ UNCHANGED <<opened, active, life, lock, holder, ctx, owner, child, nativeVars, mode, epoch,
                   astray>>

\* Then every open snapshot loses its view, news or not. The begin goes on under the lock;
\* the read raises the retryable conflict.
Retire(c) ==
    /\ catching = c /\ moved
    /\ moved' = FALSE /\ epoch' = epoch + 1
    /\ catching' = IF At(c, "read") THEN NoOne ELSE c
    /\ ctx' = [x \in Contexts |->
                 [ctx[x] EXCEPT !.pc = IF x = c /\ At(c, "read") THEN "use" ELSE @,
                                !.state = IF ctx[x].kind = "snapshot" THEN Over(x) ELSE @]]
    /\ UNCHANGED <<opened, active, db, life, lock, holder, owner, child, nativeVars, mode,
                   elsewhere, astray>>

\* The catch-up fails, or finds the storage closed: no view is retired.
CatchUpFails(c) ==
    /\ mode = "secondary" /\ StateLockFree
    /\ At(c, "read") \/ (At(c, "begin") /\ ctx[c].kind = "snapshot")
    /\ Goto(c, IF At(c, "read") THEN "use" ELSE "done")
    /\ UNCHANGED <<opened, active, db, life, lock, holder, owner, child, nativeVars, replicaVars,
                   astray>>

BeginView(c) ==
    /\ At(c, "begin") /\ ctx[c].kind = "snapshot" /\ mode = "secondary"
    /\ catching \in {NoOne, c} /\ ~moved
    /\ IF IsOpen \/ catching = c
       THEN /\ ctx' = [ctx EXCEPT ![c] = [Began(c, "use") EXCEPT !.token = epoch]]
            /\ active' = active \cup {c}
       ELSE /\ Goto(c, "done")
            /\ UNCHANGED active
    /\ catching' = NoOne
    /\ UNCHANGED <<opened, db, life, lock, holder, owner, child, nativeVars, mode, epoch, moved,
                   elsewhere, astray>>

-----------------------------------------------------------------------------
(* Using and ending a context.                                              *)

\* Mutant: a view of an earlier epoch goes on reading.
CheckActive_AnyEpoch(c) ==
    /\ At(c, "use") /\ ctx[c].kind # "batch" /\ ~ctx[c].closed
    /\ Goto(c, "read")
    /\ UNCHANGED <<opened, active, db, life, lock, holder, owner, child, nativeVars, replicaVars,
                   astray>>

\* _require_active: closed, or a view of an earlier epoch, and the read raises.
CheckActive(c) ==
    /\ At(c, "use") /\ ctx[c].kind # "batch" /\ ~ctx[c].closed
    /\ mode = "secondary" => ctx[c].token = epoch
    /\ Goto(c, "read")
    /\ UNCHANGED <<opened, active, db, life, lock, holder, owner, child, nativeVars, replicaVars,
                   astray>>

\* The native read: at the snapshot of the context, or at the state of the secondary. On a
\* database that was closed it raises.
ReadRaw(c) ==
    /\ At(c, "read") /\ catching # c
    /\ ctx' = [ctx EXCEPT
                ![c] = [@ EXCEPT !.pc = "use",
                                 !.answer =
                            IF mode = "secondary" /\ ctx[c].life = life /\ native # 0 THEN db
                            ELSE IF ctx[c].token = native THEN ctx[c].base
                            ELSE ctx[c].answer]]
    /\ UNCHANGED <<opened, active, db, life, lock, holder, owner, child, nativeVars, replicaVars,
                   astray>>

\* _mark_closed: the slot is given back once, by identity.
Closed(c, pc, state) ==
    /\ ctx' = [ctx EXCEPT ![c] = [@ EXCEPT !.pc = pc, !.closed = TRUE, !.state = state]]
    /\ holder' = Released(c)

\* The native commit: refused on a database that was closed, or as a conflict.
Commit(c) ==
    /\ At(c, "use") /\ ctx[c].kind = "txn"
    /\ IF ctx[c].closed THEN Goto(c, "done") /\ UNCHANGED db
       ELSE \/ /\ ctx[c].token = native
               /\ db' = db + 1
               /\ ctx' = [ctx EXCEPT ![c] = [@ EXCEPT !.pc = "end", !.state = "committed"]]
            \/ /\ ctx' = [ctx EXCEPT ![c] = [@ EXCEPT !.pc = "end", !.state = Over(c)]]
               /\ UNCHANGED db
    /\ UNCHANGED <<opened, active, life, lock, holder, owner, child, nativeVars, replicaVars, astray>>

\* The bookkeeping of an end, which close may have done meanwhile.
MarkClosed(c) ==
    /\ At(c, "end") /\ StateLockFree
    /\ Closed(c, "done", ctx[c].state)
    /\ active' = active \ {c}
    /\ UNCHANGED <<opened, db, life, lock, owner, child, nativeVars, replicaVars, astray>>

\* write of a batch claims its end before it waits for the slot.
Write(c) ==
    /\ At(c, "use") /\ ctx[c].kind = "batch"
    /\ Goto(c, IF ctx[c].closed THEN "done" ELSE IF ~IsOpen THEN "use" ELSE "take")
    /\ UNCHANGED <<opened, active, db, life, lock, holder, owner, child, nativeVars, replicaVars,
                   astray>>

\* Under the slot, _require_open: this is the state the batch is written on.
RecheckBatch(c) ==
    /\ At(c, "recheck")
    /\ ctx' = [ctx EXCEPT ![c] = IF IsOpen THEN Began(c, "apply") ELSE [ctx[c] EXCEPT !.pc = "end"]]
    /\ astray' = IF IsOpen /\ ctx[c].lock # lock THEN astray \cup {c} ELSE astray
    /\ UNCHANGED <<opened, active, db, life, lock, holder, owner, child, nativeVars, replicaVars>>

\* The native write, on the database that is open by now.
ApplyBatch(c) ==
    /\ At(c, "apply")
    /\ \/ /\ native # 0
          /\ db' = db + 1
          /\ ctx' = [ctx EXCEPT ![c] = [@ EXCEPT !.pc = "end", !.state = "committed"]]
          /\ astray' = IF ctx[c].lock # lock THEN astray \cup {c} ELSE astray
       \/ /\ ctx' = [ctx EXCEPT ![c] = [@ EXCEPT !.pc = "end", !.state = Over(c)]]
          /\ UNCHANGED <<db, astray>>
    /\ UNCHANGED <<opened, active, life, lock, holder, owner, child, nativeVars, replicaVars>>

\* abort, close of a snapshot, and the finalizers.
Abort(c) ==
    /\ At(c, "use")
    /\ Closed(c, "done", IF ctx[c].closed THEN ctx[c].state ELSE Over(c))
    /\ active' = active \ {c}
    /\ UNCHANGED <<opened, db, life, lock, owner, child, nativeVars, replicaVars, astray>>

-----------------------------------------------------------------------------
(* open, close and fork.                                                    *)

Open ==
    /\ MayOpen
    /\ opened' = TRUE /\ foreign' = FALSE
    /\ native' = owner.opens + 1
    /\ owner' = [owner EXCEPT !.opens = @ + 1]
    /\ UNCHANGED <<active, db, life, lock, holder, ctx, child, closing, replicaVars, astray>>

\* New begins are refused from here on.
Close ==
    /\ owner.pc = "idle" /\ opened /\ ~foreign
    /\ closing' = TRUE
    /\ owner' = [owner EXCEPT !.pc = "closing"]
    /\ UNCHANGED <<opened, active, db, life, lock, holder, ctx, child, native, foreign,
                   replicaVars, astray>>

\* The native close lands between two native calls of other threads.
CloseDb ==
    /\ owner.pc = "closing"
    /\ native' = 0
    /\ owner' = [owner EXCEPT !.pc = "closed"]
    /\ UNCHANGED <<opened, active, db, life, lock, holder, ctx, child, closing, foreign,
                   replicaVars, astray>>

\* Calls in flight left no gap for the whole of busy_timeout: the storage stays open.
CloseFails ==
    /\ owner.pc = "closing"
    /\ \E c \in Contexts : ctx[c].pc \in {"begin", "use", "read", "apply"}
    /\ closing' = FALSE
    /\ owner' = [owner EXCEPT !.pc = "idle"]
    /\ UNCHANGED <<opened, active, db, life, lock, holder, ctx, child, native, foreign,
                   replicaVars, astray>>

Collect ==
    /\ owner.pc = "closed" /\ StateLockFree
    /\ owner' = [owner EXCEPT !.pc = "ending", !.toEnd = active]
    /\ active' = {}
    /\ opened' = FALSE /\ closing' = FALSE
    /\ UNCHANGED <<db, life, lock, holder, ctx, child, native, foreign, replicaVars, astray>>

\* The native state is gone: abort and close only mark the context ended.
CloseContext(c) ==
    /\ owner.pc = "ending" /\ c \in owner.toEnd
    /\ Closed(c, ctx[c].pc, IF ctx[c].closed THEN ctx[c].state ELSE Over(c))
    /\ owner' = [owner EXCEPT !.toEnd = @ \ {c}]
    /\ active' = active \ {c}
    /\ UNCHANGED <<opened, db, life, lock, child, nativeVars, replicaVars, astray>>

ReplaceSlot ==
    /\ owner.pc = "ending" /\ owner.toEnd = {}
    /\ Replaced /\ life' = life + 1
    /\ owner' = [owner EXCEPT !.pc = "idle"]
    /\ UNCHANGED <<opened, active, db, ctx, child, nativeVars, replicaVars, astray>>

\* Nothing runs at the fork: the child finds out by the process id.
Fork ==
    /\ MayFork /\ StateLockFree
    /\ child' = TRUE
    /\ ctx' = [c \in Contexts |-> [ctx[c] EXCEPT !.pc = Survives(c)]]
    /\ foreign' = opened
    /\ UNCHANGED <<opened, active, db, life, lock, holder, owner, native, closing, replicaVars,
                   astray>>

\* close in the child forgets the parent's handles and touches none of them.
ForgetInherited ==
    /\ owner.pc = "idle" /\ opened /\ foreign
    /\ ctx' = [c \in Contexts |-> [ctx[c] EXCEPT !.closed = @ \/ c \in active,
                                                 !.state = IF c \in active THEN Over(c) ELSE @]]
    /\ active' = {}
    /\ opened' = FALSE /\ native' = 0
    /\ Replaced /\ life' = life + 1
    /\ UNCHANGED <<db, owner, child, closing, foreign, replicaVars, astray>>

Next ==
    \/ \E c \in Contexts :
          \/ Call(c) \/ TakeSlot(c) \/ GiveUp(c) \/ TakeOver(c) \/ ReleaseSlot(c)
          \/ BeginTxn(c) \/ BeginSnapshot(c) \/ Register(c)
          \/ CatchUp(c) \/ Retire(c) \/ CatchUpFails(c) \/ BeginView(c)
          \/ CheckActive(c) \/ ReadRaw(c) \/ Commit(c) \/ MarkClosed(c)
          \/ Write(c) \/ RecheckBatch(c) \/ ApplyBatch(c) \/ Abort(c) \/ CloseContext(c)
    \/ Open \/ Close \/ CloseDb \/ CloseFails \/ Collect \/ ReplaceSlot \/ Fork \/ ForgetInherited
=============================================================================
