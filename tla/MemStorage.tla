----------------------------- MODULE MemStorage -----------------------------
(* The in-memory storage around its store (VersionedStore): contexts begun,   *)
(* used and ended while another thread closes and reopens the storage.        *)
(* life is the generation of the store.                                       *)
EXTENDS StorageCore

VARIABLE pins    \* the contexts whose pin the store holds in this generation

memVars == <<opened, active, db, life, lock, holder, ctx, owner, child, pins>>

Init == CoreInit /\ pins = {}

-----------------------------------------------------------------------------
(* Beginning a context.                                                     *)

\* _require_open, the first check of every begin.
Call(c) ==
    /\ At(c, "idle")
    /\ Goto(c, IF ~opened THEN "done"
               ELSE CASE ctx[c].kind = "snapshot" -> "pin"
                      [] ctx[c].kind = "batch" -> "make"
                      [] OTHER -> "take")
    /\ UNCHANGED <<opened, active, db, life, lock, holder, owner, child, pins>>

\* The pin is taken on the store before the snapshot is registered.
Pin(c) ==
    /\ At(c, "pin")
    /\ ctx' = [ctx EXCEPT ![c] = [Began(c, "register") EXCEPT !.token = life]]
    /\ pins' = pins \cup {c}
    /\ UNCHANGED <<opened, active, db, life, lock, holder, owner, child>>

Unpinned(c) == IF ctx[c].token = life THEN pins \ {c} ELSE pins

RegisterSnapshot(c) ==
    /\ At(c, "register") /\ ctx[c].kind = "snapshot"
    /\ IF opened /\ ctx[c].token = life
       THEN /\ Goto(c, "use")
            /\ active' = active \cup {c}
            /\ UNCHANGED pins
       ELSE /\ ctx' = [ctx EXCEPT ![c] = [@ EXCEPT !.pc = "done", !.state = Over(c), !.closed = TRUE]]
            /\ pins' = Unpinned(c)
            /\ UNCHANGED active
    /\ UNCHANGED <<opened, db, life, lock, holder, owner, child>>

\* A sync begin, a reservation, or the write of a batch waits for the slot.
TakeSlot(c) ==
    /\ \/ Ask(c)
       \/ /\ Granted(c)
          /\ IF ctx[c].kind = "batch"
             THEN ctx' = [ctx EXCEPT ![c] = Began(c, "apply")]
             ELSE Goto(c, IF ctx[c].kind = "txn" THEN "register" ELSE "reserved")
    /\ UNCHANGED <<opened, active, db, life, lock, owner, child, pins>>

GiveUp(c) ==
    /\ Denied(c)
    /\ active' = active \ {c}
    /\ UNCHANGED <<opened, db, life, lock, owner, child, pins>>

\* begin_transaction(write_slot=...): refused on a closed storage, or a stale slot.
TakeOver(c) ==
    /\ At(c, "reserved")
    /\ opened /\ ctx[c].lock = lock
    /\ Goto(c, "register")
    /\ UNCHANGED <<opened, active, db, life, lock, holder, owner, child, pins>>

ReleaseSlot(c) ==
    /\ At(c, "reserved")
    /\ Goto(c, "done")
    /\ holder' = Released(c)
    /\ UNCHANGED <<opened, active, db, life, lock, owner, child, pins>>

\* Under the state lock, against a close since the slot was taken. A refused begin gives
\* the slot back, to the holder of the reservation if there is one.
RegisterTxn(c) ==
    /\ At(c, "register") /\ ctx[c].kind \in {"txn", "reserving"}
    /\ IF opened /\ ctx[c].lock = lock
       THEN /\ ctx' = [ctx EXCEPT ![c] = [Began(c, "use") EXCEPT !.token = life]]
            /\ active' = active \cup {c}
            /\ UNCHANGED holder
       ELSE /\ Goto(c, IF ctx[c].kind = "txn" THEN "done" ELSE "reserved")
            /\ holder' = IF ctx[c].kind = "txn" THEN Released(c) ELSE holder
            /\ UNCHANGED active
    /\ UNCHANGED <<opened, db, life, lock, owner, child, pins>>

\* begin_write_batch constructs the batch, then registers it without another look.
MakeBatch(c) ==
    /\ At(c, "make")
    /\ ctx' = [ctx EXCEPT ![c] = [@ EXCEPT !.pc = "register", !.token = life]]
    /\ UNCHANGED <<opened, active, db, life, lock, holder, owner, child, pins>>

RegisterBatch(c) ==
    /\ At(c, "register") /\ ctx[c].kind = "batch"
    /\ Goto(c, "use")
    /\ active' = active \cup {c}
    /\ UNCHANGED <<opened, db, life, lock, holder, owner, child, pins>>

-----------------------------------------------------------------------------
(* Using and ending it.                                                     *)

\* get and exists check that the context is active, and read the store after that.
CheckActive(c) ==
    /\ At(c, "use") /\ ctx[c].kind # "batch" /\ ~ctx[c].closed
    /\ Goto(c, "read")
    /\ UNCHANGED <<opened, active, db, life, lock, holder, owner, child, pins>>

\* A pinned snapshot reads at its pin, everything else what is in the store.
Lookup(c) ==
    /\ At(c, "read")
    /\ ctx' = [ctx EXCEPT ![c] = [@ EXCEPT !.pc = "use",
                                           !.answer = IF c \in pins THEN ctx[c].base ELSE db]]
    /\ UNCHANGED <<opened, active, db, life, lock, holder, owner, child, pins>>

\* commit and write claim the end first: whoever finds the context closed stops there.
ClaimEnd(c) ==
    /\ At(c, "use") /\ Writes(c)
    /\ ctx' = [ctx EXCEPT ![c] = [@ EXCEPT !.closed = TRUE,
                                           !.pc = IF ctx[c].closed THEN "done"
                                                  ELSE IF ctx[c].kind = "batch" THEN "take"
                                                  ELSE "apply"]]
    /\ UNCHANGED <<opened, active, db, life, lock, holder, owner, child, pins>>

\* VersionedStore.apply refuses a context of an earlier generation. Empty write sets are
\* left out: they change nothing.
Apply(c) ==
    /\ At(c, "apply")
    /\ IF ctx[c].token = life
       THEN /\ db' = db + 1
            /\ ctx' = [ctx EXCEPT ![c] = [@ EXCEPT !.pc = "end", !.state = "committed"]]
       ELSE /\ ctx' = [ctx EXCEPT ![c] = [@ EXCEPT !.pc = "end", !.state = "aborted"]]
            /\ UNCHANGED db
    /\ UNCHANGED <<opened, active, life, lock, holder, owner, child, pins>>

\* The slot is given back, then the context leaves the active set.
EndWrite(c) ==
    /\ At(c, "end")
    /\ Goto(c, "done")
    /\ holder' = Released(c)
    /\ active' = active \ {c}
    /\ UNCHANGED <<opened, db, life, lock, owner, child, pins>>

\* Abort of a transaction or a batch, and close of a snapshot: nothing if it ended.
Ending(c, pc) ==
    /\ ctx' = [ctx EXCEPT ![c] = [@ EXCEPT !.pc = pc, !.closed = TRUE,
                                           !.state = IF ctx[c].closed THEN ctx[c].state ELSE Over(c)]]
    /\ holder' = IF ctx[c].closed THEN holder ELSE Released(c)
    /\ pins' = IF ctx[c].closed THEN pins ELSE Unpinned(c)

Abort(c) ==
    /\ At(c, "use")
    /\ Ending(c, "done")
    /\ active' = active \ {c}
    /\ UNCHANGED <<opened, db, life, lock, owner, child>>

\* The finalizer of a transaction, a snapshot or a slot dropped without an end; the weak
\* set forgets the context. A batch has no finalizer.
Drop(c) ==
    /\ ctx[c].pc \in {"use", "reserved"} /\ ctx[c].kind # "batch"
    /\ Ending(c, "done")
    /\ active' = active \ {c}
    /\ UNCHANGED <<opened, db, life, lock, owner, child>>

-----------------------------------------------------------------------------
(* open, close and fork.                                                    *)

Reset == life' = life + 1 /\ db' = 0 /\ pins' = {}

Open ==
    /\ MayOpen
    /\ Reset
    /\ owner' = [owner EXCEPT !.pc = "opening", !.opens = @ + 1]
    /\ UNCHANGED <<opened, active, lock, holder, ctx, child>>

Opened ==
    /\ owner.pc = "opening"
    /\ opened' = TRUE
    /\ owner' = [owner EXCEPT !.pc = "idle"]
    /\ UNCHANGED <<active, db, life, lock, holder, ctx, child, pins>>

\* One locked section: closed from here on, and the contexts to end are collected.
Close ==
    /\ owner.pc = "idle" /\ opened
    /\ opened' = FALSE
    /\ owner' = [owner EXCEPT !.pc = "closing", !.toEnd = active]
    /\ active' = {}
    /\ UNCHANGED <<db, life, lock, holder, ctx, child, pins>>

CloseContext(c) ==
    /\ owner.pc = "closing" /\ c \in owner.toEnd
    /\ Ending(c, ctx[c].pc)
    /\ owner' = [owner EXCEPT !.toEnd = @ \ {c}]
    /\ active' = active \ {c}
    /\ UNCHANGED <<opened, db, life, lock, child>>

ReplaceSlot ==
    /\ owner.pc = "closing" /\ owner.toEnd = {}
    /\ Replaced
    /\ owner' = [owner EXCEPT !.pc = "resetting"]
    /\ UNCHANGED <<opened, active, db, life, ctx, child, pins>>

ResetStore ==
    /\ owner.pc = "resetting"
    /\ Reset
    /\ owner' = [owner EXCEPT !.pc = "idle"]
    /\ UNCHANGED <<opened, active, lock, holder, ctx, child>>

\* The fork hooks hold the store lock across the fork and give the child fresh locks.
Fork ==
    /\ MayFork
    /\ child' = TRUE
    /\ ctx' = [c \in Contexts |-> [ctx[c] EXCEPT !.pc = Survives(c)]]
    /\ Replaced
    /\ UNCHANGED <<opened, active, db, life, owner, pins>>

Next ==
    \/ \E c \in Contexts :
          \/ Call(c) \/ Pin(c) \/ RegisterSnapshot(c) \/ TakeSlot(c) \/ GiveUp(c)
          \/ TakeOver(c) \/ ReleaseSlot(c) \/ RegisterTxn(c) \/ MakeBatch(c) \/ RegisterBatch(c)
          \/ CheckActive(c) \/ Lookup(c) \/ ClaimEnd(c) \/ Apply(c) \/ EndWrite(c)
          \/ Abort(c) \/ Drop(c) \/ CloseContext(c)
    \/ Open \/ Opened \/ Close \/ ReplaceSlot \/ ResetStore \/ Fork
=============================================================================
