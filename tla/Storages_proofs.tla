--------------------------- MODULE Storages_proofs --------------------------
(* What Storages promises, for any set of contexts, any plan of them and any  *)
(* bound: the contract, that nothing is left behind, and that a child leaves  *)
(* its parent's connections alone. Each storage has an inductive invariant of *)
(* its own; the one of the composition says which of them applies.            *)
EXTENDS Storages, FiniteSetTheorems, TLAPS

-----------------------------------------------------------------------------
(* Types.                                                                   *)

\* The kinds that begin a transaction under the writer slot.
TxnKinds == {"txn", "reserving"}

Places ==
    {"idle", "pin", "make", "take", "wait", "reserved", "connect", "begin", "recheck",
     "register", "detach", "use", "read", "apply", "end", "done", "gone"}

States == {"none", "active", "aborted", "committed"}

Fields == {"kind", "pc", "closed", "state", "lock", "life", "base", "answer", "token"}

Typed(r) ==
    /\ DOMAIN r = Fields
    /\ r.kind \in Kinds /\ r.pc \in Places /\ r.closed \in BOOLEAN /\ r.state \in States
    /\ r.lock \in 0 .. lock /\ r.life \in 0 .. life
    /\ r.base \in Nat /\ r.answer \in Nat /\ r.token \in Nat

TypeOK ==
    /\ opened \in BOOLEAN /\ child \in BOOLEAN
    /\ active \subseteq Contexts
    /\ db \in Nat /\ life \in Nat
    /\ lock \in Nat \ {0} /\ holder \in Contexts \cup {NoOne}
    /\ DOMAIN ctx = Contexts /\ \A x \in Contexts : Typed(ctx[x])
    /\ DOMAIN owner = {"pc", "opens", "toEnd"}
    /\ owner.opens \in Nat /\ owner.toEnd \subseteq Contexts

\* A context that may be read, or committed, and has not ended.
Live(x) == ctx[x].pc \in {"use", "read"} /\ ctx[x].kind # "batch" /\ ~ctx[x].closed

-----------------------------------------------------------------------------
(* What a step that only one context takes does to the contexts.            *)

\* x is what it was, whatever happens to c.
Only(c) == \A x \in Contexts \ {c} : ctx'[x] = ctx[x]

\* The record of c after such a step, field by field.
Becomes(c, pc, closed, state) ==
    /\ DOMAIN ctx' = Contexts /\ Only(c)
    /\ DOMAIN ctx'[c] = Fields
    /\ ctx'[c].pc = pc /\ ctx'[c].closed = closed /\ ctx'[c].state = state

KeepsKind(c) == ctx'[c].kind = ctx[c].kind
KeepsLock(c) == ctx'[c].lock = ctx[c].lock
KeepsBase(c) == ctx'[c].life = ctx[c].life /\ ctx'[c].base = ctx[c].base
KeepsAnswer(c) == ctx'[c].answer = ctx[c].answer
KeepsToken(c) == ctx'[c].token = ctx[c].token

\* Its thread goes on, and the context may end.
Ends(c, pc, closed, state) ==
    /\ Becomes(c, pc, closed, state) /\ KeepsKind(c) /\ KeepsLock(c) /\ KeepsBase(c)
    /\ KeepsAnswer(c) /\ KeepsToken(c)

\* Its thread goes on.
Moves(c, pc) == Ends(c, pc, ctx[c].closed, ctx[c].state)

\* It waits for the lock that is current.
Queues(c) ==
    /\ Becomes(c, "wait", ctx[c].closed, ctx[c].state) /\ KeepsKind(c) /\ ctx'[c].lock = lock
    /\ KeepsBase(c) /\ KeepsAnswer(c) /\ KeepsToken(c)

\* It notes what it will be known by.
Notes(c, pc, token) ==
    /\ Becomes(c, pc, ctx[c].closed, ctx[c].state) /\ KeepsKind(c) /\ KeepsLock(c)
    /\ KeepsBase(c) /\ KeepsAnswer(c) /\ ctx'[c].token = token

\* It becomes a context of another kind.
Turns(c, pc, kind, token) ==
    /\ Becomes(c, pc, ctx[c].closed, ctx[c].state) /\ ctx'[c].kind = kind /\ KeepsLock(c)
    /\ KeepsBase(c) /\ KeepsAnswer(c) /\ ctx'[c].token = token

\* It begins on the data as it is now.
Begins(c, pc, token) ==
    /\ Becomes(c, pc, ctx[c].closed, "active") /\ KeepsKind(c) /\ KeepsLock(c)
    /\ ctx'[c].life = life /\ ctx'[c].base = db /\ KeepsAnswer(c) /\ ctx'[c].token = token

\* Its read is answered.
Answers(c, v) ==
    /\ Becomes(c, "use", ctx[c].closed, ctx[c].state) /\ KeepsKind(c) /\ KeepsLock(c)
    /\ KeepsBase(c) /\ KeepsToken(c) /\ ctx'[c].answer = v

USE DEF Only, Becomes, KeepsKind, KeepsLock, KeepsBase, KeepsAnswer, KeepsToken, Ends,
        Moves, Queues, Notes, Turns, Begins, Answers

-----------------------------------------------------------------------------
(* The contract: what a step must do to be one of its steps.                *)

\* x is left alone, or ends; a read of it goes on, or ends.
GoesOnOrEnds(x) ==
    /\ ctx'[x].life = ctx[x].life /\ ctx'[x].base = ctx[x].base
    /\ ctx'[x].answer = ctx[x].answer
    /\ \/ ctx'[x].state = ctx[x].state
       \/ ctx[x].state = "active" /\ ctx'[x].state = "aborted"
    /\ ctx'[x].pc = "read" => ctx[x].pc = "read"

LEMMA ContractEnds ==
    ASSUME TypeOK, \A x \in Contexts : GoesOnOrEnds(x),
           \/ life' = life /\ db' \in {db, db + 1}
           \/ life' = life + 1 /\ db' \in {0, db}
    PROVE  Contract!Next
<1> DEFINE lost == {x \in Contexts : ctx[x].state = "active" /\ ctx'[x].state = "aborted"}
<1>1. Contract!Ended
  <2>1. lost \in SUBSET Contract!Active
    BY DEF Contract!Active
  <2>2. [x \in Contexts |-> ctx'[x].state] =
            [x \in Contexts |-> IF x \in lost THEN "aborted" ELSE [y \in Contexts |-> ctx[y].state][x]]
    BY DEF GoesOnOrEnds
  <2> QED BY <2>1, <2>2 DEF Contract!Ended, GoesOnOrEnds
<1>2. Contract!Elsewhere \/ Contract!Close
  BY <1>1 DEF Contract!Elsewhere, Contract!Close, GoesOnOrEnds
<1> QED BY <1>2 DEF Contract!Next

\* One context goes on, or ends.
LEMMA ContractEndsOne ==
    ASSUME TypeOK, NEW c \in Contexts, Only(c), GoesOnOrEnds(c), life' = life, db' = db
    PROVE  Contract!Next
<1>1. ASSUME NEW x \in Contexts \ {c} PROVE GoesOnOrEnds(x)
  BY SMT DEF GoesOnOrEnds
<1>2. \A x \in Contexts : GoesOnOrEnds(x)
  BY <1>1
<1> QED BY <1>2, ContractEnds DEF TypeOK

\* What all steps that only one context takes leave alone.
Others(c) ==
    /\ life' = life
    /\ \A x \in Contexts \ {c} : ctx'[x] = ctx[x]

LEMMA ContractBegins ==
    ASSUME TypeOK, NEW c \in Contexts, Others(c), db' = db,
           ctx[c].state = "none", ctx'[c].state = "active",
           ctx'[c].life = life, ctx'[c].base = db, ctx'[c].answer = ctx[c].answer,
           ctx[c].pc # "read", ctx'[c].pc # "read"
    PROVE  Contract!Next
<1>1. Contract!Begin(c)
  BY DEF TypeOK, Others, Contract!Begin
<1> QED BY <1>1 DEF Contract!Next

LEMMA ContractStartsRead ==
    ASSUME TypeOK, NEW c \in Contexts, Others(c), db' = db,
           ctx[c].state = "active", ctx'[c].state = "active", ctx'[c].pc = "read",
           ctx'[c].life = ctx[c].life, ctx'[c].base = ctx[c].base,
           ctx'[c].answer = ctx[c].answer
    PROVE  Contract!Next
<1>1. Contract!StartRead(c)
  BY DEF TypeOK, Others, Contract!StartRead, Contract!Active
<1> QED BY <1>1 DEF Contract!Next

LEMMA ContractReads ==
    ASSUME TypeOK, NEW c \in Contexts, Others(c), db' = db,
           ctx[c].state = "active" \/ ctx[c].pc = "read",
           ctx'[c].answer \in 0 .. db,
           ctx[c].state = "active" =>
              \/ ctx'[c].answer = ctx[c].base
              \/ ctx[c].kind = "snapshot" /\ moved /\ ctx'[c].answer = db,
           ctx'[c].state = ctx[c].state, ctx'[c].life = ctx[c].life,
           ctx'[c].base = ctx[c].base, ctx'[c].pc # "read"
    PROVE  Contract!Next
<1>1. Contract!Read(c)
  <2> DEFINE v == ctx'[c].answer
  <2>1. c \in Contract!Active \cup {x \in Contexts : ctx[x].pc = "read"}
    BY DEF Contract!Active
  <2>2. /\ v \in 0 .. db
        /\ c \in Contract!Active =>
              \/ v = [x \in Contexts |-> ctx[x].base][c]
              \/ c \in {x \in Contexts : ctx[x].kind = "snapshot" /\ moved} /\ v = db
    BY DEF Contract!Active
  <2>3. [x \in Contexts |-> ctx'[x].answer] = [[x \in Contexts |-> ctx[x].answer] EXCEPT ![c] = v]
    BY DEF Others
  <2>4. {x \in Contexts : ctx'[x].pc = "read"} = {x \in Contexts : ctx[x].pc = "read"} \ {c}
    BY DEF Others
  <2> QED BY <2>1, <2>2, <2>3, <2>4 DEF Contract!Read, Others
<1> QED BY <1>1 DEF Contract!Next

LEMMA ContractCommits ==
    ASSUME TypeOK, NEW c \in Contexts, Others(c), db' = db + 1,
           ctx[c].state = "active", ctx'[c].state = "committed",
           \/ which = "SQLite" /\ ctx[c].kind = "batch"
           \/ /\ ctx[c].life = life
              /\ \/ ctx[c].kind = "batch" \/ (which = "memory" /\ ~opened)
                 \/ ctx[c].base = db,
           ctx'[c].life = ctx[c].life, ctx'[c].base = ctx[c].base, ctx'[c].answer = ctx[c].answer,
           ctx[c].pc # "read", ctx'[c].pc # "read"
    PROVE  Contract!Next
<1>1. [x \in Contexts |-> ctx'[x].state] =
          [[x \in Contexts |-> ctx[x].state] EXCEPT ![c] = "committed"]
  BY DEF Others
<1>2. /\ [x \in Contexts |-> ctx'[x].life] = [x \in Contexts |-> ctx[x].life]
      /\ [x \in Contexts |-> ctx'[x].base] = [x \in Contexts |-> ctx[x].base]
      /\ [x \in Contexts |-> ctx'[x].answer] = [x \in Contexts |-> ctx[x].answer]
  BY DEF Others
<1>3. {x \in Contexts : ctx'[x].pc = "read"} = {x \in Contexts : ctx[x].pc = "read"}
  BY DEF Others
<1>4. c \in Contract!Active
  BY DEF Contract!Active
<1>5. Contract!Commit(c)
  BY <1>1, <1>2, <1>3, <1>4 DEF Others, Contract!Commit
<1> QED BY <1>5 DEF Contract!Next

-----------------------------------------------------------------------------
(* The storage in memory.                                                   *)

\* Who has been granted the slot and has not given it back.
MemHolds(x) ==
    \/ ctx[x].pc \in {"reserved", "apply", "end"}
    \/ ctx[x].pc = "register" /\ ctx[x].kind \in TxnKinds
    \/ Live(x) /\ ctx[x].kind \in TxnKinds

\* Where the opener is, and that it collects contexts only while it closes.
MemOwner ==
    /\ owner.pc \in {"idle", "opening", "closing", "resetting"}
    /\ opened => owner.pc = "idle"
    /\ owner.toEnd # {} => owner.pc = "closing"
    /\ pins \subseteq Contexts

\* Which kinds of context reach which place.
MemShape(x) ==
    /\ ctx[x].pc = "pin" => ctx[x].kind = "snapshot"
    /\ ctx[x].pc = "make" => ctx[x].kind = "batch"
    /\ ctx[x].pc \in {"take", "wait", "apply", "end"} => ctx[x].kind # "snapshot"
    /\ ctx[x].pc = "reserved" => ctx[x].kind = "reserving"
    /\ ctx[x].pc = "read" => ctx[x].kind # "batch"
    /\ ctx[x].pc \notin {"connect", "begin", "recheck", "detach"}

\* A context begins once, and one that is used is open until it ended.
MemState(x) ==
    /\ ctx[x].pc \in {"idle", "pin", "make", "take", "wait", "reserved"} => ctx[x].state = "none"
    /\ ctx[x].pc = "register" =>
          ctx[x].state = (IF ctx[x].kind = "snapshot" THEN "active" ELSE "none")
    /\ ctx[x].pc = "use" /\ ctx[x].kind = "batch" => ctx[x].state = "none"
    /\ ctx[x].pc \in {"use", "read"} /\ ctx[x].kind # "batch" =>
          ctx[x].state = (IF ctx[x].closed THEN "aborted" ELSE "active")
    /\ ctx[x].pc = "apply" => ctx[x].state = "active"
    /\ ctx[x].pc \in {"end", "done"} => ctx[x].state # "active"
    /\ ctx[x].pc \in {"apply", "end"} => ctx[x].closed
    /\ ctx[x].pc \in {"take", "wait"} => (ctx[x].closed <=> ctx[x].kind = "batch")
    /\ ctx[x].pc \in {"idle", "pin", "make", "register", "reserved"} => ~ctx[x].closed

\* The slot is held by whoever was granted the lock that is current.
MemSlot(x) == holder = x <=> MemHolds(x) /\ ctx[x].lock = lock

\* Every live context is registered, or being ended by close.
MemMember(x) ==
    /\ x \in active \cup owner.toEnd =>
          \/ ctx[x].pc \in {"use", "read", "apply", "end", "gone"}
          \/ ctx[x].pc \in {"take", "wait"} /\ ctx[x].kind = "batch"
          \/ ctx[x].pc = "done" /\ x \notin active
    /\ x \in active /\ ctx[x].kind # "batch" => opened
    /\ x \in active /\ ctx[x].pc \in {"use", "read"} => ~ctx[x].closed
    /\ Live(x) => x \in active \cup owner.toEnd

\* A live transaction, and one about to be applied under the current lock, is on the state
\* that is in the store; a lock is replaced before the store is reset, so that a write with
\* an earlier lock finds a later generation, but for the moment between the two.
MemLife(x) ==
    /\ ctx[x].token <= life
    /\ Live(x) => ctx[x].token = life
    /\ Live(x) /\ ctx[x].kind \in TxnKinds => ctx[x].lock = lock
    /\ ctx[x].pc = "apply" => ctx[x].token <= ctx[x].life
    /\ ctx[x].pc = "apply" /\ ctx[x].lock # lock /\ ctx[x].token = life => owner.pc = "resetting"
    /\ (Live(x) \/ ctx[x].pc = "apply") /\ ctx[x].kind \in TxnKinds /\ ctx[x].lock = lock =>
          /\ opened \/ owner.pc = "closing"
          /\ ctx[x].base = db /\ ctx[x].token = life /\ ctx[x].life = life

\* The store holds the pin of every live snapshot, and of no snapshot that ended.
MemPins(x) ==
    /\ x \in pins =>
          /\ ctx[x].kind = "snapshot" /\ ctx[x].pc \in {"register", "use", "read", "gone"}
          /\ ~ctx[x].closed /\ ctx[x].token = life /\ ctx[x].base <= db
    /\ ctx[x].kind = "snapshot" /\ Live(x) => x \in pins
    /\ ctx[x].kind = "snapshot" /\ ctx[x].pc = "register" /\ ctx[x].token = life => x \in pins

MemContext(x) ==
    MemShape(x) /\ MemState(x) /\ MemSlot(x) /\ MemMember(x) /\ MemLife(x) /\ MemPins(x)

MemInv == TypeOK /\ MemOwner /\ \A x \in Contexts : MemContext(x)

USE DEF M!At, M!Goto, M!Writes, M!Began, M!Over, M!Released, M!Replaced

LEMMA MemCall ==
    ASSUME which = "memory", MemInv, NEW c \in Contexts, M!Call(c)
    PROVE  MemInv' /\ Contract!Next
<1>1. /\ Moves(c, IF ~opened THEN "done"
                  ELSE CASE ctx[c].kind = "snapshot" -> "pin"
                         [] ctx[c].kind = "batch" -> "make"
                         [] OTHER -> "take")
      /\ UNCHANGED <<opened, active, db, life, lock, holder, owner, child, pins>>
  BY SMTT(30) DEF MemInv, TypeOK, Typed, Fields, M!Call, MemContext, MemShape, MemState
<1>2. TypeOK'
  <2>1. Typed(ctx[c])'
    BY <1>1, SMTT(30) DEF MemInv, TypeOK, Typed, Fields, Places, States, Kinds
  <2>2. ASSUME NEW x \in Contexts \ {c} PROVE Typed(ctx[x])'
    BY <1>1, SMTT(30) DEF MemInv, TypeOK, Typed, Fields
  <2> QED
    BY <1>1, <2>1, <2>2, SMTT(30) DEF MemInv, TypeOK
<1>3. MemOwner'
  BY <1>1, SMTT(30) DEF MemInv, TypeOK, MemOwner, MemContext, MemShape, MemState, M!Call
<1>4. ASSUME NEW x \in Contexts PROVE MemContext(x)'
  <2>1. CASE x = c
    BY <1>1, <2>1, CoreAssumption, SMTT(30) DEF MemInv, TypeOK, Typed, Fields, MemOwner,
        MemContext, MemShape, MemState, MemSlot, MemMember, MemLife, MemPins, Live,
        MemHolds, Kinds, TxnKinds, M!Call
  <2>2. CASE x # c
    BY <1>1, <2>2, CoreAssumption, SMTT(30) DEF MemInv, TypeOK, Typed, Fields, MemOwner,
        MemContext, MemShape, MemState, MemSlot, MemMember, MemLife, MemPins, Live,
        MemHolds, Kinds, TxnKinds, M!Call
  <2> QED BY <2>1, <2>2
<1>5. Contract!Next
  <2>1. GoesOnOrEnds(c)
    BY <1>1, SMTT(30) DEF GoesOnOrEnds, MemInv, TypeOK, Typed, Fields, MemContext, MemShape,
        MemState, MemMember, M!Call
  <2> QED BY <1>1, <2>1, ContractEndsOne DEF MemInv
<1> QED BY <1>2, <1>3, <1>4, <1>5 DEF MemInv

LEMMA MemPin ==
    ASSUME which = "memory", MemInv, NEW c \in Contexts, M!Pin(c)
    PROVE  MemInv' /\ Contract!Next
<1>1. /\ Begins(c, "register", life)
      /\ pins' = pins \cup {c}
      /\ UNCHANGED <<opened, active, db, life, lock, holder, owner, child>>
  BY SMTT(30) DEF MemInv, TypeOK, Typed, Fields, M!Pin, MemContext, MemShape, MemState
<1>2. TypeOK'
  <2>1. Typed(ctx[c])'
    BY <1>1, SMTT(30) DEF MemInv, TypeOK, Typed, Fields, Places, States, Kinds
  <2>2. ASSUME NEW x \in Contexts \ {c} PROVE Typed(ctx[x])'
    BY <1>1, SMTT(30) DEF MemInv, TypeOK, Typed, Fields
  <2> QED
    BY <1>1, <2>1, <2>2, SMTT(30) DEF MemInv, TypeOK
<1>3. MemOwner'
  BY <1>1, SMTT(30) DEF MemInv, TypeOK, MemOwner, MemContext, MemShape, MemState, M!Pin
<1>4. ASSUME NEW x \in Contexts PROVE MemContext(x)'
  <2>1. CASE x = c
    BY <1>1, <2>1, CoreAssumption, SMTT(30) DEF MemInv, TypeOK, Typed, Fields, MemOwner,
        MemContext, MemShape, MemState, MemSlot, MemMember, MemLife, MemPins, Live,
        MemHolds, Kinds, TxnKinds, M!Pin
  <2>2. CASE x # c
    BY <1>1, <2>2, CoreAssumption, SMTT(30) DEF MemInv, TypeOK, Typed, Fields, MemOwner,
        MemContext, MemShape, MemState, MemSlot, MemMember, MemLife, MemPins, Live,
        MemHolds, Kinds, TxnKinds, M!Pin
  <2> QED BY <2>1, <2>2
<1>5. Contract!Next
  <2>1. ctx[c].state = "none" /\ ctx[c].pc # "read"
    BY SMTT(30) DEF MemInv, TypeOK, Typed, Fields, MemContext, MemShape, MemState,
        MemMember, M!Pin
  <2>2. Others(c)
    BY <1>1 DEF Others
  <2> QED BY <1>1, <2>1, <2>2, ContractBegins DEF MemInv
<1> QED BY <1>2, <1>3, <1>4, <1>5 DEF MemInv

LEMMA MemRegisterSnapshot ==
    ASSUME which = "memory", MemInv, NEW c \in Contexts, M!RegisterSnapshot(c)
    PROVE  MemInv' /\ Contract!Next
<1>1. CASE opened /\ ctx[c].token = life
  <2>1. /\ Moves(c, "use")
        /\ active' = active \cup {c}
        /\ UNCHANGED <<opened, db, life, lock, holder, owner, child, pins>>
    BY <1>1, SMTT(30) DEF MemInv, TypeOK, Typed, Fields, M!RegisterSnapshot, M!Unpinned,
        MemContext, MemShape, MemState
  <2>2. TypeOK'
    <3>1. Typed(ctx[c])'
      BY <1>1, <2>1, SMTT(30) DEF MemInv, TypeOK, Typed, Fields, Places, States, Kinds
    <3>2. ASSUME NEW x \in Contexts \ {c} PROVE Typed(ctx[x])'
      BY <2>1, SMTT(30) DEF MemInv, TypeOK, Typed, Fields
    <3> QED
      BY <1>1, <2>1, <3>1, <3>2, SMTT(30) DEF MemInv, TypeOK
  <2>3. MemOwner'
    BY <1>1, <2>1, SMTT(30) DEF MemInv, TypeOK, MemOwner, MemContext, MemShape, MemState,
        M!RegisterSnapshot, M!Unpinned
  <2>4. ASSUME NEW x \in Contexts PROVE MemContext(x)'
    <3>1. CASE x = c
      BY <1>1, <2>1, <3>1, CoreAssumption, SMTT(30) DEF MemInv, TypeOK, Typed, Fields,
          MemOwner, MemContext, MemShape, MemState, MemSlot, MemMember, MemLife, MemPins,
          Live, MemHolds, Kinds, TxnKinds, M!RegisterSnapshot, M!Unpinned
    <3>2. CASE x # c
      BY <1>1, <2>1, <3>2, CoreAssumption, SMTT(30) DEF MemInv, TypeOK, Typed, Fields,
          MemOwner, MemContext, MemShape, MemState, MemSlot, MemMember, MemLife, MemPins,
          Live, MemHolds, Kinds, TxnKinds, M!RegisterSnapshot, M!Unpinned
    <3> QED BY <3>1, <3>2
  <2>5. Contract!Next
    <3>1. GoesOnOrEnds(c)
      BY <1>1, <2>1, SMTT(30) DEF GoesOnOrEnds, MemInv, TypeOK, Typed, Fields, MemContext,
          MemShape, MemState, MemMember, M!RegisterSnapshot, M!Unpinned
    <3> QED BY <2>1, <3>1, ContractEndsOne DEF MemInv
  <2> QED BY <2>2, <2>3, <2>4, <2>5 DEF MemInv
<1>2. CASE ~(opened /\ ctx[c].token = life)
  <2>1. /\ Ends(c, "done", TRUE, M!Over(c))
        /\ pins' = M!Unpinned(c)
        /\ UNCHANGED <<opened, active, db, life, lock, holder, owner, child>>
    <3>1. ctx' = [ctx EXCEPT ![c] = [@ EXCEPT !.pc = "done", !.state = M!Over(c), !.closed = TRUE]]
      BY <1>2 DEF M!RegisterSnapshot, M!Unpinned
    <3>2. /\ pins' = M!Unpinned(c)
          /\ UNCHANGED <<opened, active, db, life, lock, holder, owner, child>>
      BY <1>2 DEF M!RegisterSnapshot, M!Unpinned
    <3>4. Ends(c, "done", TRUE, M!Over(c))
      BY <1>2, <3>1, SMTT(30) DEF MemInv, TypeOK, Typed, Fields
    <3> QED BY <3>2, <3>4
  <2>2. TypeOK'
    <3>0. ctx'[c].closed \in BOOLEAN
      BY <2>1 DEF MemInv, TypeOK, Typed
    <3>1. Typed(ctx[c])'
      BY <1>2, <2>1, <3>0, SMTT(30) DEF MemInv, TypeOK, Typed, Fields, Places, States, Kinds
    <3>2. ASSUME NEW x \in Contexts \ {c} PROVE Typed(ctx[x])'
      BY <2>1, SMTT(30) DEF MemInv, TypeOK, Typed, Fields
    <3> QED
      BY <1>2, <2>1, <3>1, <3>2, SMTT(30) DEF MemInv, TypeOK
  <2>3. MemOwner'
    BY <1>2, <2>1, SMTT(30) DEF MemInv, TypeOK, MemOwner, MemContext, MemShape, MemState,
        M!RegisterSnapshot, M!Unpinned
  <2>4. ASSUME NEW x \in Contexts PROVE MemContext(x)'
    <3>1. CASE x = c
      BY <1>2, <2>1, <3>1, CoreAssumption, SMTT(30) DEF MemInv, TypeOK, Typed, Fields,
          MemOwner, MemContext, MemShape, MemState, MemSlot, MemMember, MemLife, MemPins,
          Live, MemHolds, Kinds, TxnKinds, M!RegisterSnapshot, M!Unpinned
    <3>2. CASE x # c
      BY <1>2, <2>1, <3>2, CoreAssumption, SMTT(30) DEF MemInv, TypeOK, Typed, Fields,
          MemOwner, MemContext, MemShape, MemState, MemSlot, MemMember, MemLife, MemPins,
          Live, MemHolds, Kinds, TxnKinds, M!RegisterSnapshot, M!Unpinned
    <3> QED BY <3>1, <3>2
  <2>5. Contract!Next
    <3>1. GoesOnOrEnds(c)
      BY <1>2, <2>1, SMTT(30) DEF GoesOnOrEnds, MemInv, TypeOK, Typed, Fields, MemContext,
          MemShape, MemState, MemMember, M!RegisterSnapshot, M!Unpinned
    <3> QED BY <2>1, <3>1, ContractEndsOne DEF MemInv
  <2> QED BY <2>2, <2>3, <2>4, <2>5 DEF MemInv
<1> QED BY <1>1, <1>2

LEMMA MemTakeSlot ==
    ASSUME which = "memory", MemInv, NEW c \in Contexts, M!TakeSlot(c)
    PROVE  MemInv' /\ Contract!Next
<1>1. CASE M!Ask(c)
  <2>1. /\ Queues(c)
        /\ UNCHANGED <<opened, active, db, life, lock, holder, owner, child, pins>>
    BY <1>1, SMTT(30) DEF MemInv, TypeOK, Typed, Fields, M!TakeSlot, M!Ask, M!Granted,
        MemContext, MemShape, MemState
  <2>2. TypeOK'
    <3>1. Typed(ctx[c])'
      BY <1>1, <2>1, SMTT(30) DEF MemInv, TypeOK, Typed, Fields, Places, States, Kinds
    <3>2. ASSUME NEW x \in Contexts \ {c} PROVE Typed(ctx[x])'
      BY <2>1, SMTT(30) DEF MemInv, TypeOK, Typed, Fields
    <3> QED
      BY <1>1, <2>1, <3>1, <3>2, SMTT(30) DEF MemInv, TypeOK
  <2>3. MemOwner'
    BY <1>1, <2>1, SMTT(30) DEF MemInv, TypeOK, MemOwner, MemContext, MemShape, MemState,
        M!TakeSlot, M!Ask, M!Granted
  <2>4. ASSUME NEW x \in Contexts PROVE MemContext(x)'
    <3>1. CASE x = c
      BY <1>1, <2>1, <3>1, CoreAssumption, SMTT(30) DEF MemInv, TypeOK, Typed, Fields,
          MemOwner, MemContext, MemShape, MemState, MemSlot, MemMember, MemLife, MemPins,
          Live, MemHolds, Kinds, TxnKinds, M!TakeSlot, M!Ask, M!Granted
    <3>2. CASE x # c
      BY <1>1, <2>1, <3>2, CoreAssumption, SMTT(30) DEF MemInv, TypeOK, Typed, Fields,
          MemOwner, MemContext, MemShape, MemState, MemSlot, MemMember, MemLife, MemPins,
          Live, MemHolds, Kinds, TxnKinds, M!TakeSlot, M!Ask, M!Granted
    <3> QED BY <3>1, <3>2
  <2>5. Contract!Next
    <3>1. GoesOnOrEnds(c)
      BY <1>1, <2>1, SMTT(30) DEF GoesOnOrEnds, MemInv, TypeOK, Typed, Fields, MemContext,
          MemShape, MemState, MemMember, M!TakeSlot, M!Ask, M!Granted
    <3> QED BY <2>1, <3>1, ContractEndsOne DEF MemInv
  <2> QED BY <2>2, <2>3, <2>4, <2>5 DEF MemInv
<1>2. CASE M!Granted(c) /\ ctx[c].kind = "batch"
  <2>1. /\ Begins(c, "apply", ctx[c].token)
        /\ holder' = c
        /\ UNCHANGED <<opened, active, db, life, lock, owner, child, pins>>
    <3>1. ctx' = [ctx EXCEPT ![c] = M!Began(c, "apply")]
      BY <1>2 DEF M!TakeSlot, M!Ask, M!Granted
    <3>2. /\ holder' = c
          /\ UNCHANGED <<opened, active, db, life, lock, owner, child, pins>>
      BY <1>2 DEF M!TakeSlot, M!Ask, M!Granted
    <3>4. Begins(c, "apply", ctx[c].token)
      BY <1>2, <3>1, SMTT(30) DEF MemInv, TypeOK, Typed, Fields
    <3> QED BY <3>2, <3>4
  <2>2. TypeOK'
    <3>1. Typed(ctx[c])'
      BY <1>2, <2>1, SMTT(30) DEF MemInv, TypeOK, Typed, Fields, Places, States, Kinds
    <3>2. ASSUME NEW x \in Contexts \ {c} PROVE Typed(ctx[x])'
      BY <2>1, SMTT(30) DEF MemInv, TypeOK, Typed, Fields
    <3> QED
      BY <1>2, <2>1, <3>1, <3>2, SMTT(30) DEF MemInv, TypeOK
  <2>3. MemOwner'
    BY <1>2, <2>1, SMTT(30) DEF MemInv, TypeOK, MemOwner, MemContext, MemShape, MemState,
        M!TakeSlot, M!Ask, M!Granted
  <2>4. ASSUME NEW x \in Contexts PROVE MemContext(x)'
    <3>1. CASE x = c
      BY <1>2, <2>1, <3>1, CoreAssumption, SMTT(30) DEF MemInv, TypeOK, Typed, Fields,
          MemOwner, MemContext, MemShape, MemState, MemSlot, MemMember, MemLife, MemPins,
          Live, MemHolds, Kinds, TxnKinds, M!TakeSlot, M!Ask, M!Granted
    <3>2. CASE x # c
      BY <1>2, <2>1, <3>2, CoreAssumption, SMTT(30) DEF MemInv, TypeOK, Typed, Fields,
          MemOwner, MemContext, MemShape, MemState, MemSlot, MemMember, MemLife, MemPins,
          Live, MemHolds, Kinds, TxnKinds, M!TakeSlot, M!Ask, M!Granted
    <3> QED BY <3>1, <3>2
  <2>5. Contract!Next
    <3>1. ctx[c].state = "none" /\ ctx[c].pc # "read"
      BY <1>2, SMTT(30) DEF MemInv, TypeOK, Typed, Fields, MemContext, MemShape, MemState,
          MemMember, M!TakeSlot, M!Ask, M!Granted
    <3>2. Others(c)
      BY <2>1 DEF Others
    <3> QED BY <2>1, <3>1, <3>2, ContractBegins DEF MemInv
  <2> QED BY <2>2, <2>3, <2>4, <2>5 DEF MemInv
<1>3. CASE M!Granted(c) /\ ctx[c].kind # "batch"
  <2>1. /\ Moves(c, IF ctx[c].kind = "txn" THEN "register" ELSE "reserved")
        /\ holder' = c
        /\ UNCHANGED <<opened, active, db, life, lock, owner, child, pins>>
    BY <1>3, SMTT(30) DEF MemInv, TypeOK, Typed, Fields, M!TakeSlot, M!Ask, M!Granted,
        MemContext, MemShape, MemState
  <2>2. TypeOK'
    <3>1. Typed(ctx[c])'
      BY <1>3, <2>1, SMTT(30) DEF MemInv, TypeOK, Typed, Fields, Places, States, Kinds
    <3>2. ASSUME NEW x \in Contexts \ {c} PROVE Typed(ctx[x])'
      BY <2>1, SMTT(30) DEF MemInv, TypeOK, Typed, Fields
    <3> QED
      BY <1>3, <2>1, <3>1, <3>2, SMTT(30) DEF MemInv, TypeOK
  <2>3. MemOwner'
    BY <1>3, <2>1, SMTT(30) DEF MemInv, TypeOK, MemOwner, MemContext, MemShape, MemState,
        M!TakeSlot, M!Ask, M!Granted
  <2>4. ASSUME NEW x \in Contexts PROVE MemContext(x)'
    <3>1. CASE x = c
      BY <1>3, <2>1, <3>1, CoreAssumption, SMTT(30) DEF MemInv, TypeOK, Typed, Fields,
          MemOwner, MemContext, MemShape, MemState, MemSlot, MemMember, MemLife, MemPins,
          Live, MemHolds, Kinds, TxnKinds, M!TakeSlot, M!Ask, M!Granted
    <3>2. CASE x # c
      BY <1>3, <2>1, <3>2, CoreAssumption, SMTT(30) DEF MemInv, TypeOK, Typed, Fields,
          MemOwner, MemContext, MemShape, MemState, MemSlot, MemMember, MemLife, MemPins,
          Live, MemHolds, Kinds, TxnKinds, M!TakeSlot, M!Ask, M!Granted
    <3> QED BY <3>1, <3>2
  <2>5. Contract!Next
    <3>1. GoesOnOrEnds(c)
      BY <1>3, <2>1, SMTT(30) DEF GoesOnOrEnds, MemInv, TypeOK, Typed, Fields, MemContext,
          MemShape, MemState, MemMember, M!TakeSlot, M!Ask, M!Granted
    <3> QED BY <2>1, <3>1, ContractEndsOne DEF MemInv
  <2> QED BY <2>2, <2>3, <2>4, <2>5 DEF MemInv
<1> QED BY <1>1, <1>2, <1>3 DEF M!TakeSlot

LEMMA MemGiveUp ==
    ASSUME which = "memory", MemInv, NEW c \in Contexts, M!GiveUp(c)
    PROVE  MemInv' /\ Contract!Next
<1>1. /\ Ends(c, "done", TRUE, M!Over(c))
      /\ active' = active \ {c}
      /\ UNCHANGED <<opened, db, life, lock, holder, owner, child, pins>>
  BY SMTT(30) DEF MemInv, TypeOK, Typed, Fields, M!GiveUp, M!Denied, MemContext, MemShape,
      MemState
<1>2. TypeOK'
  <2>0. ctx'[c].closed \in BOOLEAN
    BY <1>1 DEF MemInv, TypeOK, Typed
  <2>1. Typed(ctx[c])'
    BY <1>1, <2>0, SMTT(30) DEF MemInv, TypeOK, Typed, Fields, Places, States, Kinds
  <2>2. ASSUME NEW x \in Contexts \ {c} PROVE Typed(ctx[x])'
    BY <1>1, SMTT(30) DEF MemInv, TypeOK, Typed, Fields
  <2> QED
    BY <1>1, <2>1, <2>2, SMTT(30) DEF MemInv, TypeOK
<1>3. MemOwner'
  BY <1>1, SMTT(30) DEF MemInv, TypeOK, MemOwner, MemContext, MemShape, MemState, M!GiveUp,
      M!Denied
<1>4. ASSUME NEW x \in Contexts PROVE MemContext(x)'
  <2>1. CASE x = c
    BY <1>1, <2>1, CoreAssumption, SMTT(30) DEF MemInv, TypeOK, Typed, Fields, MemOwner,
        MemContext, MemShape, MemState, MemSlot, MemMember, MemLife, MemPins, Live,
        MemHolds, Kinds, TxnKinds, M!GiveUp, M!Denied
  <2>2. CASE x # c
    BY <1>1, <2>2, CoreAssumption, SMTT(30) DEF MemInv, TypeOK, Typed, Fields, MemOwner,
        MemContext, MemShape, MemState, MemSlot, MemMember, MemLife, MemPins, Live,
        MemHolds, Kinds, TxnKinds, M!GiveUp, M!Denied
  <2> QED BY <2>1, <2>2
<1>5. Contract!Next
  <2>1. GoesOnOrEnds(c)
    BY <1>1, SMTT(30) DEF GoesOnOrEnds, MemInv, TypeOK, Typed, Fields, MemContext, MemShape,
        MemState, MemMember, M!GiveUp, M!Denied
  <2> QED BY <1>1, <2>1, ContractEndsOne DEF MemInv
<1> QED BY <1>2, <1>3, <1>4, <1>5 DEF MemInv

LEMMA MemTakeOver ==
    ASSUME which = "memory", MemInv, NEW c \in Contexts, M!TakeOver(c)
    PROVE  MemInv' /\ Contract!Next
<1>1. /\ Moves(c, "register")
      /\ UNCHANGED <<opened, active, db, life, lock, holder, owner, child, pins>>
  BY SMTT(30) DEF MemInv, TypeOK, Typed, Fields, M!TakeOver, MemContext, MemShape, MemState
<1>2. TypeOK'
  <2>1. Typed(ctx[c])'
    BY <1>1, SMTT(30) DEF MemInv, TypeOK, Typed, Fields, Places, States, Kinds
  <2>2. ASSUME NEW x \in Contexts \ {c} PROVE Typed(ctx[x])'
    BY <1>1, SMTT(30) DEF MemInv, TypeOK, Typed, Fields
  <2> QED
    BY <1>1, <2>1, <2>2, SMTT(30) DEF MemInv, TypeOK
<1>3. MemOwner'
  BY <1>1, SMTT(30) DEF MemInv, TypeOK, MemOwner, MemContext, MemShape, MemState, M!TakeOver
<1>4. ASSUME NEW x \in Contexts PROVE MemContext(x)'
  <2>1. CASE x = c
    BY <1>1, <2>1, CoreAssumption, SMTT(30) DEF MemInv, TypeOK, Typed, Fields, MemOwner,
        MemContext, MemShape, MemState, MemSlot, MemMember, MemLife, MemPins, Live,
        MemHolds, Kinds, TxnKinds, M!TakeOver
  <2>2. CASE x # c
    BY <1>1, <2>2, CoreAssumption, SMTT(30) DEF MemInv, TypeOK, Typed, Fields, MemOwner,
        MemContext, MemShape, MemState, MemSlot, MemMember, MemLife, MemPins, Live,
        MemHolds, Kinds, TxnKinds, M!TakeOver
  <2> QED BY <2>1, <2>2
<1>5. Contract!Next
  <2>1. GoesOnOrEnds(c)
    BY <1>1, SMTT(30) DEF GoesOnOrEnds, MemInv, TypeOK, Typed, Fields, MemContext, MemShape,
        MemState, MemMember, M!TakeOver
  <2> QED BY <1>1, <2>1, ContractEndsOne DEF MemInv
<1> QED BY <1>2, <1>3, <1>4, <1>5 DEF MemInv

LEMMA MemReleaseSlot ==
    ASSUME which = "memory", MemInv, NEW c \in Contexts, M!ReleaseSlot(c)
    PROVE  MemInv' /\ Contract!Next
<1>1. /\ Moves(c, "done")
      /\ holder' = M!Released(c)
      /\ UNCHANGED <<opened, active, db, life, lock, owner, child, pins>>
  BY SMTT(30) DEF MemInv, TypeOK, Typed, Fields, M!ReleaseSlot, MemContext, MemShape,
      MemState
<1>2. TypeOK'
  <2>1. Typed(ctx[c])'
    BY <1>1, SMTT(30) DEF MemInv, TypeOK, Typed, Fields, Places, States, Kinds
  <2>2. ASSUME NEW x \in Contexts \ {c} PROVE Typed(ctx[x])'
    BY <1>1, SMTT(30) DEF MemInv, TypeOK, Typed, Fields
  <2> QED
    BY <1>1, <2>1, <2>2, SMTT(30) DEF MemInv, TypeOK
<1>3. MemOwner'
  BY <1>1, SMTT(30) DEF MemInv, TypeOK, MemOwner, MemContext, MemShape, MemState,
      M!ReleaseSlot
<1>4. ASSUME NEW x \in Contexts PROVE MemContext(x)'
  <2>1. CASE x = c
    BY <1>1, <2>1, CoreAssumption, SMTT(30) DEF MemInv, TypeOK, Typed, Fields, MemOwner,
        MemContext, MemShape, MemState, MemSlot, MemMember, MemLife, MemPins, Live,
        MemHolds, Kinds, TxnKinds, M!ReleaseSlot
  <2>2. CASE x # c
    BY <1>1, <2>2, CoreAssumption, SMTT(30) DEF MemInv, TypeOK, Typed, Fields, MemOwner,
        MemContext, MemShape, MemState, MemSlot, MemMember, MemLife, MemPins, Live,
        MemHolds, Kinds, TxnKinds, M!ReleaseSlot
  <2> QED BY <2>1, <2>2
<1>5. Contract!Next
  <2>1. GoesOnOrEnds(c)
    BY <1>1, SMTT(30) DEF GoesOnOrEnds, MemInv, TypeOK, Typed, Fields, MemContext, MemShape,
        MemState, MemMember, M!ReleaseSlot
  <2> QED BY <1>1, <2>1, ContractEndsOne DEF MemInv
<1> QED BY <1>2, <1>3, <1>4, <1>5 DEF MemInv

LEMMA MemRegisterTxn ==
    ASSUME which = "memory", MemInv, NEW c \in Contexts, M!RegisterTxn(c)
    PROVE  MemInv' /\ Contract!Next
<1>1. CASE opened /\ ctx[c].lock = lock
  <2>1. /\ Begins(c, "use", life)
        /\ active' = active \cup {c}
        /\ UNCHANGED <<opened, db, life, lock, holder, owner, child, pins>>
    <3>1. ctx' = [ctx EXCEPT ![c] = [M!Began(c, "use") EXCEPT !.token = life]]
      BY <1>1 DEF M!RegisterTxn
    <3>2. /\ active' = active \cup {c}
          /\ UNCHANGED <<opened, db, life, lock, holder, owner, child, pins>>
      BY <1>1 DEF M!RegisterTxn
    <3>4. Begins(c, "use", life)
      BY <1>1, <3>1, SMTT(30) DEF MemInv, TypeOK, Typed, Fields
    <3> QED BY <3>2, <3>4
  <2>2. TypeOK'
    <3>1. Typed(ctx[c])'
      BY <1>1, <2>1, SMTT(30) DEF MemInv, TypeOK, Typed, Fields, Places, States, Kinds
    <3>2. ASSUME NEW x \in Contexts \ {c} PROVE Typed(ctx[x])'
      BY <2>1, SMTT(30) DEF MemInv, TypeOK, Typed, Fields
    <3> QED
      BY <1>1, <2>1, <3>1, <3>2, SMTT(30) DEF MemInv, TypeOK
  <2>3. MemOwner'
    BY <1>1, <2>1, SMTT(30) DEF MemInv, TypeOK, MemOwner, MemContext, MemShape, MemState,
        M!RegisterTxn
  <2>4. ASSUME NEW x \in Contexts PROVE MemContext(x)'
    <3>1. CASE x = c
      BY <1>1, <2>1, <3>1, CoreAssumption, SMTT(30) DEF MemInv, TypeOK, Typed, Fields,
          MemOwner, MemContext, MemShape, MemState, MemSlot, MemMember, MemLife, MemPins,
          Live, MemHolds, Kinds, TxnKinds, M!RegisterTxn
    <3>2. CASE x # c
      BY <1>1, <2>1, <3>2, CoreAssumption, SMTT(30) DEF MemInv, TypeOK, Typed, Fields,
          MemOwner, MemContext, MemShape, MemState, MemSlot, MemMember, MemLife, MemPins,
          Live, MemHolds, Kinds, TxnKinds, M!RegisterTxn
    <3> QED BY <3>1, <3>2
  <2>5. Contract!Next
    <3>1. ctx[c].state = "none" /\ ctx[c].pc # "read"
      BY <1>1, SMTT(30) DEF MemInv, TypeOK, Typed, Fields, MemContext, MemShape, MemState,
          MemMember, M!RegisterTxn
    <3>2. Others(c)
      BY <2>1 DEF Others
    <3> QED BY <2>1, <3>1, <3>2, ContractBegins DEF MemInv
  <2> QED BY <2>2, <2>3, <2>4, <2>5 DEF MemInv
<1>2. CASE ~(opened /\ ctx[c].lock = lock)
  <2>1. /\ Moves(c, IF ctx[c].kind = "txn" THEN "done" ELSE "reserved")
        /\ holder' = IF ctx[c].kind = "txn" THEN M!Released(c) ELSE holder
        /\ UNCHANGED <<opened, active, db, life, lock, owner, child, pins>>
    BY <1>2, SMTT(30) DEF MemInv, TypeOK, Typed, Fields, M!RegisterTxn, MemContext,
        MemShape, MemState
  <2>2. TypeOK'
    <3>1. Typed(ctx[c])'
      BY <1>2, <2>1, SMTT(30) DEF MemInv, TypeOK, Typed, Fields, Places, States, Kinds
    <3>2. ASSUME NEW x \in Contexts \ {c} PROVE Typed(ctx[x])'
      BY <2>1, SMTT(30) DEF MemInv, TypeOK, Typed, Fields
    <3> QED
      BY <1>2, <2>1, <3>1, <3>2, SMTT(30) DEF MemInv, TypeOK
  <2>3. MemOwner'
    BY <1>2, <2>1, SMTT(30) DEF MemInv, TypeOK, MemOwner, MemContext, MemShape, MemState,
        M!RegisterTxn
  <2>4. ASSUME NEW x \in Contexts PROVE MemContext(x)'
    <3>1. CASE x = c
      BY <1>2, <2>1, <3>1, CoreAssumption, SMTT(30) DEF MemInv, TypeOK, Typed, Fields,
          MemOwner, MemContext, MemShape, MemState, MemSlot, MemMember, MemLife, MemPins,
          Live, MemHolds, Kinds, TxnKinds, M!RegisterTxn
    <3>2. CASE x # c
      BY <1>2, <2>1, <3>2, CoreAssumption, SMTT(30) DEF MemInv, TypeOK, Typed, Fields,
          MemOwner, MemContext, MemShape, MemState, MemSlot, MemMember, MemLife, MemPins,
          Live, MemHolds, Kinds, TxnKinds, M!RegisterTxn
    <3> QED BY <3>1, <3>2
  <2>5. Contract!Next
    <3>1. GoesOnOrEnds(c)
      BY <1>2, <2>1, SMTT(30) DEF GoesOnOrEnds, MemInv, TypeOK, Typed, Fields, MemContext,
          MemShape, MemState, MemMember, M!RegisterTxn
    <3> QED BY <2>1, <3>1, ContractEndsOne DEF MemInv
  <2> QED BY <2>2, <2>3, <2>4, <2>5 DEF MemInv
<1> QED BY <1>1, <1>2

LEMMA MemMakeBatch ==
    ASSUME which = "memory", MemInv, NEW c \in Contexts, M!MakeBatch(c)
    PROVE  MemInv' /\ Contract!Next
<1>1. /\ Notes(c, "register", life)
      /\ UNCHANGED <<opened, active, db, life, lock, holder, owner, child, pins>>
  BY SMTT(30) DEF MemInv, TypeOK, Typed, Fields, M!MakeBatch, MemContext, MemShape, MemState
<1>2. TypeOK'
  <2>1. Typed(ctx[c])'
    BY <1>1, SMTT(30) DEF MemInv, TypeOK, Typed, Fields, Places, States, Kinds
  <2>2. ASSUME NEW x \in Contexts \ {c} PROVE Typed(ctx[x])'
    BY <1>1, SMTT(30) DEF MemInv, TypeOK, Typed, Fields
  <2> QED
    BY <1>1, <2>1, <2>2, SMTT(30) DEF MemInv, TypeOK
<1>3. MemOwner'
  BY <1>1, SMTT(30) DEF MemInv, TypeOK, MemOwner, MemContext, MemShape, MemState,
      M!MakeBatch
<1>4. ASSUME NEW x \in Contexts PROVE MemContext(x)'
  <2>1. CASE x = c
    BY <1>1, <2>1, CoreAssumption, SMTT(30) DEF MemInv, TypeOK, Typed, Fields, MemOwner,
        MemContext, MemShape, MemState, MemSlot, MemMember, MemLife, MemPins, Live,
        MemHolds, Kinds, TxnKinds, M!MakeBatch
  <2>2. CASE x # c
    BY <1>1, <2>2, CoreAssumption, SMTT(30) DEF MemInv, TypeOK, Typed, Fields, MemOwner,
        MemContext, MemShape, MemState, MemSlot, MemMember, MemLife, MemPins, Live,
        MemHolds, Kinds, TxnKinds, M!MakeBatch
  <2> QED BY <2>1, <2>2
<1>5. Contract!Next
  <2>1. GoesOnOrEnds(c)
    BY <1>1, SMTT(30) DEF GoesOnOrEnds, MemInv, TypeOK, Typed, Fields, MemContext, MemShape,
        MemState, MemMember, M!MakeBatch
  <2> QED BY <1>1, <2>1, ContractEndsOne DEF MemInv
<1> QED BY <1>2, <1>3, <1>4, <1>5 DEF MemInv

LEMMA MemRegisterBatch ==
    ASSUME which = "memory", MemInv, NEW c \in Contexts, M!RegisterBatch(c)
    PROVE  MemInv' /\ Contract!Next
<1>1. /\ Moves(c, "use")
      /\ active' = active \cup {c}
      /\ UNCHANGED <<opened, db, life, lock, holder, owner, child, pins>>
  BY SMTT(30) DEF MemInv, TypeOK, Typed, Fields, M!RegisterBatch, MemContext, MemShape,
      MemState
<1>2. TypeOK'
  <2>1. Typed(ctx[c])'
    BY <1>1, SMTT(30) DEF MemInv, TypeOK, Typed, Fields, Places, States, Kinds
  <2>2. ASSUME NEW x \in Contexts \ {c} PROVE Typed(ctx[x])'
    BY <1>1, SMTT(30) DEF MemInv, TypeOK, Typed, Fields
  <2> QED
    BY <1>1, <2>1, <2>2, SMTT(30) DEF MemInv, TypeOK
<1>3. MemOwner'
  BY <1>1, SMTT(30) DEF MemInv, TypeOK, MemOwner, MemContext, MemShape, MemState,
      M!RegisterBatch
<1>4. ASSUME NEW x \in Contexts PROVE MemContext(x)'
  <2>1. CASE x = c
    BY <1>1, <2>1, CoreAssumption, SMTT(30) DEF MemInv, TypeOK, Typed, Fields, MemOwner,
        MemContext, MemShape, MemState, MemSlot, MemMember, MemLife, MemPins, Live,
        MemHolds, Kinds, TxnKinds, M!RegisterBatch
  <2>2. CASE x # c
    BY <1>1, <2>2, CoreAssumption, SMTT(30) DEF MemInv, TypeOK, Typed, Fields, MemOwner,
        MemContext, MemShape, MemState, MemSlot, MemMember, MemLife, MemPins, Live,
        MemHolds, Kinds, TxnKinds, M!RegisterBatch
  <2> QED BY <2>1, <2>2
<1>5. Contract!Next
  <2>1. GoesOnOrEnds(c)
    BY <1>1, SMTT(30) DEF GoesOnOrEnds, MemInv, TypeOK, Typed, Fields, MemContext, MemShape,
        MemState, MemMember, M!RegisterBatch
  <2> QED BY <1>1, <2>1, ContractEndsOne DEF MemInv
<1> QED BY <1>2, <1>3, <1>4, <1>5 DEF MemInv

LEMMA MemCheckActive ==
    ASSUME which = "memory", MemInv, NEW c \in Contexts, M!CheckActive(c)
    PROVE  MemInv' /\ Contract!Next
<1>1. /\ Moves(c, "read")
      /\ UNCHANGED <<opened, active, db, life, lock, holder, owner, child, pins>>
  BY SMTT(30) DEF MemInv, TypeOK, Typed, Fields, M!CheckActive, MemContext, MemShape,
      MemState
<1>2. TypeOK'
  <2>1. Typed(ctx[c])'
    BY <1>1, SMTT(30) DEF MemInv, TypeOK, Typed, Fields, Places, States, Kinds
  <2>2. ASSUME NEW x \in Contexts \ {c} PROVE Typed(ctx[x])'
    BY <1>1, SMTT(30) DEF MemInv, TypeOK, Typed, Fields
  <2> QED
    BY <1>1, <2>1, <2>2, SMTT(30) DEF MemInv, TypeOK
<1>3. MemOwner'
  BY <1>1, SMTT(30) DEF MemInv, TypeOK, MemOwner, MemContext, MemShape, MemState,
      M!CheckActive
<1>4. ASSUME NEW x \in Contexts PROVE MemContext(x)'
  <2>1. CASE x = c
    BY <1>1, <2>1, CoreAssumption, SMTT(30) DEF MemInv, TypeOK, Typed, Fields, MemOwner,
        MemContext, MemShape, MemState, MemSlot, MemMember, MemLife, MemPins, Live,
        MemHolds, Kinds, TxnKinds, M!CheckActive
  <2>2. CASE x # c
    BY <1>1, <2>2, CoreAssumption, SMTT(30) DEF MemInv, TypeOK, Typed, Fields, MemOwner,
        MemContext, MemShape, MemState, MemSlot, MemMember, MemLife, MemPins, Live,
        MemHolds, Kinds, TxnKinds, M!CheckActive
  <2> QED BY <2>1, <2>2
<1>5. Contract!Next
  <2>1. ctx[c].state = "active"
    BY SMTT(30) DEF MemInv, TypeOK, Typed, Fields, MemContext, MemShape, MemState,
        MemMember, M!CheckActive
  <2>2. Others(c)
    BY <1>1 DEF Others
  <2> QED BY <1>1, <2>1, <2>2, ContractStartsRead DEF MemInv
<1> QED BY <1>2, <1>3, <1>4, <1>5 DEF MemInv

LEMMA MemLookup ==
    ASSUME which = "memory", MemInv, NEW c \in Contexts, M!Lookup(c)
    PROVE  MemInv' /\ Contract!Next
<1>1. /\ Answers(c, IF c \in pins THEN ctx[c].base ELSE db)
      /\ UNCHANGED <<opened, active, db, life, lock, holder, owner, child, pins>>
  BY SMTT(30) DEF MemInv, TypeOK, Typed, Fields, M!Lookup, MemContext, MemShape, MemState
<1>2. TypeOK'
  <2>1. Typed(ctx[c])'
    BY <1>1, SMTT(30) DEF MemInv, TypeOK, Typed, Fields, Places, States, Kinds
  <2>2. ASSUME NEW x \in Contexts \ {c} PROVE Typed(ctx[x])'
    BY <1>1, SMTT(30) DEF MemInv, TypeOK, Typed, Fields
  <2> QED
    BY <1>1, <2>1, <2>2, SMTT(30) DEF MemInv, TypeOK
<1>3. MemOwner'
  BY <1>1, SMTT(30) DEF MemInv, TypeOK, MemOwner, MemContext, MemShape, MemState, M!Lookup
<1>4. ASSUME NEW x \in Contexts PROVE MemContext(x)'
  <2>1. CASE x = c
    BY <1>1, <2>1, CoreAssumption, SMTT(30) DEF MemInv, TypeOK, Typed, Fields, MemOwner,
        MemContext, MemShape, MemState, MemSlot, MemMember, MemLife, MemPins, Live,
        MemHolds, Kinds, TxnKinds, M!Lookup
  <2>2. CASE x # c
    BY <1>1, <2>2, CoreAssumption, SMTT(30) DEF MemInv, TypeOK, Typed, Fields, MemOwner,
        MemContext, MemShape, MemState, MemSlot, MemMember, MemLife, MemPins, Live,
        MemHolds, Kinds, TxnKinds, M!Lookup
  <2> QED BY <2>1, <2>2
<1>5. Contract!Next
  <2>1. /\ ctx[c].state = "active" \/ ctx[c].pc = "read"
        /\ ctx'[c].answer \in 0 .. db
        /\ ctx[c].state = "active" => ctx'[c].answer = ctx[c].base
    BY <1>1, SMTT(30) DEF MemInv, TypeOK, Typed, Fields, MemContext, MemShape, MemState,
        MemMember, M!Lookup, MemPins, MemLife, Live, Kinds, TxnKinds
  <2>2. /\ Others(c) /\ db' = db /\ ctx'[c].pc # "read" /\ ctx'[c].state = ctx[c].state
        /\ ctx'[c].life = ctx[c].life /\ ctx'[c].base = ctx[c].base
    BY <1>1 DEF Others
  <2> QED BY <2>1, <2>2, ContractReads DEF MemInv
<1> QED BY <1>2, <1>3, <1>4, <1>5 DEF MemInv

LEMMA MemClaimEnd ==
    ASSUME which = "memory", MemInv, NEW c \in Contexts, M!ClaimEnd(c)
    PROVE  MemInv' /\ Contract!Next
<1>1. /\ Ends(c, IF ctx[c].closed THEN "done" ELSE IF ctx[c].kind = "batch" THEN "take" ELSE "apply",
                    TRUE, ctx[c].state)
      /\ UNCHANGED <<opened, active, db, life, lock, holder, owner, child, pins>>
  BY SMTT(30) DEF MemInv, TypeOK, Typed, Fields, M!ClaimEnd, MemContext, MemShape, MemState
<1>2. TypeOK'
  <2>0. ctx'[c].closed \in BOOLEAN
    BY <1>1 DEF MemInv, TypeOK, Typed
  <2>1. Typed(ctx[c])'
    BY <1>1, <2>0, SMTT(30) DEF MemInv, TypeOK, Typed, Fields, Places, States, Kinds
  <2>2. ASSUME NEW x \in Contexts \ {c} PROVE Typed(ctx[x])'
    BY <1>1, SMTT(30) DEF MemInv, TypeOK, Typed, Fields
  <2> QED
    BY <1>1, <2>1, <2>2, SMTT(30) DEF MemInv, TypeOK
<1>3. MemOwner'
  BY <1>1, SMTT(30) DEF MemInv, TypeOK, MemOwner, MemContext, MemShape, MemState, M!ClaimEnd
<1>4. ASSUME NEW x \in Contexts PROVE MemContext(x)'
  <2>1. CASE x = c
    BY <1>1, <2>1, CoreAssumption, SMTT(30) DEF MemInv, TypeOK, Typed, Fields, MemOwner,
        MemContext, MemShape, MemState, MemSlot, MemMember, MemLife, MemPins, Live,
        MemHolds, Kinds, TxnKinds, M!ClaimEnd
  <2>2. CASE x # c
    BY <1>1, <2>2, CoreAssumption, SMTT(30) DEF MemInv, TypeOK, Typed, Fields, MemOwner,
        MemContext, MemShape, MemState, MemSlot, MemMember, MemLife, MemPins, Live,
        MemHolds, Kinds, TxnKinds, M!ClaimEnd
  <2> QED BY <2>1, <2>2
<1>5. Contract!Next
  <2>1. GoesOnOrEnds(c)
    BY <1>1, SMTT(30) DEF GoesOnOrEnds, MemInv, TypeOK, Typed, Fields, MemContext, MemShape,
        MemState, MemMember, M!ClaimEnd
  <2> QED BY <1>1, <2>1, ContractEndsOne DEF MemInv
<1> QED BY <1>2, <1>3, <1>4, <1>5 DEF MemInv

LEMMA MemApply ==
    ASSUME which = "memory", MemInv, NEW c \in Contexts, M!Apply(c)
    PROVE  MemInv' /\ Contract!Next
<1>1. CASE ctx[c].token = life
  <2>1. /\ Ends(c, "end", ctx[c].closed, "committed")
        /\ db' = db + 1
        /\ UNCHANGED <<opened, active, life, lock, holder, owner, child, pins>>
    <3>1. ctx' = [ctx EXCEPT ![c] = [@ EXCEPT !.pc = "end", !.state = "committed"]]
      BY <1>1 DEF M!Apply
    <3>2. /\ db' = db + 1
          /\ UNCHANGED <<opened, active, life, lock, holder, owner, child, pins>>
      BY <1>1 DEF M!Apply
    <3>4. Ends(c, "end", ctx[c].closed, "committed")
      BY <1>1, <3>1, SMTT(30) DEF MemInv, TypeOK, Typed, Fields
    <3> QED BY <3>2, <3>4
  <2>2. TypeOK'
    <3>0. ctx'[c].closed \in BOOLEAN
      BY <2>1 DEF MemInv, TypeOK, Typed
    <3>1. Typed(ctx[c])'
      BY <1>1, <2>1, <3>0, SMTT(30) DEF MemInv, TypeOK, Typed, Fields, Places, States, Kinds
    <3>2. ASSUME NEW x \in Contexts \ {c} PROVE Typed(ctx[x])'
      BY <2>1, SMTT(30) DEF MemInv, TypeOK, Typed, Fields
    <3> QED
      BY <1>1, <2>1, <3>1, <3>2, SMTT(30) DEF MemInv, TypeOK
  <2>3. MemOwner'
    BY <1>1, <2>1, SMTT(30) DEF MemInv, TypeOK, MemOwner, MemContext, MemShape, MemState,
        M!Apply
  <2>4. ASSUME NEW x \in Contexts PROVE MemContext(x)'
    <3>1. CASE x = c
      BY <1>1, <2>1, <3>1, CoreAssumption, SMTT(30) DEF MemInv, TypeOK, Typed, Fields,
          MemOwner, MemContext, MemShape, MemState, MemSlot, MemMember, MemLife, MemPins,
          Live, MemHolds, Kinds, TxnKinds, M!Apply
    <3>2. CASE x # c
      BY <1>1, <2>1, <3>2, CoreAssumption, SMTT(30) DEF MemInv, TypeOK, Typed, Fields,
          MemOwner, MemContext, MemShape, MemState, MemSlot, MemMember, MemLife, MemPins,
          Live, MemHolds, Kinds, TxnKinds, M!Apply
    <3> QED BY <3>1, <3>2
  <2>5. Contract!Next
    <3>1. /\ ctx[c].state = "active" /\ ctx[c].pc # "read"
          /\ \/ which = "SQLite" /\ ctx[c].kind = "batch"
             \/ /\ ctx[c].life = life
                /\ \/ ctx[c].kind = "batch" \/ (which = "memory" /\ ~opened)
                   \/ ctx[c].base = db
      BY <1>1, <2>1, SMTT(30) DEF MemInv, TypeOK, Typed, Fields, MemContext, MemShape,
          MemState, MemMember, M!Apply, MemOwner, MemLife, Live, Kinds, TxnKinds
    <3>2. /\ Others(c) /\ db' = db + 1 /\ ctx'[c].pc # "read" /\ ctx'[c].state = "committed"
          /\ ctx'[c].answer = ctx[c].answer
          /\ ctx'[c].life = ctx[c].life /\ ctx'[c].base = ctx[c].base
      BY <2>1 DEF Others
    <3> QED BY <3>1, <3>2, ContractCommits DEF MemInv
  <2> QED BY <2>2, <2>3, <2>4, <2>5 DEF MemInv
<1>2. CASE ctx[c].token # life
  <2>1. /\ Ends(c, "end", ctx[c].closed, "aborted")
        /\ UNCHANGED <<opened, active, db, life, lock, holder, owner, child, pins>>
    <3>1. ctx' = [ctx EXCEPT ![c] = [@ EXCEPT !.pc = "end", !.state = "aborted"]]
      BY <1>2 DEF M!Apply
    <3>2. /\ UNCHANGED <<opened, active, db, life, lock, holder, owner, child, pins>>
      BY <1>2 DEF M!Apply
    <3>4. Ends(c, "end", ctx[c].closed, "aborted")
      BY <1>2, <3>1, SMTT(30) DEF MemInv, TypeOK, Typed, Fields
    <3> QED BY <3>2, <3>4
  <2>2. TypeOK'
    <3>0. ctx'[c].closed \in BOOLEAN
      BY <2>1 DEF MemInv, TypeOK, Typed
    <3>1. Typed(ctx[c])'
      BY <1>2, <2>1, <3>0, SMTT(30) DEF MemInv, TypeOK, Typed, Fields, Places, States, Kinds
    <3>2. ASSUME NEW x \in Contexts \ {c} PROVE Typed(ctx[x])'
      BY <2>1, SMTT(30) DEF MemInv, TypeOK, Typed, Fields
    <3> QED
      BY <1>2, <2>1, <3>1, <3>2, SMTT(30) DEF MemInv, TypeOK
  <2>3. MemOwner'
    BY <1>2, <2>1, SMTT(30) DEF MemInv, TypeOK, MemOwner, MemContext, MemShape, MemState,
        M!Apply
  <2>4. ASSUME NEW x \in Contexts PROVE MemContext(x)'
    <3>1. CASE x = c
      BY <1>2, <2>1, <3>1, CoreAssumption, SMTT(30) DEF MemInv, TypeOK, Typed, Fields,
          MemOwner, MemContext, MemShape, MemState, MemSlot, MemMember, MemLife, MemPins,
          Live, MemHolds, Kinds, TxnKinds, M!Apply
    <3>2. CASE x # c
      BY <1>2, <2>1, <3>2, CoreAssumption, SMTT(30) DEF MemInv, TypeOK, Typed, Fields,
          MemOwner, MemContext, MemShape, MemState, MemSlot, MemMember, MemLife, MemPins,
          Live, MemHolds, Kinds, TxnKinds, M!Apply
    <3> QED BY <3>1, <3>2
  <2>5. Contract!Next
    <3>1. GoesOnOrEnds(c)
      BY <1>2, <2>1, SMTT(30) DEF GoesOnOrEnds, MemInv, TypeOK, Typed, Fields, MemContext,
          MemShape, MemState, MemMember, M!Apply
    <3> QED BY <2>1, <3>1, ContractEndsOne DEF MemInv
  <2> QED BY <2>2, <2>3, <2>4, <2>5 DEF MemInv
<1> QED BY <1>1, <1>2

LEMMA MemEndWrite ==
    ASSUME which = "memory", MemInv, NEW c \in Contexts, M!EndWrite(c)
    PROVE  MemInv' /\ Contract!Next
<1>1. /\ Moves(c, "done")
      /\ holder' = M!Released(c)
      /\ active' = active \ {c}
      /\ UNCHANGED <<opened, db, life, lock, owner, child, pins>>
  BY SMTT(30) DEF MemInv, TypeOK, Typed, Fields, M!EndWrite, MemContext, MemShape, MemState
<1>2. TypeOK'
  <2>1. Typed(ctx[c])'
    BY <1>1, SMTT(30) DEF MemInv, TypeOK, Typed, Fields, Places, States, Kinds
  <2>2. ASSUME NEW x \in Contexts \ {c} PROVE Typed(ctx[x])'
    BY <1>1, SMTT(30) DEF MemInv, TypeOK, Typed, Fields
  <2> QED
    BY <1>1, <2>1, <2>2, SMTT(30) DEF MemInv, TypeOK
<1>3. MemOwner'
  BY <1>1, SMTT(30) DEF MemInv, TypeOK, MemOwner, MemContext, MemShape, MemState, M!EndWrite
<1>4. ASSUME NEW x \in Contexts PROVE MemContext(x)'
  <2>1. CASE x = c
    BY <1>1, <2>1, CoreAssumption, SMTT(30) DEF MemInv, TypeOK, Typed, Fields, MemOwner,
        MemContext, MemShape, MemState, MemSlot, MemMember, MemLife, MemPins, Live,
        MemHolds, Kinds, TxnKinds, M!EndWrite
  <2>2. CASE x # c
    BY <1>1, <2>2, CoreAssumption, SMTT(30) DEF MemInv, TypeOK, Typed, Fields, MemOwner,
        MemContext, MemShape, MemState, MemSlot, MemMember, MemLife, MemPins, Live,
        MemHolds, Kinds, TxnKinds, M!EndWrite
  <2> QED BY <2>1, <2>2
<1>5. Contract!Next
  <2>1. GoesOnOrEnds(c)
    BY <1>1, SMTT(30) DEF GoesOnOrEnds, MemInv, TypeOK, Typed, Fields, MemContext, MemShape,
        MemState, MemMember, M!EndWrite
  <2> QED BY <1>1, <2>1, ContractEndsOne DEF MemInv
<1> QED BY <1>2, <1>3, <1>4, <1>5 DEF MemInv

LEMMA MemAbort ==
    ASSUME which = "memory", MemInv, NEW c \in Contexts, M!Abort(c)
    PROVE  MemInv' /\ Contract!Next
<1>1. /\ Ends(c, "done", TRUE, IF ctx[c].closed THEN ctx[c].state ELSE M!Over(c))
      /\ holder' = IF ctx[c].closed THEN holder ELSE M!Released(c)
      /\ pins' = IF ctx[c].closed THEN pins ELSE M!Unpinned(c)
      /\ active' = active \ {c}
      /\ UNCHANGED <<opened, db, life, lock, owner, child>>
  BY SMTT(30) DEF MemInv, TypeOK, Typed, Fields, M!Abort, M!Ending, M!Unpinned, MemContext,
      MemShape, MemState
<1>2. TypeOK'
  <2>0. ctx'[c].closed \in BOOLEAN
    BY <1>1 DEF MemInv, TypeOK, Typed
  <2>1. Typed(ctx[c])'
    BY <1>1, <2>0, SMTT(30) DEF MemInv, TypeOK, Typed, Fields, Places, States, Kinds
  <2>2. ASSUME NEW x \in Contexts \ {c} PROVE Typed(ctx[x])'
    BY <1>1, SMTT(30) DEF MemInv, TypeOK, Typed, Fields
  <2> QED
    BY <1>1, <2>1, <2>2, SMTT(30) DEF MemInv, TypeOK
<1>3. MemOwner'
  BY <1>1, SMTT(30) DEF MemInv, TypeOK, MemOwner, MemContext, MemShape, MemState, M!Abort,
      M!Ending, M!Unpinned
<1>4. ASSUME NEW x \in Contexts PROVE MemContext(x)'
  <2>1. CASE x = c
    BY <1>1, <2>1, CoreAssumption, SMTT(30) DEF MemInv, TypeOK, Typed, Fields, MemOwner,
        MemContext, MemShape, MemState, MemSlot, MemMember, MemLife, MemPins, Live,
        MemHolds, Kinds, TxnKinds, M!Abort, M!Ending, M!Unpinned
  <2>2. CASE x # c
    BY <1>1, <2>2, CoreAssumption, SMTT(30) DEF MemInv, TypeOK, Typed, Fields, MemOwner,
        MemContext, MemShape, MemState, MemSlot, MemMember, MemLife, MemPins, Live,
        MemHolds, Kinds, TxnKinds, M!Abort, M!Ending, M!Unpinned
  <2> QED BY <2>1, <2>2
<1>5. Contract!Next
  <2>1. GoesOnOrEnds(c)
    BY <1>1, SMTT(30) DEF GoesOnOrEnds, MemInv, TypeOK, Typed, Fields, MemContext, MemShape,
        MemState, MemMember, M!Abort, M!Ending, M!Unpinned
  <2> QED BY <1>1, <2>1, ContractEndsOne DEF MemInv
<1> QED BY <1>2, <1>3, <1>4, <1>5 DEF MemInv

LEMMA MemDrop ==
    ASSUME which = "memory", MemInv, NEW c \in Contexts, M!Drop(c)
    PROVE  MemInv' /\ Contract!Next
<1>1. /\ Ends(c, "done", TRUE, IF ctx[c].closed THEN ctx[c].state ELSE M!Over(c))
      /\ holder' = IF ctx[c].closed THEN holder ELSE M!Released(c)
      /\ pins' = IF ctx[c].closed THEN pins ELSE M!Unpinned(c)
      /\ active' = active \ {c}
      /\ UNCHANGED <<opened, db, life, lock, owner, child>>
  BY SMTT(30) DEF MemInv, TypeOK, Typed, Fields, M!Drop, M!Ending, M!Unpinned, MemContext,
      MemShape, MemState
<1>2. TypeOK'
  <2>0. ctx'[c].closed \in BOOLEAN
    BY <1>1 DEF MemInv, TypeOK, Typed
  <2>1. Typed(ctx[c])'
    BY <1>1, <2>0, SMTT(30) DEF MemInv, TypeOK, Typed, Fields, Places, States, Kinds
  <2>2. ASSUME NEW x \in Contexts \ {c} PROVE Typed(ctx[x])'
    BY <1>1, SMTT(30) DEF MemInv, TypeOK, Typed, Fields
  <2> QED
    BY <1>1, <2>1, <2>2, SMTT(30) DEF MemInv, TypeOK
<1>3. MemOwner'
  BY <1>1, SMTT(30) DEF MemInv, TypeOK, MemOwner, MemContext, MemShape, MemState, M!Drop,
      M!Ending, M!Unpinned
<1>4. ASSUME NEW x \in Contexts PROVE MemContext(x)'
  <2>1. CASE x = c
    BY <1>1, <2>1, CoreAssumption, SMTT(30) DEF MemInv, TypeOK, Typed, Fields, MemOwner,
        MemContext, MemShape, MemState, MemSlot, MemMember, MemLife, MemPins, Live,
        MemHolds, Kinds, TxnKinds, M!Drop, M!Ending, M!Unpinned
  <2>2. CASE x # c
    BY <1>1, <2>2, CoreAssumption, SMTT(30) DEF MemInv, TypeOK, Typed, Fields, MemOwner,
        MemContext, MemShape, MemState, MemSlot, MemMember, MemLife, MemPins, Live,
        MemHolds, Kinds, TxnKinds, M!Drop, M!Ending, M!Unpinned
  <2> QED BY <2>1, <2>2
<1>5. Contract!Next
  <2>1. GoesOnOrEnds(c)
    BY <1>1, SMTT(30) DEF GoesOnOrEnds, MemInv, TypeOK, Typed, Fields, MemContext, MemShape,
        MemState, MemMember, M!Drop, M!Ending, M!Unpinned
  <2> QED BY <1>1, <2>1, ContractEndsOne DEF MemInv
<1> QED BY <1>2, <1>3, <1>4, <1>5 DEF MemInv

LEMMA MemCloseContext ==
    ASSUME which = "memory", MemInv, NEW c \in Contexts, M!CloseContext(c)
    PROVE  MemInv' /\ Contract!Next
<1>1. /\ Ends(c, ctx[c].pc, TRUE, IF ctx[c].closed THEN ctx[c].state ELSE M!Over(c))
      /\ holder' = IF ctx[c].closed THEN holder ELSE M!Released(c)
      /\ pins' = IF ctx[c].closed THEN pins ELSE M!Unpinned(c)
      /\ active' = active \ {c}
      /\ owner' = [owner EXCEPT !.toEnd = @ \ {c}]
      /\ UNCHANGED <<opened, db, life, lock, child>>
  BY SMTT(30) DEF MemInv, TypeOK, Typed, Fields, M!CloseContext, M!Ending, M!Unpinned,
      MemContext, MemShape, MemState
<1>2. TypeOK'
  <2>0. ctx'[c].closed \in BOOLEAN
    BY <1>1 DEF MemInv, TypeOK, Typed
  <2>1. Typed(ctx[c])'
    BY <1>1, <2>0, SMTT(30) DEF MemInv, TypeOK, Typed, Fields, Places, States, Kinds
  <2>2. ASSUME NEW x \in Contexts \ {c} PROVE Typed(ctx[x])'
    BY <1>1, SMTT(30) DEF MemInv, TypeOK, Typed, Fields
  <2> QED
    BY <1>1, <2>1, <2>2, SMTT(30) DEF MemInv, TypeOK
<1>3. MemOwner'
  BY <1>1, SMTT(30) DEF MemInv, TypeOK, MemOwner, MemContext, MemShape, MemState,
      M!CloseContext, M!Ending, M!Unpinned
<1>4. ASSUME NEW x \in Contexts PROVE MemContext(x)'
  <2>1. CASE x = c
    BY <1>1, <2>1, CoreAssumption, SMTT(30) DEF MemInv, TypeOK, Typed, Fields, MemOwner,
        MemContext, MemShape, MemState, MemSlot, MemMember, MemLife, MemPins, Live,
        MemHolds, Kinds, TxnKinds, M!CloseContext, M!Ending, M!Unpinned
  <2>2. CASE x # c
    BY <1>1, <2>2, CoreAssumption, SMTT(30) DEF MemInv, TypeOK, Typed, Fields, MemOwner,
        MemContext, MemShape, MemState, MemSlot, MemMember, MemLife, MemPins, Live,
        MemHolds, Kinds, TxnKinds, M!CloseContext, M!Ending, M!Unpinned
  <2> QED BY <2>1, <2>2
<1>5. Contract!Next
  <2>1. GoesOnOrEnds(c)
    BY <1>1, SMTT(30) DEF GoesOnOrEnds, MemInv, TypeOK, Typed, Fields, MemContext, MemShape,
        MemState, MemMember, M!CloseContext, M!Ending, M!Unpinned
  <2> QED BY <1>1, <2>1, ContractEndsOne DEF MemInv
<1> QED BY <1>2, <1>3, <1>4, <1>5 DEF MemInv

LEMMA MemOpen ==
    ASSUME which = "memory", MemInv, M!Open
    PROVE  MemInv' /\ Contract!Next
<1>1. /\ ~opened /\ owner.pc = "idle"
      /\ life' = life + 1 /\ db' = 0 /\ pins' = {}
      /\ owner' = [owner EXCEPT !.pc = "opening", !.opens = @ + 1]
      /\ UNCHANGED <<opened, active, lock, holder, child>>
      /\ DOMAIN ctx' = Contexts /\ \A x \in Contexts : ctx'[x] = ctx[x]
  BY DEF MemInv, TypeOK, M!Open, M!MayOpen, M!Reset
<1>2. TypeOK'
  <2>1. opened' \in BOOLEAN /\ child' \in BOOLEAN /\ active' \subseteq Contexts
    BY <1>1 DEF MemInv, TypeOK
  <2>2. ASSUME NEW x \in Contexts PROVE Typed(ctx[x])'
    BY <1>1, SMTT(30) DEF MemInv, TypeOK, Typed, Fields
  <2> QED
    BY <1>1, <2>1, <2>2, SMTT(30) DEF MemInv, TypeOK
<1>3. MemOwner'
  BY <1>1, SMTT(30) DEF MemInv, TypeOK, MemOwner
<1>4. ASSUME NEW x \in Contexts PROVE MemContext(x)'
  BY <1>1, CoreAssumption, SMTT(30) DEF MemInv, TypeOK, Typed, Fields, MemOwner, MemContext,
      MemShape, MemState, MemSlot, MemMember, MemLife, MemPins, Live, MemHolds, Kinds,
      TxnKinds
<1>5. Contract!Next
  <2>1. \A x \in Contexts : GoesOnOrEnds(x)
    BY <1>1, SMTT(30) DEF MemInv, TypeOK, Typed, Fields, GoesOnOrEnds
  <2> QED BY <1>1, <2>1, ContractEnds DEF MemInv
<1> QED BY <1>2, <1>3, <1>4, <1>5 DEF MemInv

LEMMA MemOpened ==
    ASSUME which = "memory", MemInv, M!Opened
    PROVE  MemInv' /\ Contract!Next
<1>1. /\ owner.pc = "opening" /\ opened' = TRUE
      /\ owner' = [owner EXCEPT !.pc = "idle"]
      /\ UNCHANGED <<active, db, life, lock, holder, child, pins>>
      /\ DOMAIN ctx' = Contexts /\ \A x \in Contexts : ctx'[x] = ctx[x]
  BY DEF MemInv, TypeOK, M!Opened
<1>2. TypeOK'
  <2>1. opened' \in BOOLEAN /\ child' \in BOOLEAN /\ active' \subseteq Contexts
    BY <1>1 DEF MemInv, TypeOK
  <2>2. ASSUME NEW x \in Contexts PROVE Typed(ctx[x])'
    BY <1>1, SMTT(30) DEF MemInv, TypeOK, Typed, Fields
  <2> QED
    BY <1>1, <2>1, <2>2, SMTT(30) DEF MemInv, TypeOK
<1>3. MemOwner'
  BY <1>1, SMTT(30) DEF MemInv, TypeOK, MemOwner
<1>4. ASSUME NEW x \in Contexts PROVE MemContext(x)'
  BY <1>1, CoreAssumption, SMTT(30) DEF MemInv, TypeOK, Typed, Fields, MemOwner, MemContext,
      MemShape, MemState, MemSlot, MemMember, MemLife, MemPins, Live, MemHolds, Kinds,
      TxnKinds
<1>5. Contract!Next
  <2>1. \A x \in Contexts : GoesOnOrEnds(x)
    BY <1>1, SMTT(30) DEF MemInv, TypeOK, Typed, Fields, GoesOnOrEnds
  <2> QED BY <1>1, <2>1, ContractEnds DEF MemInv
<1> QED BY <1>2, <1>3, <1>4, <1>5 DEF MemInv

LEMMA MemClose ==
    ASSUME which = "memory", MemInv, M!Close
    PROVE  MemInv' /\ Contract!Next
<1>1. /\ owner.pc = "idle" /\ opened /\ opened' = FALSE /\ active' = {}
      /\ DOMAIN owner' = DOMAIN owner /\ owner'.pc = "closing"
      /\ owner'.toEnd = active /\ owner'.opens = owner.opens
      /\ UNCHANGED <<db, life, lock, holder, child, pins>>
      /\ DOMAIN ctx' = Contexts /\ \A x \in Contexts : ctx'[x] = ctx[x]
  BY DEF MemInv, TypeOK, M!Close
<1>2. TypeOK'
  <2>1. opened' \in BOOLEAN /\ child' \in BOOLEAN /\ active' \subseteq Contexts
    BY <1>1 DEF MemInv, TypeOK
  <2>2. ASSUME NEW x \in Contexts PROVE Typed(ctx[x])'
    BY <1>1, SMTT(30) DEF MemInv, TypeOK, Typed, Fields
  <2> QED
    BY <1>1, <2>1, <2>2, SMTT(30) DEF MemInv, TypeOK
<1>3. MemOwner'
  BY <1>1, SMTT(30) DEF MemInv, TypeOK, MemOwner
<1>4. ASSUME NEW x \in Contexts PROVE MemContext(x)'
  BY <1>1, CoreAssumption, SMTT(30) DEF MemInv, TypeOK, Typed, Fields, MemOwner, MemContext,
      MemShape, MemState, MemSlot, MemMember, MemLife, MemPins, Live, MemHolds, Kinds,
      TxnKinds
<1>5. Contract!Next
  <2>1. \A x \in Contexts : GoesOnOrEnds(x)
    BY <1>1, SMTT(30) DEF MemInv, TypeOK, Typed, Fields, GoesOnOrEnds
  <2> QED BY <1>1, <2>1, ContractEnds DEF MemInv
<1> QED BY <1>2, <1>3, <1>4, <1>5 DEF MemInv

LEMMA MemReplaceSlot ==
    ASSUME which = "memory", MemInv, M!ReplaceSlot
    PROVE  MemInv' /\ Contract!Next
<1>1. /\ owner.pc = "closing" /\ owner.toEnd = {}
      /\ lock' = lock + 1 /\ holder' = NoOne
      /\ owner' = [owner EXCEPT !.pc = "resetting"]
      /\ UNCHANGED <<opened, active, db, life, child, pins>>
      /\ DOMAIN ctx' = Contexts /\ \A x \in Contexts : ctx'[x] = ctx[x]
  BY DEF MemInv, TypeOK, M!ReplaceSlot
<1>2. TypeOK'
  <2>1. opened' \in BOOLEAN /\ child' \in BOOLEAN /\ active' \subseteq Contexts
    BY <1>1 DEF MemInv, TypeOK
  <2>2. ASSUME NEW x \in Contexts PROVE Typed(ctx[x])'
    BY <1>1, SMTT(30) DEF MemInv, TypeOK, Typed, Fields
  <2> QED
    BY <1>1, <2>1, <2>2, SMTT(30) DEF MemInv, TypeOK
<1>3. MemOwner'
  BY <1>1, SMTT(30) DEF MemInv, TypeOK, MemOwner
<1>4. ASSUME NEW x \in Contexts PROVE MemContext(x)'
  BY <1>1, CoreAssumption, SMTT(30) DEF MemInv, TypeOK, Typed, Fields, MemOwner, MemContext,
      MemShape, MemState, MemSlot, MemMember, MemLife, MemPins, Live, MemHolds, Kinds,
      TxnKinds
<1>5. Contract!Next
  <2>1. \A x \in Contexts : GoesOnOrEnds(x)
    BY <1>1, SMTT(30) DEF MemInv, TypeOK, Typed, Fields, GoesOnOrEnds
  <2> QED BY <1>1, <2>1, ContractEnds DEF MemInv
<1> QED BY <1>2, <1>3, <1>4, <1>5 DEF MemInv

LEMMA MemResetStore ==
    ASSUME which = "memory", MemInv, M!ResetStore
    PROVE  MemInv' /\ Contract!Next
<1>1. /\ owner.pc = "resetting"
      /\ life' = life + 1 /\ db' = 0 /\ pins' = {}
      /\ owner' = [owner EXCEPT !.pc = "idle"]
      /\ UNCHANGED <<opened, active, lock, holder, child>>
      /\ DOMAIN ctx' = Contexts /\ \A x \in Contexts : ctx'[x] = ctx[x]
  BY DEF MemInv, TypeOK, M!ResetStore, M!Reset
<1>2. TypeOK'
  <2>1. opened' \in BOOLEAN /\ child' \in BOOLEAN /\ active' \subseteq Contexts
    BY <1>1 DEF MemInv, TypeOK
  <2>2. ASSUME NEW x \in Contexts PROVE Typed(ctx[x])'
    BY <1>1, SMTT(30) DEF MemInv, TypeOK, Typed, Fields
  <2> QED
    BY <1>1, <2>1, <2>2, SMTT(30) DEF MemInv, TypeOK
<1>3. MemOwner'
  BY <1>1, SMTT(30) DEF MemInv, TypeOK, MemOwner
<1>4. ASSUME NEW x \in Contexts PROVE MemContext(x)'
  BY <1>1, CoreAssumption, SMTT(30) DEF MemInv, TypeOK, Typed, Fields, MemOwner, MemContext,
      MemShape, MemState, MemSlot, MemMember, MemLife, MemPins, Live, MemHolds, Kinds,
      TxnKinds
<1>5. Contract!Next
  <2>1. \A x \in Contexts : GoesOnOrEnds(x)
    BY <1>1, SMTT(30) DEF MemInv, TypeOK, Typed, Fields, GoesOnOrEnds
  <2> QED BY <1>1, <2>1, ContractEnds DEF MemInv
<1> QED BY <1>2, <1>3, <1>4, <1>5 DEF MemInv

LEMMA MemFork ==
    ASSUME MemInv, M!Fork
    PROVE  MemInv' /\ Contract!Next
<1>1. /\ DOMAIN ctx' = Contexts
      /\ \A x \in Contexts : ctx'[x] = [ctx[x] EXCEPT !.pc = M!Survives(x)]
      /\ lock' = lock + 1 /\ holder' = NoOne /\ child' = TRUE
      /\ UNCHANGED <<opened, active, db, life, owner, pins>> /\ owner.pc = "idle"
  BY DEF M!Fork, M!MayFork
<1>2. \A x \in Contexts : Typed(ctx[x])'
  BY <1>1, SMTT(30) DEF MemInv, TypeOK, Typed, Fields, Places, M!Survives
<1>3. TypeOK' /\ MemOwner'
  BY <1>1, <1>2, SMTT(30) DEF MemInv, TypeOK, MemOwner
<1>4. ASSUME NEW x \in Contexts PROVE MemContext(x)'
  <2>1. (MemShape(x) /\ MemState(x) /\ MemMember(x))'
    BY <1>1, SMTT(30) DEF MemInv, TypeOK, Typed, Fields, MemOwner, MemContext, MemShape,
        MemState, MemMember, Live, M!Survives
  <2>2. MemSlot(x)'
    BY <1>1, CoreAssumption, SMTT(30) DEF MemInv, TypeOK, Typed, Fields, MemContext, MemSlot,
        MemHolds, Live, TxnKinds, M!Survives
  <2>3. (MemLife(x) /\ MemPins(x))'
    BY <1>1, SMTT(30) DEF MemInv, TypeOK, Typed, Fields, MemContext, MemLife, MemPins, Live,
        M!Survives
  <2> QED BY <2>1, <2>2, <2>3 DEF MemContext
<1>5. Contract!Next
  <2>1. \A x \in Contexts : GoesOnOrEnds(x)
    BY <1>1, SMTT(30) DEF MemInv, TypeOK, Typed, Fields, GoesOnOrEnds, M!Survives
  <2> QED BY <1>1, <2>1, ContractEnds DEF MemInv
<1> QED BY <1>3, <1>4, <1>5 DEF MemInv

-----------------------------------------------------------------------------
(* The SQLite storage.                                                      *)

\* The opener, and the connections: every open one is pooled or in somebody's hands, the
\* file lock is held through one, and none that the parent of a fork left is touched.
SqlOwner ==
    /\ owner.pc \in {"idle", "closing"}
    /\ opened => owner.pc = "idle"
    /\ owner.toEnd # {} => owner.pc = "closing"
    /\ pid \in {"own", "parent", "taken"}
    /\ pid = "parent" => ~opened /\ owner.pc = "idle"
    /\ reserved \subseteq Contexts /\ inherited \subseteq Contexts
    /\ idle \in Nat /\ conns \subseteq Contexts /\ file \in conns \cup {NoOne}
    /\ open = idle + Cardinality(conns)
    /\ ~opened => idle = 0
    /\ touched = FALSE

\* Which kinds of context reach which place.
SqlShape(x) ==
    /\ ctx[x].pc \notin {"pin", "make", "read", "end"}
    /\ ctx[x].pc \in {"take", "wait", "recheck", "apply"} => ctx[x].kind # "snapshot"
    /\ ctx[x].pc = "apply" => ctx[x].kind = "batch"
    /\ ctx[x].pc \in {"reserved", "detach"} => ctx[x].kind = "reserving"
    /\ ctx[x].pc = "use" => ctx[x].kind # "reserving"
    /\ ctx[x].token = 1 => ctx[x].kind \in TxnKinds /\ ctx[x].pc \notin {"idle", "take", "wait"}

\* A context begins once, and one that is used is open until it ended. A reservation whose
\* connection a close took begins again, but is no context of the contract any more.
SqlState(x) ==
    /\ ctx[x].pc \in {"idle", "take", "wait"} => ctx[x].state = "none"
    /\ ctx[x].pc \in {"connect", "begin"} =>
          ctx[x].state \in {"none", "aborted"} /\ (ctx[x].token = 1 => ctx[x].state = "aborted")
    /\ ctx[x].kind = "batch" /\ ctx[x].pc \in {"connect", "begin", "register", "use"} =>
          ctx[x].state = "none"
    /\ ctx[x].kind = "batch" /\ ctx[x].pc \in {"recheck", "apply"} =>
          ctx[x].state \in {"active", "aborted"} /\ (~ctx[x].closed => ctx[x].state = "active")
    /\ ctx[x].kind = "snapshot" /\ ctx[x].pc \in {"connect", "begin", "register"} =>
          /\ ~ctx[x].closed
          /\ ctx[x].state = (IF ctx[x].pc = "register" THEN "active" ELSE "none")
    /\ ctx[x].kind # "batch" /\ ctx[x].pc \in {"recheck", "register", "reserved", "detach"} =>
          ctx[x].state \in {"active", "aborted"}
    /\ ctx[x].kind # "batch" /\ ctx[x].pc = "use" =>
          ctx[x].state = (IF ctx[x].closed THEN "aborted" ELSE "active")
    /\ ctx[x].pc = "done" => ctx[x].state # "active"
    /\ ctx[x].pc = "idle" => ~ctx[x].closed
    /\ ctx[x].kind \in TxnKinds /\ ctx[x].pc \in {"take", "wait"} => ~ctx[x].closed
    /\ ctx[x].kind = "batch" /\ ctx[x].pc = "register" => ~ctx[x].closed
    /\ ctx[x].base <= db

\* A writer that a close ended goes on without the slot; one that still has it began in
\* this life, and a live transaction has the file lock too.
SqlEnded(x) ==
    /\ ctx[x].kind \in TxnKinds /\ (ctx[x].closed \/ ctx[x].state = "aborted")
          /\ ctx[x].pc \in {"take", "wait", "connect", "begin", "recheck", "register",
                            "reserved", "detach"} =>
                ctx[x].lock # lock \/ owner.pc = "closing"
    /\ ctx[x].kind \in TxnKinds /\ ctx[x].pc \notin {"done", "gone"} /\ ctx[x].state # "none"
          /\ ctx[x].lock = lock => ctx[x].life = life
    /\ ctx[x].kind \in TxnKinds /\ ctx[x].pc = "use" /\ ~ctx[x].closed =>
          ctx[x].lock = lock /\ file = x

\* Who has a connection in hand; through the one with the file lock nobody else has
\* committed since its context began.
SqlConns(x) ==
    /\ ctx[x].pc \in {"idle", "take", "wait", "connect", "done"} => x \notin conns
    /\ ctx[x].kind = "batch" /\ ctx[x].pc \in {"use", "register"} => x \notin conns
    /\ ctx[x].kind # "batch" /\ ctx[x].pc = "use" => (x \in conns <=> ~ctx[x].closed)
    /\ ctx[x].pc \in {"recheck", "apply"} => file = x
    /\ ctx[x].pc \in {"begin", "recheck"} => x \in conns
    /\ ctx[x].kind # "batch" /\ ctx[x].pc \in {"register", "reserved", "detach"}
          /\ ctx[x].state = "active" => x \in conns
    /\ x \in conns /\ ctx[x].kind \in TxnKinds
          /\ ctx[x].pc \in {"register", "reserved", "detach"} => file = x
    /\ file = x /\ ctx[x].state = "active" /\ ctx[x].pc # "gone" => ctx[x].base = db
    /\ file = x => ctx[x].pc # "begin"
    /\ x \in conns /\ ctx[x].pc = "gone" => x \in inherited
    /\ x \in inherited => ctx[x].pc = "gone"
    /\ pid = "parent" => ctx[x].pc \in {"idle", "done", "gone"}

\* Who may hold the slot: a thread that was lost in a fork, if the child of a closed storage
\* did not look.
SqlSlot(x) ==
    holder = x =>
        /\ ctx[x].lock = lock /\ ctx[x].kind # "snapshot"
        /\ \/ ctx[x].pc \in {"connect", "begin", "recheck", "reserved", "detach", "apply"}
           \/ ctx[x].kind # "batch" /\ ctx[x].pc = "register"
           \/ ctx[x].kind # "batch" /\ ctx[x].pc = "use" /\ ~ctx[x].closed
           \/ ctx[x].pc = "gone" /\ pid # "own"

\* Every live context is registered, or being ended by close; a batch that was lost in a
\* fork may be too.
SqlMember(x) ==
    /\ x \in active =>
          /\ ctx[x].pc \notin {"idle", "done", "reserved", "detach"}
          /\ ctx[x].pc = "gone" => ctx[x].kind = "batch" /\ pid # "own"
          /\ ctx[x].kind # "batch" => ctx[x].pc = "use" /\ opened /\ ~ctx[x].closed
          /\ ctx[x].kind = "batch" => ctx[x].pc # "register"
    /\ x \in active \cup owner.toEnd /\ ctx[x].kind = "batch" =>
          ctx[x].pc \in {"use", "take", "wait", "connect", "begin", "recheck", "apply", "done",
                        "gone"}
    /\ ctx[x].kind # "batch" /\ ctx[x].pc = "use" /\ ~ctx[x].closed =>
          x \in active \cup owner.toEnd
    /\ ctx[x].pc = "use" /\ ctx[x].closed => x \notin active
    /\ x \in reserved \cup owner.toEnd => 
          /\ ctx[x].pc # "idle"
          /\ ctx[x].pc = "gone" => ctx[x].kind = "batch" /\ pid # "own"
    /\ x \in reserved => opened /\ ctx[x].kind \in TxnKinds
    /\ x \in owner.toEnd => x \notin active
    /\ x \in owner.toEnd /\ ctx[x].kind = "snapshot" => ctx[x].pc \in {"use", "done"}
    /\ x \in reserved \cup owner.toEnd /\ ctx[x].kind \in TxnKinds =>
          /\ ctx[x].pc \in {"reserved", "detach", "register", "use", "done"}
          /\ ctx[x].kind = "reserving" => ctx[x].pc \in {"reserved", "detach", "done"}
          /\ ctx[x].pc \in {"reserved", "detach"} => x \in conns

SqlContext(x) ==
    SqlShape(x) /\ SqlState(x) /\ SqlEnded(x) /\ SqlConns(x) /\ SqlSlot(x) /\ SqlMember(x)

SqlInv == TypeOK /\ SqlOwner /\ \A x \in Contexts : SqlContext(x)

USE DEF S!At, S!Goto, S!Writes, S!Began, S!Over, S!Released, S!Replaced, S!KeepConns,
        S!KeepOthers, S!poolVars, S!forkVars

\* The connection of c, if it has one, is pooled or closed.
Gave(c) ==
    /\ conns' = conns \ {c} /\ file' = (IF file = c THEN NoOne ELSE file)
    /\ idle' \in Nat /\ (~opened => idle' = idle)
    /\ open' = idle' + Cardinality(conns') /\ touched' = FALSE

LEMMA SqlCount ==
    ASSUME SqlInv
    PROVE  IsFiniteSet(conns) /\ Cardinality(conns) \in Nat
<1>1. IsFiniteSet(conns)
  BY CoreAssumption, FS_Subset DEF SqlInv, SqlOwner
<1> QED BY <1>1, FS_CardinalityType

LEMMA SqlCounts ==
    ASSUME SqlInv, NEW c \in Contexts
    PROVE  /\ Cardinality(conns) \in Nat
           /\ c \in conns => Cardinality(conns \ {c}) = Cardinality(conns) - 1
           /\ c \notin conns =>
                 conns \ {c} = conns /\ Cardinality(conns \cup {c}) = Cardinality(conns) + 1
BY SqlCount, FS_CardinalityType, FS_AddElement, FS_RemoveElement

LEMMA SqlGives ==
    ASSUME SqlInv, NEW c \in Contexts, ctx[c].pc # "gone", S!GiveConn(c)
    PROVE  Gave(c)
<1>1. c \notin inherited
  BY DEF SqlInv, SqlContext, SqlConns
<1>2. touched' = FALSE /\ conns' = conns \ {c} /\ file' = (IF file = c THEN NoOne ELSE file)
  BY <1>1 DEF SqlInv, SqlOwner, S!GiveConn
<1>3. CASE c \notin conns
  <2>1. idle' = idle /\ open' = open /\ conns' = conns
    BY <1>2, <1>3 DEF S!GiveConn
  <2> QED BY <1>2, <2>1 DEF Gave, SqlInv, SqlOwner
<1>4. CASE c \in conns
  <2>1. \/ idle' = idle + 1 /\ open' = open /\ opened
        \/ idle' = idle /\ open' = open - 1
    BY <1>4 DEF S!GiveConn
  <2>2. Cardinality(conns') = Cardinality(conns) - 1 /\ Cardinality(conns) \in Nat
    BY <1>2, <1>4, SqlCounts
  <2>3. idle \in Nat /\ open = idle + Cardinality(conns)
    BY DEF SqlInv, SqlOwner
  <2>4. idle' \in Nat /\ (~opened => idle' = idle) /\ open' = idle' + Cardinality(conns')
    BY <2>1, <2>2, <2>3, SMT
  <2> QED BY <1>2, <2>4 DEF Gave
<1> QED BY <1>3, <1>4

\* c has no connection of the parent's.
LEMMA SqlUntouched ==
    ASSUME SqlInv, NEW c \in Contexts, ctx[c].pc # "gone"
    PROVE  c \notin inherited /\ touched = FALSE
BY DEF SqlInv, SqlOwner, SqlContext, SqlConns

\* The connection of c, if it has one, is closed.
LEMMA SqlDrops ==
    ASSUME SqlInv, NEW c \in Contexts, ctx[c].pc # "gone", S!DropConn(c)
    PROVE  Gave(c)
<1>1. /\ conns' = conns \ {c} /\ file' = (IF file = c THEN NoOne ELSE file)
      /\ idle' = idle /\ touched' = FALSE
  BY SqlUntouched DEF S!DropConn
<1>2. idle \in Nat /\ open = idle + Cardinality(conns)
  BY DEF SqlInv, SqlOwner
<1>3. CASE c \notin conns
  <2>1. open' = open /\ conns' = conns
    BY <1>1, <1>3 DEF S!DropConn
  <2> QED BY <1>1, <1>2, <2>1 DEF Gave
<1>4. CASE c \in conns
  <2>1. open' = open - 1
    BY <1>4 DEF S!DropConn
  <2>2. Cardinality(conns') = Cardinality(conns) - 1 /\ Cardinality(conns) \in Nat
    BY <1>1, <1>4, SqlCounts
  <2>3. open' = idle' + Cardinality(conns')
    BY <1>1, <1>2, <2>1, <2>2, SMT
  <2> QED BY <1>1, <1>2, <2>3 DEF Gave
<1> QED BY <1>3, <1>4

\* c has a connection, from the pool or a new one.
Acquired(c) ==
    /\ conns' = conns \cup {c}
    /\ idle' \in Nat /\ (idle = 0 => idle' = 0)
    /\ open' = idle' + Cardinality(conns')

LEMMA SqlAcquires ==
    ASSUME SqlInv, NEW c \in Contexts, c \notin conns, S!Acquire(c)
    PROVE  Acquired(c)
<1>1. conns' = conns \cup {c}
  BY DEF S!Acquire
<1>2. idle \in Nat /\ open = idle + Cardinality(conns)
  BY DEF SqlInv, SqlOwner
<1>3. Cardinality(conns') = Cardinality(conns) + 1 /\ Cardinality(conns) \in Nat
  BY <1>1, SqlCounts
<1>4. \/ idle > 0 /\ idle' = idle - 1 /\ open' = open
      \/ ~(idle > 0) /\ idle' = idle /\ open' = open + 1
  BY DEF S!Acquire
<1>5. idle' \in Nat /\ (idle = 0 => idle' = 0) /\ open' = idle' + Cardinality(conns')
  BY <1>2, <1>3, <1>4, SMT
<1> QED BY <1>1, <1>5 DEF Acquired

LEMMA SqlCall ==
    ASSUME which = "SQLite", SqlInv, NEW c \in Contexts, S!Call(c)
    PROVE  SqlInv' /\ Contract!Next
<1>1. /\ Moves(c, IF ~opened \/ (poisoned /\ S!Writes(c)) THEN "done"
                  ELSE CASE ctx[c].kind = "snapshot" -> "connect"
                         [] ctx[c].kind = "batch" -> "register"
                         [] OTHER -> "take")
      /\ UNCHANGED <<opened, active, db, life, lock, holder, owner, child, reserved, pid,
                     inherited>>
      /\ UNCHANGED <<idle, conns, open, file, touched>>
  BY SMTT(30) DEF SqlInv, TypeOK, Typed, Fields, S!Call, SqlContext, SqlShape, SqlState,
      SqlConns
<1>2. TypeOK'
  <2>1. Typed(ctx[c])'
    BY <1>1, SMTT(30) DEF SqlInv, TypeOK, Typed, Fields, Places, States, Kinds
  <2>2. ASSUME NEW x \in Contexts \ {c} PROVE Typed(ctx[x])'
    BY <1>1, SMTT(30) DEF SqlInv, TypeOK, Typed, Fields
  <2> QED
    BY <1>1, <2>1, <2>2, SMTT(30) DEF SqlInv, TypeOK
<1>3. SqlOwner'
  BY <1>1, SMTT(30) DEF SqlInv, TypeOK, SqlOwner, Gave, Acquired, SqlContext, SqlShape,
      SqlState, SqlConns, S!Call
<1>4. ASSUME NEW x \in Contexts PROVE SqlContext(x)'
  <2>1. CASE x = c
    <3>1. SqlShape(c)'
      BY <1>1, CoreAssumption, SMTT(30) DEF SqlInv, TypeOK, Typed, Fields, SqlOwner,
          SqlContext, SqlShape, SqlState, SqlEnded, SqlConns, SqlSlot, SqlMember, Gave,
          Acquired, Kinds, TxnKinds, S!Call
    <3>2. SqlState(c)'
      BY <1>1, CoreAssumption, SMTT(30) DEF SqlInv, TypeOK, Typed, Fields, SqlOwner,
          SqlContext, SqlShape, SqlState, SqlEnded, SqlConns, SqlSlot, SqlMember, Gave,
          Acquired, Kinds, TxnKinds, S!Call
    <3>3. SqlEnded(c)'
      BY <1>1, CoreAssumption, SMTT(30) DEF SqlInv, TypeOK, Typed, Fields, SqlOwner,
          SqlContext, SqlShape, SqlState, SqlEnded, SqlConns, SqlSlot, SqlMember, Gave,
          Acquired, Kinds, TxnKinds, S!Call
    <3>4. SqlConns(c)'
      BY <1>1, CoreAssumption, SMTT(30) DEF SqlInv, TypeOK, Typed, Fields, SqlOwner,
          SqlContext, SqlShape, SqlState, SqlEnded, SqlConns, SqlSlot, SqlMember, Gave,
          Acquired, Kinds, TxnKinds, S!Call
    <3>5. SqlSlot(c)'
      BY <1>1, CoreAssumption, SMTT(30) DEF SqlInv, TypeOK, Typed, Fields, SqlOwner,
          SqlContext, SqlShape, SqlState, SqlEnded, SqlConns, SqlSlot, SqlMember, Gave,
          Acquired, Kinds, TxnKinds, S!Call
    <3>6. SqlMember(c)'
      BY <1>1, CoreAssumption, SMTT(30) DEF SqlInv, TypeOK, Typed, Fields, SqlOwner,
          SqlContext, SqlShape, SqlState, SqlEnded, SqlConns, SqlSlot, SqlMember, Gave,
          Acquired, Kinds, TxnKinds, S!Call
    <3> QED BY <2>1, <3>1, <3>2, <3>3, <3>4, <3>5, <3>6 DEF SqlContext
  <2>2. CASE x # c
    BY <1>1, <2>2, CoreAssumption, SMTT(30) DEF SqlInv, TypeOK, Typed, Fields, SqlOwner,
        SqlContext, SqlShape, SqlState, SqlEnded, SqlConns, SqlSlot, SqlMember, Gave,
        Acquired, Kinds, TxnKinds, S!Call
  <2> QED BY <2>1, <2>2
<1>5. Contract!Next
  <2>1. GoesOnOrEnds(c)
    BY <1>1, SMTT(30) DEF GoesOnOrEnds, SqlInv, TypeOK, Typed, Fields, SqlContext, SqlShape,
        SqlState, SqlMember, S!Call
  <2> QED BY <1>1, <2>1, ContractEndsOne DEF SqlInv
<1> QED BY <1>2, <1>3, <1>4, <1>5 DEF SqlInv

LEMMA SqlTakeSlot ==
    ASSUME which = "SQLite", SqlInv, NEW c \in Contexts, S!TakeSlot(c)
    PROVE  SqlInv' /\ Contract!Next
<1>1. CASE S!Ask(c)
  <2>1. /\ Queues(c)
        /\ UNCHANGED <<opened, active, db, life, lock, holder, owner, child, reserved, pid,
                       inherited>>
        /\ UNCHANGED <<idle, conns, open, file, touched>>
    BY <1>1, SMTT(30) DEF SqlInv, TypeOK, Typed, Fields, S!TakeSlot, S!Ask, S!Granted,
        SqlContext, SqlShape, SqlState, SqlConns
  <2>2. TypeOK'
    <3>1. Typed(ctx[c])'
      BY <1>1, <2>1, SMTT(30) DEF SqlInv, TypeOK, Typed, Fields, Places, States, Kinds
    <3>2. ASSUME NEW x \in Contexts \ {c} PROVE Typed(ctx[x])'
      BY <2>1, SMTT(30) DEF SqlInv, TypeOK, Typed, Fields
    <3> QED
      BY <1>1, <2>1, <3>1, <3>2, SMTT(30) DEF SqlInv, TypeOK
  <2>3. SqlOwner'
    BY <1>1, <2>1, SMTT(30) DEF SqlInv, TypeOK, SqlOwner, Gave, Acquired, SqlContext,
        SqlShape, SqlState, SqlConns, S!TakeSlot, S!Ask, S!Granted
  <2>4. ASSUME NEW x \in Contexts PROVE SqlContext(x)'
    <3>1. CASE x = c
      <4>1. SqlShape(c)'
        BY <1>1, <2>1, CoreAssumption, SMTT(30) DEF SqlInv, TypeOK, Typed, Fields, SqlOwner,
            SqlContext, SqlShape, SqlState, SqlEnded, SqlConns, SqlSlot, SqlMember, Gave,
            Acquired, Kinds, TxnKinds, S!TakeSlot, S!Ask, S!Granted
      <4>2. SqlState(c)'
        BY <1>1, <2>1, CoreAssumption, SMTT(30) DEF SqlInv, TypeOK, Typed, Fields, SqlOwner,
            SqlContext, SqlShape, SqlState, SqlEnded, SqlConns, SqlSlot, SqlMember, Gave,
            Acquired, Kinds, TxnKinds, S!TakeSlot, S!Ask, S!Granted
      <4>3. SqlEnded(c)'
        BY <1>1, <2>1, CoreAssumption, SMTT(30) DEF SqlInv, TypeOK, Typed, Fields, SqlOwner,
            SqlContext, SqlShape, SqlState, SqlEnded, SqlConns, SqlSlot, SqlMember, Gave,
            Acquired, Kinds, TxnKinds, S!TakeSlot, S!Ask, S!Granted
      <4>4. SqlConns(c)'
        BY <1>1, <2>1, CoreAssumption, SMTT(30) DEF SqlInv, TypeOK, Typed, Fields, SqlOwner,
            SqlContext, SqlShape, SqlState, SqlEnded, SqlConns, SqlSlot, SqlMember, Gave,
            Acquired, Kinds, TxnKinds, S!TakeSlot, S!Ask, S!Granted
      <4>5. SqlSlot(c)'
        BY <1>1, <2>1, CoreAssumption, SMTT(30) DEF SqlInv, TypeOK, Typed, Fields, SqlOwner,
            SqlContext, SqlShape, SqlState, SqlEnded, SqlConns, SqlSlot, SqlMember, Gave,
            Acquired, Kinds, TxnKinds, S!TakeSlot, S!Ask, S!Granted
      <4>6. SqlMember(c)'
        BY <1>1, <2>1, CoreAssumption, SMTT(30) DEF SqlInv, TypeOK, Typed, Fields, SqlOwner,
            SqlContext, SqlShape, SqlState, SqlEnded, SqlConns, SqlSlot, SqlMember, Gave,
            Acquired, Kinds, TxnKinds, S!TakeSlot, S!Ask, S!Granted
      <4> QED BY <3>1, <4>1, <4>2, <4>3, <4>4, <4>5, <4>6 DEF SqlContext
    <3>2. CASE x # c
      BY <1>1, <2>1, <3>2, CoreAssumption, SMTT(30) DEF SqlInv, TypeOK, Typed, Fields,
          SqlOwner, SqlContext, SqlShape, SqlState, SqlEnded, SqlConns, SqlSlot, SqlMember,
          Gave, Acquired, Kinds, TxnKinds, S!TakeSlot, S!Ask, S!Granted
    <3> QED BY <3>1, <3>2
  <2>5. Contract!Next
    <3>1. GoesOnOrEnds(c)
      BY <1>1, <2>1, SMTT(30) DEF GoesOnOrEnds, SqlInv, TypeOK, Typed, Fields, SqlContext,
          SqlShape, SqlState, SqlMember, S!TakeSlot, S!Ask, S!Granted
    <3> QED BY <2>1, <3>1, ContractEndsOne DEF SqlInv
  <2> QED BY <2>2, <2>3, <2>4, <2>5 DEF SqlInv
<1>2. CASE S!Granted(c)
  <2>1. /\ Moves(c, "connect")
        /\ holder' = c /\ ctx[c].lock = lock /\ holder = NoOne
        /\ UNCHANGED <<opened, active, db, life, lock, owner, child, reserved, pid, inherited>>
        /\ UNCHANGED <<idle, conns, open, file, touched>>
    BY <1>2, SMTT(30) DEF SqlInv, TypeOK, Typed, Fields, S!TakeSlot, S!Ask, S!Granted,
        SqlContext, SqlShape, SqlState, SqlConns
  <2>2. TypeOK'
    <3>1. Typed(ctx[c])'
      BY <1>2, <2>1, SMTT(30) DEF SqlInv, TypeOK, Typed, Fields, Places, States, Kinds
    <3>2. ASSUME NEW x \in Contexts \ {c} PROVE Typed(ctx[x])'
      BY <2>1, SMTT(30) DEF SqlInv, TypeOK, Typed, Fields
    <3> QED
      BY <1>2, <2>1, <3>1, <3>2, SMTT(30) DEF SqlInv, TypeOK
  <2>3. SqlOwner'
    BY <1>2, <2>1, SMTT(30) DEF SqlInv, TypeOK, SqlOwner, Gave, Acquired, SqlContext,
        SqlShape, SqlState, SqlConns, S!TakeSlot, S!Ask, S!Granted
  <2>4. ASSUME NEW x \in Contexts PROVE SqlContext(x)'
    <3>1. CASE x = c
      <4>1. SqlShape(c)'
        BY <1>2, <2>1, CoreAssumption, SMTT(30) DEF SqlInv, TypeOK, Typed, Fields, SqlOwner,
            SqlContext, SqlShape, SqlState, SqlEnded, SqlConns, SqlSlot, SqlMember, Gave,
            Acquired, Kinds, TxnKinds, S!TakeSlot, S!Ask, S!Granted
      <4>2. SqlState(c)'
        BY <1>2, <2>1, CoreAssumption, SMTT(30) DEF SqlInv, TypeOK, Typed, Fields, SqlOwner,
            SqlContext, SqlShape, SqlState, SqlEnded, SqlConns, SqlSlot, SqlMember, Gave,
            Acquired, Kinds, TxnKinds, S!TakeSlot, S!Ask, S!Granted
      <4>3. SqlEnded(c)'
        BY <1>2, <2>1, CoreAssumption, SMTT(30) DEF SqlInv, TypeOK, Typed, Fields, SqlOwner,
            SqlContext, SqlShape, SqlState, SqlEnded, SqlConns, SqlSlot, SqlMember, Gave,
            Acquired, Kinds, TxnKinds, S!TakeSlot, S!Ask, S!Granted
      <4>4. SqlConns(c)'
        BY <1>2, <2>1, CoreAssumption, SMTT(30) DEF SqlInv, TypeOK, Typed, Fields, SqlOwner,
            SqlContext, SqlShape, SqlState, SqlEnded, SqlConns, SqlSlot, SqlMember, Gave,
            Acquired, Kinds, TxnKinds, S!TakeSlot, S!Ask, S!Granted
      <4>5. SqlSlot(c)'
        BY <1>2, <2>1, CoreAssumption, SMTT(30) DEF SqlInv, TypeOK, Typed, Fields, SqlOwner,
            SqlContext, SqlShape, SqlState, SqlEnded, SqlConns, SqlSlot, SqlMember, Gave,
            Acquired, Kinds, TxnKinds, S!TakeSlot, S!Ask, S!Granted
      <4>6. SqlMember(c)'
        BY <1>2, <2>1, CoreAssumption, SMTT(30) DEF SqlInv, TypeOK, Typed, Fields, SqlOwner,
            SqlContext, SqlShape, SqlState, SqlEnded, SqlConns, SqlSlot, SqlMember, Gave,
            Acquired, Kinds, TxnKinds, S!TakeSlot, S!Ask, S!Granted
      <4> QED BY <3>1, <4>1, <4>2, <4>3, <4>4, <4>5, <4>6 DEF SqlContext
    <3>2. CASE x # c
      BY <1>2, <2>1, <3>2, CoreAssumption, SMTT(30) DEF SqlInv, TypeOK, Typed, Fields,
          SqlOwner, SqlContext, SqlShape, SqlState, SqlEnded, SqlConns, SqlSlot, SqlMember,
          Gave, Acquired, Kinds, TxnKinds, S!TakeSlot, S!Ask, S!Granted
    <3> QED BY <3>1, <3>2
  <2>5. Contract!Next
    <3>1. GoesOnOrEnds(c)
      BY <1>2, <2>1, SMTT(30) DEF GoesOnOrEnds, SqlInv, TypeOK, Typed, Fields, SqlContext,
          SqlShape, SqlState, SqlMember, S!TakeSlot, S!Ask, S!Granted
    <3> QED BY <2>1, <3>1, ContractEndsOne DEF SqlInv
  <2> QED BY <2>2, <2>3, <2>4, <2>5 DEF SqlInv
<1> QED BY <1>1, <1>2 DEF S!TakeSlot

LEMMA SqlGiveUp ==
    ASSUME which = "SQLite", SqlInv, NEW c \in Contexts, S!GiveUp(c)
    PROVE  SqlInv' /\ Contract!Next
<1>1. /\ Ends(c, "done", TRUE, S!Over(c))
      /\ active' = active \ {c}
      /\ UNCHANGED <<opened, db, life, lock, holder, owner, child, reserved, pid, inherited>>
      /\ UNCHANGED <<idle, conns, open, file, touched>>
  BY SMTT(30) DEF SqlInv, TypeOK, Typed, Fields, S!GiveUp, S!Denied, SqlContext, SqlShape,
      SqlState, SqlConns
<1>2. TypeOK'
  <2>0. ctx'[c].closed \in BOOLEAN
    BY <1>1 DEF SqlInv, TypeOK, Typed
  <2>1. Typed(ctx[c])'
    BY <1>1, <2>0, SMTT(30) DEF SqlInv, TypeOK, Typed, Fields, Places, States, Kinds
  <2>2. ASSUME NEW x \in Contexts \ {c} PROVE Typed(ctx[x])'
    BY <1>1, SMTT(30) DEF SqlInv, TypeOK, Typed, Fields
  <2> QED
    BY <1>1, <2>1, <2>2, SMTT(30) DEF SqlInv, TypeOK
<1>3. SqlOwner'
  BY <1>1, SMTT(30) DEF SqlInv, TypeOK, SqlOwner, Gave, Acquired, SqlContext, SqlShape,
      SqlState, SqlConns, S!GiveUp, S!Denied
<1>4. ASSUME NEW x \in Contexts PROVE SqlContext(x)'
  <2>1. CASE x = c
    BY <1>1, <2>1, CoreAssumption, SMTT(30) DEF SqlInv, TypeOK, Typed, Fields, SqlOwner,
        SqlContext, SqlShape, SqlState, SqlEnded, SqlConns, SqlSlot, SqlMember, Gave,
        Acquired, Kinds, TxnKinds, S!GiveUp, S!Denied
  <2>2. CASE x # c
    BY <1>1, <2>2, CoreAssumption, SMTT(30) DEF SqlInv, TypeOK, Typed, Fields, SqlOwner,
        SqlContext, SqlShape, SqlState, SqlEnded, SqlConns, SqlSlot, SqlMember, Gave,
        Acquired, Kinds, TxnKinds, S!GiveUp, S!Denied
  <2> QED BY <2>1, <2>2
<1>5. Contract!Next
  <2>1. GoesOnOrEnds(c)
    BY <1>1, SMTT(30) DEF GoesOnOrEnds, SqlInv, TypeOK, Typed, Fields, SqlContext, SqlShape,
        SqlState, SqlMember, S!GiveUp, S!Denied
  <2> QED BY <1>1, <2>1, ContractEndsOne DEF SqlInv
<1> QED BY <1>2, <1>3, <1>4, <1>5 DEF SqlInv

LEMMA SqlConnect ==
    ASSUME which = "SQLite", SqlInv, NEW c \in Contexts, S!Connect(c)
    PROVE  SqlInv' /\ Contract!Next
<1>1. /\ Moves(c, "begin")
      /\ UNCHANGED <<opened, active, db, life, lock, holder, owner, child, reserved, pid,
                     inherited>>
      /\ UNCHANGED <<file, touched>>
      /\ Acquired(c)
  <2>1. ctx' = [ctx EXCEPT ![c].pc = "begin"]
    BY DEF S!Connect, S!Acquire, SqlInv, SqlContext, SqlConns
  <2>2. /\ c \notin conns
        /\ S!Acquire(c)
        /\ UNCHANGED <<opened, active, db, life, lock, holder, owner, child, reserved, pid,
                       inherited>>
        /\ UNCHANGED <<file, touched>>
    BY DEF S!Connect, S!Acquire, SqlInv, SqlContext, SqlConns
  <2>3. Acquired(c)
    BY <2>2, SqlAcquires
  <2>4. Moves(c, "begin")
    BY <2>1, <2>2, SMTT(30) DEF SqlInv, TypeOK, Typed, Fields
  <2> QED BY <2>2, <2>3, <2>4
<1>2. TypeOK'
  <2>1. Typed(ctx[c])'
    BY <1>1, SMTT(30) DEF SqlInv, TypeOK, Typed, Fields, Places, States, Kinds
  <2>2. ASSUME NEW x \in Contexts \ {c} PROVE Typed(ctx[x])'
    BY <1>1, SMTT(30) DEF SqlInv, TypeOK, Typed, Fields
  <2> QED
    BY <1>1, <2>1, <2>2, SMTT(30) DEF SqlInv, TypeOK
<1>3. SqlOwner'
  BY <1>1, SMTT(30) DEF SqlInv, TypeOK, SqlOwner, Gave, Acquired, SqlContext, SqlShape,
      SqlState, SqlConns, S!Connect, S!Acquire
<1>4. ASSUME NEW x \in Contexts PROVE SqlContext(x)'
  <2>1. CASE x = c
    BY <1>1, <2>1, CoreAssumption, SMTT(30) DEF SqlInv, TypeOK, Typed, Fields, SqlOwner,
        SqlContext, SqlShape, SqlState, SqlEnded, SqlConns, SqlSlot, SqlMember, Gave,
        Acquired, Kinds, TxnKinds, S!Connect, S!Acquire
  <2>2. CASE x # c
    BY <1>1, <2>2, CoreAssumption, SMTT(30) DEF SqlInv, TypeOK, Typed, Fields, SqlOwner,
        SqlContext, SqlShape, SqlState, SqlEnded, SqlConns, SqlSlot, SqlMember, Gave,
        Acquired, Kinds, TxnKinds, S!Connect, S!Acquire
  <2> QED BY <2>1, <2>2
<1>5. Contract!Next
  <2>1. GoesOnOrEnds(c)
    BY <1>1, SMTT(30) DEF GoesOnOrEnds, SqlInv, TypeOK, Typed, Fields, SqlContext, SqlShape,
        SqlState, SqlMember, S!Connect, S!Acquire
  <2> QED BY <1>1, <2>1, ContractEndsOne DEF SqlInv
<1> QED BY <1>2, <1>3, <1>4, <1>5 DEF SqlInv

LEMMA SqlBeginOn ==
    ASSUME which = "SQLite", SqlInv, NEW c \in Contexts, S!BeginOn(c)
    PROVE  SqlInv' /\ Contract!Next
<1>1. CASE ctx[c].state = "none" /\ ctx[c].kind \in {"txn", "batch"}
  <2>1. /\ Begins(c, "recheck", ctx[c].token)
        /\ S!Writes(c) => file = NoOne /\ file' = c
        /\ ~S!Writes(c) => file' = file
        /\ UNCHANGED <<opened, active, db, life, lock, holder, owner, child, reserved, pid,
                       inherited>>
        /\ UNCHANGED <<idle, conns, open, touched>>
    <3>1. ctx' = [ctx EXCEPT ![c] = S!Began(c, "recheck")]
      BY <1>1 DEF S!BeginOn
    <3>2. /\ S!Writes(c) => file = NoOne /\ file' = c
          /\ ~S!Writes(c) => file' = file
          /\ UNCHANGED <<opened, active, db, life, lock, holder, owner, child, reserved, pid,
                         inherited>>
          /\ UNCHANGED <<idle, conns, open, touched>>
      BY <1>1 DEF S!BeginOn
    <3>4. Begins(c, "recheck", ctx[c].token)
      BY <1>1, <3>1, SMTT(30) DEF SqlInv, TypeOK, Typed, Fields
    <3> QED BY <3>2, <3>4
  <2>2. TypeOK'
    <3>1. Typed(ctx[c])'
      BY <1>1, <2>1, SMTT(30) DEF SqlInv, TypeOK, Typed, Fields, Places, States, Kinds
    <3>2. ASSUME NEW x \in Contexts \ {c} PROVE Typed(ctx[x])'
      BY <2>1, SMTT(30) DEF SqlInv, TypeOK, Typed, Fields
    <3> QED
      BY <1>1, <2>1, <3>1, <3>2, SMTT(30) DEF SqlInv, TypeOK
  <2>3. SqlOwner'
    BY <1>1, <2>1, SMTT(30) DEF SqlInv, TypeOK, SqlOwner, Gave, Acquired, SqlContext,
        SqlShape, SqlState, SqlConns, S!BeginOn
  <2>4. ASSUME NEW x \in Contexts PROVE SqlContext(x)'
    <3>1. CASE x = c
      BY <1>1, <2>1, <3>1, CoreAssumption, SMTT(30) DEF SqlInv, TypeOK, Typed, Fields,
          SqlOwner, SqlContext, SqlShape, SqlState, SqlEnded, SqlConns, SqlSlot, SqlMember,
          Gave, Acquired, Kinds, TxnKinds, S!BeginOn
    <3>2. CASE x # c
      BY <1>1, <2>1, <3>2, CoreAssumption, SMTT(30) DEF SqlInv, TypeOK, Typed, Fields,
          SqlOwner, SqlContext, SqlShape, SqlState, SqlEnded, SqlConns, SqlSlot, SqlMember,
          Gave, Acquired, Kinds, TxnKinds, S!BeginOn
    <3> QED BY <3>1, <3>2
  <2>5. Contract!Next
    <3>1. ctx[c].state = "none" /\ ctx[c].pc # "read"
      BY <1>1, SMTT(30) DEF SqlInv, TypeOK, Typed, Fields, SqlContext, SqlShape, SqlState,
          SqlMember, S!BeginOn
    <3>2. Others(c)
      BY <2>1 DEF Others
    <3> QED BY <2>1, <3>1, <3>2, ContractBegins DEF SqlInv
  <2> QED BY <2>2, <2>3, <2>4, <2>5 DEF SqlInv
<1>2. CASE ctx[c].state = "none" /\ ctx[c].kind \notin {"txn", "batch"}
  <2>1. /\ Begins(c, "register", ctx[c].token)
        /\ S!Writes(c) => file = NoOne /\ file' = c
        /\ ~S!Writes(c) => file' = file
        /\ UNCHANGED <<opened, active, db, life, lock, holder, owner, child, reserved, pid,
                       inherited>>
        /\ UNCHANGED <<idle, conns, open, touched>>
    <3>1. ctx' = [ctx EXCEPT ![c] = S!Began(c, "register")]
      BY <1>2 DEF S!BeginOn
    <3>2. /\ S!Writes(c) => file = NoOne /\ file' = c
          /\ ~S!Writes(c) => file' = file
          /\ UNCHANGED <<opened, active, db, life, lock, holder, owner, child, reserved, pid,
                         inherited>>
          /\ UNCHANGED <<idle, conns, open, touched>>
      BY <1>2 DEF S!BeginOn
    <3>4. Begins(c, "register", ctx[c].token)
      BY <1>2, <3>1, SMTT(30) DEF SqlInv, TypeOK, Typed, Fields
    <3> QED BY <3>2, <3>4
  <2>2. TypeOK'
    <3>1. Typed(ctx[c])'
      BY <1>2, <2>1, SMTT(30) DEF SqlInv, TypeOK, Typed, Fields, Places, States, Kinds
    <3>2. ASSUME NEW x \in Contexts \ {c} PROVE Typed(ctx[x])'
      BY <2>1, SMTT(30) DEF SqlInv, TypeOK, Typed, Fields
    <3> QED
      BY <1>2, <2>1, <3>1, <3>2, SMTT(30) DEF SqlInv, TypeOK
  <2>3. SqlOwner'
    BY <1>2, <2>1, SMTT(30) DEF SqlInv, TypeOK, SqlOwner, Gave, Acquired, SqlContext,
        SqlShape, SqlState, SqlConns, S!BeginOn
  <2>4. ASSUME NEW x \in Contexts PROVE SqlContext(x)'
    <3>1. CASE x = c
      BY <1>2, <2>1, <3>1, CoreAssumption, SMTT(30) DEF SqlInv, TypeOK, Typed, Fields,
          SqlOwner, SqlContext, SqlShape, SqlState, SqlEnded, SqlConns, SqlSlot, SqlMember,
          Gave, Acquired, Kinds, TxnKinds, S!BeginOn
    <3>2. CASE x # c
      BY <1>2, <2>1, <3>2, CoreAssumption, SMTT(30) DEF SqlInv, TypeOK, Typed, Fields,
          SqlOwner, SqlContext, SqlShape, SqlState, SqlEnded, SqlConns, SqlSlot, SqlMember,
          Gave, Acquired, Kinds, TxnKinds, S!BeginOn
    <3> QED BY <3>1, <3>2
  <2>5. Contract!Next
    <3>1. ctx[c].state = "none" /\ ctx[c].pc # "read"
      BY <1>2, SMTT(30) DEF SqlInv, TypeOK, Typed, Fields, SqlContext, SqlShape, SqlState,
          SqlMember, S!BeginOn
    <3>2. Others(c)
      BY <2>1 DEF Others
    <3> QED BY <2>1, <3>1, <3>2, ContractBegins DEF SqlInv
  <2> QED BY <2>2, <2>3, <2>4, <2>5 DEF SqlInv
<1>3. CASE ctx[c].state # "none" /\ ctx[c].kind \in {"txn", "batch"}
  <2>1. /\ Moves(c, "recheck")
        /\ S!Writes(c) => file = NoOne /\ file' = c
        /\ ~S!Writes(c) => file' = file
        /\ UNCHANGED <<opened, active, db, life, lock, holder, owner, child, reserved, pid,
                       inherited>>
        /\ UNCHANGED <<idle, conns, open, touched>>
    <3>1. ctx' = [ctx EXCEPT ![c] = [ctx[c] EXCEPT !.pc = "recheck"]]
      BY <1>3 DEF S!BeginOn
    <3>2. /\ S!Writes(c) => file = NoOne /\ file' = c
          /\ ~S!Writes(c) => file' = file
          /\ UNCHANGED <<opened, active, db, life, lock, holder, owner, child, reserved, pid,
                         inherited>>
          /\ UNCHANGED <<idle, conns, open, touched>>
      BY <1>3 DEF S!BeginOn
    <3>4. Moves(c, "recheck")
      BY <1>3, <3>1, SMTT(30) DEF SqlInv, TypeOK, Typed, Fields
    <3> QED BY <3>2, <3>4
  <2>2. TypeOK'
    <3>1. Typed(ctx[c])'
      BY <1>3, <2>1, SMTT(30) DEF SqlInv, TypeOK, Typed, Fields, Places, States, Kinds
    <3>2. ASSUME NEW x \in Contexts \ {c} PROVE Typed(ctx[x])'
      BY <2>1, SMTT(30) DEF SqlInv, TypeOK, Typed, Fields
    <3> QED
      BY <1>3, <2>1, <3>1, <3>2, SMTT(30) DEF SqlInv, TypeOK
  <2>3. SqlOwner'
    BY <1>3, <2>1, SMTT(30) DEF SqlInv, TypeOK, SqlOwner, Gave, Acquired, SqlContext,
        SqlShape, SqlState, SqlConns, S!BeginOn
  <2>4. ASSUME NEW x \in Contexts PROVE SqlContext(x)'
    <3>1. CASE x = c
      BY <1>3, <2>1, <3>1, CoreAssumption, SMTT(30) DEF SqlInv, TypeOK, Typed, Fields,
          SqlOwner, SqlContext, SqlShape, SqlState, SqlEnded, SqlConns, SqlSlot, SqlMember,
          Gave, Acquired, Kinds, TxnKinds, S!BeginOn
    <3>2. CASE x # c
      BY <1>3, <2>1, <3>2, CoreAssumption, SMTT(30) DEF SqlInv, TypeOK, Typed, Fields,
          SqlOwner, SqlContext, SqlShape, SqlState, SqlEnded, SqlConns, SqlSlot, SqlMember,
          Gave, Acquired, Kinds, TxnKinds, S!BeginOn
    <3> QED BY <3>1, <3>2
  <2>5. Contract!Next
    <3>1. GoesOnOrEnds(c)
      BY <1>3, <2>1, SMTT(30) DEF GoesOnOrEnds, SqlInv, TypeOK, Typed, Fields, SqlContext,
          SqlShape, SqlState, SqlMember, S!BeginOn
    <3> QED BY <2>1, <3>1, ContractEndsOne DEF SqlInv
  <2> QED BY <2>2, <2>3, <2>4, <2>5 DEF SqlInv
<1>4. CASE ctx[c].state # "none" /\ ctx[c].kind \notin {"txn", "batch"}
  <2>1. /\ Moves(c, "register")
        /\ S!Writes(c) => file = NoOne /\ file' = c
        /\ ~S!Writes(c) => file' = file
        /\ UNCHANGED <<opened, active, db, life, lock, holder, owner, child, reserved, pid,
                       inherited>>
        /\ UNCHANGED <<idle, conns, open, touched>>
    <3>1. ctx' = [ctx EXCEPT ![c] = [ctx[c] EXCEPT !.pc = "register"]]
      BY <1>4 DEF S!BeginOn
    <3>2. /\ S!Writes(c) => file = NoOne /\ file' = c
          /\ ~S!Writes(c) => file' = file
          /\ UNCHANGED <<opened, active, db, life, lock, holder, owner, child, reserved, pid,
                         inherited>>
          /\ UNCHANGED <<idle, conns, open, touched>>
      BY <1>4 DEF S!BeginOn
    <3>4. Moves(c, "register")
      BY <1>4, <3>1, SMTT(30) DEF SqlInv, TypeOK, Typed, Fields
    <3> QED BY <3>2, <3>4
  <2>2. TypeOK'
    <3>1. Typed(ctx[c])'
      BY <1>4, <2>1, SMTT(30) DEF SqlInv, TypeOK, Typed, Fields, Places, States, Kinds
    <3>2. ASSUME NEW x \in Contexts \ {c} PROVE Typed(ctx[x])'
      BY <2>1, SMTT(30) DEF SqlInv, TypeOK, Typed, Fields
    <3> QED
      BY <1>4, <2>1, <3>1, <3>2, SMTT(30) DEF SqlInv, TypeOK
  <2>3. SqlOwner'
    BY <1>4, <2>1, SMTT(30) DEF SqlInv, TypeOK, SqlOwner, Gave, Acquired, SqlContext,
        SqlShape, SqlState, SqlConns, S!BeginOn
  <2>4. ASSUME NEW x \in Contexts PROVE SqlContext(x)'
    <3>1. CASE x = c
      BY <1>4, <2>1, <3>1, CoreAssumption, SMTT(30) DEF SqlInv, TypeOK, Typed, Fields,
          SqlOwner, SqlContext, SqlShape, SqlState, SqlEnded, SqlConns, SqlSlot, SqlMember,
          Gave, Acquired, Kinds, TxnKinds, S!BeginOn
    <3>2. CASE x # c
      BY <1>4, <2>1, <3>2, CoreAssumption, SMTT(30) DEF SqlInv, TypeOK, Typed, Fields,
          SqlOwner, SqlContext, SqlShape, SqlState, SqlEnded, SqlConns, SqlSlot, SqlMember,
          Gave, Acquired, Kinds, TxnKinds, S!BeginOn
    <3> QED BY <3>1, <3>2
  <2>5. Contract!Next
    <3>1. GoesOnOrEnds(c)
      BY <1>4, <2>1, SMTT(30) DEF GoesOnOrEnds, SqlInv, TypeOK, Typed, Fields, SqlContext,
          SqlShape, SqlState, SqlMember, S!BeginOn
    <3> QED BY <2>1, <3>1, ContractEndsOne DEF SqlInv
  <2> QED BY <2>2, <2>3, <2>4, <2>5 DEF SqlInv
<1> QED BY <1>1, <1>2, <1>3, <1>4

LEMMA SqlBeginFails ==
    ASSUME which = "SQLite", SqlInv, NEW c \in Contexts, S!BeginFails(c)
    PROVE  SqlInv' /\ Contract!Next
<1>1. CASE S!FromSlot(c) /\ ctx[c].lock = lock
  <2>1. /\ Turns(c, "reserved", "reserving", ctx[c].token)
        /\ active' = active \ {c}
        /\ UNCHANGED <<opened, db, life, lock, holder, owner, child, reserved, pid, inherited>>
        /\ Gave(c)
    <3>1. ctx' = [ctx EXCEPT ![c] = [@ EXCEPT !.pc = "reserved", !.kind = "reserving"]]
      BY <1>1 DEF S!BeginFails, S!FromSlot
    <3>2. /\ ctx[c].pc # "gone"
          /\ S!GiveConn(c)
          /\ active' = active \ {c}
          /\ UNCHANGED <<opened, db, life, lock, holder, owner, child, reserved, pid, inherited>>
      BY <1>1 DEF S!BeginFails, S!FromSlot
    <3>3. Gave(c)
      BY <3>2, SqlGives
    <3>4. Turns(c, "reserved", "reserving", ctx[c].token)
      BY <1>1, <3>1, <3>2, SMTT(30) DEF SqlInv, TypeOK, Typed, Fields, S!Done
    <3> QED BY <3>2, <3>3, <3>4
  <2>2. TypeOK'
    <3>1. Typed(ctx[c])'
      BY <1>1, <2>1, SMTT(30) DEF SqlInv, TypeOK, Typed, Fields, Places, States, Kinds
    <3>2. ASSUME NEW x \in Contexts \ {c} PROVE Typed(ctx[x])'
      BY <2>1, SMTT(30) DEF SqlInv, TypeOK, Typed, Fields
    <3> QED
      BY <1>1, <2>1, <3>1, <3>2, SMTT(30) DEF SqlInv, TypeOK
  <2>3. SqlOwner'
    BY <1>1, <2>1, SMTT(30) DEF SqlInv, TypeOK, SqlOwner, Gave, Acquired, SqlContext,
        SqlShape, SqlState, SqlConns, S!BeginFails, S!FromSlot
  <2>4. ASSUME NEW x \in Contexts PROVE SqlContext(x)'
    <3>1. CASE x = c
      <4>1. SqlShape(c)'
        BY <1>1, <2>1, CoreAssumption, SMTT(30) DEF SqlInv, TypeOK, Typed, Fields, SqlOwner,
            SqlContext, SqlShape, SqlState, SqlEnded, SqlConns, SqlSlot, SqlMember, Gave,
            Acquired, Kinds, TxnKinds, S!BeginFails, S!FromSlot
      <4>2. SqlState(c)'
        BY <1>1, <2>1, CoreAssumption, SMTT(30) DEF SqlInv, TypeOK, Typed, Fields, SqlOwner,
            SqlContext, SqlShape, SqlState, SqlEnded, SqlConns, SqlSlot, SqlMember, Gave,
            Acquired, Kinds, TxnKinds, S!BeginFails, S!FromSlot
      <4>3. SqlEnded(c)'
        BY <1>1, <2>1, CoreAssumption, SMTT(30) DEF SqlInv, TypeOK, Typed, Fields, SqlOwner,
            SqlContext, SqlShape, SqlState, SqlEnded, SqlConns, SqlSlot, SqlMember, Gave,
            Acquired, Kinds, TxnKinds, S!BeginFails, S!FromSlot
      <4>4. SqlConns(c)'
        BY <1>1, <2>1, CoreAssumption, SMTT(30) DEF SqlInv, TypeOK, Typed, Fields, SqlOwner,
            SqlContext, SqlShape, SqlState, SqlEnded, SqlConns, SqlSlot, SqlMember, Gave,
            Acquired, Kinds, TxnKinds, S!BeginFails, S!FromSlot
      <4>5. SqlSlot(c)'
        BY <1>1, <2>1, CoreAssumption, SMTT(30) DEF SqlInv, TypeOK, Typed, Fields, SqlOwner,
            SqlContext, SqlShape, SqlState, SqlEnded, SqlConns, SqlSlot, SqlMember, Gave,
            Acquired, Kinds, TxnKinds, S!BeginFails, S!FromSlot
      <4>6. SqlMember(c)'
        BY <1>1, <2>1, CoreAssumption, SMTT(30) DEF SqlInv, TypeOK, Typed, Fields, SqlOwner,
            SqlContext, SqlShape, SqlState, SqlEnded, SqlConns, SqlSlot, SqlMember, Gave,
            Acquired, Kinds, TxnKinds, S!BeginFails, S!FromSlot
      <4> QED BY <3>1, <4>1, <4>2, <4>3, <4>4, <4>5, <4>6 DEF SqlContext
    <3>2. CASE x # c
      BY <1>1, <2>1, <3>2, CoreAssumption, SMTT(30) DEF SqlInv, TypeOK, Typed, Fields,
          SqlOwner, SqlContext, SqlShape, SqlState, SqlEnded, SqlConns, SqlSlot, SqlMember,
          Gave, Acquired, Kinds, TxnKinds, S!BeginFails, S!FromSlot
    <3> QED BY <3>1, <3>2
  <2>5. Contract!Next
    <3>1. GoesOnOrEnds(c)
      BY <1>1, <2>1, SMTT(30) DEF GoesOnOrEnds, SqlInv, TypeOK, Typed, Fields, SqlContext,
          SqlShape, SqlState, SqlMember, S!BeginFails, S!FromSlot
    <3> QED BY <2>1, <3>1, ContractEndsOne DEF SqlInv
  <2> QED BY <2>2, <2>3, <2>4, <2>5 DEF SqlInv
<1>2. CASE ~(S!FromSlot(c) /\ ctx[c].lock = lock)
  <2>1. /\ Ends(c, "done", TRUE, S!Over(c))
        /\ holder' = S!Released(c)
        /\ active' = active \ {c}
        /\ UNCHANGED <<opened, db, life, lock, owner, child, reserved, pid, inherited>>
        /\ Gave(c)
    <3>1. ctx' = [ctx EXCEPT ![c] = S!Done(c)]
      BY <1>2 DEF S!BeginFails, S!FromSlot
    <3>2. /\ ctx[c].pc # "gone"
          /\ S!GiveConn(c)
          /\ holder' = S!Released(c)
          /\ active' = active \ {c}
          /\ UNCHANGED <<opened, db, life, lock, owner, child, reserved, pid, inherited>>
      BY <1>2 DEF S!BeginFails, S!FromSlot
    <3>3. Gave(c)
      BY <3>2, SqlGives
    <3>4. Ends(c, "done", TRUE, S!Over(c))
      BY <1>2, <3>1, <3>2, SMTT(30) DEF SqlInv, TypeOK, Typed, Fields, S!Done
    <3> QED BY <3>2, <3>3, <3>4
  <2>2. TypeOK'
    <3>0. ctx'[c].closed \in BOOLEAN
      BY <2>1 DEF SqlInv, TypeOK, Typed
    <3>1. Typed(ctx[c])'
      BY <1>2, <2>1, <3>0, SMTT(30) DEF SqlInv, TypeOK, Typed, Fields, Places, States, Kinds
    <3>2. ASSUME NEW x \in Contexts \ {c} PROVE Typed(ctx[x])'
      BY <2>1, SMTT(30) DEF SqlInv, TypeOK, Typed, Fields
    <3> QED
      BY <1>2, <2>1, <3>1, <3>2, SMTT(30) DEF SqlInv, TypeOK
  <2>3. SqlOwner'
    BY <1>2, <2>1, SMTT(30) DEF SqlInv, TypeOK, SqlOwner, Gave, Acquired, SqlContext,
        SqlShape, SqlState, SqlConns, S!BeginFails, S!FromSlot
  <2>4. ASSUME NEW x \in Contexts PROVE SqlContext(x)'
    <3>1. CASE x = c
      BY <1>2, <2>1, <3>1, CoreAssumption, SMTT(30) DEF SqlInv, TypeOK, Typed, Fields,
          SqlOwner, SqlContext, SqlShape, SqlState, SqlEnded, SqlConns, SqlSlot, SqlMember,
          Gave, Acquired, Kinds, TxnKinds, S!BeginFails, S!FromSlot
    <3>2. CASE x # c
      BY <1>2, <2>1, <3>2, CoreAssumption, SMTT(30) DEF SqlInv, TypeOK, Typed, Fields,
          SqlOwner, SqlContext, SqlShape, SqlState, SqlEnded, SqlConns, SqlSlot, SqlMember,
          Gave, Acquired, Kinds, TxnKinds, S!BeginFails, S!FromSlot
    <3> QED BY <3>1, <3>2
  <2>5. Contract!Next
    <3>1. GoesOnOrEnds(c)
      BY <1>2, <2>1, SMTT(30) DEF GoesOnOrEnds, SqlInv, TypeOK, Typed, Fields, SqlContext,
          SqlShape, SqlState, SqlMember, S!BeginFails, S!FromSlot
    <3> QED BY <2>1, <3>1, ContractEndsOne DEF SqlInv
  <2> QED BY <2>2, <2>3, <2>4, <2>5 DEF SqlInv
<1> QED BY <1>1, <1>2

LEMMA SqlRecheck ==
    ASSUME which = "SQLite", SqlInv, NEW c \in Contexts, S!Recheck(c)
    PROVE  SqlInv' /\ Contract!Next
<1>1. CASE ctx[c].lock = lock
  <2>1. /\ Moves(c, IF ctx[c].kind = "batch" THEN "apply" ELSE "register")
        /\ UNCHANGED <<opened, active, db, life, lock, holder, owner, child, reserved, pid,
                       inherited>>
        /\ UNCHANGED <<idle, conns, open, file, touched>>
    BY <1>1, SMTT(30) DEF SqlInv, TypeOK, Typed, Fields, S!Recheck, S!Done, SqlContext,
        SqlShape, SqlState, SqlConns
  <2>2. TypeOK'
    <3>1. Typed(ctx[c])'
      BY <1>1, <2>1, SMTT(30) DEF SqlInv, TypeOK, Typed, Fields, Places, States, Kinds
    <3>2. ASSUME NEW x \in Contexts \ {c} PROVE Typed(ctx[x])'
      BY <2>1, SMTT(30) DEF SqlInv, TypeOK, Typed, Fields
    <3> QED
      BY <1>1, <2>1, <3>1, <3>2, SMTT(30) DEF SqlInv, TypeOK
  <2>3. SqlOwner'
    BY <1>1, <2>1, SMTT(30) DEF SqlInv, TypeOK, SqlOwner, Gave, Acquired, SqlContext,
        SqlShape, SqlState, SqlConns, S!Recheck, S!Done
  <2>4. ASSUME NEW x \in Contexts PROVE SqlContext(x)'
    <3>1. CASE x = c
      BY <1>1, <2>1, <3>1, CoreAssumption, SMTT(30) DEF SqlInv, TypeOK, Typed, Fields,
          SqlOwner, SqlContext, SqlShape, SqlState, SqlEnded, SqlConns, SqlSlot, SqlMember,
          Gave, Acquired, Kinds, TxnKinds, S!Recheck, S!Done
    <3>2. CASE x # c
      BY <1>1, <2>1, <3>2, CoreAssumption, SMTT(30) DEF SqlInv, TypeOK, Typed, Fields,
          SqlOwner, SqlContext, SqlShape, SqlState, SqlEnded, SqlConns, SqlSlot, SqlMember,
          Gave, Acquired, Kinds, TxnKinds, S!Recheck, S!Done
    <3> QED BY <3>1, <3>2
  <2>5. Contract!Next
    <3>1. GoesOnOrEnds(c)
      BY <1>1, <2>1, SMTT(30) DEF GoesOnOrEnds, SqlInv, TypeOK, Typed, Fields, SqlContext,
          SqlShape, SqlState, SqlMember, S!Recheck, S!Done
    <3> QED BY <2>1, <3>1, ContractEndsOne DEF SqlInv
  <2> QED BY <2>2, <2>3, <2>4, <2>5 DEF SqlInv
<1>2. CASE ctx[c].lock # lock
  <2>1. /\ Ends(c, "done", TRUE, S!Over(c))
        /\ active' = active \ {c}
        /\ UNCHANGED <<opened, db, life, lock, holder, owner, child, reserved, pid, inherited>>
        /\ Gave(c)
    <3>1. ctx' = [ctx EXCEPT ![c] = S!Done(c)]
      BY <1>2 DEF S!Recheck, S!Done
    <3>2. /\ ctx[c].pc # "gone"
          /\ S!GiveConn(c)
          /\ active' = active \ {c}
          /\ UNCHANGED <<opened, db, life, lock, holder, owner, child, reserved, pid, inherited>>
      BY <1>2 DEF S!Recheck, S!Done
    <3>3. Gave(c)
      BY <3>2, SqlGives
    <3>4. Ends(c, "done", TRUE, S!Over(c))
      BY <1>2, <3>1, <3>2, SMTT(30) DEF SqlInv, TypeOK, Typed, Fields, S!Done
    <3> QED BY <3>2, <3>3, <3>4
  <2>2. TypeOK'
    <3>0. ctx'[c].closed \in BOOLEAN
      BY <2>1 DEF SqlInv, TypeOK, Typed
    <3>1. Typed(ctx[c])'
      BY <1>2, <2>1, <3>0, SMTT(30) DEF SqlInv, TypeOK, Typed, Fields, Places, States, Kinds
    <3>2. ASSUME NEW x \in Contexts \ {c} PROVE Typed(ctx[x])'
      BY <2>1, SMTT(30) DEF SqlInv, TypeOK, Typed, Fields
    <3> QED
      BY <1>2, <2>1, <3>1, <3>2, SMTT(30) DEF SqlInv, TypeOK
  <2>3. SqlOwner'
    BY <1>2, <2>1, SMTT(30) DEF SqlInv, TypeOK, SqlOwner, Gave, Acquired, SqlContext,
        SqlShape, SqlState, SqlConns, S!Recheck, S!Done
  <2>4. ASSUME NEW x \in Contexts PROVE SqlContext(x)'
    <3>1. CASE x = c
      BY <1>2, <2>1, <3>1, CoreAssumption, SMTT(30) DEF SqlInv, TypeOK, Typed, Fields,
          SqlOwner, SqlContext, SqlShape, SqlState, SqlEnded, SqlConns, SqlSlot, SqlMember,
          Gave, Acquired, Kinds, TxnKinds, S!Recheck, S!Done
    <3>2. CASE x # c
      BY <1>2, <2>1, <3>2, CoreAssumption, SMTT(30) DEF SqlInv, TypeOK, Typed, Fields,
          SqlOwner, SqlContext, SqlShape, SqlState, SqlEnded, SqlConns, SqlSlot, SqlMember,
          Gave, Acquired, Kinds, TxnKinds, S!Recheck, S!Done
    <3> QED BY <3>1, <3>2
  <2>5. Contract!Next
    <3>1. GoesOnOrEnds(c)
      BY <1>2, <2>1, SMTT(30) DEF GoesOnOrEnds, SqlInv, TypeOK, Typed, Fields, SqlContext,
          SqlShape, SqlState, SqlMember, S!Recheck, S!Done
    <3> QED BY <2>1, <3>1, ContractEndsOne DEF SqlInv
  <2> QED BY <2>2, <2>3, <2>4, <2>5 DEF SqlInv
<1> QED BY <1>1, <1>2

LEMMA SqlRegisterBegun ==
    ASSUME which = "SQLite", SqlInv, NEW c \in Contexts, S!RegisterBegun(c)
    PROVE  SqlInv' /\ Contract!Next
<1>1. CASE opened /\ (S!Writes(c) => ctx[c].lock = lock) /\ ctx[c].kind = "reserving"
  <2>1. /\ Moves(c, "reserved")
        /\ reserved' = reserved \cup {c}
        /\ UNCHANGED <<opened, active, db, life, lock, holder, owner, child, pid, inherited>>
        /\ UNCHANGED <<idle, conns, open, file, touched>>
    BY <1>1, SMTT(30) DEF SqlInv, TypeOK, Typed, Fields, S!RegisterBegun, S!Done,
        SqlContext, SqlShape, SqlState, SqlConns
  <2>2. TypeOK'
    <3>1. Typed(ctx[c])'
      BY <1>1, <2>1, SMTT(30) DEF SqlInv, TypeOK, Typed, Fields, Places, States, Kinds
    <3>2. ASSUME NEW x \in Contexts \ {c} PROVE Typed(ctx[x])'
      BY <2>1, SMTT(30) DEF SqlInv, TypeOK, Typed, Fields
    <3> QED
      BY <1>1, <2>1, <3>1, <3>2, SMTT(30) DEF SqlInv, TypeOK
  <2>3. SqlOwner'
    BY <1>1, <2>1, SMTT(30) DEF SqlInv, TypeOK, SqlOwner, Gave, Acquired, SqlContext,
        SqlShape, SqlState, SqlConns, S!RegisterBegun, S!Done
  <2>4. ASSUME NEW x \in Contexts PROVE SqlContext(x)'
    <3>1. CASE x = c
      <4>1. SqlShape(c)'
        BY <1>1, <2>1, CoreAssumption, SMTT(30) DEF SqlInv, TypeOK, Typed, Fields, SqlOwner,
            SqlContext, SqlShape, SqlState, SqlEnded, SqlConns, SqlSlot, SqlMember, Gave,
            Acquired, Kinds, TxnKinds, S!RegisterBegun, S!Done
      <4>2. SqlState(c)'
        BY <1>1, <2>1, CoreAssumption, SMTT(30) DEF SqlInv, TypeOK, Typed, Fields, SqlOwner,
            SqlContext, SqlShape, SqlState, SqlEnded, SqlConns, SqlSlot, SqlMember, Gave,
            Acquired, Kinds, TxnKinds, S!RegisterBegun, S!Done
      <4>3. SqlEnded(c)'
        BY <1>1, <2>1, CoreAssumption, SMTT(30) DEF SqlInv, TypeOK, Typed, Fields, SqlOwner,
            SqlContext, SqlShape, SqlState, SqlEnded, SqlConns, SqlSlot, SqlMember, Gave,
            Acquired, Kinds, TxnKinds, S!RegisterBegun, S!Done
      <4>4. SqlConns(c)'
        BY <1>1, <2>1, CoreAssumption, SMTT(30) DEF SqlInv, TypeOK, Typed, Fields, SqlOwner,
            SqlContext, SqlShape, SqlState, SqlEnded, SqlConns, SqlSlot, SqlMember, Gave,
            Acquired, Kinds, TxnKinds, S!RegisterBegun, S!Done
      <4>5. SqlSlot(c)'
        BY <1>1, <2>1, CoreAssumption, SMTT(30) DEF SqlInv, TypeOK, Typed, Fields, SqlOwner,
            SqlContext, SqlShape, SqlState, SqlEnded, SqlConns, SqlSlot, SqlMember, Gave,
            Acquired, Kinds, TxnKinds, S!RegisterBegun, S!Done
      <4>6. SqlMember(c)'
        BY <1>1, <2>1, CoreAssumption, SMTT(30) DEF SqlInv, TypeOK, Typed, Fields, SqlOwner,
            SqlContext, SqlShape, SqlState, SqlEnded, SqlConns, SqlSlot, SqlMember, Gave,
            Acquired, Kinds, TxnKinds, S!RegisterBegun, S!Done
      <4> QED BY <3>1, <4>1, <4>2, <4>3, <4>4, <4>5, <4>6 DEF SqlContext
    <3>2. CASE x # c
      BY <1>1, <2>1, <3>2, CoreAssumption, SMTT(30) DEF SqlInv, TypeOK, Typed, Fields,
          SqlOwner, SqlContext, SqlShape, SqlState, SqlEnded, SqlConns, SqlSlot, SqlMember,
          Gave, Acquired, Kinds, TxnKinds, S!RegisterBegun, S!Done
    <3> QED BY <3>1, <3>2
  <2>5. Contract!Next
    <3>1. GoesOnOrEnds(c)
      BY <1>1, <2>1, SMTT(30) DEF GoesOnOrEnds, SqlInv, TypeOK, Typed, Fields, SqlContext,
          SqlShape, SqlState, SqlMember, S!RegisterBegun, S!Done
    <3> QED BY <2>1, <3>1, ContractEndsOne DEF SqlInv
  <2> QED BY <2>2, <2>3, <2>4, <2>5 DEF SqlInv
<1>2. CASE opened /\ (S!Writes(c) => ctx[c].lock = lock) /\ ctx[c].kind # "reserving"
  <2>1. /\ Moves(c, "use")
        /\ active' = active \cup {c}
        /\ UNCHANGED <<opened, db, life, lock, holder, owner, child, reserved, pid, inherited>>
        /\ UNCHANGED <<idle, conns, open, file, touched>>
    BY <1>2, SMTT(30) DEF SqlInv, TypeOK, Typed, Fields, S!RegisterBegun, S!Done,
        SqlContext, SqlShape, SqlState, SqlConns
  <2>2. TypeOK'
    <3>1. Typed(ctx[c])'
      BY <1>2, <2>1, SMTT(30) DEF SqlInv, TypeOK, Typed, Fields, Places, States, Kinds
    <3>2. ASSUME NEW x \in Contexts \ {c} PROVE Typed(ctx[x])'
      BY <2>1, SMTT(30) DEF SqlInv, TypeOK, Typed, Fields
    <3> QED
      BY <1>2, <2>1, <3>1, <3>2, SMTT(30) DEF SqlInv, TypeOK
  <2>3. SqlOwner'
    BY <1>2, <2>1, SMTT(30) DEF SqlInv, TypeOK, SqlOwner, Gave, Acquired, SqlContext,
        SqlShape, SqlState, SqlConns, S!RegisterBegun, S!Done
  <2>4. ASSUME NEW x \in Contexts PROVE SqlContext(x)'
    <3>1. CASE x = c
      <4>1. SqlShape(c)'
        BY <1>2, <2>1, CoreAssumption, SMTT(30) DEF SqlInv, TypeOK, Typed, Fields, SqlOwner,
            SqlContext, SqlShape, SqlState, SqlEnded, SqlConns, SqlSlot, SqlMember, Gave,
            Acquired, Kinds, TxnKinds, S!RegisterBegun, S!Done
      <4>2. SqlState(c)'
        BY <1>2, <2>1, CoreAssumption, SMTT(30) DEF SqlInv, TypeOK, Typed, Fields, SqlOwner,
            SqlContext, SqlShape, SqlState, SqlEnded, SqlConns, SqlSlot, SqlMember, Gave,
            Acquired, Kinds, TxnKinds, S!RegisterBegun, S!Done
      <4>3. SqlEnded(c)'
        BY <1>2, <2>1, CoreAssumption, SMTT(30) DEF SqlInv, TypeOK, Typed, Fields, SqlOwner,
            SqlContext, SqlShape, SqlState, SqlEnded, SqlConns, SqlSlot, SqlMember, Gave,
            Acquired, Kinds, TxnKinds, S!RegisterBegun, S!Done
      <4>4. SqlConns(c)'
        BY <1>2, <2>1, CoreAssumption, SMTT(30) DEF SqlInv, TypeOK, Typed, Fields, SqlOwner,
            SqlContext, SqlShape, SqlState, SqlEnded, SqlConns, SqlSlot, SqlMember, Gave,
            Acquired, Kinds, TxnKinds, S!RegisterBegun, S!Done
      <4>5. SqlSlot(c)'
        BY <1>2, <2>1, CoreAssumption, SMTT(30) DEF SqlInv, TypeOK, Typed, Fields, SqlOwner,
            SqlContext, SqlShape, SqlState, SqlEnded, SqlConns, SqlSlot, SqlMember, Gave,
            Acquired, Kinds, TxnKinds, S!RegisterBegun, S!Done
      <4>6. SqlMember(c)'
        BY <1>2, <2>1, CoreAssumption, SMTT(30) DEF SqlInv, TypeOK, Typed, Fields, SqlOwner,
            SqlContext, SqlShape, SqlState, SqlEnded, SqlConns, SqlSlot, SqlMember, Gave,
            Acquired, Kinds, TxnKinds, S!RegisterBegun, S!Done
      <4> QED BY <3>1, <4>1, <4>2, <4>3, <4>4, <4>5, <4>6 DEF SqlContext
    <3>2. CASE x # c
      BY <1>2, <2>1, <3>2, CoreAssumption, SMTT(30) DEF SqlInv, TypeOK, Typed, Fields,
          SqlOwner, SqlContext, SqlShape, SqlState, SqlEnded, SqlConns, SqlSlot, SqlMember,
          Gave, Acquired, Kinds, TxnKinds, S!RegisterBegun, S!Done
    <3> QED BY <3>1, <3>2
  <2>5. Contract!Next
    <3>1. GoesOnOrEnds(c)
      BY <1>2, <2>1, SMTT(30) DEF GoesOnOrEnds, SqlInv, TypeOK, Typed, Fields, SqlContext,
          SqlShape, SqlState, SqlMember, S!RegisterBegun, S!Done
    <3> QED BY <2>1, <3>1, ContractEndsOne DEF SqlInv
  <2> QED BY <2>2, <2>3, <2>4, <2>5 DEF SqlInv
<1>3. CASE ~(opened /\ (S!Writes(c) => ctx[c].lock = lock))
  <2>1. /\ Ends(c, "done", TRUE, S!Over(c))
        /\ holder' = S!Released(c)
        /\ UNCHANGED <<opened, active, db, life, lock, owner, child, reserved, pid, inherited>>
        /\ Gave(c)
    <3>1. ctx' = [ctx EXCEPT ![c] = S!Done(c)]
      BY <1>3 DEF S!RegisterBegun, S!Done
    <3>2. /\ ctx[c].pc # "gone"
          /\ S!GiveConn(c)
          /\ holder' = S!Released(c)
          /\ UNCHANGED <<opened, active, db, life, lock, owner, child, reserved, pid, inherited>>
      BY <1>3 DEF S!RegisterBegun, S!Done
    <3>3. Gave(c)
      BY <3>2, SqlGives
    <3>4. Ends(c, "done", TRUE, S!Over(c))
      BY <1>3, <3>1, <3>2, SMTT(30) DEF SqlInv, TypeOK, Typed, Fields, S!Done
    <3> QED BY <3>2, <3>3, <3>4
  <2>2. TypeOK'
    <3>0. ctx'[c].closed \in BOOLEAN
      BY <2>1 DEF SqlInv, TypeOK, Typed
    <3>1. Typed(ctx[c])'
      BY <1>3, <2>1, <3>0, SMTT(30) DEF SqlInv, TypeOK, Typed, Fields, Places, States, Kinds
    <3>2. ASSUME NEW x \in Contexts \ {c} PROVE Typed(ctx[x])'
      BY <2>1, SMTT(30) DEF SqlInv, TypeOK, Typed, Fields
    <3> QED
      BY <1>3, <2>1, <3>1, <3>2, SMTT(30) DEF SqlInv, TypeOK
  <2>3. SqlOwner'
    BY <1>3, <2>1, SMTT(30) DEF SqlInv, TypeOK, SqlOwner, Gave, Acquired, SqlContext,
        SqlShape, SqlState, SqlConns, S!RegisterBegun, S!Done
  <2>4. ASSUME NEW x \in Contexts PROVE SqlContext(x)'
    <3>1. CASE x = c
      BY <1>3, <2>1, <3>1, CoreAssumption, SMTT(30) DEF SqlInv, TypeOK, Typed, Fields,
          SqlOwner, SqlContext, SqlShape, SqlState, SqlEnded, SqlConns, SqlSlot, SqlMember,
          Gave, Acquired, Kinds, TxnKinds, S!RegisterBegun, S!Done
    <3>2. CASE x # c
      BY <1>3, <2>1, <3>2, CoreAssumption, SMTT(30) DEF SqlInv, TypeOK, Typed, Fields,
          SqlOwner, SqlContext, SqlShape, SqlState, SqlEnded, SqlConns, SqlSlot, SqlMember,
          Gave, Acquired, Kinds, TxnKinds, S!RegisterBegun, S!Done
    <3> QED BY <3>1, <3>2
  <2>5. Contract!Next
    <3>1. GoesOnOrEnds(c)
      BY <1>3, <2>1, SMTT(30) DEF GoesOnOrEnds, SqlInv, TypeOK, Typed, Fields, SqlContext,
          SqlShape, SqlState, SqlMember, S!RegisterBegun, S!Done
    <3> QED BY <2>1, <3>1, ContractEndsOne DEF SqlInv
  <2> QED BY <2>2, <2>3, <2>4, <2>5 DEF SqlInv
<1> QED BY <1>1, <1>2, <1>3

LEMMA SqlRegisterBatch ==
    ASSUME which = "SQLite", SqlInv, NEW c \in Contexts, S!RegisterBatch(c)
    PROVE  SqlInv' /\ Contract!Next
<1>1. /\ Moves(c, "use")
      /\ active' = active \cup {c}
      /\ UNCHANGED <<opened, db, life, lock, holder, owner, child, reserved, pid, inherited>>
      /\ UNCHANGED <<idle, conns, open, file, touched>>
  BY SMTT(30) DEF SqlInv, TypeOK, Typed, Fields, S!RegisterBatch, SqlContext, SqlShape,
      SqlState, SqlConns
<1>2. TypeOK'
  <2>1. Typed(ctx[c])'
    BY <1>1, SMTT(30) DEF SqlInv, TypeOK, Typed, Fields, Places, States, Kinds
  <2>2. ASSUME NEW x \in Contexts \ {c} PROVE Typed(ctx[x])'
    BY <1>1, SMTT(30) DEF SqlInv, TypeOK, Typed, Fields
  <2> QED
    BY <1>1, <2>1, <2>2, SMTT(30) DEF SqlInv, TypeOK
<1>3. SqlOwner'
  BY <1>1, SMTT(30) DEF SqlInv, TypeOK, SqlOwner, Gave, Acquired, SqlContext, SqlShape,
      SqlState, SqlConns, S!RegisterBatch
<1>4. ASSUME NEW x \in Contexts PROVE SqlContext(x)'
  <2>1. CASE x = c
    <3>1. SqlShape(c)'
      BY <1>1, CoreAssumption, SMTT(30) DEF SqlInv, TypeOK, Typed, Fields, SqlOwner,
          SqlContext, SqlShape, SqlState, SqlEnded, SqlConns, SqlSlot, SqlMember, Gave,
          Acquired, Kinds, TxnKinds, S!RegisterBatch
    <3>2. SqlState(c)'
      BY <1>1, CoreAssumption, SMTT(30) DEF SqlInv, TypeOK, Typed, Fields, SqlOwner,
          SqlContext, SqlShape, SqlState, SqlEnded, SqlConns, SqlSlot, SqlMember, Gave,
          Acquired, Kinds, TxnKinds, S!RegisterBatch
    <3>3. SqlEnded(c)'
      BY <1>1, CoreAssumption, SMTT(30) DEF SqlInv, TypeOK, Typed, Fields, SqlOwner,
          SqlContext, SqlShape, SqlState, SqlEnded, SqlConns, SqlSlot, SqlMember, Gave,
          Acquired, Kinds, TxnKinds, S!RegisterBatch
    <3>4. SqlConns(c)'
      BY <1>1, CoreAssumption, SMTT(30) DEF SqlInv, TypeOK, Typed, Fields, SqlOwner,
          SqlContext, SqlShape, SqlState, SqlEnded, SqlConns, SqlSlot, SqlMember, Gave,
          Acquired, Kinds, TxnKinds, S!RegisterBatch
    <3>5. SqlSlot(c)'
      BY <1>1, CoreAssumption, SMTT(30) DEF SqlInv, TypeOK, Typed, Fields, SqlOwner,
          SqlContext, SqlShape, SqlState, SqlEnded, SqlConns, SqlSlot, SqlMember, Gave,
          Acquired, Kinds, TxnKinds, S!RegisterBatch
    <3>6. SqlMember(c)'
      BY <1>1, CoreAssumption, SMTT(30) DEF SqlInv, TypeOK, Typed, Fields, SqlOwner,
          SqlContext, SqlShape, SqlState, SqlEnded, SqlConns, SqlSlot, SqlMember, Gave,
          Acquired, Kinds, TxnKinds, S!RegisterBatch
    <3> QED BY <2>1, <3>1, <3>2, <3>3, <3>4, <3>5, <3>6 DEF SqlContext
  <2>2. CASE x # c
    BY <1>1, <2>2, CoreAssumption, SMTT(30) DEF SqlInv, TypeOK, Typed, Fields, SqlOwner,
        SqlContext, SqlShape, SqlState, SqlEnded, SqlConns, SqlSlot, SqlMember, Gave,
        Acquired, Kinds, TxnKinds, S!RegisterBatch
  <2> QED BY <2>1, <2>2
<1>5. Contract!Next
  <2>1. GoesOnOrEnds(c)
    BY <1>1, SMTT(30) DEF GoesOnOrEnds, SqlInv, TypeOK, Typed, Fields, SqlContext, SqlShape,
        SqlState, SqlMember, S!RegisterBatch
  <2> QED BY <1>1, <2>1, ContractEndsOne DEF SqlInv
<1> QED BY <1>2, <1>3, <1>4, <1>5 DEF SqlInv

LEMMA SqlTakeOver ==
    ASSUME which = "SQLite", SqlInv, NEW c \in Contexts, S!TakeOver(c)
    PROVE  SqlInv' /\ Contract!Next
<1>1. CASE ctx[c].lock = lock
  <2>1. /\ Moves(c, "detach")
        /\ UNCHANGED <<opened, active, db, life, lock, holder, owner, child, reserved, pid,
                       inherited>>
        /\ UNCHANGED <<idle, conns, open, file, touched>>
    BY <1>1, SMTT(30) DEF SqlInv, TypeOK, Typed, Fields, S!TakeOver, S!Done, SqlContext,
        SqlShape, SqlState, SqlConns
  <2>2. TypeOK'
    <3>1. Typed(ctx[c])'
      BY <1>1, <2>1, SMTT(30) DEF SqlInv, TypeOK, Typed, Fields, Places, States, Kinds
    <3>2. ASSUME NEW x \in Contexts \ {c} PROVE Typed(ctx[x])'
      BY <2>1, SMTT(30) DEF SqlInv, TypeOK, Typed, Fields
    <3> QED
      BY <1>1, <2>1, <3>1, <3>2, SMTT(30) DEF SqlInv, TypeOK
  <2>3. SqlOwner'
    BY <1>1, <2>1, SMTT(30) DEF SqlInv, TypeOK, SqlOwner, Gave, Acquired, SqlContext,
        SqlShape, SqlState, SqlConns, S!TakeOver, S!Done
  <2>4. ASSUME NEW x \in Contexts PROVE SqlContext(x)'
    <3>1. CASE x = c
      BY <1>1, <2>1, <3>1, CoreAssumption, SMTT(30) DEF SqlInv, TypeOK, Typed, Fields,
          SqlOwner, SqlContext, SqlShape, SqlState, SqlEnded, SqlConns, SqlSlot, SqlMember,
          Gave, Acquired, Kinds, TxnKinds, S!TakeOver, S!Done
    <3>2. CASE x # c
      BY <1>1, <2>1, <3>2, CoreAssumption, SMTT(30) DEF SqlInv, TypeOK, Typed, Fields,
          SqlOwner, SqlContext, SqlShape, SqlState, SqlEnded, SqlConns, SqlSlot, SqlMember,
          Gave, Acquired, Kinds, TxnKinds, S!TakeOver, S!Done
    <3> QED BY <3>1, <3>2
  <2>5. Contract!Next
    <3>1. GoesOnOrEnds(c)
      BY <1>1, <2>1, SMTT(30) DEF GoesOnOrEnds, SqlInv, TypeOK, Typed, Fields, SqlContext,
          SqlShape, SqlState, SqlMember, S!TakeOver, S!Done
    <3> QED BY <2>1, <3>1, ContractEndsOne DEF SqlInv
  <2> QED BY <2>2, <2>3, <2>4, <2>5 DEF SqlInv
<1>2. CASE ctx[c].lock # lock
  <2>1. /\ Ends(c, "done", TRUE, S!Over(c))
        /\ UNCHANGED <<opened, active, db, life, lock, holder, owner, child, reserved, pid,
                       inherited>>
        /\ Gave(c)
    <3>1. ctx' = [ctx EXCEPT ![c] = S!Done(c)]
      BY <1>2 DEF S!TakeOver, S!Done
    <3>2. /\ ctx[c].pc # "gone"
          /\ S!GiveConn(c)
          /\ UNCHANGED <<opened, active, db, life, lock, holder, owner, child, reserved, pid,
                         inherited>>
      BY <1>2 DEF S!TakeOver, S!Done
    <3>3. Gave(c)
      BY <3>2, SqlGives
    <3>4. Ends(c, "done", TRUE, S!Over(c))
      BY <1>2, <3>1, <3>2, SMTT(30) DEF SqlInv, TypeOK, Typed, Fields, S!Done
    <3> QED BY <3>2, <3>3, <3>4
  <2>2. TypeOK'
    <3>0. ctx'[c].closed \in BOOLEAN
      BY <2>1 DEF SqlInv, TypeOK, Typed
    <3>1. Typed(ctx[c])'
      BY <1>2, <2>1, <3>0, SMTT(30) DEF SqlInv, TypeOK, Typed, Fields, Places, States, Kinds
    <3>2. ASSUME NEW x \in Contexts \ {c} PROVE Typed(ctx[x])'
      BY <2>1, SMTT(30) DEF SqlInv, TypeOK, Typed, Fields
    <3> QED
      BY <1>2, <2>1, <3>1, <3>2, SMTT(30) DEF SqlInv, TypeOK
  <2>3. SqlOwner'
    BY <1>2, <2>1, SMTT(30) DEF SqlInv, TypeOK, SqlOwner, Gave, Acquired, SqlContext,
        SqlShape, SqlState, SqlConns, S!TakeOver, S!Done
  <2>4. ASSUME NEW x \in Contexts PROVE SqlContext(x)'
    <3>1. CASE x = c
      BY <1>2, <2>1, <3>1, CoreAssumption, SMTT(30) DEF SqlInv, TypeOK, Typed, Fields,
          SqlOwner, SqlContext, SqlShape, SqlState, SqlEnded, SqlConns, SqlSlot, SqlMember,
          Gave, Acquired, Kinds, TxnKinds, S!TakeOver, S!Done
    <3>2. CASE x # c
      BY <1>2, <2>1, <3>2, CoreAssumption, SMTT(30) DEF SqlInv, TypeOK, Typed, Fields,
          SqlOwner, SqlContext, SqlShape, SqlState, SqlEnded, SqlConns, SqlSlot, SqlMember,
          Gave, Acquired, Kinds, TxnKinds, S!TakeOver, S!Done
    <3> QED BY <3>1, <3>2
  <2>5. Contract!Next
    <3>1. GoesOnOrEnds(c)
      BY <1>2, <2>1, SMTT(30) DEF GoesOnOrEnds, SqlInv, TypeOK, Typed, Fields, SqlContext,
          SqlShape, SqlState, SqlMember, S!TakeOver, S!Done
    <3> QED BY <2>1, <3>1, ContractEndsOne DEF SqlInv
  <2> QED BY <2>2, <2>3, <2>4, <2>5 DEF SqlInv
<1> QED BY <1>1, <1>2

LEMMA SqlDetach ==
    ASSUME which = "SQLite", SqlInv, NEW c \in Contexts, S!Detach(c)
    PROVE  SqlInv' /\ Contract!Next
<1>1. /\ Turns(c, IF c \in conns THEN "register" ELSE "connect", "txn", 1)
      /\ UNCHANGED <<opened, active, db, life, lock, holder, owner, child, reserved, pid,
                     inherited>>
      /\ UNCHANGED <<idle, conns, open, file, touched>>
  BY SMTT(30) DEF SqlInv, TypeOK, Typed, Fields, S!Detach, SqlContext, SqlShape, SqlState,
      SqlConns
<1>2. TypeOK'
  <2>1. Typed(ctx[c])'
    BY <1>1, SMTT(30) DEF SqlInv, TypeOK, Typed, Fields, Places, States, Kinds
  <2>2. ASSUME NEW x \in Contexts \ {c} PROVE Typed(ctx[x])'
    BY <1>1, SMTT(30) DEF SqlInv, TypeOK, Typed, Fields
  <2> QED
    BY <1>1, <2>1, <2>2, SMTT(30) DEF SqlInv, TypeOK
<1>3. SqlOwner'
  BY <1>1, SMTT(30) DEF SqlInv, TypeOK, SqlOwner, Gave, Acquired, SqlContext, SqlShape,
      SqlState, SqlConns, S!Detach
<1>4. ASSUME NEW x \in Contexts PROVE SqlContext(x)'
  <2>1. CASE x = c
    BY <1>1, <2>1, CoreAssumption, SMTT(30) DEF SqlInv, TypeOK, Typed, Fields, SqlOwner,
        SqlContext, SqlShape, SqlState, SqlEnded, SqlConns, SqlSlot, SqlMember, Gave,
        Acquired, Kinds, TxnKinds, S!Detach
  <2>2. CASE x # c
    BY <1>1, <2>2, CoreAssumption, SMTT(30) DEF SqlInv, TypeOK, Typed, Fields, SqlOwner,
        SqlContext, SqlShape, SqlState, SqlEnded, SqlConns, SqlSlot, SqlMember, Gave,
        Acquired, Kinds, TxnKinds, S!Detach
  <2> QED BY <2>1, <2>2
<1>5. Contract!Next
  <2>1. GoesOnOrEnds(c)
    BY <1>1, SMTT(30) DEF GoesOnOrEnds, SqlInv, TypeOK, Typed, Fields, SqlContext, SqlShape,
        SqlState, SqlMember, S!Detach
  <2> QED BY <1>1, <2>1, ContractEndsOne DEF SqlInv
<1> QED BY <1>2, <1>3, <1>4, <1>5 DEF SqlInv

LEMMA SqlReleaseSlot ==
    ASSUME which = "SQLite", SqlInv, NEW c \in Contexts, S!ReleaseSlot(c)
    PROVE  SqlInv' /\ Contract!Next
<1>1. /\ Ends(c, "done", TRUE, S!Over(c))
      /\ holder' = S!Released(c)
      /\ UNCHANGED <<opened, active, db, life, lock, owner, child, reserved, pid, inherited>>
      /\ Gave(c)
  <2>1. ctx' = [ctx EXCEPT ![c] = S!Done(c)]
    BY DEF S!ReleaseSlot, S!Done
  <2>2. /\ ctx[c].pc # "gone"
        /\ S!GiveConn(c)
        /\ holder' = S!Released(c)
        /\ UNCHANGED <<opened, active, db, life, lock, owner, child, reserved, pid, inherited>>
    BY DEF S!ReleaseSlot, S!Done
  <2>3. Gave(c)
    BY <2>2, SqlGives
  <2>4. Ends(c, "done", TRUE, S!Over(c))
    BY <2>1, <2>2, SMTT(30) DEF SqlInv, TypeOK, Typed, Fields, S!Done
  <2> QED BY <2>2, <2>3, <2>4
<1>2. TypeOK'
  <2>0. ctx'[c].closed \in BOOLEAN
    BY <1>1 DEF SqlInv, TypeOK, Typed
  <2>1. Typed(ctx[c])'
    BY <1>1, <2>0, SMTT(30) DEF SqlInv, TypeOK, Typed, Fields, Places, States, Kinds
  <2>2. ASSUME NEW x \in Contexts \ {c} PROVE Typed(ctx[x])'
    BY <1>1, SMTT(30) DEF SqlInv, TypeOK, Typed, Fields
  <2> QED
    BY <1>1, <2>1, <2>2, SMTT(30) DEF SqlInv, TypeOK
<1>3. SqlOwner'
  BY <1>1, SMTT(30) DEF SqlInv, TypeOK, SqlOwner, Gave, Acquired, SqlContext, SqlShape,
      SqlState, SqlConns, S!ReleaseSlot, S!Done
<1>4. ASSUME NEW x \in Contexts PROVE SqlContext(x)'
  <2>1. CASE x = c
    BY <1>1, <2>1, CoreAssumption, SMTT(30) DEF SqlInv, TypeOK, Typed, Fields, SqlOwner,
        SqlContext, SqlShape, SqlState, SqlEnded, SqlConns, SqlSlot, SqlMember, Gave,
        Acquired, Kinds, TxnKinds, S!ReleaseSlot, S!Done
  <2>2. CASE x # c
    BY <1>1, <2>2, CoreAssumption, SMTT(30) DEF SqlInv, TypeOK, Typed, Fields, SqlOwner,
        SqlContext, SqlShape, SqlState, SqlEnded, SqlConns, SqlSlot, SqlMember, Gave,
        Acquired, Kinds, TxnKinds, S!ReleaseSlot, S!Done
  <2> QED BY <2>1, <2>2
<1>5. Contract!Next
  <2>1. GoesOnOrEnds(c)
    BY <1>1, SMTT(30) DEF GoesOnOrEnds, SqlInv, TypeOK, Typed, Fields, SqlContext, SqlShape,
        SqlState, SqlMember, S!ReleaseSlot, S!Done
  <2> QED BY <1>1, <2>1, ContractEndsOne DEF SqlInv
<1> QED BY <1>2, <1>3, <1>4, <1>5 DEF SqlInv

LEMMA SqlRead ==
    ASSUME which = "SQLite", SqlInv, NEW c \in Contexts, S!Read(c)
    PROVE  SqlInv' /\ Contract!Next
<1>1. /\ Answers(c, ctx[c].base)
      /\ UNCHANGED <<opened, active, db, life, lock, holder, owner, child, reserved, pid,
                     inherited>>
      /\ UNCHANGED <<idle, conns, open, file>>
      /\ touched' = FALSE
  <2>1. ctx' = [ctx EXCEPT ![c].answer = ctx[c].base]
    BY DEF S!Read
  <2>2. /\ ctx[c].pc = "use"
        /\ touched' = (touched \/ c \in inherited)
        /\ UNCHANGED <<opened, active, db, life, lock, holder, owner, child, reserved, pid,
                       inherited>>
        /\ UNCHANGED <<idle, conns, open, file>>
    BY DEF S!Read
  <2>3. touched' = FALSE
    BY <2>2, SqlUntouched
  <2>4. Answers(c, ctx[c].base)
    BY <2>1, <2>2, SMTT(30) DEF SqlInv, TypeOK, Typed, Fields
  <2> QED BY <2>2, <2>3, <2>4
<1>2. TypeOK'
  <2>1. Typed(ctx[c])'
    BY <1>1, SMTT(30) DEF SqlInv, TypeOK, Typed, Fields, Places, States, Kinds
  <2>2. ASSUME NEW x \in Contexts \ {c} PROVE Typed(ctx[x])'
    BY <1>1, SMTT(30) DEF SqlInv, TypeOK, Typed, Fields
  <2> QED
    BY <1>1, <2>1, <2>2, SMTT(30) DEF SqlInv, TypeOK
<1>3. SqlOwner'
  BY <1>1, SMTT(30) DEF SqlInv, TypeOK, SqlOwner, Gave, Acquired, SqlContext, SqlShape,
      SqlState, SqlConns, S!Read
<1>4. ASSUME NEW x \in Contexts PROVE SqlContext(x)'
  <2>1. CASE x = c
    BY <1>1, <2>1, CoreAssumption, SMTT(30) DEF SqlInv, TypeOK, Typed, Fields, SqlOwner,
        SqlContext, SqlShape, SqlState, SqlEnded, SqlConns, SqlSlot, SqlMember, Gave,
        Acquired, Kinds, TxnKinds, S!Read
  <2>2. CASE x # c
    BY <1>1, <2>2, CoreAssumption, SMTT(30) DEF SqlInv, TypeOK, Typed, Fields, SqlOwner,
        SqlContext, SqlShape, SqlState, SqlEnded, SqlConns, SqlSlot, SqlMember, Gave,
        Acquired, Kinds, TxnKinds, S!Read
  <2> QED BY <2>1, <2>2
<1>5. Contract!Next
  <2>1. /\ ctx[c].state = "active" \/ ctx[c].pc = "read"
        /\ ctx'[c].answer \in 0 .. db
        /\ ctx[c].state = "active" => ctx'[c].answer = ctx[c].base
    BY <1>1, SMTT(30) DEF SqlInv, TypeOK, Typed, Fields, SqlContext, SqlShape, SqlState,
        SqlMember, S!Read, SqlConns, Kinds, TxnKinds
  <2>2. /\ Others(c) /\ db' = db /\ ctx'[c].pc # "read" /\ ctx'[c].state = ctx[c].state
        /\ ctx'[c].life = ctx[c].life /\ ctx'[c].base = ctx[c].base
    BY <1>1 DEF Others
  <2> QED BY <2>1, <2>2, ContractReads DEF SqlInv
<1> QED BY <1>2, <1>3, <1>4, <1>5 DEF SqlInv

LEMMA SqlWrite ==
    ASSUME which = "SQLite", SqlInv, NEW c \in Contexts, S!Write(c)
    PROVE  SqlInv' /\ Contract!Next
<1>1. /\ Moves(c, IF ctx[c].closed THEN "done" ELSE "take")
      /\ UNCHANGED <<opened, active, db, life, lock, holder, owner, child, reserved, pid,
                     inherited>>
      /\ UNCHANGED <<idle, conns, open, file, touched>>
  BY SMTT(30) DEF SqlInv, TypeOK, Typed, Fields, S!Write, SqlContext, SqlShape, SqlState,
      SqlConns
<1>2. TypeOK'
  <2>1. Typed(ctx[c])'
    BY <1>1, SMTT(30) DEF SqlInv, TypeOK, Typed, Fields, Places, States, Kinds
  <2>2. ASSUME NEW x \in Contexts \ {c} PROVE Typed(ctx[x])'
    BY <1>1, SMTT(30) DEF SqlInv, TypeOK, Typed, Fields
  <2> QED
    BY <1>1, <2>1, <2>2, SMTT(30) DEF SqlInv, TypeOK
<1>3. SqlOwner'
  BY <1>1, SMTT(30) DEF SqlInv, TypeOK, SqlOwner, Gave, Acquired, SqlContext, SqlShape,
      SqlState, SqlConns, S!Write
<1>4. ASSUME NEW x \in Contexts PROVE SqlContext(x)'
  <2>1. CASE x = c
    BY <1>1, <2>1, CoreAssumption, SMTT(30) DEF SqlInv, TypeOK, Typed, Fields, SqlOwner,
        SqlContext, SqlShape, SqlState, SqlEnded, SqlConns, SqlSlot, SqlMember, Gave,
        Acquired, Kinds, TxnKinds, S!Write
  <2>2. CASE x # c
    BY <1>1, <2>2, CoreAssumption, SMTT(30) DEF SqlInv, TypeOK, Typed, Fields, SqlOwner,
        SqlContext, SqlShape, SqlState, SqlEnded, SqlConns, SqlSlot, SqlMember, Gave,
        Acquired, Kinds, TxnKinds, S!Write
  <2> QED BY <2>1, <2>2
<1>5. Contract!Next
  <2>1. GoesOnOrEnds(c)
    BY <1>1, SMTT(30) DEF GoesOnOrEnds, SqlInv, TypeOK, Typed, Fields, SqlContext, SqlShape,
        SqlState, SqlMember, S!Write
  <2> QED BY <1>1, <2>1, ContractEndsOne DEF SqlInv
<1> QED BY <1>2, <1>3, <1>4, <1>5 DEF SqlInv

LEMMA SqlCommit ==
    ASSUME which = "SQLite", SqlInv, NEW c \in Contexts, S!Commit(c)
    PROVE  SqlInv' /\ Contract!Next
<1>1. CASE ctx[c].closed \/ c \notin conns
  <2>1. /\ Moves(c, "done")
        /\ active' = active \ {c}
        /\ UNCHANGED <<opened, db, life, lock, holder, owner, child, reserved, pid, inherited>>
        /\ UNCHANGED <<idle, conns, open, file, touched>>
    BY <1>1, SMTT(30) DEF SqlInv, TypeOK, Typed, Fields, S!Commit, S!Committed, S!Failed,
        SqlContext, SqlShape, SqlState, SqlConns
  <2>2. TypeOK'
    <3>1. Typed(ctx[c])'
      BY <1>1, <2>1, SMTT(30) DEF SqlInv, TypeOK, Typed, Fields, Places, States, Kinds
    <3>2. ASSUME NEW x \in Contexts \ {c} PROVE Typed(ctx[x])'
      BY <2>1, SMTT(30) DEF SqlInv, TypeOK, Typed, Fields
    <3> QED
      BY <1>1, <2>1, <3>1, <3>2, SMTT(30) DEF SqlInv, TypeOK
  <2>3. SqlOwner'
    BY <1>1, <2>1, SMTT(30) DEF SqlInv, TypeOK, SqlOwner, Gave, Acquired, SqlContext,
        SqlShape, SqlState, SqlConns, S!Commit, S!Committed, S!Failed
  <2>4. ASSUME NEW x \in Contexts PROVE SqlContext(x)'
    <3>1. CASE x = c
      BY <1>1, <2>1, <3>1, CoreAssumption, SMTT(30) DEF SqlInv, TypeOK, Typed, Fields,
          SqlOwner, SqlContext, SqlShape, SqlState, SqlEnded, SqlConns, SqlSlot, SqlMember,
          Gave, Acquired, Kinds, TxnKinds, S!Commit, S!Committed, S!Failed
    <3>2. CASE x # c
      BY <1>1, <2>1, <3>2, CoreAssumption, SMTT(30) DEF SqlInv, TypeOK, Typed, Fields,
          SqlOwner, SqlContext, SqlShape, SqlState, SqlEnded, SqlConns, SqlSlot, SqlMember,
          Gave, Acquired, Kinds, TxnKinds, S!Commit, S!Committed, S!Failed
    <3> QED BY <3>1, <3>2
  <2>5. Contract!Next
    <3>1. GoesOnOrEnds(c)
      BY <1>1, <2>1, SMTT(30) DEF GoesOnOrEnds, SqlInv, TypeOK, Typed, Fields, SqlContext,
          SqlShape, SqlState, SqlMember, S!Commit, S!Committed, S!Failed
    <3> QED BY <2>1, <3>1, ContractEndsOne DEF SqlInv
  <2> QED BY <2>2, <2>3, <2>4, <2>5 DEF SqlInv
<1>2. CASE ~(ctx[c].closed \/ c \notin conns) /\ S!Committed(c)
  <2>1. /\ Ends(c, "done", TRUE, "committed")
        /\ db' = db + 1
        /\ holder' = S!Released(c)
        /\ active' = active \ {c}
        /\ UNCHANGED <<opened, life, lock, owner, child, reserved, pid, inherited>>
        /\ Gave(c)
    <3>1. ctx' = [ctx EXCEPT ![c] = [@ EXCEPT !.pc = "done", !.closed = TRUE, !.state = "committed"]]
      BY <1>2 DEF S!Commit, S!Committed, S!Failed
    <3>2. /\ ctx[c].pc # "gone"
          /\ S!GiveConn(c)
          /\ db' = db + 1
          /\ holder' = S!Released(c)
          /\ active' = active \ {c}
          /\ UNCHANGED <<opened, life, lock, owner, child, reserved, pid, inherited>>
      BY <1>2 DEF S!Commit, S!Committed, S!Failed
    <3>3. Gave(c)
      BY <3>2, SqlGives
    <3>4. Ends(c, "done", TRUE, "committed")
      BY <1>2, <3>1, <3>2, SMTT(30) DEF SqlInv, TypeOK, Typed, Fields, S!Done
    <3> QED BY <3>2, <3>3, <3>4
  <2>2. TypeOK'
    <3>0. ctx'[c].closed \in BOOLEAN
      BY <2>1 DEF SqlInv, TypeOK, Typed
    <3>1. Typed(ctx[c])'
      BY <1>2, <2>1, <3>0, SMTT(30) DEF SqlInv, TypeOK, Typed, Fields, Places, States, Kinds
    <3>2. ASSUME NEW x \in Contexts \ {c} PROVE Typed(ctx[x])'
      BY <2>1, SMTT(30) DEF SqlInv, TypeOK, Typed, Fields
    <3> QED
      BY <1>2, <2>1, <3>1, <3>2, SMTT(30) DEF SqlInv, TypeOK
  <2>3. SqlOwner'
    BY <1>2, <2>1, SMTT(30) DEF SqlInv, TypeOK, SqlOwner, Gave, Acquired, SqlContext,
        SqlShape, SqlState, SqlConns, S!Commit, S!Committed, S!Failed
  <2>4. ASSUME NEW x \in Contexts PROVE SqlContext(x)'
    <3>1. CASE x = c
      BY <1>2, <2>1, <3>1, CoreAssumption, SMTT(30) DEF SqlInv, TypeOK, Typed, Fields,
          SqlOwner, SqlContext, SqlShape, SqlState, SqlEnded, SqlConns, SqlSlot, SqlMember,
          Gave, Acquired, Kinds, TxnKinds, S!Commit, S!Committed, S!Failed
    <3>2. CASE x # c
      BY <1>2, <2>1, <3>2, CoreAssumption, SMTT(30) DEF SqlInv, TypeOK, Typed, Fields,
          SqlOwner, SqlContext, SqlShape, SqlState, SqlEnded, SqlConns, SqlSlot, SqlMember,
          Gave, Acquired, Kinds, TxnKinds, S!Commit, S!Committed, S!Failed
    <3> QED BY <3>1, <3>2
  <2>5. Contract!Next
    <3>1. /\ ctx[c].state = "active" /\ ctx[c].pc # "read"
          /\ \/ which = "SQLite" /\ ctx[c].kind = "batch"
             \/ /\ ctx[c].life = life
                /\ \/ ctx[c].kind = "batch" \/ (which = "memory" /\ ~opened)
                   \/ ctx[c].base = db
      BY <1>2, <2>1, SMTT(30) DEF SqlInv, TypeOK, Typed, Fields, SqlContext, SqlShape,
          SqlState, SqlMember, S!Commit, S!Committed, S!Failed, SqlEnded, SqlConns, Kinds,
          TxnKinds
    <3>2. /\ Others(c) /\ db' = db + 1 /\ ctx'[c].pc # "read" /\ ctx'[c].state = "committed"
          /\ ctx'[c].answer = ctx[c].answer
          /\ ctx'[c].life = ctx[c].life /\ ctx'[c].base = ctx[c].base
      BY <2>1 DEF Others
    <3> QED BY <3>1, <3>2, ContractCommits DEF SqlInv
  <2> QED BY <2>2, <2>3, <2>4, <2>5 DEF SqlInv
<1>3. CASE ~(ctx[c].closed \/ c \notin conns) /\ S!Failed(c)
  <2>1. /\ Ends(c, "done", TRUE, S!Over(c))
        /\ holder' = S!Released(c)
        /\ active' = active \ {c}
        /\ UNCHANGED <<opened, db, life, lock, owner, child, reserved, pid, inherited>>
        /\ Gave(c)
    <3>1. ctx' = [ctx EXCEPT ![c] = S!Done(c)]
      BY <1>3 DEF S!Commit, S!Committed, S!Failed
    <3>2. /\ ctx[c].pc # "gone"
          /\ S!GiveConn(c)
          /\ holder' = S!Released(c)
          /\ active' = active \ {c}
          /\ UNCHANGED <<opened, db, life, lock, owner, child, reserved, pid, inherited>>
      BY <1>3 DEF S!Commit, S!Committed, S!Failed
    <3>3. Gave(c)
      BY <3>2, SqlGives
    <3>4. Ends(c, "done", TRUE, S!Over(c))
      BY <1>3, <3>1, <3>2, SMTT(30) DEF SqlInv, TypeOK, Typed, Fields, S!Done
    <3> QED BY <3>2, <3>3, <3>4
  <2>2. TypeOK'
    <3>0. ctx'[c].closed \in BOOLEAN
      BY <2>1 DEF SqlInv, TypeOK, Typed
    <3>1. Typed(ctx[c])'
      BY <1>3, <2>1, <3>0, SMTT(30) DEF SqlInv, TypeOK, Typed, Fields, Places, States, Kinds
    <3>2. ASSUME NEW x \in Contexts \ {c} PROVE Typed(ctx[x])'
      BY <2>1, SMTT(30) DEF SqlInv, TypeOK, Typed, Fields
    <3> QED
      BY <1>3, <2>1, <3>1, <3>2, SMTT(30) DEF SqlInv, TypeOK
  <2>3. SqlOwner'
    BY <1>3, <2>1, SMTT(30) DEF SqlInv, TypeOK, SqlOwner, Gave, Acquired, SqlContext,
        SqlShape, SqlState, SqlConns, S!Commit, S!Committed, S!Failed
  <2>4. ASSUME NEW x \in Contexts PROVE SqlContext(x)'
    <3>1. CASE x = c
      BY <1>3, <2>1, <3>1, CoreAssumption, SMTT(30) DEF SqlInv, TypeOK, Typed, Fields,
          SqlOwner, SqlContext, SqlShape, SqlState, SqlEnded, SqlConns, SqlSlot, SqlMember,
          Gave, Acquired, Kinds, TxnKinds, S!Commit, S!Committed, S!Failed
    <3>2. CASE x # c
      BY <1>3, <2>1, <3>2, CoreAssumption, SMTT(30) DEF SqlInv, TypeOK, Typed, Fields,
          SqlOwner, SqlContext, SqlShape, SqlState, SqlEnded, SqlConns, SqlSlot, SqlMember,
          Gave, Acquired, Kinds, TxnKinds, S!Commit, S!Committed, S!Failed
    <3> QED BY <3>1, <3>2
  <2>5. Contract!Next
    <3>1. GoesOnOrEnds(c)
      BY <1>3, <2>1, SMTT(30) DEF GoesOnOrEnds, SqlInv, TypeOK, Typed, Fields, SqlContext,
          SqlShape, SqlState, SqlMember, S!Commit, S!Committed, S!Failed
    <3> QED BY <2>1, <3>1, ContractEndsOne DEF SqlInv
  <2> QED BY <2>2, <2>3, <2>4, <2>5 DEF SqlInv
<1> QED BY <1>1, <1>2, <1>3 DEF S!Commit

LEMMA SqlApplyBatch ==
    ASSUME which = "SQLite", SqlInv, NEW c \in Contexts, S!ApplyBatch(c)
    PROVE  SqlInv' /\ Contract!Next
<1>1. CASE S!Failed(c)
  <2>1. /\ Ends(c, "done", TRUE, S!Over(c))
        /\ holder' = S!Released(c)
        /\ active' = active \ {c}
        /\ UNCHANGED <<opened, db, life, lock, owner, child, reserved, pid, inherited>>
        /\ Gave(c)
    <3>1. ctx' = [ctx EXCEPT ![c] = S!Done(c)]
      BY <1>1 DEF S!ApplyBatch, S!Committed, S!Failed
    <3>2. /\ ctx[c].pc # "gone"
          /\ S!GiveConn(c)
          /\ holder' = S!Released(c)
          /\ active' = active \ {c}
          /\ UNCHANGED <<opened, db, life, lock, owner, child, reserved, pid, inherited>>
      BY <1>1 DEF S!ApplyBatch, S!Committed, S!Failed
    <3>3. Gave(c)
      BY <3>2, SqlGives
    <3>4. Ends(c, "done", TRUE, S!Over(c))
      BY <1>1, <3>1, <3>2, SMTT(30) DEF SqlInv, TypeOK, Typed, Fields, S!Done
    <3> QED BY <3>2, <3>3, <3>4
  <2>2. TypeOK'
    <3>0. ctx'[c].closed \in BOOLEAN
      BY <2>1 DEF SqlInv, TypeOK, Typed
    <3>1. Typed(ctx[c])'
      BY <1>1, <2>1, <3>0, SMTT(30) DEF SqlInv, TypeOK, Typed, Fields, Places, States, Kinds
    <3>2. ASSUME NEW x \in Contexts \ {c} PROVE Typed(ctx[x])'
      BY <2>1, SMTT(30) DEF SqlInv, TypeOK, Typed, Fields
    <3> QED
      BY <1>1, <2>1, <3>1, <3>2, SMTT(30) DEF SqlInv, TypeOK
  <2>3. SqlOwner'
    BY <1>1, <2>1, SMTT(30) DEF SqlInv, TypeOK, SqlOwner, Gave, Acquired, SqlContext,
        SqlShape, SqlState, SqlConns, S!ApplyBatch, S!Committed, S!Failed
  <2>4. ASSUME NEW x \in Contexts PROVE SqlContext(x)'
    <3>1. CASE x = c
      BY <1>1, <2>1, <3>1, CoreAssumption, SMTT(30) DEF SqlInv, TypeOK, Typed, Fields,
          SqlOwner, SqlContext, SqlShape, SqlState, SqlEnded, SqlConns, SqlSlot, SqlMember,
          Gave, Acquired, Kinds, TxnKinds, S!ApplyBatch, S!Committed, S!Failed
    <3>2. CASE x # c
      BY <1>1, <2>1, <3>2, CoreAssumption, SMTT(30) DEF SqlInv, TypeOK, Typed, Fields,
          SqlOwner, SqlContext, SqlShape, SqlState, SqlEnded, SqlConns, SqlSlot, SqlMember,
          Gave, Acquired, Kinds, TxnKinds, S!ApplyBatch, S!Committed, S!Failed
    <3> QED BY <3>1, <3>2
  <2>5. Contract!Next
    <3>1. GoesOnOrEnds(c)
      BY <1>1, <2>1, SMTT(30) DEF GoesOnOrEnds, SqlInv, TypeOK, Typed, Fields, SqlContext,
          SqlShape, SqlState, SqlMember, S!ApplyBatch, S!Committed, S!Failed
    <3> QED BY <2>1, <3>1, ContractEndsOne DEF SqlInv
  <2> QED BY <2>2, <2>3, <2>4, <2>5 DEF SqlInv
<1>2. CASE ~ctx[c].closed /\ opened /\ S!Committed(c)
  <2>1. /\ Ends(c, "done", TRUE, "committed")
        /\ db' = db + 1
        /\ holder' = S!Released(c)
        /\ active' = active \ {c}
        /\ UNCHANGED <<opened, life, lock, owner, child, reserved, pid, inherited>>
        /\ Gave(c)
    <3>1. ctx' = [ctx EXCEPT ![c] = [@ EXCEPT !.pc = "done", !.closed = TRUE, !.state = "committed"]]
      BY <1>2 DEF S!ApplyBatch, S!Committed, S!Failed
    <3>2. /\ ctx[c].pc # "gone"
          /\ S!GiveConn(c)
          /\ db' = db + 1
          /\ holder' = S!Released(c)
          /\ active' = active \ {c}
          /\ UNCHANGED <<opened, life, lock, owner, child, reserved, pid, inherited>>
      BY <1>2 DEF S!ApplyBatch, S!Committed, S!Failed
    <3>3. Gave(c)
      BY <3>2, SqlGives
    <3>4. Ends(c, "done", TRUE, "committed")
      BY <1>2, <3>1, <3>2, SMTT(30) DEF SqlInv, TypeOK, Typed, Fields, S!Done
    <3> QED BY <3>2, <3>3, <3>4
  <2>2. TypeOK'
    <3>0. ctx'[c].closed \in BOOLEAN
      BY <2>1 DEF SqlInv, TypeOK, Typed
    <3>1. Typed(ctx[c])'
      BY <1>2, <2>1, <3>0, SMTT(30) DEF SqlInv, TypeOK, Typed, Fields, Places, States, Kinds
    <3>2. ASSUME NEW x \in Contexts \ {c} PROVE Typed(ctx[x])'
      BY <2>1, SMTT(30) DEF SqlInv, TypeOK, Typed, Fields
    <3> QED
      BY <1>2, <2>1, <3>1, <3>2, SMTT(30) DEF SqlInv, TypeOK
  <2>3. SqlOwner'
    BY <1>2, <2>1, SMTT(30) DEF SqlInv, TypeOK, SqlOwner, Gave, Acquired, SqlContext,
        SqlShape, SqlState, SqlConns, S!ApplyBatch, S!Committed, S!Failed
  <2>4. ASSUME NEW x \in Contexts PROVE SqlContext(x)'
    <3>1. CASE x = c
      BY <1>2, <2>1, <3>1, CoreAssumption, SMTT(30) DEF SqlInv, TypeOK, Typed, Fields,
          SqlOwner, SqlContext, SqlShape, SqlState, SqlEnded, SqlConns, SqlSlot, SqlMember,
          Gave, Acquired, Kinds, TxnKinds, S!ApplyBatch, S!Committed, S!Failed
    <3>2. CASE x # c
      BY <1>2, <2>1, <3>2, CoreAssumption, SMTT(30) DEF SqlInv, TypeOK, Typed, Fields,
          SqlOwner, SqlContext, SqlShape, SqlState, SqlEnded, SqlConns, SqlSlot, SqlMember,
          Gave, Acquired, Kinds, TxnKinds, S!ApplyBatch, S!Committed, S!Failed
    <3> QED BY <3>1, <3>2
  <2>5. Contract!Next
    <3>1. /\ ctx[c].state = "active" /\ ctx[c].pc # "read"
          /\ \/ which = "SQLite" /\ ctx[c].kind = "batch"
             \/ /\ ctx[c].life = life
                /\ \/ ctx[c].kind = "batch" \/ (which = "memory" /\ ~opened)
                   \/ ctx[c].base = db
      BY <1>2, <2>1, SMTT(30) DEF SqlInv, TypeOK, Typed, Fields, SqlContext, SqlShape,
          SqlState, SqlMember, S!ApplyBatch, S!Committed, S!Failed, SqlEnded, SqlConns,
          Kinds, TxnKinds
    <3>2. /\ Others(c) /\ db' = db + 1 /\ ctx'[c].pc # "read" /\ ctx'[c].state = "committed"
          /\ ctx'[c].answer = ctx[c].answer
          /\ ctx'[c].life = ctx[c].life /\ ctx'[c].base = ctx[c].base
      BY <2>1 DEF Others
    <3> QED BY <3>1, <3>2, ContractCommits DEF SqlInv
  <2> QED BY <2>2, <2>3, <2>4, <2>5 DEF SqlInv
<1> QED BY <1>1, <1>2 DEF S!ApplyBatch

LEMMA SqlAbort ==
    ASSUME which = "SQLite", SqlInv, NEW c \in Contexts, S!Abort(c)
    PROVE  SqlInv' /\ Contract!Next
<1>1. CASE ctx[c].closed \/ ctx[c].kind = "batch"
  <2>1. /\ Ends(c, "done", TRUE, IF ctx[c].closed THEN ctx[c].state ELSE S!Over(c))
        /\ active' = active \ {c}
        /\ UNCHANGED <<opened, db, life, lock, holder, owner, child, reserved, pid, inherited>>
        /\ UNCHANGED <<idle, conns, open, file, touched>>
    BY <1>1, SMTT(30) DEF SqlInv, TypeOK, Typed, Fields, S!Abort, S!EndContext, S!Done,
        SqlContext, SqlShape, SqlState, SqlConns
  <2>2. TypeOK'
    <3>0. ctx'[c].closed \in BOOLEAN
      BY <2>1 DEF SqlInv, TypeOK, Typed
    <3>1. Typed(ctx[c])'
      BY <1>1, <2>1, <3>0, SMTT(30) DEF SqlInv, TypeOK, Typed, Fields, Places, States, Kinds
    <3>2. ASSUME NEW x \in Contexts \ {c} PROVE Typed(ctx[x])'
      BY <2>1, SMTT(30) DEF SqlInv, TypeOK, Typed, Fields
    <3> QED
      BY <1>1, <2>1, <3>1, <3>2, SMTT(30) DEF SqlInv, TypeOK
  <2>3. SqlOwner'
    BY <1>1, <2>1, SMTT(30) DEF SqlInv, TypeOK, SqlOwner, Gave, Acquired, SqlContext,
        SqlShape, SqlState, SqlConns, S!Abort, S!EndContext, S!Done
  <2>4. ASSUME NEW x \in Contexts PROVE SqlContext(x)'
    <3>1. CASE x = c
      BY <1>1, <2>1, <3>1, CoreAssumption, SMTT(30) DEF SqlInv, TypeOK, Typed, Fields,
          SqlOwner, SqlContext, SqlShape, SqlState, SqlEnded, SqlConns, SqlSlot, SqlMember,
          Gave, Acquired, Kinds, TxnKinds, S!Abort, S!EndContext, S!Done
    <3>2. CASE x # c
      BY <1>1, <2>1, <3>2, CoreAssumption, SMTT(30) DEF SqlInv, TypeOK, Typed, Fields,
          SqlOwner, SqlContext, SqlShape, SqlState, SqlEnded, SqlConns, SqlSlot, SqlMember,
          Gave, Acquired, Kinds, TxnKinds, S!Abort, S!EndContext, S!Done
    <3> QED BY <3>1, <3>2
  <2>5. Contract!Next
    <3>1. GoesOnOrEnds(c)
      BY <1>1, <2>1, SMTT(30) DEF GoesOnOrEnds, SqlInv, TypeOK, Typed, Fields, SqlContext,
          SqlShape, SqlState, SqlMember, S!Abort, S!EndContext, S!Done
    <3> QED BY <2>1, <3>1, ContractEndsOne DEF SqlInv
  <2> QED BY <2>2, <2>3, <2>4, <2>5 DEF SqlInv
<1>2. CASE ~(ctx[c].closed \/ ctx[c].kind = "batch")
  <2>1. /\ Ends(c, "done", TRUE, S!Over(c))
        /\ holder' = S!Released(c)
        /\ active' = active \ {c}
        /\ UNCHANGED <<opened, db, life, lock, owner, child, reserved, pid, inherited>>
        /\ Gave(c)
    <3>1. ctx' = [ctx EXCEPT ![c] = S!Done(c)]
      BY <1>2 DEF S!Abort, S!EndContext, S!Done
    <3>2. /\ ctx[c].pc # "gone"
          /\ S!GiveConn(c)
          /\ holder' = S!Released(c)
          /\ active' = active \ {c}
          /\ UNCHANGED <<opened, db, life, lock, owner, child, reserved, pid, inherited>>
      BY <1>2 DEF S!Abort, S!EndContext, S!Done
    <3>3. Gave(c)
      BY <3>2, SqlGives
    <3>4. Ends(c, "done", TRUE, S!Over(c))
      BY <1>2, <3>1, <3>2, SMTT(30) DEF SqlInv, TypeOK, Typed, Fields, S!Done
    <3> QED BY <3>2, <3>3, <3>4
  <2>2. TypeOK'
    <3>0. ctx'[c].closed \in BOOLEAN
      BY <2>1 DEF SqlInv, TypeOK, Typed
    <3>1. Typed(ctx[c])'
      BY <1>2, <2>1, <3>0, SMTT(30) DEF SqlInv, TypeOK, Typed, Fields, Places, States, Kinds
    <3>2. ASSUME NEW x \in Contexts \ {c} PROVE Typed(ctx[x])'
      BY <2>1, SMTT(30) DEF SqlInv, TypeOK, Typed, Fields
    <3> QED
      BY <1>2, <2>1, <3>1, <3>2, SMTT(30) DEF SqlInv, TypeOK
  <2>3. SqlOwner'
    BY <1>2, <2>1, SMTT(30) DEF SqlInv, TypeOK, SqlOwner, Gave, Acquired, SqlContext,
        SqlShape, SqlState, SqlConns, S!Abort, S!EndContext, S!Done
  <2>4. ASSUME NEW x \in Contexts PROVE SqlContext(x)'
    <3>1. CASE x = c
      BY <1>2, <2>1, <3>1, CoreAssumption, SMTT(30) DEF SqlInv, TypeOK, Typed, Fields,
          SqlOwner, SqlContext, SqlShape, SqlState, SqlEnded, SqlConns, SqlSlot, SqlMember,
          Gave, Acquired, Kinds, TxnKinds, S!Abort, S!EndContext, S!Done
    <3>2. CASE x # c
      BY <1>2, <2>1, <3>2, CoreAssumption, SMTT(30) DEF SqlInv, TypeOK, Typed, Fields,
          SqlOwner, SqlContext, SqlShape, SqlState, SqlEnded, SqlConns, SqlSlot, SqlMember,
          Gave, Acquired, Kinds, TxnKinds, S!Abort, S!EndContext, S!Done
    <3> QED BY <3>1, <3>2
  <2>5. Contract!Next
    <3>1. GoesOnOrEnds(c)
      BY <1>2, <2>1, SMTT(30) DEF GoesOnOrEnds, SqlInv, TypeOK, Typed, Fields, SqlContext,
          SqlShape, SqlState, SqlMember, S!Abort, S!EndContext, S!Done
    <3> QED BY <2>1, <3>1, ContractEndsOne DEF SqlInv
  <2> QED BY <2>2, <2>3, <2>4, <2>5 DEF SqlInv
<1> QED BY <1>1, <1>2

LEMMA SqlDrop ==
    ASSUME which = "SQLite", SqlInv, NEW c \in Contexts, S!Drop(c)
    PROVE  SqlInv' /\ Contract!Next
<1>1. /\ Ends(c, "done", TRUE, S!Over(c))
      /\ holder' = S!Released(c)
      /\ active' = active \ {c}
      /\ reserved' = reserved \ {c}
      /\ UNCHANGED <<opened, db, life, lock, owner, child, pid, inherited>>
      /\ Gave(c)
  <2>1. ctx' = [ctx EXCEPT ![c] = S!Done(c)]
    BY DEF S!Drop, S!Done
  <2>2. /\ ctx[c].pc # "gone"
        /\ S!DropConn(c)
        /\ holder' = S!Released(c)
        /\ active' = active \ {c}
        /\ reserved' = reserved \ {c}
        /\ UNCHANGED <<opened, db, life, lock, owner, child, pid, inherited>>
    BY DEF S!Drop, S!Done
  <2>3. Gave(c)
    BY <2>2, SqlDrops
  <2>4. Ends(c, "done", TRUE, S!Over(c))
    BY <2>1, <2>2, SMTT(30) DEF SqlInv, TypeOK, Typed, Fields, S!Done
  <2> QED BY <2>2, <2>3, <2>4
<1>2. TypeOK'
  <2>0. ctx'[c].closed \in BOOLEAN
    BY <1>1 DEF SqlInv, TypeOK, Typed
  <2>1. Typed(ctx[c])'
    BY <1>1, <2>0, SMTT(30) DEF SqlInv, TypeOK, Typed, Fields, Places, States, Kinds
  <2>2. ASSUME NEW x \in Contexts \ {c} PROVE Typed(ctx[x])'
    BY <1>1, SMTT(30) DEF SqlInv, TypeOK, Typed, Fields
  <2> QED
    BY <1>1, <2>1, <2>2, SMTT(30) DEF SqlInv, TypeOK
<1>3. SqlOwner'
  BY <1>1, SMTT(30) DEF SqlInv, TypeOK, SqlOwner, Gave, Acquired, SqlContext, SqlShape,
      SqlState, SqlConns, S!Drop, S!Done
<1>4. ASSUME NEW x \in Contexts PROVE SqlContext(x)'
  <2>1. CASE x = c
    BY <1>1, <2>1, CoreAssumption, SMTT(30) DEF SqlInv, TypeOK, Typed, Fields, SqlOwner,
        SqlContext, SqlShape, SqlState, SqlEnded, SqlConns, SqlSlot, SqlMember, Gave,
        Acquired, Kinds, TxnKinds, S!Drop, S!Done
  <2>2. CASE x # c
    BY <1>1, <2>2, CoreAssumption, SMTT(30) DEF SqlInv, TypeOK, Typed, Fields, SqlOwner,
        SqlContext, SqlShape, SqlState, SqlEnded, SqlConns, SqlSlot, SqlMember, Gave,
        Acquired, Kinds, TxnKinds, S!Drop, S!Done
  <2> QED BY <2>1, <2>2
<1>5. Contract!Next
  <2>1. GoesOnOrEnds(c)
    BY <1>1, SMTT(30) DEF GoesOnOrEnds, SqlInv, TypeOK, Typed, Fields, SqlContext, SqlShape,
        SqlState, SqlMember, S!Drop, S!Done
  <2> QED BY <1>1, <2>1, ContractEndsOne DEF SqlInv
<1> QED BY <1>2, <1>3, <1>4, <1>5 DEF SqlInv

LEMMA SqlCloseContext ==
    ASSUME which = "SQLite", SqlInv, NEW c \in Contexts, S!CloseContext(c)
    PROVE  SqlInv' /\ Contract!Next
<1>1. CASE ctx[c].kind = "reserving"
  <2>1. /\ Ends(c, ctx[c].pc, ctx[c].closed, IF c \in conns THEN S!Over(c) ELSE ctx[c].state)
        /\ owner' = [owner EXCEPT !.toEnd = @ \ {c}]
        /\ UNCHANGED <<opened, active, db, life, lock, holder, child, reserved, pid, inherited>>
        /\ Gave(c)
    <3>1. ctx' = [ctx EXCEPT ![c].state = IF c \in conns THEN S!Over(c) ELSE @]
      BY <1>1 DEF S!CloseContext, S!EndContext, SqlInv, SqlContext, SqlMember
    <3>2. /\ ctx[c].pc # "gone"
          /\ S!GiveConn(c)
          /\ owner' = [owner EXCEPT !.toEnd = @ \ {c}]
          /\ UNCHANGED <<opened, active, db, life, lock, holder, child, reserved, pid, inherited>>
      BY <1>1 DEF S!CloseContext, S!EndContext, SqlInv, SqlContext, SqlMember
    <3>3. Gave(c)
      BY <3>2, SqlGives
    <3>4. Ends(c, ctx[c].pc, ctx[c].closed, IF c \in conns THEN S!Over(c) ELSE ctx[c].state)
      BY <1>1, <3>1, <3>2, SMTT(30) DEF SqlInv, TypeOK, Typed, Fields, S!Done
    <3> QED BY <3>2, <3>3, <3>4
  <2>2. TypeOK'
    <3>0. ctx'[c].closed \in BOOLEAN
      BY <2>1 DEF SqlInv, TypeOK, Typed
    <3>1. Typed(ctx[c])'
      BY <1>1, <2>1, <3>0, SMTT(30) DEF SqlInv, TypeOK, Typed, Fields, Places, States, Kinds
    <3>2. ASSUME NEW x \in Contexts \ {c} PROVE Typed(ctx[x])'
      BY <2>1, SMTT(30) DEF SqlInv, TypeOK, Typed, Fields
    <3> QED
      BY <1>1, <2>1, <3>1, <3>2, SMTT(30) DEF SqlInv, TypeOK
  <2>3. SqlOwner'
    BY <1>1, <2>1, SMTT(30) DEF SqlInv, TypeOK, SqlOwner, Gave, Acquired, SqlContext,
        SqlShape, SqlState, SqlConns, S!CloseContext, S!EndContext
  <2>4. ASSUME NEW x \in Contexts PROVE SqlContext(x)'
    <3>1. CASE x = c
      <4>1. SqlShape(c)'
        BY <1>1, <2>1, CoreAssumption, SMTT(30) DEF SqlInv, TypeOK, Typed, Fields, SqlOwner,
            SqlContext, SqlShape, SqlState, SqlEnded, SqlConns, SqlSlot, SqlMember, Gave,
            Acquired, Kinds, TxnKinds, S!CloseContext, S!EndContext
      <4>2. SqlState(c)'
        BY <1>1, <2>1, CoreAssumption, SMTT(30) DEF SqlInv, TypeOK, Typed, Fields, SqlOwner,
            SqlContext, SqlShape, SqlState, SqlEnded, SqlConns, SqlSlot, SqlMember, Gave,
            Acquired, Kinds, TxnKinds, S!CloseContext, S!EndContext
      <4>3. SqlEnded(c)'
        BY <1>1, <2>1, CoreAssumption, SMTT(30) DEF SqlInv, TypeOK, Typed, Fields, SqlOwner,
            SqlContext, SqlShape, SqlState, SqlEnded, SqlConns, SqlSlot, SqlMember, Gave,
            Acquired, Kinds, TxnKinds, S!CloseContext, S!EndContext
      <4>4. SqlConns(c)'
        BY <1>1, <2>1, CoreAssumption, SMTT(30) DEF SqlInv, TypeOK, Typed, Fields, SqlOwner,
            SqlContext, SqlShape, SqlState, SqlEnded, SqlConns, SqlSlot, SqlMember, Gave,
            Acquired, Kinds, TxnKinds, S!CloseContext, S!EndContext
      <4>5. SqlSlot(c)'
        BY <1>1, <2>1, CoreAssumption, SMTT(30) DEF SqlInv, TypeOK, Typed, Fields, SqlOwner,
            SqlContext, SqlShape, SqlState, SqlEnded, SqlConns, SqlSlot, SqlMember, Gave,
            Acquired, Kinds, TxnKinds, S!CloseContext, S!EndContext
      <4>6. SqlMember(c)'
        BY <1>1, <2>1, CoreAssumption, SMTT(30) DEF SqlInv, TypeOK, Typed, Fields, SqlOwner,
            SqlContext, SqlShape, SqlState, SqlEnded, SqlConns, SqlSlot, SqlMember, Gave,
            Acquired, Kinds, TxnKinds, S!CloseContext, S!EndContext
      <4> QED BY <3>1, <4>1, <4>2, <4>3, <4>4, <4>5, <4>6 DEF SqlContext
    <3>2. CASE x # c
      BY <1>1, <2>1, <3>2, CoreAssumption, SMTT(30) DEF SqlInv, TypeOK, Typed, Fields,
          SqlOwner, SqlContext, SqlShape, SqlState, SqlEnded, SqlConns, SqlSlot, SqlMember,
          Gave, Acquired, Kinds, TxnKinds, S!CloseContext, S!EndContext
    <3> QED BY <3>1, <3>2
  <2>5. Contract!Next
    <3>1. GoesOnOrEnds(c)
      BY <1>1, <2>1, SMTT(30) DEF GoesOnOrEnds, SqlInv, TypeOK, Typed, Fields, SqlContext,
          SqlShape, SqlState, SqlMember, S!CloseContext, S!EndContext
    <3> QED BY <2>1, <3>1, ContractEndsOne DEF SqlInv
  <2> QED BY <2>2, <2>3, <2>4, <2>5 DEF SqlInv
<1>2. CASE ctx[c].kind # "reserving" /\ ctx[c].pc = "register"
  <2>1. /\ Moves(c, "register")
        /\ owner' = [owner EXCEPT !.toEnd = @ \ {c}]
        /\ UNCHANGED <<opened, active, db, life, lock, holder, child, reserved, pid, inherited>>
        /\ UNCHANGED <<idle, conns, open, file, touched>>
    <3>1. ctx' = ctx
      BY <1>2 DEF S!CloseContext, S!EndContext
    <3>2. /\ owner' = [owner EXCEPT !.toEnd = @ \ {c}]
          /\ UNCHANGED <<opened, active, db, life, lock, holder, child, reserved, pid, inherited>>
          /\ UNCHANGED <<idle, conns, open, file, touched>>
      BY <1>2 DEF S!CloseContext, S!EndContext
    <3>4. Moves(c, "register")
      BY <1>2, <3>1, SMTT(30) DEF SqlInv, TypeOK, Typed, Fields
    <3> QED BY <3>2, <3>4
  <2>2. TypeOK'
    <3>1. Typed(ctx[c])'
      BY <1>2, <2>1, SMTT(30) DEF SqlInv, TypeOK, Typed, Fields, Places, States, Kinds
    <3>2. ASSUME NEW x \in Contexts \ {c} PROVE Typed(ctx[x])'
      BY <2>1, SMTT(30) DEF SqlInv, TypeOK, Typed, Fields
    <3> QED
      BY <1>2, <2>1, <3>1, <3>2, SMTT(30) DEF SqlInv, TypeOK
  <2>3. SqlOwner'
    BY <1>2, <2>1, SMTT(30) DEF SqlInv, TypeOK, SqlOwner, Gave, Acquired, SqlContext,
        SqlShape, SqlState, SqlConns, S!CloseContext, S!EndContext
  <2>4. ASSUME NEW x \in Contexts PROVE SqlContext(x)'
    <3>1. CASE x = c
      <4>1. SqlShape(c)'
        BY <1>2, <2>1, CoreAssumption, SMTT(30) DEF SqlInv, TypeOK, Typed, Fields, SqlOwner,
            SqlContext, SqlShape, SqlState, SqlEnded, SqlConns, SqlSlot, SqlMember, Gave,
            Acquired, Kinds, TxnKinds, S!CloseContext, S!EndContext
      <4>2. SqlState(c)'
        BY <1>2, <2>1, CoreAssumption, SMTT(30) DEF SqlInv, TypeOK, Typed, Fields, SqlOwner,
            SqlContext, SqlShape, SqlState, SqlEnded, SqlConns, SqlSlot, SqlMember, Gave,
            Acquired, Kinds, TxnKinds, S!CloseContext, S!EndContext
      <4>3. SqlEnded(c)'
        BY <1>2, <2>1, CoreAssumption, SMTT(30) DEF SqlInv, TypeOK, Typed, Fields, SqlOwner,
            SqlContext, SqlShape, SqlState, SqlEnded, SqlConns, SqlSlot, SqlMember, Gave,
            Acquired, Kinds, TxnKinds, S!CloseContext, S!EndContext
      <4>4. SqlConns(c)'
        BY <1>2, <2>1, CoreAssumption, SMTT(30) DEF SqlInv, TypeOK, Typed, Fields, SqlOwner,
            SqlContext, SqlShape, SqlState, SqlEnded, SqlConns, SqlSlot, SqlMember, Gave,
            Acquired, Kinds, TxnKinds, S!CloseContext, S!EndContext
      <4>5. SqlSlot(c)'
        BY <1>2, <2>1, CoreAssumption, SMTT(30) DEF SqlInv, TypeOK, Typed, Fields, SqlOwner,
            SqlContext, SqlShape, SqlState, SqlEnded, SqlConns, SqlSlot, SqlMember, Gave,
            Acquired, Kinds, TxnKinds, S!CloseContext, S!EndContext
      <4>6. SqlMember(c)'
        BY <1>2, <2>1, CoreAssumption, SMTT(30) DEF SqlInv, TypeOK, Typed, Fields, SqlOwner,
            SqlContext, SqlShape, SqlState, SqlEnded, SqlConns, SqlSlot, SqlMember, Gave,
            Acquired, Kinds, TxnKinds, S!CloseContext, S!EndContext
      <4> QED BY <3>1, <4>1, <4>2, <4>3, <4>4, <4>5, <4>6 DEF SqlContext
    <3>2. CASE x # c
      BY <1>2, <2>1, <3>2, CoreAssumption, SMTT(30) DEF SqlInv, TypeOK, Typed, Fields,
          SqlOwner, SqlContext, SqlShape, SqlState, SqlEnded, SqlConns, SqlSlot, SqlMember,
          Gave, Acquired, Kinds, TxnKinds, S!CloseContext, S!EndContext
    <3> QED BY <3>1, <3>2
  <2>5. Contract!Next
    <3>1. GoesOnOrEnds(c)
      BY <1>2, <2>1, SMTT(30) DEF GoesOnOrEnds, SqlInv, TypeOK, Typed, Fields, SqlContext,
          SqlShape, SqlState, SqlMember, S!CloseContext, S!EndContext
    <3> QED BY <2>1, <3>1, ContractEndsOne DEF SqlInv
  <2> QED BY <2>2, <2>3, <2>4, <2>5 DEF SqlInv
<1>3. CASE ctx[c].kind # "reserving" /\ ctx[c].pc # "register" /\ (ctx[c].kind = "batch" \/ ctx[c].closed)
  <2>1. /\ Ends(c, ctx[c].pc, TRUE, IF ctx[c].closed THEN ctx[c].state ELSE S!Over(c))
        /\ owner' = [owner EXCEPT !.toEnd = @ \ {c}]
        /\ UNCHANGED <<opened, active, db, life, lock, holder, child, reserved, pid, inherited>>
        /\ UNCHANGED <<idle, conns, open, file, touched>>
    <3>1. ctx' = [ctx EXCEPT ![c] = [@ EXCEPT !.pc = ctx[c].pc, !.closed = TRUE, !.state = IF ctx[c].closed THEN ctx[c].state ELSE S!Over(c)]]
      BY <1>3 DEF S!CloseContext, S!EndContext
    <3>2. /\ owner' = [owner EXCEPT !.toEnd = @ \ {c}]
          /\ UNCHANGED <<opened, active, db, life, lock, holder, child, reserved, pid, inherited>>
          /\ UNCHANGED <<idle, conns, open, file, touched>>
      BY <1>3 DEF S!CloseContext, S!EndContext
    <3>4. Ends(c, ctx[c].pc, TRUE, IF ctx[c].closed THEN ctx[c].state ELSE S!Over(c))
      BY <1>3, <3>1, SMTT(30) DEF SqlInv, TypeOK, Typed, Fields
    <3> QED BY <3>2, <3>4
  <2>2. TypeOK'
    <3>0. ctx'[c].closed \in BOOLEAN
      BY <2>1 DEF SqlInv, TypeOK, Typed
    <3>1. Typed(ctx[c])'
      BY <1>3, <2>1, <3>0, SMTT(30) DEF SqlInv, TypeOK, Typed, Fields, Places, States, Kinds
    <3>2. ASSUME NEW x \in Contexts \ {c} PROVE Typed(ctx[x])'
      BY <2>1, SMTT(30) DEF SqlInv, TypeOK, Typed, Fields
    <3> QED
      BY <1>3, <2>1, <3>1, <3>2, SMTT(30) DEF SqlInv, TypeOK
  <2>3. SqlOwner'
    BY <1>3, <2>1, SMTT(30) DEF SqlInv, TypeOK, SqlOwner, Gave, Acquired, SqlContext,
        SqlShape, SqlState, SqlConns, S!CloseContext, S!EndContext
  <2>4. ASSUME NEW x \in Contexts PROVE SqlContext(x)'
    <3>1. CASE x = c
      <4>1. SqlShape(c)'
        BY <1>3, <2>1, CoreAssumption, SMTT(30) DEF SqlInv, TypeOK, Typed, Fields, SqlOwner,
            SqlContext, SqlShape, SqlState, SqlEnded, SqlConns, SqlSlot, SqlMember, Gave,
            Acquired, Kinds, TxnKinds, S!CloseContext, S!EndContext
      <4>2. SqlState(c)'
        BY <1>3, <2>1, CoreAssumption, SMTT(30) DEF SqlInv, TypeOK, Typed, Fields, SqlOwner,
            SqlContext, SqlShape, SqlState, SqlEnded, SqlConns, SqlSlot, SqlMember, Gave,
            Acquired, Kinds, TxnKinds, S!CloseContext, S!EndContext
      <4>3. SqlEnded(c)'
        BY <1>3, <2>1, CoreAssumption, SMTT(30) DEF SqlInv, TypeOK, Typed, Fields, SqlOwner,
            SqlContext, SqlShape, SqlState, SqlEnded, SqlConns, SqlSlot, SqlMember, Gave,
            Acquired, Kinds, TxnKinds, S!CloseContext, S!EndContext
      <4>4. SqlConns(c)'
        BY <1>3, <2>1, CoreAssumption, SMTT(30) DEF SqlInv, TypeOK, Typed, Fields, SqlOwner,
            SqlContext, SqlShape, SqlState, SqlEnded, SqlConns, SqlSlot, SqlMember, Gave,
            Acquired, Kinds, TxnKinds, S!CloseContext, S!EndContext
      <4>5. SqlSlot(c)'
        BY <1>3, <2>1, CoreAssumption, SMTT(30) DEF SqlInv, TypeOK, Typed, Fields, SqlOwner,
            SqlContext, SqlShape, SqlState, SqlEnded, SqlConns, SqlSlot, SqlMember, Gave,
            Acquired, Kinds, TxnKinds, S!CloseContext, S!EndContext
      <4>6. SqlMember(c)'
        BY <1>3, <2>1, CoreAssumption, SMTT(30) DEF SqlInv, TypeOK, Typed, Fields, SqlOwner,
            SqlContext, SqlShape, SqlState, SqlEnded, SqlConns, SqlSlot, SqlMember, Gave,
            Acquired, Kinds, TxnKinds, S!CloseContext, S!EndContext
      <4> QED BY <3>1, <4>1, <4>2, <4>3, <4>4, <4>5, <4>6 DEF SqlContext
    <3>2. CASE x # c
      BY <1>3, <2>1, <3>2, CoreAssumption, SMTT(30) DEF SqlInv, TypeOK, Typed, Fields,
          SqlOwner, SqlContext, SqlShape, SqlState, SqlEnded, SqlConns, SqlSlot, SqlMember,
          Gave, Acquired, Kinds, TxnKinds, S!CloseContext, S!EndContext
    <3> QED BY <3>1, <3>2
  <2>5. Contract!Next
    <3>1. GoesOnOrEnds(c)
      BY <1>3, <2>1, SMTT(30) DEF GoesOnOrEnds, SqlInv, TypeOK, Typed, Fields, SqlContext,
          SqlShape, SqlState, SqlMember, S!CloseContext, S!EndContext
    <3> QED BY <2>1, <3>1, ContractEndsOne DEF SqlInv
  <2> QED BY <2>2, <2>3, <2>4, <2>5 DEF SqlInv
<1>4. CASE ctx[c].kind \notin {"reserving", "batch"} /\ ctx[c].pc # "register" /\ ~ctx[c].closed
  <2>1. /\ Ends(c, ctx[c].pc, TRUE, S!Over(c))
        /\ holder' = S!Released(c)
        /\ owner' = [owner EXCEPT !.toEnd = @ \ {c}]
        /\ UNCHANGED <<opened, active, db, life, lock, child, reserved, pid, inherited>>
        /\ Gave(c)
    <3>1. ctx' = [ctx EXCEPT ![c] = [@ EXCEPT !.pc = ctx[c].pc, !.closed = TRUE, !.state = S!Over(c)]]
      BY <1>4 DEF S!CloseContext, S!EndContext, SqlInv, SqlContext, SqlMember
    <3>2. /\ ctx[c].pc # "gone"
          /\ S!GiveConn(c)
          /\ holder' = S!Released(c)
          /\ owner' = [owner EXCEPT !.toEnd = @ \ {c}]
          /\ UNCHANGED <<opened, active, db, life, lock, child, reserved, pid, inherited>>
      BY <1>4 DEF S!CloseContext, S!EndContext, SqlInv, SqlContext, SqlMember
    <3>3. Gave(c)
      BY <3>2, SqlGives
    <3>4. Ends(c, ctx[c].pc, TRUE, S!Over(c))
      BY <1>4, <3>1, <3>2, SMTT(30) DEF SqlInv, TypeOK, Typed, Fields, S!Done
    <3> QED BY <3>2, <3>3, <3>4
  <2>2. TypeOK'
    <3>0. ctx'[c].closed \in BOOLEAN
      BY <2>1 DEF SqlInv, TypeOK, Typed
    <3>1. Typed(ctx[c])'
      BY <1>4, <2>1, <3>0, SMTT(30) DEF SqlInv, TypeOK, Typed, Fields, Places, States, Kinds
    <3>2. ASSUME NEW x \in Contexts \ {c} PROVE Typed(ctx[x])'
      BY <2>1, SMTT(30) DEF SqlInv, TypeOK, Typed, Fields
    <3> QED
      BY <1>4, <2>1, <3>1, <3>2, SMTT(30) DEF SqlInv, TypeOK
  <2>3. SqlOwner'
    BY <1>4, <2>1, SMTT(30) DEF SqlInv, TypeOK, SqlOwner, Gave, Acquired, SqlContext,
        SqlShape, SqlState, SqlConns, S!CloseContext, S!EndContext
  <2>4. ASSUME NEW x \in Contexts PROVE SqlContext(x)'
    <3>1. CASE x = c
      <4>1. SqlShape(c)'
        BY <1>4, <2>1, CoreAssumption, SMTT(30) DEF SqlInv, TypeOK, Typed, Fields, SqlOwner,
            SqlContext, SqlShape, SqlState, SqlEnded, SqlConns, SqlSlot, SqlMember, Gave,
            Acquired, Kinds, TxnKinds, S!CloseContext, S!EndContext
      <4>2. SqlState(c)'
        BY <1>4, <2>1, CoreAssumption, SMTT(30) DEF SqlInv, TypeOK, Typed, Fields, SqlOwner,
            SqlContext, SqlShape, SqlState, SqlEnded, SqlConns, SqlSlot, SqlMember, Gave,
            Acquired, Kinds, TxnKinds, S!CloseContext, S!EndContext
      <4>3. SqlEnded(c)'
        BY <1>4, <2>1, CoreAssumption, SMTT(30) DEF SqlInv, TypeOK, Typed, Fields, SqlOwner,
            SqlContext, SqlShape, SqlState, SqlEnded, SqlConns, SqlSlot, SqlMember, Gave,
            Acquired, Kinds, TxnKinds, S!CloseContext, S!EndContext
      <4>4. SqlConns(c)'
        BY <1>4, <2>1, CoreAssumption, SMTT(30) DEF SqlInv, TypeOK, Typed, Fields, SqlOwner,
            SqlContext, SqlShape, SqlState, SqlEnded, SqlConns, SqlSlot, SqlMember, Gave,
            Acquired, Kinds, TxnKinds, S!CloseContext, S!EndContext
      <4>5. SqlSlot(c)'
        BY <1>4, <2>1, CoreAssumption, SMTT(30) DEF SqlInv, TypeOK, Typed, Fields, SqlOwner,
            SqlContext, SqlShape, SqlState, SqlEnded, SqlConns, SqlSlot, SqlMember, Gave,
            Acquired, Kinds, TxnKinds, S!CloseContext, S!EndContext
      <4>6. SqlMember(c)'
        BY <1>4, <2>1, CoreAssumption, SMTT(30) DEF SqlInv, TypeOK, Typed, Fields, SqlOwner,
            SqlContext, SqlShape, SqlState, SqlEnded, SqlConns, SqlSlot, SqlMember, Gave,
            Acquired, Kinds, TxnKinds, S!CloseContext, S!EndContext
      <4> QED BY <3>1, <4>1, <4>2, <4>3, <4>4, <4>5, <4>6 DEF SqlContext
    <3>2. CASE x # c
      BY <1>4, <2>1, <3>2, CoreAssumption, SMTT(30) DEF SqlInv, TypeOK, Typed, Fields,
          SqlOwner, SqlContext, SqlShape, SqlState, SqlEnded, SqlConns, SqlSlot, SqlMember,
          Gave, Acquired, Kinds, TxnKinds, S!CloseContext, S!EndContext
    <3> QED BY <3>1, <3>2
  <2>5. Contract!Next
    <3>1. GoesOnOrEnds(c)
      BY <1>4, <2>1, SMTT(30) DEF GoesOnOrEnds, SqlInv, TypeOK, Typed, Fields, SqlContext,
          SqlShape, SqlState, SqlMember, S!CloseContext, S!EndContext
    <3> QED BY <2>1, <3>1, ContractEndsOne DEF SqlInv
  <2> QED BY <2>2, <2>3, <2>4, <2>5 DEF SqlInv
<1> QED BY <1>1, <1>2, <1>3, <1>4

LEMMA SqlCollected ==
    ASSUME which = "SQLite", SqlInv, NEW c \in Contexts, S!Collected(c)
    PROVE  SqlInv' /\ Contract!Next
<1>1. /\ reserved' \subseteq reserved
      /\ UNCHANGED <<opened, active, db, life, lock, holder, owner, child, pid, inherited, idle,
                     conns, open, file, touched>>
      /\ DOMAIN ctx' = Contexts /\ \A x \in Contexts : ctx'[x] = ctx[x]
  BY DEF SqlInv, TypeOK, S!Collected
<1>2. TypeOK'
  <2>1. opened' \in BOOLEAN /\ child' \in BOOLEAN /\ active' \subseteq Contexts
    BY <1>1 DEF SqlInv, TypeOK
  <2>2. ASSUME NEW x \in Contexts PROVE Typed(ctx[x])'
    BY <1>1, SMTT(30) DEF SqlInv, TypeOK, Typed, Fields
  <2> QED
    BY <1>1, <2>1, <2>2, SMTT(30) DEF SqlInv, TypeOK, SqlOwner
<1>3. SqlOwner'
  <2>1. open' = idle' + Cardinality(conns')
    <3>1. open = idle + Cardinality(conns) /\ idle \in Nat /\ Cardinality(conns) \in Nat
      BY SqlCount DEF SqlInv, SqlOwner
    <3>2. open' = idle' + Cardinality(conns)
      BY <1>1, <3>1, SMT
    <3> QED BY <1>1, <3>2
  <2> QED BY <1>1, <2>1, SMTT(30) DEF SqlInv, TypeOK, SqlOwner
<1>4. ASSUME NEW x \in Contexts PROVE SqlContext(x)'
  BY <1>1, CoreAssumption, SMTT(30) DEF SqlInv, TypeOK, Typed, Fields, SqlOwner, SqlContext,
      SqlShape, SqlState, SqlEnded, SqlConns, SqlSlot, SqlMember, Gave, Acquired, Kinds,
      TxnKinds
<1>5. Contract!Next
  <2>1. \A x \in Contexts : GoesOnOrEnds(x)
    BY <1>1, SMTT(30) DEF SqlInv, TypeOK, Typed, Fields, GoesOnOrEnds
  <2> QED BY <1>1, <2>1, ContractEnds DEF SqlInv
<1> QED BY <1>2, <1>3, <1>4, <1>5 DEF SqlInv

LEMMA SqlOpen ==
    ASSUME which = "SQLite", SqlInv, S!Open
    PROVE  SqlInv' /\ Contract!Next
<1>1. /\ ~opened /\ owner.pc = "idle" /\ opened' = TRUE
      /\ idle' = idle + 1 /\ open' = open + 1
      /\ pid' = IF pid = "parent" THEN "taken" ELSE pid
      /\ DOMAIN owner' = DOMAIN owner /\ owner'.pc = owner.pc /\ owner'.toEnd = owner.toEnd
      /\ owner'.opens = owner.opens + 1
      /\ UNCHANGED <<active, db, life, lock, holder, child, reserved, inherited, conns, file,
                     touched>>
      /\ DOMAIN ctx' = Contexts /\ \A x \in Contexts : ctx'[x] = ctx[x]
  BY DEF SqlInv, TypeOK, S!Open, S!MayOpen
<1>2. TypeOK'
  <2>1. opened' \in BOOLEAN /\ child' \in BOOLEAN /\ active' \subseteq Contexts
    BY <1>1 DEF SqlInv, TypeOK
  <2>2. ASSUME NEW x \in Contexts PROVE Typed(ctx[x])'
    BY <1>1, SMTT(30) DEF SqlInv, TypeOK, Typed, Fields
  <2> QED
    BY <1>1, <2>1, <2>2, SMTT(30) DEF SqlInv, TypeOK, SqlOwner
<1>3. SqlOwner'
  <2>1. open' = idle' + Cardinality(conns')
    <3>1. open = idle + Cardinality(conns) /\ idle \in Nat /\ Cardinality(conns) \in Nat
      BY SqlCount DEF SqlInv, SqlOwner
    <3>2. open' = idle' + Cardinality(conns)
      BY <1>1, <3>1, SMT
    <3> QED BY <1>1, <3>2
  <2> QED BY <1>1, <2>1, SMTT(30) DEF SqlInv, TypeOK, SqlOwner
<1>4. ASSUME NEW x \in Contexts PROVE SqlContext(x)'
  BY <1>1, CoreAssumption, SMTT(30) DEF SqlInv, TypeOK, Typed, Fields, SqlOwner, SqlContext,
      SqlShape, SqlState, SqlEnded, SqlConns, SqlSlot, SqlMember, Gave, Acquired, Kinds,
      TxnKinds
<1>5. Contract!Next
  <2>1. \A x \in Contexts : GoesOnOrEnds(x)
    BY <1>1, SMTT(30) DEF SqlInv, TypeOK, Typed, Fields, GoesOnOrEnds
  <2> QED BY <1>1, <2>1, ContractEnds DEF SqlInv
<1> QED BY <1>2, <1>3, <1>4, <1>5 DEF SqlInv

LEMMA SqlClose ==
    ASSUME which = "SQLite", SqlInv, S!Close
    PROVE  SqlInv' /\ Contract!Next
<1>1. /\ owner.pc = "idle" /\ opened /\ opened' = FALSE /\ active' = {} /\ reserved' = {}
      /\ idle' = 0 /\ open' = open - idle
      /\ DOMAIN owner' = DOMAIN owner /\ owner'.pc = "closing"
      /\ owner'.toEnd = active \cup {c \in reserved : ctx[c].kind = "reserving"}
      /\ owner'.opens = owner.opens
      /\ UNCHANGED <<db, life, lock, holder, child, pid, inherited, conns, file, touched>>
      /\ DOMAIN ctx' = Contexts /\ \A x \in Contexts : ctx'[x] = ctx[x]
  BY DEF SqlInv, TypeOK, S!Close
<1>2. TypeOK'
  <2>1. opened' \in BOOLEAN /\ child' \in BOOLEAN /\ active' \subseteq Contexts
    BY <1>1 DEF SqlInv, TypeOK
  <2>2. ASSUME NEW x \in Contexts PROVE Typed(ctx[x])'
    BY <1>1, SMTT(30) DEF SqlInv, TypeOK, Typed, Fields
  <2> QED
    BY <1>1, <2>1, <2>2, SMTT(30) DEF SqlInv, TypeOK, SqlOwner
<1>3. SqlOwner'
  <2>1. open' = idle' + Cardinality(conns')
    <3>1. open = idle + Cardinality(conns) /\ idle \in Nat /\ Cardinality(conns) \in Nat
      BY SqlCount DEF SqlInv, SqlOwner
    <3>2. open' = idle' + Cardinality(conns)
      BY <1>1, <3>1, SMT
    <3> QED BY <1>1, <3>2
  <2> QED BY <1>1, <2>1, SMTT(30) DEF SqlInv, TypeOK, SqlOwner
<1>4. ASSUME NEW x \in Contexts PROVE SqlContext(x)'
  BY <1>1, CoreAssumption, SMTT(30) DEF SqlInv, TypeOK, Typed, Fields, SqlOwner, SqlContext,
      SqlShape, SqlState, SqlEnded, SqlConns, SqlSlot, SqlMember, Gave, Acquired, Kinds,
      TxnKinds
<1>5. Contract!Next
  <2>1. \A x \in Contexts : GoesOnOrEnds(x)
    BY <1>1, SMTT(30) DEF SqlInv, TypeOK, Typed, Fields, GoesOnOrEnds
  <2> QED BY <1>1, <2>1, ContractEnds DEF SqlInv
<1> QED BY <1>2, <1>3, <1>4, <1>5 DEF SqlInv

LEMMA SqlReplaceSlot ==
    ASSUME which = "SQLite", SqlInv, S!ReplaceSlot
    PROVE  SqlInv' /\ Contract!Next
<1>1. /\ owner.pc = "closing" /\ owner.toEnd = {}
      /\ lock' = lock + 1 /\ holder' = NoOne /\ life' = life + 1
      /\ owner' = [owner EXCEPT !.pc = "idle"]
      /\ UNCHANGED <<opened, active, db, child, reserved, pid, inherited, idle, conns, open,
                     file, touched>>
      /\ DOMAIN ctx' = Contexts /\ \A x \in Contexts : ctx'[x] = ctx[x]
  BY DEF SqlInv, TypeOK, S!ReplaceSlot
<1>2. TypeOK'
  <2>1. opened' \in BOOLEAN /\ child' \in BOOLEAN /\ active' \subseteq Contexts
    BY <1>1 DEF SqlInv, TypeOK
  <2>2. ASSUME NEW x \in Contexts PROVE Typed(ctx[x])'
    BY <1>1, SMTT(30) DEF SqlInv, TypeOK, Typed, Fields
  <2> QED
    BY <1>1, <2>1, <2>2, SMTT(30) DEF SqlInv, TypeOK, SqlOwner
<1>3. SqlOwner'
  <2>1. open' = idle' + Cardinality(conns')
    <3>1. open = idle + Cardinality(conns) /\ idle \in Nat /\ Cardinality(conns) \in Nat
      BY SqlCount DEF SqlInv, SqlOwner
    <3>2. open' = idle' + Cardinality(conns)
      BY <1>1, <3>1, SMT
    <3> QED BY <1>1, <3>2
  <2> QED BY <1>1, <2>1, SMTT(30) DEF SqlInv, TypeOK, SqlOwner
<1>4. ASSUME NEW x \in Contexts PROVE SqlContext(x)'
  BY <1>1, CoreAssumption, SMTT(30) DEF SqlInv, TypeOK, Typed, Fields, SqlOwner, SqlContext,
      SqlShape, SqlState, SqlEnded, SqlConns, SqlSlot, SqlMember, Gave, Acquired, Kinds,
      TxnKinds
<1>5. Contract!Next
  <2>1. \A x \in Contexts : GoesOnOrEnds(x)
    BY <1>1, SMTT(30) DEF SqlInv, TypeOK, Typed, Fields, GoesOnOrEnds
  <2> QED BY <1>1, <2>1, ContractEnds DEF SqlInv
<1> QED BY <1>2, <1>3, <1>4, <1>5 DEF SqlInv

LEMMA SqlElsewhere ==
    ASSUME which = "SQLite", SqlInv, S!Elsewhere
    PROVE  SqlInv' /\ Contract!Next
<1>1. /\ file = NoOne /\ db' = db + 1
      /\ UNCHANGED <<opened, active, life, lock, holder, owner, child, reserved, pid, inherited,
                     idle, conns, open, file, touched>>
      /\ DOMAIN ctx' = Contexts /\ \A x \in Contexts : ctx'[x] = ctx[x]
  BY DEF SqlInv, TypeOK, S!Elsewhere
<1>2. TypeOK'
  <2>1. opened' \in BOOLEAN /\ child' \in BOOLEAN /\ active' \subseteq Contexts
    BY <1>1 DEF SqlInv, TypeOK
  <2>2. ASSUME NEW x \in Contexts PROVE Typed(ctx[x])'
    BY <1>1, SMTT(30) DEF SqlInv, TypeOK, Typed, Fields
  <2> QED
    BY <1>1, <2>1, <2>2, SMTT(30) DEF SqlInv, TypeOK, SqlOwner
<1>3. SqlOwner'
  <2>1. open' = idle' + Cardinality(conns')
    <3>1. open = idle + Cardinality(conns) /\ idle \in Nat /\ Cardinality(conns) \in Nat
      BY SqlCount DEF SqlInv, SqlOwner
    <3>2. open' = idle' + Cardinality(conns)
      BY <1>1, <3>1, SMT
    <3> QED BY <1>1, <3>2
  <2> QED BY <1>1, <2>1, SMTT(30) DEF SqlInv, TypeOK, SqlOwner
<1>4. ASSUME NEW x \in Contexts PROVE SqlContext(x)'
  BY <1>1, CoreAssumption, SMTT(30) DEF SqlInv, TypeOK, Typed, Fields, SqlOwner, SqlContext,
      SqlShape, SqlState, SqlEnded, SqlConns, SqlSlot, SqlMember, Gave, Acquired, Kinds,
      TxnKinds
<1>5. Contract!Next
  <2>1. \A x \in Contexts : GoesOnOrEnds(x)
    BY <1>1, SMTT(30) DEF SqlInv, TypeOK, Typed, Fields, GoesOnOrEnds
  <2> QED BY <1>1, <2>1, ContractEnds DEF SqlInv
<1> QED BY <1>2, <1>3, <1>4, <1>5 DEF SqlInv

\* What an open storage that is forked, and a closed one that looks, do with their state.
LEMMA SqlForgets ==
    ASSUME which = "SQLite", SqlInv, S!Forget, owner.pc = "idle", child' \in BOOLEAN,
           UNCHANGED <<opened, db, life, owner, conns, file, touched>>,
           pid' \in {"own", pid}, pid' # "parent",
           inherited' = conns \/ (inherited' = inherited /\ conns \subseteq inherited)
    PROVE  SqlInv' /\ Contract!Next
<1>1. /\ lock' = lock + 1 /\ holder' = NoOne /\ child' \in BOOLEAN
      /\ active' = {} /\ reserved' = {}
      /\ inherited' = conns \/ (inherited' = inherited /\ conns \subseteq inherited)
      /\ idle' = 0 /\ open' = open - idle
      /\ pid' \in {"own", pid} /\ pid' # "parent"
      /\ UNCHANGED <<opened, db, life, owner, conns, file, touched>> /\ owner.pc = "idle"
  BY DEF S!Forget
<1>2. /\ DOMAIN ctx' = Contexts
      /\ \A x \in Contexts :
            /\ DOMAIN ctx'[x] = Fields
            /\ ctx'[x].closed = (ctx[x].closed \/ x \in active)
            /\ ctx'[x].closed \in BOOLEAN
  <2>1. /\ DOMAIN ctx' = Contexts
        /\ \A x \in Contexts :
              ctx'[x] = [ctx[x] EXCEPT !.pc = S!Survives(x), !.closed = @ \/ x \in active,
                                       !.state = IF x \in active THEN S!Over(x) ELSE @]
    BY DEF S!Forget
  <2>2. ASSUME NEW x \in Contexts PROVE /\ DOMAIN ctx'[x] = Fields
                                        /\ ctx'[x].closed = (ctx[x].closed \/ x \in active)
    <3> DEFINE closed == ctx[x].closed \/ x \in active
               state == IF x \in active THEN S!Over(x) ELSE ctx[x].state
               pc == S!Survives(x)
    <3>1. DOMAIN ctx[x] = Fields
      BY DEF SqlInv, TypeOK, Typed
    <3>2. ctx'[x] = [ctx[x] EXCEPT !.pc = pc, !.closed = closed, !.state = state]
      BY <2>1, Zenon
    <3> HIDE DEF closed, state, pc
    <3>3. DOMAIN ctx'[x] = Fields /\ ctx'[x].closed = closed
      BY <3>1, <3>2 DEF Fields
    <3> QED BY <3>3 DEF closed
  <2> QED BY <2>1, <2>2
<1>3. \A x \in Contexts :
         /\ ctx'[x].pc = S!Survives(x)
         /\ ctx'[x].state = IF x \in active THEN S!Over(x) ELSE ctx[x].state
         /\ ctx'[x].kind = ctx[x].kind /\ ctx'[x].lock = ctx[x].lock
         /\ ctx'[x].life = ctx[x].life /\ ctx'[x].base = ctx[x].base
         /\ ctx'[x].answer = ctx[x].answer /\ ctx'[x].token = ctx[x].token
  <2> TAKE x \in Contexts
  <2> DEFINE closed == ctx[x].closed \/ x \in active
             state == IF x \in active THEN S!Over(x) ELSE ctx[x].state
             pc == S!Survives(x)
  <2>1. DOMAIN ctx[x] = Fields
    BY DEF SqlInv, TypeOK, Typed
  <2>2. ctx'[x] = [ctx[x] EXCEPT !.pc = pc, !.closed = closed, !.state = state]
    BY Zenon DEF S!Forget
  <2> HIDE DEF closed, state, pc
  <2>3. /\ ctx'[x].pc = pc /\ ctx'[x].state = state
        /\ ctx'[x].kind = ctx[x].kind /\ ctx'[x].lock = ctx[x].lock
        /\ ctx'[x].life = ctx[x].life /\ ctx'[x].base = ctx[x].base
        /\ ctx'[x].answer = ctx[x].answer /\ ctx'[x].token = ctx[x].token
    BY <2>1, <2>2 DEF Fields
  <2> QED BY <2>3 DEF pc, state
<1>4. ASSUME NEW x \in Contexts PROVE Typed(ctx[x])'
  <2>1. ctx'[x].closed \in BOOLEAN
    BY <1>2
  <2> QED
    BY <1>1, <1>2, <1>3, <2>1, SMTT(30) DEF SqlInv, TypeOK, Typed, Places, States, S!Survives
<1>5. TypeOK'
  BY <1>1, <1>2, <1>4, SMTT(30) DEF SqlInv, TypeOK
<1>6. SqlOwner'
  <2>1. open' = idle' + Cardinality(conns')
    <3>1. open = idle + Cardinality(conns) /\ idle \in Nat /\ Cardinality(conns) \in Nat
      BY SqlCount DEF SqlInv, SqlOwner
    <3>2. open' = idle' + Cardinality(conns)
      BY <1>1, <3>1, SMT
    <3> QED BY <1>1, <3>2
  <2> QED BY <1>1, <2>1, SMTT(30) DEF SqlInv, TypeOK, SqlOwner
<1>7. ASSUME NEW x \in Contexts PROVE SqlContext(x)'
  BY <1>1, <1>2, <1>3, CoreAssumption, SMTT(30) DEF SqlInv, TypeOK, Typed, Fields, SqlOwner,
      SqlContext, SqlShape, SqlState, SqlEnded, SqlConns, SqlSlot, SqlMember, Kinds, TxnKinds,
      S!Survives
<1>8. Contract!Next
  <2>1. \A x \in Contexts : GoesOnOrEnds(x)
    BY <1>1, <1>3, SMTT(30) DEF SqlInv, TypeOK, Typed, GoesOnOrEnds, S!Survives
  <2> QED BY <1>1, <2>1, ContractEnds DEF SqlInv
<1> QED BY <1>5, <1>6, <1>7, <1>8 DEF SqlInv

LEMMA SqlFork ==
    ASSUME which = "SQLite", SqlInv, S!Fork
    PROVE  SqlInv' /\ Contract!Next
<1>1. CASE opened
  <2>1. /\ S!Forget /\ owner.pc = "idle" /\ child' = TRUE
        /\ UNCHANGED <<opened, db, life, owner, conns, file, touched>>
        /\ pid' = pid /\ inherited' = conns
    BY <1>1 DEF S!Fork, S!MayFork
  <2>2. pid # "parent" /\ child' \in BOOLEAN
    BY <1>1, <2>1 DEF SqlInv, SqlOwner
  <2> QED BY <2>1, <2>2, SqlForgets
<1>2. CASE ~opened
  <2>1. /\ owner.pc = "idle" /\ child' = TRUE /\ pid' = "parent" /\ inherited' = conns
        /\ UNCHANGED <<opened, active, db, life, lock, holder, owner, reserved, conns, file,
                       touched>>
        /\ UNCHANGED <<idle, open>>
    BY <1>2 DEF S!Fork, S!MayFork
  <2>2. /\ DOMAIN ctx' = Contexts
        /\ \A x \in Contexts : ctx'[x] = [ctx[x] EXCEPT !.pc = S!Survives(x)]
    BY <1>2 DEF S!Fork
  <2>3. ASSUME NEW x \in Contexts PROVE Typed(ctx[x])'
    BY <2>1, <2>2, SMTT(30) DEF SqlInv, TypeOK, Typed, Fields, Places, S!Survives
  <2>4. TypeOK'
    BY <2>1, <2>2, <2>3, SMTT(30) DEF SqlInv, TypeOK
  <2>5. SqlOwner'
    BY <1>2, <2>1, SMTT(30) DEF SqlInv, TypeOK, SqlOwner
  <2>6. ASSUME NEW x \in Contexts PROVE SqlContext(x)'
    <3>1. SqlShape(x)'
      BY <1>2, <2>1, <2>2, CoreAssumption, SMTT(30) DEF SqlInv, TypeOK, Typed, Fields, SqlOwner,
          SqlContext, SqlShape, Kinds, TxnKinds, S!Survives
    <3>2. SqlState(x)'
      BY <1>2, <2>1, <2>2, CoreAssumption, SMTT(30) DEF SqlInv, TypeOK, Typed, Fields, SqlOwner,
          SqlContext, SqlState, Kinds, TxnKinds, S!Survives
    <3>3. SqlEnded(x)'
      BY <1>2, <2>1, <2>2, CoreAssumption, SMTT(30) DEF SqlInv, TypeOK, Typed, Fields, SqlOwner,
          SqlContext, SqlEnded, SqlConns, Kinds, TxnKinds, S!Survives
    <3>4. SqlConns(x)'
      BY <1>2, <2>1, <2>2, CoreAssumption, SMTT(30) DEF SqlInv, TypeOK, Typed, Fields, SqlOwner,
          SqlContext, SqlConns, Kinds, TxnKinds, S!Survives
    <3>5. SqlSlot(x)'
      BY <1>2, <2>1, <2>2, CoreAssumption, SMTT(30) DEF SqlInv, TypeOK, Typed, Fields, SqlOwner,
          SqlContext, SqlSlot, Kinds, TxnKinds, S!Survives
    <3>6. SqlMember(x)'
      BY <1>2, <2>1, <2>2, CoreAssumption, SMTT(30) DEF SqlInv, TypeOK, Typed, Fields, SqlOwner,
          SqlContext, SqlMember, SqlState, Kinds, TxnKinds, S!Survives
    <3> QED BY <3>1, <3>2, <3>3, <3>4, <3>5, <3>6 DEF SqlContext
  <2>7. Contract!Next
    <3>1. \A x \in Contexts : GoesOnOrEnds(x)
      BY <2>1, <2>2, SMTT(30) DEF SqlInv, TypeOK, Typed, Fields, GoesOnOrEnds, S!Survives
    <3> QED BY <2>1, <3>1, ContractEnds DEF SqlInv
  <2> QED BY <2>4, <2>5, <2>6, <2>7 DEF SqlInv
<1> QED BY <1>1, <1>2

LEMMA SqlCheckFork ==
    ASSUME which = "SQLite", SqlInv, S!CheckFork
    PROVE  SqlInv' /\ Contract!Next
<1>1. /\ S!Forget /\ owner.pc = "idle" /\ pid = "parent" /\ pid' = "own"
      /\ UNCHANGED <<opened, db, life, owner, child, conns, file, inherited, touched>>
  BY DEF S!CheckFork
<1>2. conns \subseteq inherited
  <2>1. ASSUME NEW x \in conns PROVE x \in inherited
    BY <1>1 DEF SqlInv, SqlOwner, SqlContext, SqlConns
  <2> QED BY <2>1
<1>3. child' \in BOOLEAN
  BY <1>1 DEF SqlInv, TypeOK
<1> QED BY <1>1, <1>2, <1>3, SqlForgets

-----------------------------------------------------------------------------
(* The RocksDB storage.                                                     *)

\* Where the opener is, and that the database is closed while it ends what was open on it.
RockOwner ==
    /\ owner.pc \in {"idle", "closing", "closed", "ending"}
    /\ owner.pc \in {"closed", "ending"} \/ ~opened => native = 0
    /\ owner.pc = "ending" => ~opened
    /\ owner.toEnd # {} => owner.pc = "ending"
    /\ native \in 0 .. owner.opens /\ epoch \in Nat /\ astray \subseteq Contexts
    /\ moved \in BOOLEAN /\ (moved => mode = "secondary")

\* Which kinds of context reach which place; a secondary has no writers, and registers its
\* views as it begins them.
RockShape(x) ==
    /\ ctx[x].pc \notin {"pin", "make", "connect", "detach"}
    /\ ctx[x].pc \in {"take", "wait", "end", "recheck", "apply"} => ctx[x].kind # "snapshot"
    /\ ctx[x].pc \in {"recheck", "apply"} => ctx[x].kind = "batch"
    /\ ctx[x].pc = "reserved" => ctx[x].kind = "reserving"
    /\ ctx[x].pc \in {"begin", "read"} => ctx[x].kind # "batch"
    /\ ctx[x].pc \in {"register", "use", "read", "end"} => ctx[x].kind # "reserving"
    /\ mode = "secondary" => ctx[x].pc # "register"
    /\ mode = "secondary" /\ ctx[x].kind # "snapshot" => ctx[x].pc \in {"idle", "done"}

\* A context begins once, and one that is used is open until it ended; the view of a
\* secondary ends with its epoch, and is of the state the secondary has, but while it catches up.
RockState(x) ==
    /\ ctx[x].pc \in {"idle", "take", "wait", "reserved", "begin", "recheck"} =>
          ctx[x].state = "none"
    /\ ctx[x].kind = "batch" /\ ctx[x].pc \in {"register", "use"} => ctx[x].state = "none"
    /\ ctx[x].kind = "txn" /\ ctx[x].pc = "register" => ctx[x].state = "active"
    /\ ctx[x].kind = "snapshot" /\ ctx[x].pc = "register" => ctx[x].state = "active"
    /\ (ctx[x].kind = "txn" \/ (ctx[x].kind = "snapshot" /\ mode # "secondary"))
          /\ ctx[x].pc \in {"use", "read"} =>
          ctx[x].state = (IF ctx[x].closed THEN "aborted" ELSE "active")
    /\ ctx[x].kind = "snapshot" /\ mode = "secondary" /\ ctx[x].pc \in {"use", "read"} =>
          /\ ctx[x].token <= epoch
          /\ ~ctx[x].closed /\ ctx[x].token = epoch => ctx[x].state = "active"
          /\ ctx[x].closed => ctx[x].state # "active"
    /\ ctx[x].pc = "apply" =>
          ctx[x].state \in {"active", "aborted"} /\ (~ctx[x].closed => ctx[x].state = "active")
    /\ ctx[x].pc \in {"done", "end"} => ctx[x].state # "active"
    /\ ctx[x].base <= db
    /\ mode = "secondary" /\ ctx[x].state = "active" =>
          ctx[x].kind = "snapshot" /\ (ctx[x].base = db \/ moved)

\* Who has been granted the slot and has not given it back.
Taken(x) ==
    \/ ctx[x].pc \in {"reserved", "recheck", "apply", "end"}
    \/ ctx[x].pc \in {"begin", "register", "use", "read"} /\ ctx[x].kind \in TxnKinds

\* The slot is with whoever was granted the lock that is current, unless close has given it
\* back on their behalf.
RockSlot(x) ==
    /\ holder = x =>
          /\ ctx[x].lock = lock /\ (Taken(x) \/ ctx[x].pc = "gone")
          /\ ctx[x].pc \in {"use", "read"} => ~ctx[x].closed
    /\ Taken(x) /\ ctx[x].lock = lock => holder = x \/ owner.pc = "ending"

\* What is registered, and what close may find registered.
RockMember(x) ==
    /\ x \in active =>
          \/ ctx[x].pc \in {"use", "read", "end", "gone"}
          \/ ctx[x].pc \in {"take", "wait", "recheck", "apply"} /\ ctx[x].kind = "batch"
    /\ x \in active /\ ctx[x].pc \in {"use", "read"} => ~ctx[x].closed
    /\ x \in owner.toEnd =>
          /\ ctx[x].pc \notin {"idle", "reserved", "begin", "register"}
          /\ ctx[x].pc \in {"take", "wait"} => ctx[x].kind = "batch"
    /\ ctx[x].pc \in {"idle", "reserved", "begin", "register"} => ~ctx[x].closed
    /\ ctx[x].pc \in {"take", "wait"} /\ ctx[x].kind \in TxnKinds => ~ctx[x].closed

\* A writer under the current lock began in this life. As long as no writer has gone astray,
\* a transaction of the database that is open is under the current lock, and on the state
\* that is in it.
RockLife(x) ==
    /\ ctx[x].kind = "txn" /\ ctx[x].pc \in {"register", "use", "read"} =>
          ctx[x].token \in 1 .. owner.opens
    /\ ctx[x].kind # "snapshot" /\ ctx[x].pc \in {"register", "use", "read", "apply"}
          /\ ctx[x].state # "none" /\ ctx[x].lock = lock => ctx[x].life = life
    /\ ctx[x].pc = "apply" /\ ctx[x].state = "aborted" /\ ctx[x].lock = lock =>
          owner.pc = "ending"
    /\ astray = {} /\ ctx[x].kind = "txn" /\ ctx[x].pc \in {"register", "use", "read"} =>
          /\ ctx[x].token = native => ctx[x].lock = lock
          /\ holder = x => ctx[x].base = db

RockContext(x) ==
    RockShape(x) /\ RockState(x) /\ RockSlot(x) /\ RockMember(x) /\ RockLife(x)

RockInv == TypeOK /\ RockOwner /\ \A x \in Contexts : RockContext(x)

USE DEF R!At, R!Goto, R!Writes, R!Began, R!Over, R!Released, R!Replaced

LEMMA RockCall ==
    ASSUME which = "RocksDB", RockInv, NEW c \in Contexts, R!Call(c)
    PROVE  RockInv' /\ Contract!Next
<1>1. CASE ~R!IsOpen \/ (mode = "secondary" /\ R!Writes(c))
  <2>1. /\ Notes(c, "done", native)
        /\ UNCHANGED <<opened, active, db, life, lock, holder, owner, child, native, foreign,
                       mode, epoch, moved, astray>>
    <3>1. ctx' = [ctx EXCEPT ![c] = [@ EXCEPT !.token = native, !.pc = "done"]]
      BY <1>1 DEF R!Call, R!IsOpen, R!StateLockFree, R!nativeVars, R!replicaVars
    <3>2. /\ UNCHANGED <<opened, active, db, life, lock, holder, owner, child, native, foreign,
                         mode, epoch, moved, astray>>
      BY <1>1 DEF R!Call, R!IsOpen, R!StateLockFree, R!nativeVars, R!replicaVars
    <3>4. Notes(c, "done", native)
      BY <1>1, <3>1, SMTT(30) DEF RockInv, TypeOK, Typed, Fields
    <3> QED BY <3>2, <3>4
  <2>2. TypeOK'
    <3>1. Typed(ctx[c])'
      BY <1>1, <2>1, SMTT(30) DEF RockInv, TypeOK, Typed, Fields, Places, States, Kinds,
          RockOwner
    <3>2. ASSUME NEW x \in Contexts \ {c} PROVE Typed(ctx[x])'
      BY <2>1, SMTT(30) DEF RockInv, TypeOK, Typed, Fields
    <3> QED
      BY <1>1, <2>1, <3>1, <3>2, SMTT(30) DEF RockInv, TypeOK
  <2>3. RockOwner'
    BY <1>1, <2>1, SMTT(30) DEF RockInv, TypeOK, RockOwner, RockContext, RockShape,
        RockState, R!Call, R!IsOpen, R!StateLockFree, R!nativeVars, R!replicaVars
  <2>4. ASSUME NEW x \in Contexts PROVE RockContext(x)'
    <3>1. CASE x = c
      <4>1. RockShape(c)'
        BY <1>1, <2>1, CoreAssumption, SMTT(30) DEF RockInv, TypeOK, Typed, Fields,
            RockOwner, RockContext, RockShape, RockState, RockSlot, RockMember, RockLife,
            Taken, Kinds, TxnKinds, R!Call, R!IsOpen, R!StateLockFree, R!nativeVars,
            R!replicaVars
      <4>2. RockState(c)'
        BY <1>1, <2>1, CoreAssumption, SMTT(30) DEF RockInv, TypeOK, Typed, Fields,
            RockOwner, RockContext, RockShape, RockState, RockSlot, RockMember, RockLife,
            Taken, Kinds, TxnKinds, R!Call, R!IsOpen, R!StateLockFree, R!nativeVars,
            R!replicaVars
      <4>3. RockSlot(c)'
        BY <1>1, <2>1, CoreAssumption, SMTT(30) DEF RockInv, TypeOK, Typed, Fields,
            RockOwner, RockContext, RockShape, RockState, RockSlot, RockMember, RockLife,
            Taken, Kinds, TxnKinds, R!Call, R!IsOpen, R!StateLockFree, R!nativeVars,
            R!replicaVars
      <4>4. RockMember(c)'
        BY <1>1, <2>1, CoreAssumption, SMTT(30) DEF RockInv, TypeOK, Typed, Fields,
            RockOwner, RockContext, RockShape, RockState, RockSlot, RockMember, RockLife,
            Taken, Kinds, TxnKinds, R!Call, R!IsOpen, R!StateLockFree, R!nativeVars,
            R!replicaVars
      <4>5. RockLife(c)'
        BY <1>1, <2>1, CoreAssumption, SMTT(30) DEF RockInv, TypeOK, Typed, Fields,
            RockOwner, RockContext, RockShape, RockState, RockSlot, RockMember, RockLife,
            Taken, Kinds, TxnKinds, R!Call, R!IsOpen, R!StateLockFree, R!nativeVars,
            R!replicaVars
      <4> QED BY <3>1, <4>1, <4>2, <4>3, <4>4, <4>5 DEF RockContext
    <3>2. CASE x # c
      BY <1>1, <2>1, <3>2, CoreAssumption, SMTT(30) DEF RockInv, TypeOK, Typed, Fields,
          RockOwner, RockContext, RockShape, RockState, RockSlot, RockMember, RockLife,
          Taken, Kinds, TxnKinds, R!Call, R!IsOpen, R!StateLockFree, R!nativeVars,
          R!replicaVars
    <3> QED BY <3>1, <3>2
  <2>5. Contract!Next
    <3>1. GoesOnOrEnds(c)
      BY <1>1, <2>1, SMTT(30) DEF GoesOnOrEnds, RockInv, TypeOK, Typed, Fields, RockContext,
          RockShape, RockState, RockMember, RockOwner, Kinds, R!Call, R!IsOpen,
          R!StateLockFree, R!nativeVars, R!replicaVars
    <3> QED BY <2>1, <3>1, ContractEndsOne DEF RockInv
  <2> QED BY <2>2, <2>3, <2>4, <2>5 DEF RockInv
<1>2. CASE ~(~R!IsOpen \/ (mode = "secondary" /\ R!Writes(c))) /\ ctx[c].kind = "snapshot"
  <2>1. /\ Notes(c, "begin", native)
        /\ UNCHANGED <<opened, active, db, life, lock, holder, owner, child, native, foreign,
                       mode, epoch, moved, astray>>
    <3>1. ctx' = [ctx EXCEPT ![c] = [@ EXCEPT !.token = native, !.pc = "begin"]]
      BY <1>2 DEF R!Call, R!IsOpen, R!StateLockFree, R!nativeVars, R!replicaVars
    <3>2. /\ UNCHANGED <<opened, active, db, life, lock, holder, owner, child, native, foreign,
                         mode, epoch, moved, astray>>
      BY <1>2 DEF R!Call, R!IsOpen, R!StateLockFree, R!nativeVars, R!replicaVars
    <3>4. Notes(c, "begin", native)
      BY <1>2, <3>1, SMTT(30) DEF RockInv, TypeOK, Typed, Fields
    <3> QED BY <3>2, <3>4
  <2>2. TypeOK'
    <3>1. Typed(ctx[c])'
      BY <1>2, <2>1, SMTT(30) DEF RockInv, TypeOK, Typed, Fields, Places, States, Kinds,
          RockOwner
    <3>2. ASSUME NEW x \in Contexts \ {c} PROVE Typed(ctx[x])'
      BY <2>1, SMTT(30) DEF RockInv, TypeOK, Typed, Fields
    <3> QED
      BY <1>2, <2>1, <3>1, <3>2, SMTT(30) DEF RockInv, TypeOK
  <2>3. RockOwner'
    BY <1>2, <2>1, SMTT(30) DEF RockInv, TypeOK, RockOwner, RockContext, RockShape,
        RockState, R!Call, R!IsOpen, R!StateLockFree, R!nativeVars, R!replicaVars
  <2>4. ASSUME NEW x \in Contexts PROVE RockContext(x)'
    <3>1. CASE x = c
      <4>1. RockShape(c)'
        BY <1>2, <2>1, CoreAssumption, SMTT(30) DEF RockInv, TypeOK, Typed, Fields,
            RockOwner, RockContext, RockShape, RockState, RockSlot, RockMember, RockLife,
            Taken, Kinds, TxnKinds, R!Call, R!IsOpen, R!StateLockFree, R!nativeVars,
            R!replicaVars
      <4>2. RockState(c)'
        BY <1>2, <2>1, CoreAssumption, SMTT(30) DEF RockInv, TypeOK, Typed, Fields,
            RockOwner, RockContext, RockShape, RockState, RockSlot, RockMember, RockLife,
            Taken, Kinds, TxnKinds, R!Call, R!IsOpen, R!StateLockFree, R!nativeVars,
            R!replicaVars
      <4>3. RockSlot(c)'
        BY <1>2, <2>1, CoreAssumption, SMTT(30) DEF RockInv, TypeOK, Typed, Fields,
            RockOwner, RockContext, RockShape, RockState, RockSlot, RockMember, RockLife,
            Taken, Kinds, TxnKinds, R!Call, R!IsOpen, R!StateLockFree, R!nativeVars,
            R!replicaVars
      <4>4. RockMember(c)'
        BY <1>2, <2>1, CoreAssumption, SMTT(30) DEF RockInv, TypeOK, Typed, Fields,
            RockOwner, RockContext, RockShape, RockState, RockSlot, RockMember, RockLife,
            Taken, Kinds, TxnKinds, R!Call, R!IsOpen, R!StateLockFree, R!nativeVars,
            R!replicaVars
      <4>5. RockLife(c)'
        BY <1>2, <2>1, CoreAssumption, SMTT(30) DEF RockInv, TypeOK, Typed, Fields,
            RockOwner, RockContext, RockShape, RockState, RockSlot, RockMember, RockLife,
            Taken, Kinds, TxnKinds, R!Call, R!IsOpen, R!StateLockFree, R!nativeVars,
            R!replicaVars
      <4> QED BY <3>1, <4>1, <4>2, <4>3, <4>4, <4>5 DEF RockContext
    <3>2. CASE x # c
      BY <1>2, <2>1, <3>2, CoreAssumption, SMTT(30) DEF RockInv, TypeOK, Typed, Fields,
          RockOwner, RockContext, RockShape, RockState, RockSlot, RockMember, RockLife,
          Taken, Kinds, TxnKinds, R!Call, R!IsOpen, R!StateLockFree, R!nativeVars,
          R!replicaVars
    <3> QED BY <3>1, <3>2
  <2>5. Contract!Next
    <3>1. GoesOnOrEnds(c)
      BY <1>2, <2>1, SMTT(30) DEF GoesOnOrEnds, RockInv, TypeOK, Typed, Fields, RockContext,
          RockShape, RockState, RockMember, RockOwner, Kinds, R!Call, R!IsOpen,
          R!StateLockFree, R!nativeVars, R!replicaVars
    <3> QED BY <2>1, <3>1, ContractEndsOne DEF RockInv
  <2> QED BY <2>2, <2>3, <2>4, <2>5 DEF RockInv
<1>3. CASE ~(~R!IsOpen \/ (mode = "secondary" /\ R!Writes(c))) /\ ctx[c].kind = "batch"
  <2>1. /\ Notes(c, "register", native)
        /\ UNCHANGED <<opened, active, db, life, lock, holder, owner, child, native, foreign,
                       mode, epoch, moved, astray>>
    <3>1. ctx' = [ctx EXCEPT ![c] = [@ EXCEPT !.token = native, !.pc = "register"]]
      BY <1>3 DEF R!Call, R!IsOpen, R!StateLockFree, R!nativeVars, R!replicaVars
    <3>2. /\ UNCHANGED <<opened, active, db, life, lock, holder, owner, child, native, foreign,
                         mode, epoch, moved, astray>>
      BY <1>3 DEF R!Call, R!IsOpen, R!StateLockFree, R!nativeVars, R!replicaVars
    <3>4. Notes(c, "register", native)
      BY <1>3, <3>1, SMTT(30) DEF RockInv, TypeOK, Typed, Fields
    <3> QED BY <3>2, <3>4
  <2>2. TypeOK'
    <3>1. Typed(ctx[c])'
      BY <1>3, <2>1, SMTT(30) DEF RockInv, TypeOK, Typed, Fields, Places, States, Kinds,
          RockOwner
    <3>2. ASSUME NEW x \in Contexts \ {c} PROVE Typed(ctx[x])'
      BY <2>1, SMTT(30) DEF RockInv, TypeOK, Typed, Fields
    <3> QED
      BY <1>3, <2>1, <3>1, <3>2, SMTT(30) DEF RockInv, TypeOK
  <2>3. RockOwner'
    BY <1>3, <2>1, SMTT(30) DEF RockInv, TypeOK, RockOwner, RockContext, RockShape,
        RockState, R!Call, R!IsOpen, R!StateLockFree, R!nativeVars, R!replicaVars
  <2>4. ASSUME NEW x \in Contexts PROVE RockContext(x)'
    <3>1. CASE x = c
      <4>1. RockShape(c)'
        BY <1>3, <2>1, CoreAssumption, SMTT(30) DEF RockInv, TypeOK, Typed, Fields,
            RockOwner, RockContext, RockShape, RockState, RockSlot, RockMember, RockLife,
            Taken, Kinds, TxnKinds, R!Call, R!IsOpen, R!StateLockFree, R!nativeVars,
            R!replicaVars
      <4>2. RockState(c)'
        BY <1>3, <2>1, CoreAssumption, SMTT(30) DEF RockInv, TypeOK, Typed, Fields,
            RockOwner, RockContext, RockShape, RockState, RockSlot, RockMember, RockLife,
            Taken, Kinds, TxnKinds, R!Call, R!IsOpen, R!StateLockFree, R!nativeVars,
            R!replicaVars
      <4>3. RockSlot(c)'
        BY <1>3, <2>1, CoreAssumption, SMTT(30) DEF RockInv, TypeOK, Typed, Fields,
            RockOwner, RockContext, RockShape, RockState, RockSlot, RockMember, RockLife,
            Taken, Kinds, TxnKinds, R!Call, R!IsOpen, R!StateLockFree, R!nativeVars,
            R!replicaVars
      <4>4. RockMember(c)'
        BY <1>3, <2>1, CoreAssumption, SMTT(30) DEF RockInv, TypeOK, Typed, Fields,
            RockOwner, RockContext, RockShape, RockState, RockSlot, RockMember, RockLife,
            Taken, Kinds, TxnKinds, R!Call, R!IsOpen, R!StateLockFree, R!nativeVars,
            R!replicaVars
      <4>5. RockLife(c)'
        BY <1>3, <2>1, CoreAssumption, SMTT(30) DEF RockInv, TypeOK, Typed, Fields,
            RockOwner, RockContext, RockShape, RockState, RockSlot, RockMember, RockLife,
            Taken, Kinds, TxnKinds, R!Call, R!IsOpen, R!StateLockFree, R!nativeVars,
            R!replicaVars
      <4> QED BY <3>1, <4>1, <4>2, <4>3, <4>4, <4>5 DEF RockContext
    <3>2. CASE x # c
      BY <1>3, <2>1, <3>2, CoreAssumption, SMTT(30) DEF RockInv, TypeOK, Typed, Fields,
          RockOwner, RockContext, RockShape, RockState, RockSlot, RockMember, RockLife,
          Taken, Kinds, TxnKinds, R!Call, R!IsOpen, R!StateLockFree, R!nativeVars,
          R!replicaVars
    <3> QED BY <3>1, <3>2
  <2>5. Contract!Next
    <3>1. GoesOnOrEnds(c)
      BY <1>3, <2>1, SMTT(30) DEF GoesOnOrEnds, RockInv, TypeOK, Typed, Fields, RockContext,
          RockShape, RockState, RockMember, RockOwner, Kinds, R!Call, R!IsOpen,
          R!StateLockFree, R!nativeVars, R!replicaVars
    <3> QED BY <2>1, <3>1, ContractEndsOne DEF RockInv
  <2> QED BY <2>2, <2>3, <2>4, <2>5 DEF RockInv
<1>4. CASE ~(~R!IsOpen \/ (mode = "secondary" /\ R!Writes(c))) /\ ctx[c].kind \notin {"snapshot", "batch"}
  <2>1. /\ Notes(c, "take", native)
        /\ UNCHANGED <<opened, active, db, life, lock, holder, owner, child, native, foreign,
                       mode, epoch, moved, astray>>
    <3>1. ctx' = [ctx EXCEPT ![c] = [@ EXCEPT !.token = native, !.pc = "take"]]
      BY <1>4 DEF R!Call, R!IsOpen, R!StateLockFree, R!nativeVars, R!replicaVars
    <3>2. /\ UNCHANGED <<opened, active, db, life, lock, holder, owner, child, native, foreign,
                         mode, epoch, moved, astray>>
      BY <1>4 DEF R!Call, R!IsOpen, R!StateLockFree, R!nativeVars, R!replicaVars
    <3>4. Notes(c, "take", native)
      BY <1>4, <3>1, SMTT(30) DEF RockInv, TypeOK, Typed, Fields
    <3> QED BY <3>2, <3>4
  <2>2. TypeOK'
    <3>1. Typed(ctx[c])'
      BY <1>4, <2>1, SMTT(30) DEF RockInv, TypeOK, Typed, Fields, Places, States, Kinds,
          RockOwner
    <3>2. ASSUME NEW x \in Contexts \ {c} PROVE Typed(ctx[x])'
      BY <2>1, SMTT(30) DEF RockInv, TypeOK, Typed, Fields
    <3> QED
      BY <1>4, <2>1, <3>1, <3>2, SMTT(30) DEF RockInv, TypeOK
  <2>3. RockOwner'
    BY <1>4, <2>1, SMTT(30) DEF RockInv, TypeOK, RockOwner, RockContext, RockShape,
        RockState, R!Call, R!IsOpen, R!StateLockFree, R!nativeVars, R!replicaVars
  <2>4. ASSUME NEW x \in Contexts PROVE RockContext(x)'
    <3>1. CASE x = c
      <4>1. RockShape(c)'
        BY <1>4, <2>1, CoreAssumption, SMTT(30) DEF RockInv, TypeOK, Typed, Fields,
            RockOwner, RockContext, RockShape, RockState, RockSlot, RockMember, RockLife,
            Taken, Kinds, TxnKinds, R!Call, R!IsOpen, R!StateLockFree, R!nativeVars,
            R!replicaVars
      <4>2. RockState(c)'
        BY <1>4, <2>1, CoreAssumption, SMTT(30) DEF RockInv, TypeOK, Typed, Fields,
            RockOwner, RockContext, RockShape, RockState, RockSlot, RockMember, RockLife,
            Taken, Kinds, TxnKinds, R!Call, R!IsOpen, R!StateLockFree, R!nativeVars,
            R!replicaVars
      <4>3. RockSlot(c)'
        BY <1>4, <2>1, CoreAssumption, SMTT(30) DEF RockInv, TypeOK, Typed, Fields,
            RockOwner, RockContext, RockShape, RockState, RockSlot, RockMember, RockLife,
            Taken, Kinds, TxnKinds, R!Call, R!IsOpen, R!StateLockFree, R!nativeVars,
            R!replicaVars
      <4>4. RockMember(c)'
        BY <1>4, <2>1, CoreAssumption, SMTT(30) DEF RockInv, TypeOK, Typed, Fields,
            RockOwner, RockContext, RockShape, RockState, RockSlot, RockMember, RockLife,
            Taken, Kinds, TxnKinds, R!Call, R!IsOpen, R!StateLockFree, R!nativeVars,
            R!replicaVars
      <4>5. RockLife(c)'
        BY <1>4, <2>1, CoreAssumption, SMTT(30) DEF RockInv, TypeOK, Typed, Fields,
            RockOwner, RockContext, RockShape, RockState, RockSlot, RockMember, RockLife,
            Taken, Kinds, TxnKinds, R!Call, R!IsOpen, R!StateLockFree, R!nativeVars,
            R!replicaVars
      <4> QED BY <3>1, <4>1, <4>2, <4>3, <4>4, <4>5 DEF RockContext
    <3>2. CASE x # c
      BY <1>4, <2>1, <3>2, CoreAssumption, SMTT(30) DEF RockInv, TypeOK, Typed, Fields,
          RockOwner, RockContext, RockShape, RockState, RockSlot, RockMember, RockLife,
          Taken, Kinds, TxnKinds, R!Call, R!IsOpen, R!StateLockFree, R!nativeVars,
          R!replicaVars
    <3> QED BY <3>1, <3>2
  <2>5. Contract!Next
    <3>1. GoesOnOrEnds(c)
      BY <1>4, <2>1, SMTT(30) DEF GoesOnOrEnds, RockInv, TypeOK, Typed, Fields, RockContext,
          RockShape, RockState, RockMember, RockOwner, Kinds, R!Call, R!IsOpen,
          R!StateLockFree, R!nativeVars, R!replicaVars
    <3> QED BY <2>1, <3>1, ContractEndsOne DEF RockInv
  <2> QED BY <2>2, <2>3, <2>4, <2>5 DEF RockInv
<1> QED BY <1>1, <1>2, <1>3, <1>4

LEMMA RockTakeSlot ==
    ASSUME which = "RocksDB", RockInv, NEW c \in Contexts, R!TakeSlot(c)
    PROVE  RockInv' /\ Contract!Next
<1>1. CASE R!Ask(c)
  <2>1. /\ Queues(c)
        /\ UNCHANGED <<opened, active, db, life, lock, holder, owner, child, native, foreign,
                       mode, epoch, moved, astray>>
    BY <1>1, SMTT(30) DEF RockInv, TypeOK, Typed, Fields, R!TakeSlot, R!Ask, R!Granted,
        R!IsOpen, R!StateLockFree, R!nativeVars, R!replicaVars, RockContext, RockShape,
        RockState, RockOwner
  <2>2. TypeOK'
    <3>1. Typed(ctx[c])'
      BY <1>1, <2>1, SMTT(30) DEF RockInv, TypeOK, Typed, Fields, Places, States, Kinds,
          RockOwner
    <3>2. ASSUME NEW x \in Contexts \ {c} PROVE Typed(ctx[x])'
      BY <2>1, SMTT(30) DEF RockInv, TypeOK, Typed, Fields
    <3> QED
      BY <1>1, <2>1, <3>1, <3>2, SMTT(30) DEF RockInv, TypeOK
  <2>3. RockOwner'
    BY <1>1, <2>1, SMTT(30) DEF RockInv, TypeOK, RockOwner, RockContext, RockShape,
        RockState, R!TakeSlot, R!Ask, R!Granted, R!IsOpen, R!StateLockFree, R!nativeVars,
        R!replicaVars
  <2>4. ASSUME NEW x \in Contexts PROVE RockContext(x)'
    <3>1. CASE x = c
      <4>1. RockShape(c)'
        BY <1>1, <2>1, CoreAssumption, SMTT(30) DEF RockInv, TypeOK, Typed, Fields,
            RockOwner, RockContext, RockShape, RockState, RockSlot, RockMember, RockLife,
            Taken, Kinds, TxnKinds, R!TakeSlot, R!Ask, R!Granted, R!IsOpen, R!StateLockFree,
            R!nativeVars, R!replicaVars
      <4>2. RockState(c)'
        BY <1>1, <2>1, CoreAssumption, SMTT(30) DEF RockInv, TypeOK, Typed, Fields,
            RockOwner, RockContext, RockShape, RockState, RockSlot, RockMember, RockLife,
            Taken, Kinds, TxnKinds, R!TakeSlot, R!Ask, R!Granted, R!IsOpen, R!StateLockFree,
            R!nativeVars, R!replicaVars
      <4>3. RockSlot(c)'
        BY <1>1, <2>1, CoreAssumption, SMTT(30) DEF RockInv, TypeOK, Typed, Fields,
            RockOwner, RockContext, RockShape, RockState, RockSlot, RockMember, RockLife,
            Taken, Kinds, TxnKinds, R!TakeSlot, R!Ask, R!Granted, R!IsOpen, R!StateLockFree,
            R!nativeVars, R!replicaVars
      <4>4. RockMember(c)'
        BY <1>1, <2>1, CoreAssumption, SMTT(30) DEF RockInv, TypeOK, Typed, Fields,
            RockOwner, RockContext, RockShape, RockState, RockSlot, RockMember, RockLife,
            Taken, Kinds, TxnKinds, R!TakeSlot, R!Ask, R!Granted, R!IsOpen, R!StateLockFree,
            R!nativeVars, R!replicaVars
      <4>5. RockLife(c)'
        BY <1>1, <2>1, CoreAssumption, SMTT(30) DEF RockInv, TypeOK, Typed, Fields,
            RockOwner, RockContext, RockShape, RockState, RockSlot, RockMember, RockLife,
            Taken, Kinds, TxnKinds, R!TakeSlot, R!Ask, R!Granted, R!IsOpen, R!StateLockFree,
            R!nativeVars, R!replicaVars
      <4> QED BY <3>1, <4>1, <4>2, <4>3, <4>4, <4>5 DEF RockContext
    <3>2. CASE x # c
      BY <1>1, <2>1, <3>2, CoreAssumption, SMTT(30) DEF RockInv, TypeOK, Typed, Fields,
          RockOwner, RockContext, RockShape, RockState, RockSlot, RockMember, RockLife,
          Taken, Kinds, TxnKinds, R!TakeSlot, R!Ask, R!Granted, R!IsOpen, R!StateLockFree,
          R!nativeVars, R!replicaVars
    <3> QED BY <3>1, <3>2
  <2>5. Contract!Next
    <3>1. GoesOnOrEnds(c)
      BY <1>1, <2>1, SMTT(30) DEF GoesOnOrEnds, RockInv, TypeOK, Typed, Fields, RockContext,
          RockShape, RockState, RockMember, RockOwner, Kinds, R!TakeSlot, R!Ask, R!Granted,
          R!IsOpen, R!StateLockFree, R!nativeVars, R!replicaVars
    <3> QED BY <2>1, <3>1, ContractEndsOne DEF RockInv
  <2> QED BY <2>2, <2>3, <2>4, <2>5 DEF RockInv
<1>2. CASE R!Granted(c)
  <2>1. /\ Moves(c, CASE ctx[c].kind = "txn" -> "begin"
                      [] ctx[c].kind = "batch" -> "recheck"
                      [] OTHER -> "reserved")
        /\ holder' = c /\ ctx[c].lock = lock /\ holder = NoOne
        /\ UNCHANGED <<opened, active, db, life, lock, owner, child, native, foreign, mode,
                       epoch, moved, astray>>
    BY <1>2, SMTT(30) DEF RockInv, TypeOK, Typed, Fields, R!TakeSlot, R!Ask, R!Granted,
        R!IsOpen, R!StateLockFree, R!nativeVars, R!replicaVars, RockContext, RockShape,
        RockState, RockOwner
  <2>2. TypeOK'
    <3>1. Typed(ctx[c])'
      BY <1>2, <2>1, SMTT(30) DEF RockInv, TypeOK, Typed, Fields, Places, States, Kinds,
          RockOwner
    <3>2. ASSUME NEW x \in Contexts \ {c} PROVE Typed(ctx[x])'
      BY <2>1, SMTT(30) DEF RockInv, TypeOK, Typed, Fields
    <3> QED
      BY <1>2, <2>1, <3>1, <3>2, SMTT(30) DEF RockInv, TypeOK
  <2>3. RockOwner'
    BY <1>2, <2>1, SMTT(30) DEF RockInv, TypeOK, RockOwner, RockContext, RockShape,
        RockState, R!TakeSlot, R!Ask, R!Granted, R!IsOpen, R!StateLockFree, R!nativeVars,
        R!replicaVars
  <2>4. ASSUME NEW x \in Contexts PROVE RockContext(x)'
    <3>1. CASE x = c
      <4>1. RockShape(c)'
        BY <1>2, <2>1, CoreAssumption, SMTT(30) DEF RockInv, TypeOK, Typed, Fields,
            RockOwner, RockContext, RockShape, RockState, RockSlot, RockMember, RockLife,
            Taken, Kinds, TxnKinds, R!TakeSlot, R!Ask, R!Granted, R!IsOpen, R!StateLockFree,
            R!nativeVars, R!replicaVars
      <4>2. RockState(c)'
        BY <1>2, <2>1, CoreAssumption, SMTT(30) DEF RockInv, TypeOK, Typed, Fields,
            RockOwner, RockContext, RockShape, RockState, RockSlot, RockMember, RockLife,
            Taken, Kinds, TxnKinds, R!TakeSlot, R!Ask, R!Granted, R!IsOpen, R!StateLockFree,
            R!nativeVars, R!replicaVars
      <4>3. RockSlot(c)'
        BY <1>2, <2>1, CoreAssumption, SMTT(30) DEF RockInv, TypeOK, Typed, Fields,
            RockOwner, RockContext, RockShape, RockState, RockSlot, RockMember, RockLife,
            Taken, Kinds, TxnKinds, R!TakeSlot, R!Ask, R!Granted, R!IsOpen, R!StateLockFree,
            R!nativeVars, R!replicaVars
      <4>4. RockMember(c)'
        BY <1>2, <2>1, CoreAssumption, SMTT(30) DEF RockInv, TypeOK, Typed, Fields,
            RockOwner, RockContext, RockShape, RockState, RockSlot, RockMember, RockLife,
            Taken, Kinds, TxnKinds, R!TakeSlot, R!Ask, R!Granted, R!IsOpen, R!StateLockFree,
            R!nativeVars, R!replicaVars
      <4>5. RockLife(c)'
        BY <1>2, <2>1, CoreAssumption, SMTT(30) DEF RockInv, TypeOK, Typed, Fields,
            RockOwner, RockContext, RockShape, RockState, RockSlot, RockMember, RockLife,
            Taken, Kinds, TxnKinds, R!TakeSlot, R!Ask, R!Granted, R!IsOpen, R!StateLockFree,
            R!nativeVars, R!replicaVars
      <4> QED BY <3>1, <4>1, <4>2, <4>3, <4>4, <4>5 DEF RockContext
    <3>2. CASE x # c
      BY <1>2, <2>1, <3>2, CoreAssumption, SMTT(30) DEF RockInv, TypeOK, Typed, Fields,
          RockOwner, RockContext, RockShape, RockState, RockSlot, RockMember, RockLife,
          Taken, Kinds, TxnKinds, R!TakeSlot, R!Ask, R!Granted, R!IsOpen, R!StateLockFree,
          R!nativeVars, R!replicaVars
    <3> QED BY <3>1, <3>2
  <2>5. Contract!Next
    <3>1. GoesOnOrEnds(c)
      BY <1>2, <2>1, SMTT(30) DEF GoesOnOrEnds, RockInv, TypeOK, Typed, Fields, RockContext,
          RockShape, RockState, RockMember, RockOwner, Kinds, R!TakeSlot, R!Ask, R!Granted,
          R!IsOpen, R!StateLockFree, R!nativeVars, R!replicaVars
    <3> QED BY <2>1, <3>1, ContractEndsOne DEF RockInv
  <2> QED BY <2>2, <2>3, <2>4, <2>5 DEF RockInv
<1> QED BY <1>1, <1>2 DEF R!TakeSlot

LEMMA RockGiveUp ==
    ASSUME which = "RocksDB", RockInv, NEW c \in Contexts, R!GiveUp(c)
    PROVE  RockInv' /\ Contract!Next
<1>1. /\ Ends(c, "done", TRUE, R!Over(c))
      /\ active' = active \ {c}
      /\ UNCHANGED <<opened, db, life, lock, holder, owner, child, native, foreign, mode, epoch,
                     moved, astray>>
  BY SMTT(30) DEF RockInv, TypeOK, Typed, Fields, R!GiveUp, R!Denied, R!IsOpen,
      R!StateLockFree, R!nativeVars, R!replicaVars, RockContext, RockShape, RockState,
      RockOwner
<1>2. TypeOK'
  <2>0. ctx'[c].closed \in BOOLEAN
    BY <1>1 DEF RockInv, TypeOK, Typed
  <2>1. Typed(ctx[c])'
    BY <1>1, <2>0, SMTT(30) DEF RockInv, TypeOK, Typed, Fields, Places, States, Kinds,
        RockOwner
  <2>2. ASSUME NEW x \in Contexts \ {c} PROVE Typed(ctx[x])'
    BY <1>1, SMTT(30) DEF RockInv, TypeOK, Typed, Fields
  <2> QED
    BY <1>1, <2>1, <2>2, SMTT(30) DEF RockInv, TypeOK
<1>3. RockOwner'
  BY <1>1, SMTT(30) DEF RockInv, TypeOK, RockOwner, RockContext, RockShape, RockState,
      R!GiveUp, R!Denied, R!IsOpen, R!StateLockFree, R!nativeVars, R!replicaVars
<1>4. ASSUME NEW x \in Contexts PROVE RockContext(x)'
  <2>1. CASE x = c
    <3>1. RockShape(c)'
      BY <1>1, CoreAssumption, SMTT(30) DEF RockInv, TypeOK, Typed, Fields, RockOwner,
          RockContext, RockShape, RockState, RockSlot, RockMember, RockLife, Taken, Kinds,
          TxnKinds, R!GiveUp, R!Denied, R!IsOpen, R!StateLockFree, R!nativeVars,
          R!replicaVars
    <3>2. RockState(c)'
      BY <1>1, CoreAssumption, SMTT(30) DEF RockInv, TypeOK, Typed, Fields, RockOwner,
          RockContext, RockShape, RockState, RockSlot, RockMember, RockLife, Taken, Kinds,
          TxnKinds, R!GiveUp, R!Denied, R!IsOpen, R!StateLockFree, R!nativeVars,
          R!replicaVars
    <3>3. RockSlot(c)'
      BY <1>1, CoreAssumption, SMTT(30) DEF RockInv, TypeOK, Typed, Fields, RockOwner,
          RockContext, RockShape, RockState, RockSlot, RockMember, RockLife, Taken, Kinds,
          TxnKinds, R!GiveUp, R!Denied, R!IsOpen, R!StateLockFree, R!nativeVars,
          R!replicaVars
    <3>4. RockMember(c)'
      BY <1>1, CoreAssumption, SMTT(30) DEF RockInv, TypeOK, Typed, Fields, RockOwner,
          RockContext, RockShape, RockState, RockSlot, RockMember, RockLife, Taken, Kinds,
          TxnKinds, R!GiveUp, R!Denied, R!IsOpen, R!StateLockFree, R!nativeVars,
          R!replicaVars
    <3>5. RockLife(c)'
      BY <1>1, CoreAssumption, SMTT(30) DEF RockInv, TypeOK, Typed, Fields, RockOwner,
          RockContext, RockShape, RockState, RockSlot, RockMember, RockLife, Taken, Kinds,
          TxnKinds, R!GiveUp, R!Denied, R!IsOpen, R!StateLockFree, R!nativeVars,
          R!replicaVars
    <3> QED BY <2>1, <3>1, <3>2, <3>3, <3>4, <3>5 DEF RockContext
  <2>2. CASE x # c
    BY <1>1, <2>2, CoreAssumption, SMTT(30) DEF RockInv, TypeOK, Typed, Fields, RockOwner,
        RockContext, RockShape, RockState, RockSlot, RockMember, RockLife, Taken, Kinds,
        TxnKinds, R!GiveUp, R!Denied, R!IsOpen, R!StateLockFree, R!nativeVars, R!replicaVars
  <2> QED BY <2>1, <2>2
<1>5. Contract!Next
  <2>1. GoesOnOrEnds(c)
    BY <1>1, SMTT(30) DEF GoesOnOrEnds, RockInv, TypeOK, Typed, Fields, RockContext,
        RockShape, RockState, RockMember, RockOwner, Kinds, R!GiveUp, R!Denied, R!IsOpen,
        R!StateLockFree, R!nativeVars, R!replicaVars
  <2> QED BY <1>1, <2>1, ContractEndsOne DEF RockInv
<1> QED BY <1>2, <1>3, <1>4, <1>5 DEF RockInv

LEMMA RockTakeOver ==
    ASSUME which = "RocksDB", RockInv, NEW c \in Contexts, R!TakeOver(c)
    PROVE  RockInv' /\ Contract!Next
<1>1. /\ Moves(c, "begin")
      /\ UNCHANGED <<opened, active, db, life, lock, holder, owner, child, native, foreign,
                     mode, epoch, moved, astray>>
  BY SMTT(30) DEF RockInv, TypeOK, Typed, Fields, R!TakeOver, R!IsOpen, R!StateLockFree,
      R!nativeVars, R!replicaVars, RockContext, RockShape, RockState, RockOwner
<1>2. TypeOK'
  <2>1. Typed(ctx[c])'
    BY <1>1, SMTT(30) DEF RockInv, TypeOK, Typed, Fields, Places, States, Kinds, RockOwner
  <2>2. ASSUME NEW x \in Contexts \ {c} PROVE Typed(ctx[x])'
    BY <1>1, SMTT(30) DEF RockInv, TypeOK, Typed, Fields
  <2> QED
    BY <1>1, <2>1, <2>2, SMTT(30) DEF RockInv, TypeOK
<1>3. RockOwner'
  BY <1>1, SMTT(30) DEF RockInv, TypeOK, RockOwner, RockContext, RockShape, RockState,
      R!TakeOver, R!IsOpen, R!StateLockFree, R!nativeVars, R!replicaVars
<1>4. ASSUME NEW x \in Contexts PROVE RockContext(x)'
  <2>1. CASE x = c
    <3>1. RockShape(c)'
      BY <1>1, CoreAssumption, SMTT(30) DEF RockInv, TypeOK, Typed, Fields, RockOwner,
          RockContext, RockShape, RockState, RockSlot, RockMember, RockLife, Taken, Kinds,
          TxnKinds, R!TakeOver, R!IsOpen, R!StateLockFree, R!nativeVars, R!replicaVars
    <3>2. RockState(c)'
      BY <1>1, CoreAssumption, SMTT(30) DEF RockInv, TypeOK, Typed, Fields, RockOwner,
          RockContext, RockShape, RockState, RockSlot, RockMember, RockLife, Taken, Kinds,
          TxnKinds, R!TakeOver, R!IsOpen, R!StateLockFree, R!nativeVars, R!replicaVars
    <3>3. RockSlot(c)'
      BY <1>1, CoreAssumption, SMTT(30) DEF RockInv, TypeOK, Typed, Fields, RockOwner,
          RockContext, RockShape, RockState, RockSlot, RockMember, RockLife, Taken, Kinds,
          TxnKinds, R!TakeOver, R!IsOpen, R!StateLockFree, R!nativeVars, R!replicaVars
    <3>4. RockMember(c)'
      BY <1>1, CoreAssumption, SMTT(30) DEF RockInv, TypeOK, Typed, Fields, RockOwner,
          RockContext, RockShape, RockState, RockSlot, RockMember, RockLife, Taken, Kinds,
          TxnKinds, R!TakeOver, R!IsOpen, R!StateLockFree, R!nativeVars, R!replicaVars
    <3>5. RockLife(c)'
      BY <1>1, CoreAssumption, SMTT(30) DEF RockInv, TypeOK, Typed, Fields, RockOwner,
          RockContext, RockShape, RockState, RockSlot, RockMember, RockLife, Taken, Kinds,
          TxnKinds, R!TakeOver, R!IsOpen, R!StateLockFree, R!nativeVars, R!replicaVars
    <3> QED BY <2>1, <3>1, <3>2, <3>3, <3>4, <3>5 DEF RockContext
  <2>2. CASE x # c
    BY <1>1, <2>2, CoreAssumption, SMTT(30) DEF RockInv, TypeOK, Typed, Fields, RockOwner,
        RockContext, RockShape, RockState, RockSlot, RockMember, RockLife, Taken, Kinds,
        TxnKinds, R!TakeOver, R!IsOpen, R!StateLockFree, R!nativeVars, R!replicaVars
  <2> QED BY <2>1, <2>2
<1>5. Contract!Next
  <2>1. GoesOnOrEnds(c)
    BY <1>1, SMTT(30) DEF GoesOnOrEnds, RockInv, TypeOK, Typed, Fields, RockContext,
        RockShape, RockState, RockMember, RockOwner, Kinds, R!TakeOver, R!IsOpen,
        R!StateLockFree, R!nativeVars, R!replicaVars
  <2> QED BY <1>1, <2>1, ContractEndsOne DEF RockInv
<1> QED BY <1>2, <1>3, <1>4, <1>5 DEF RockInv

LEMMA RockReleaseSlot ==
    ASSUME which = "RocksDB", RockInv, NEW c \in Contexts, R!ReleaseSlot(c)
    PROVE  RockInv' /\ Contract!Next
<1>1. /\ Moves(c, "done")
      /\ holder' = R!Released(c)
      /\ UNCHANGED <<opened, active, db, life, lock, owner, child, native, foreign, mode, epoch,
                     moved, astray>>
  BY SMTT(30) DEF RockInv, TypeOK, Typed, Fields, R!ReleaseSlot, R!IsOpen, R!StateLockFree,
      R!nativeVars, R!replicaVars, RockContext, RockShape, RockState, RockOwner
<1>2. TypeOK'
  <2>1. Typed(ctx[c])'
    BY <1>1, SMTT(30) DEF RockInv, TypeOK, Typed, Fields, Places, States, Kinds, RockOwner
  <2>2. ASSUME NEW x \in Contexts \ {c} PROVE Typed(ctx[x])'
    BY <1>1, SMTT(30) DEF RockInv, TypeOK, Typed, Fields
  <2> QED
    BY <1>1, <2>1, <2>2, SMTT(30) DEF RockInv, TypeOK
<1>3. RockOwner'
  BY <1>1, SMTT(30) DEF RockInv, TypeOK, RockOwner, RockContext, RockShape, RockState,
      R!ReleaseSlot, R!IsOpen, R!StateLockFree, R!nativeVars, R!replicaVars
<1>4. ASSUME NEW x \in Contexts PROVE RockContext(x)'
  <2>1. CASE x = c
    <3>1. RockShape(c)'
      BY <1>1, CoreAssumption, SMTT(30) DEF RockInv, TypeOK, Typed, Fields, RockOwner,
          RockContext, RockShape, RockState, RockSlot, RockMember, RockLife, Taken, Kinds,
          TxnKinds, R!ReleaseSlot, R!IsOpen, R!StateLockFree, R!nativeVars, R!replicaVars
    <3>2. RockState(c)'
      BY <1>1, CoreAssumption, SMTT(30) DEF RockInv, TypeOK, Typed, Fields, RockOwner,
          RockContext, RockShape, RockState, RockSlot, RockMember, RockLife, Taken, Kinds,
          TxnKinds, R!ReleaseSlot, R!IsOpen, R!StateLockFree, R!nativeVars, R!replicaVars
    <3>3. RockSlot(c)'
      BY <1>1, CoreAssumption, SMTT(30) DEF RockInv, TypeOK, Typed, Fields, RockOwner,
          RockContext, RockShape, RockState, RockSlot, RockMember, RockLife, Taken, Kinds,
          TxnKinds, R!ReleaseSlot, R!IsOpen, R!StateLockFree, R!nativeVars, R!replicaVars
    <3>4. RockMember(c)'
      BY <1>1, CoreAssumption, SMTT(30) DEF RockInv, TypeOK, Typed, Fields, RockOwner,
          RockContext, RockShape, RockState, RockSlot, RockMember, RockLife, Taken, Kinds,
          TxnKinds, R!ReleaseSlot, R!IsOpen, R!StateLockFree, R!nativeVars, R!replicaVars
    <3>5. RockLife(c)'
      BY <1>1, CoreAssumption, SMTT(30) DEF RockInv, TypeOK, Typed, Fields, RockOwner,
          RockContext, RockShape, RockState, RockSlot, RockMember, RockLife, Taken, Kinds,
          TxnKinds, R!ReleaseSlot, R!IsOpen, R!StateLockFree, R!nativeVars, R!replicaVars
    <3> QED BY <2>1, <3>1, <3>2, <3>3, <3>4, <3>5 DEF RockContext
  <2>2. CASE x # c
    BY <1>1, <2>2, CoreAssumption, SMTT(30) DEF RockInv, TypeOK, Typed, Fields, RockOwner,
        RockContext, RockShape, RockState, RockSlot, RockMember, RockLife, Taken, Kinds,
        TxnKinds, R!ReleaseSlot, R!IsOpen, R!StateLockFree, R!nativeVars, R!replicaVars
  <2> QED BY <2>1, <2>2
<1>5. Contract!Next
  <2>1. GoesOnOrEnds(c)
    BY <1>1, SMTT(30) DEF GoesOnOrEnds, RockInv, TypeOK, Typed, Fields, RockContext,
        RockShape, RockState, RockMember, RockOwner, Kinds, R!ReleaseSlot, R!IsOpen,
        R!StateLockFree, R!nativeVars, R!replicaVars
  <2> QED BY <1>1, <2>1, ContractEndsOne DEF RockInv
<1> QED BY <1>2, <1>3, <1>4, <1>5 DEF RockInv

LEMMA RockBeginTxn ==
    ASSUME which = "RocksDB", RockInv, NEW c \in Contexts, R!BeginTxn(c)
    PROVE  RockInv' /\ Contract!Next
<1>1. CASE native # 0
  <2>1. /\ Becomes(c, "register", ctx[c].closed, "active")
        /\ ctx'[c].kind = "txn" /\ ctx'[c].lock = ctx[c].lock /\ ctx'[c].life = life
        /\ ctx'[c].base = db /\ ctx'[c].answer = ctx[c].answer /\ ctx'[c].token = native
        /\ astray' = IF ctx[c].lock # lock THEN astray \cup {c} ELSE astray
        /\ UNCHANGED <<opened, active, db, life, lock, holder, owner, child, native, foreign,
                       mode, epoch, moved>>
    <3>1. ctx' = [ctx EXCEPT ![c] = [R!Began(c, "register") EXCEPT !.token = native, !.kind = "txn"]]
      BY <1>1 DEF R!BeginTxn, R!IsOpen, R!StateLockFree, R!nativeVars, R!replicaVars
    <3>2. /\ astray' = IF ctx[c].lock # lock THEN astray \cup {c} ELSE astray
          /\ UNCHANGED <<opened, active, db, life, lock, holder, owner, child, native, foreign,
                         mode, epoch, moved>>
      BY <1>1 DEF R!BeginTxn, R!IsOpen, R!StateLockFree, R!nativeVars, R!replicaVars
    <3>4. /\ Becomes(c, "register", ctx[c].closed, "active")
          /\ ctx'[c].kind = "txn" /\ ctx'[c].lock = ctx[c].lock /\ ctx'[c].life = life
          /\ ctx'[c].base = db /\ ctx'[c].answer = ctx[c].answer /\ ctx'[c].token = native
      BY <1>1, <3>1, SMTT(30) DEF RockInv, TypeOK, Typed, Fields
    <3> QED BY <3>2, <3>4
  <2>2. TypeOK'
    <3>1. Typed(ctx[c])'
      BY <1>1, <2>1, SMTT(30) DEF RockInv, TypeOK, Typed, Fields, Places, States, Kinds,
          RockOwner
    <3>2. ASSUME NEW x \in Contexts \ {c} PROVE Typed(ctx[x])'
      BY <2>1, SMTT(30) DEF RockInv, TypeOK, Typed, Fields
    <3> QED
      BY <1>1, <2>1, <3>1, <3>2, SMTT(30) DEF RockInv, TypeOK
  <2>3. RockOwner'
    BY <1>1, <2>1, SMTT(30) DEF RockInv, TypeOK, RockOwner, RockContext, RockShape,
        RockState, R!BeginTxn, R!IsOpen, R!StateLockFree, R!nativeVars, R!replicaVars
  <2>4. ASSUME NEW x \in Contexts PROVE RockContext(x)'
    <3>1. CASE x = c
      <4>1. RockShape(c)'
        BY <1>1, <2>1, CoreAssumption, SMTT(30) DEF RockInv, TypeOK, Typed, Fields,
            RockOwner, RockContext, RockShape, RockState, RockSlot, RockMember, RockLife,
            Taken, Kinds, TxnKinds, R!BeginTxn, R!IsOpen, R!StateLockFree, R!nativeVars,
            R!replicaVars
      <4>2. RockState(c)'
        BY <1>1, <2>1, CoreAssumption, SMTT(30) DEF RockInv, TypeOK, Typed, Fields,
            RockOwner, RockContext, RockShape, RockState, RockSlot, RockMember, RockLife,
            Taken, Kinds, TxnKinds, R!BeginTxn, R!IsOpen, R!StateLockFree, R!nativeVars,
            R!replicaVars
      <4>3. RockSlot(c)'
        BY <1>1, <2>1, CoreAssumption, SMTT(30) DEF RockInv, TypeOK, Typed, Fields,
            RockOwner, RockContext, RockShape, RockState, RockSlot, RockMember, RockLife,
            Taken, Kinds, TxnKinds, R!BeginTxn, R!IsOpen, R!StateLockFree, R!nativeVars,
            R!replicaVars
      <4>4. RockMember(c)'
        BY <1>1, <2>1, CoreAssumption, SMTT(30) DEF RockInv, TypeOK, Typed, Fields,
            RockOwner, RockContext, RockShape, RockState, RockSlot, RockMember, RockLife,
            Taken, Kinds, TxnKinds, R!BeginTxn, R!IsOpen, R!StateLockFree, R!nativeVars,
            R!replicaVars
      <4>5. RockLife(c)'
        BY <1>1, <2>1, CoreAssumption, SMTT(30) DEF RockInv, TypeOK, Typed, Fields,
            RockOwner, RockContext, RockShape, RockState, RockSlot, RockMember, RockLife,
            Taken, Kinds, TxnKinds, R!BeginTxn, R!IsOpen, R!StateLockFree, R!nativeVars,
            R!replicaVars
      <4> QED BY <3>1, <4>1, <4>2, <4>3, <4>4, <4>5 DEF RockContext
    <3>2. CASE x # c
      BY <1>1, <2>1, <3>2, CoreAssumption, SMTT(30) DEF RockInv, TypeOK, Typed, Fields,
          RockOwner, RockContext, RockShape, RockState, RockSlot, RockMember, RockLife,
          Taken, Kinds, TxnKinds, R!BeginTxn, R!IsOpen, R!StateLockFree, R!nativeVars,
          R!replicaVars
    <3> QED BY <3>1, <3>2
  <2>5. Contract!Next
    <3>1. ctx[c].state = "none" /\ ctx[c].pc # "read"
      BY <1>1, SMTT(30) DEF RockInv, TypeOK, Typed, Fields, RockContext, RockShape,
          RockState, RockMember, RockOwner, Kinds, R!BeginTxn, R!IsOpen, R!StateLockFree,
          R!nativeVars, R!replicaVars
    <3>2. Others(c)
      BY <2>1 DEF Others
    <3> QED BY <2>1, <3>1, <3>2, ContractBegins DEF RockInv
  <2> QED BY <2>2, <2>3, <2>4, <2>5 DEF RockInv
<1>2. CASE native = 0
  <2>1. /\ Moves(c, IF ctx[c].kind = "reserving" /\ ctx[c].lock = lock THEN "reserved" ELSE "done")
        /\ holder' = IF ctx[c].kind = "reserving" THEN holder ELSE R!Released(c)
        /\ UNCHANGED <<opened, active, db, life, lock, owner, child, native, foreign, mode,
                       epoch, moved, astray>>
    BY <1>2, SMTT(30) DEF RockInv, TypeOK, Typed, Fields, R!BeginTxn, R!IsOpen,
        R!StateLockFree, R!nativeVars, R!replicaVars, RockContext, RockShape, RockState,
        RockOwner
  <2>2. TypeOK'
    <3>1. Typed(ctx[c])'
      BY <1>2, <2>1, SMTT(30) DEF RockInv, TypeOK, Typed, Fields, Places, States, Kinds,
          RockOwner
    <3>2. ASSUME NEW x \in Contexts \ {c} PROVE Typed(ctx[x])'
      BY <2>1, SMTT(30) DEF RockInv, TypeOK, Typed, Fields
    <3> QED
      BY <1>2, <2>1, <3>1, <3>2, SMTT(30) DEF RockInv, TypeOK
  <2>3. RockOwner'
    BY <1>2, <2>1, SMTT(30) DEF RockInv, TypeOK, RockOwner, RockContext, RockShape,
        RockState, R!BeginTxn, R!IsOpen, R!StateLockFree, R!nativeVars, R!replicaVars
  <2>4. ASSUME NEW x \in Contexts PROVE RockContext(x)'
    <3>1. CASE x = c
      <4>1. RockShape(c)'
        BY <1>2, <2>1, CoreAssumption, SMTT(30) DEF RockInv, TypeOK, Typed, Fields,
            RockOwner, RockContext, RockShape, RockState, RockSlot, RockMember, RockLife,
            Taken, Kinds, TxnKinds, R!BeginTxn, R!IsOpen, R!StateLockFree, R!nativeVars,
            R!replicaVars
      <4>2. RockState(c)'
        BY <1>2, <2>1, CoreAssumption, SMTT(30) DEF RockInv, TypeOK, Typed, Fields,
            RockOwner, RockContext, RockShape, RockState, RockSlot, RockMember, RockLife,
            Taken, Kinds, TxnKinds, R!BeginTxn, R!IsOpen, R!StateLockFree, R!nativeVars,
            R!replicaVars
      <4>3. RockSlot(c)'
        BY <1>2, <2>1, CoreAssumption, SMTT(30) DEF RockInv, TypeOK, Typed, Fields,
            RockOwner, RockContext, RockShape, RockState, RockSlot, RockMember, RockLife,
            Taken, Kinds, TxnKinds, R!BeginTxn, R!IsOpen, R!StateLockFree, R!nativeVars,
            R!replicaVars
      <4>4. RockMember(c)'
        BY <1>2, <2>1, CoreAssumption, SMTT(30) DEF RockInv, TypeOK, Typed, Fields,
            RockOwner, RockContext, RockShape, RockState, RockSlot, RockMember, RockLife,
            Taken, Kinds, TxnKinds, R!BeginTxn, R!IsOpen, R!StateLockFree, R!nativeVars,
            R!replicaVars
      <4>5. RockLife(c)'
        BY <1>2, <2>1, CoreAssumption, SMTT(30) DEF RockInv, TypeOK, Typed, Fields,
            RockOwner, RockContext, RockShape, RockState, RockSlot, RockMember, RockLife,
            Taken, Kinds, TxnKinds, R!BeginTxn, R!IsOpen, R!StateLockFree, R!nativeVars,
            R!replicaVars
      <4> QED BY <3>1, <4>1, <4>2, <4>3, <4>4, <4>5 DEF RockContext
    <3>2. CASE x # c
      BY <1>2, <2>1, <3>2, CoreAssumption, SMTT(30) DEF RockInv, TypeOK, Typed, Fields,
          RockOwner, RockContext, RockShape, RockState, RockSlot, RockMember, RockLife,
          Taken, Kinds, TxnKinds, R!BeginTxn, R!IsOpen, R!StateLockFree, R!nativeVars,
          R!replicaVars
    <3> QED BY <3>1, <3>2
  <2>5. Contract!Next
    <3>1. GoesOnOrEnds(c)
      BY <1>2, <2>1, SMTT(30) DEF GoesOnOrEnds, RockInv, TypeOK, Typed, Fields, RockContext,
          RockShape, RockState, RockMember, RockOwner, Kinds, R!BeginTxn, R!IsOpen,
          R!StateLockFree, R!nativeVars, R!replicaVars
    <3> QED BY <2>1, <3>1, ContractEndsOne DEF RockInv
  <2> QED BY <2>2, <2>3, <2>4, <2>5 DEF RockInv
<1> QED BY <1>1, <1>2

LEMMA RockBeginSnapshot ==
    ASSUME which = "RocksDB", RockInv, NEW c \in Contexts, R!BeginSnapshot(c)
    PROVE  RockInv' /\ Contract!Next
<1>1. CASE ctx[c].token = native
  <2>1. /\ Begins(c, "register", ctx[c].token)
        /\ UNCHANGED <<opened, active, db, life, lock, holder, owner, child, native, foreign,
                       mode, epoch, moved, astray>>
    <3>1. ctx' = [ctx EXCEPT ![c] = R!Began(c, "register")]
      BY <1>1 DEF R!BeginSnapshot, R!IsOpen, R!StateLockFree, R!nativeVars, R!replicaVars
    <3>2. /\ UNCHANGED <<opened, active, db, life, lock, holder, owner, child, native, foreign,
                         mode, epoch, moved, astray>>
      BY <1>1 DEF R!BeginSnapshot, R!IsOpen, R!StateLockFree, R!nativeVars, R!replicaVars
    <3>4. Begins(c, "register", ctx[c].token)
      BY <1>1, <3>1, SMTT(30) DEF RockInv, TypeOK, Typed, Fields
    <3> QED BY <3>2, <3>4
  <2>2. TypeOK'
    <3>1. Typed(ctx[c])'
      BY <1>1, <2>1, SMTT(30) DEF RockInv, TypeOK, Typed, Fields, Places, States, Kinds,
          RockOwner
    <3>2. ASSUME NEW x \in Contexts \ {c} PROVE Typed(ctx[x])'
      BY <2>1, SMTT(30) DEF RockInv, TypeOK, Typed, Fields
    <3> QED
      BY <1>1, <2>1, <3>1, <3>2, SMTT(30) DEF RockInv, TypeOK
  <2>3. RockOwner'
    BY <1>1, <2>1, SMTT(30) DEF RockInv, TypeOK, RockOwner, RockContext, RockShape,
        RockState, R!BeginSnapshot, R!IsOpen, R!StateLockFree, R!nativeVars, R!replicaVars
  <2>4. ASSUME NEW x \in Contexts PROVE RockContext(x)'
    <3>1. CASE x = c
      <4>1. RockShape(c)'
        BY <1>1, <2>1, CoreAssumption, SMTT(30) DEF RockInv, TypeOK, Typed, Fields,
            RockOwner, RockContext, RockShape, RockState, RockSlot, RockMember, RockLife,
            Taken, Kinds, TxnKinds, R!BeginSnapshot, R!IsOpen, R!StateLockFree,
            R!nativeVars, R!replicaVars
      <4>2. RockState(c)'
        BY <1>1, <2>1, CoreAssumption, SMTT(30) DEF RockInv, TypeOK, Typed, Fields,
            RockOwner, RockContext, RockShape, RockState, RockSlot, RockMember, RockLife,
            Taken, Kinds, TxnKinds, R!BeginSnapshot, R!IsOpen, R!StateLockFree,
            R!nativeVars, R!replicaVars
      <4>3. RockSlot(c)'
        BY <1>1, <2>1, CoreAssumption, SMTT(30) DEF RockInv, TypeOK, Typed, Fields,
            RockOwner, RockContext, RockShape, RockState, RockSlot, RockMember, RockLife,
            Taken, Kinds, TxnKinds, R!BeginSnapshot, R!IsOpen, R!StateLockFree,
            R!nativeVars, R!replicaVars
      <4>4. RockMember(c)'
        BY <1>1, <2>1, CoreAssumption, SMTT(30) DEF RockInv, TypeOK, Typed, Fields,
            RockOwner, RockContext, RockShape, RockState, RockSlot, RockMember, RockLife,
            Taken, Kinds, TxnKinds, R!BeginSnapshot, R!IsOpen, R!StateLockFree,
            R!nativeVars, R!replicaVars
      <4>5. RockLife(c)'
        BY <1>1, <2>1, CoreAssumption, SMTT(30) DEF RockInv, TypeOK, Typed, Fields,
            RockOwner, RockContext, RockShape, RockState, RockSlot, RockMember, RockLife,
            Taken, Kinds, TxnKinds, R!BeginSnapshot, R!IsOpen, R!StateLockFree,
            R!nativeVars, R!replicaVars
      <4> QED BY <3>1, <4>1, <4>2, <4>3, <4>4, <4>5 DEF RockContext
    <3>2. CASE x # c
      BY <1>1, <2>1, <3>2, CoreAssumption, SMTT(30) DEF RockInv, TypeOK, Typed, Fields,
          RockOwner, RockContext, RockShape, RockState, RockSlot, RockMember, RockLife,
          Taken, Kinds, TxnKinds, R!BeginSnapshot, R!IsOpen, R!StateLockFree, R!nativeVars,
          R!replicaVars
    <3> QED BY <3>1, <3>2
  <2>5. Contract!Next
    <3>1. ctx[c].state = "none" /\ ctx[c].pc # "read"
      BY <1>1, SMTT(30) DEF RockInv, TypeOK, Typed, Fields, RockContext, RockShape,
          RockState, RockMember, RockOwner, Kinds, R!BeginSnapshot, R!IsOpen,
          R!StateLockFree, R!nativeVars, R!replicaVars
    <3>2. Others(c)
      BY <2>1 DEF Others
    <3> QED BY <2>1, <3>1, <3>2, ContractBegins DEF RockInv
  <2> QED BY <2>2, <2>3, <2>4, <2>5 DEF RockInv
<1>2. CASE ctx[c].token # native
  <2>1. /\ Moves(c, "done")
        /\ UNCHANGED <<opened, active, db, life, lock, holder, owner, child, native, foreign,
                       mode, epoch, moved, astray>>
    <3>1. ctx' = [ctx EXCEPT ![c] = [ctx[c] EXCEPT !.pc = "done"]]
      BY <1>2 DEF R!BeginSnapshot, R!IsOpen, R!StateLockFree, R!nativeVars, R!replicaVars
    <3>2. /\ UNCHANGED <<opened, active, db, life, lock, holder, owner, child, native, foreign,
                         mode, epoch, moved, astray>>
      BY <1>2 DEF R!BeginSnapshot, R!IsOpen, R!StateLockFree, R!nativeVars, R!replicaVars
    <3>4. Moves(c, "done")
      BY <1>2, <3>1, SMTT(30) DEF RockInv, TypeOK, Typed, Fields
    <3> QED BY <3>2, <3>4
  <2>2. TypeOK'
    <3>1. Typed(ctx[c])'
      BY <1>2, <2>1, SMTT(30) DEF RockInv, TypeOK, Typed, Fields, Places, States, Kinds,
          RockOwner
    <3>2. ASSUME NEW x \in Contexts \ {c} PROVE Typed(ctx[x])'
      BY <2>1, SMTT(30) DEF RockInv, TypeOK, Typed, Fields
    <3> QED
      BY <1>2, <2>1, <3>1, <3>2, SMTT(30) DEF RockInv, TypeOK
  <2>3. RockOwner'
    BY <1>2, <2>1, SMTT(30) DEF RockInv, TypeOK, RockOwner, RockContext, RockShape,
        RockState, R!BeginSnapshot, R!IsOpen, R!StateLockFree, R!nativeVars, R!replicaVars
  <2>4. ASSUME NEW x \in Contexts PROVE RockContext(x)'
    <3>1. CASE x = c
      <4>1. RockShape(c)'
        BY <1>2, <2>1, CoreAssumption, SMTT(30) DEF RockInv, TypeOK, Typed, Fields,
            RockOwner, RockContext, RockShape, RockState, RockSlot, RockMember, RockLife,
            Taken, Kinds, TxnKinds, R!BeginSnapshot, R!IsOpen, R!StateLockFree,
            R!nativeVars, R!replicaVars
      <4>2. RockState(c)'
        BY <1>2, <2>1, CoreAssumption, SMTT(30) DEF RockInv, TypeOK, Typed, Fields,
            RockOwner, RockContext, RockShape, RockState, RockSlot, RockMember, RockLife,
            Taken, Kinds, TxnKinds, R!BeginSnapshot, R!IsOpen, R!StateLockFree,
            R!nativeVars, R!replicaVars
      <4>3. RockSlot(c)'
        BY <1>2, <2>1, CoreAssumption, SMTT(30) DEF RockInv, TypeOK, Typed, Fields,
            RockOwner, RockContext, RockShape, RockState, RockSlot, RockMember, RockLife,
            Taken, Kinds, TxnKinds, R!BeginSnapshot, R!IsOpen, R!StateLockFree,
            R!nativeVars, R!replicaVars
      <4>4. RockMember(c)'
        BY <1>2, <2>1, CoreAssumption, SMTT(30) DEF RockInv, TypeOK, Typed, Fields,
            RockOwner, RockContext, RockShape, RockState, RockSlot, RockMember, RockLife,
            Taken, Kinds, TxnKinds, R!BeginSnapshot, R!IsOpen, R!StateLockFree,
            R!nativeVars, R!replicaVars
      <4>5. RockLife(c)'
        BY <1>2, <2>1, CoreAssumption, SMTT(30) DEF RockInv, TypeOK, Typed, Fields,
            RockOwner, RockContext, RockShape, RockState, RockSlot, RockMember, RockLife,
            Taken, Kinds, TxnKinds, R!BeginSnapshot, R!IsOpen, R!StateLockFree,
            R!nativeVars, R!replicaVars
      <4> QED BY <3>1, <4>1, <4>2, <4>3, <4>4, <4>5 DEF RockContext
    <3>2. CASE x # c
      BY <1>2, <2>1, <3>2, CoreAssumption, SMTT(30) DEF RockInv, TypeOK, Typed, Fields,
          RockOwner, RockContext, RockShape, RockState, RockSlot, RockMember, RockLife,
          Taken, Kinds, TxnKinds, R!BeginSnapshot, R!IsOpen, R!StateLockFree, R!nativeVars,
          R!replicaVars
    <3> QED BY <3>1, <3>2
  <2>5. Contract!Next
    <3>1. GoesOnOrEnds(c)
      BY <1>2, <2>1, SMTT(30) DEF GoesOnOrEnds, RockInv, TypeOK, Typed, Fields, RockContext,
          RockShape, RockState, RockMember, RockOwner, Kinds, R!BeginSnapshot, R!IsOpen,
          R!StateLockFree, R!nativeVars, R!replicaVars
    <3> QED BY <2>1, <3>1, ContractEndsOne DEF RockInv
  <2> QED BY <2>2, <2>3, <2>4, <2>5 DEF RockInv
<1> QED BY <1>1, <1>2

LEMMA RockRegister ==
    ASSUME which = "RocksDB", RockInv, NEW c \in Contexts, R!Register(c)
    PROVE  RockInv' /\ Contract!Next
<1>1. CASE ctx[c].kind = "snapshot" /\ ~(opened /\ ~closing)
  <2>1. /\ Ends(c, "done", TRUE, R!Over(c))
        /\ UNCHANGED <<opened, active, db, life, lock, holder, owner, child, native, foreign,
                       mode, epoch, moved, astray>>
    <3>1. ctx' = [ctx EXCEPT ![c] = [@ EXCEPT !.pc = "done", !.closed = TRUE, !.state = R!Over(c)]]
      BY <1>1 DEF R!Register, R!IsOpen, R!StateLockFree, R!nativeVars, R!replicaVars
    <3>2. /\ UNCHANGED <<opened, active, db, life, lock, holder, owner, child, native, foreign,
                         mode, epoch, moved, astray>>
      BY <1>1 DEF R!Register, R!IsOpen, R!StateLockFree, R!nativeVars, R!replicaVars
    <3>4. Ends(c, "done", TRUE, R!Over(c))
      BY <1>1, <3>1, SMTT(30) DEF RockInv, TypeOK, Typed, Fields
    <3> QED BY <3>2, <3>4
  <2>2. TypeOK'
    <3>0. ctx'[c].closed \in BOOLEAN
      BY <2>1 DEF RockInv, TypeOK, Typed
    <3>1. Typed(ctx[c])'
      BY <1>1, <2>1, <3>0, SMTT(30) DEF RockInv, TypeOK, Typed, Fields, Places, States,
          Kinds, RockOwner
    <3>2. ASSUME NEW x \in Contexts \ {c} PROVE Typed(ctx[x])'
      BY <2>1, SMTT(30) DEF RockInv, TypeOK, Typed, Fields
    <3> QED
      BY <1>1, <2>1, <3>1, <3>2, SMTT(30) DEF RockInv, TypeOK
  <2>3. RockOwner'
    BY <1>1, <2>1, SMTT(30) DEF RockInv, TypeOK, RockOwner, RockContext, RockShape,
        RockState, R!Register, R!IsOpen, R!StateLockFree, R!nativeVars, R!replicaVars
  <2>4. ASSUME NEW x \in Contexts PROVE RockContext(x)'
    <3>1. CASE x = c
      <4>1. RockShape(c)'
        BY <1>1, <2>1, CoreAssumption, SMTT(30) DEF RockInv, TypeOK, Typed, Fields,
            RockOwner, RockContext, RockShape, RockState, RockSlot, RockMember, RockLife,
            Taken, Kinds, TxnKinds, R!Register, R!IsOpen, R!StateLockFree, R!nativeVars,
            R!replicaVars
      <4>2. RockState(c)'
        BY <1>1, <2>1, CoreAssumption, SMTT(30) DEF RockInv, TypeOK, Typed, Fields,
            RockOwner, RockContext, RockShape, RockState, RockSlot, RockMember, RockLife,
            Taken, Kinds, TxnKinds, R!Register, R!IsOpen, R!StateLockFree, R!nativeVars,
            R!replicaVars
      <4>3. RockSlot(c)'
        BY <1>1, <2>1, CoreAssumption, SMTT(30) DEF RockInv, TypeOK, Typed, Fields,
            RockOwner, RockContext, RockShape, RockState, RockSlot, RockMember, RockLife,
            Taken, Kinds, TxnKinds, R!Register, R!IsOpen, R!StateLockFree, R!nativeVars,
            R!replicaVars
      <4>4. RockMember(c)'
        BY <1>1, <2>1, CoreAssumption, SMTT(30) DEF RockInv, TypeOK, Typed, Fields,
            RockOwner, RockContext, RockShape, RockState, RockSlot, RockMember, RockLife,
            Taken, Kinds, TxnKinds, R!Register, R!IsOpen, R!StateLockFree, R!nativeVars,
            R!replicaVars
      <4>5. RockLife(c)'
        BY <1>1, <2>1, CoreAssumption, SMTT(30) DEF RockInv, TypeOK, Typed, Fields,
            RockOwner, RockContext, RockShape, RockState, RockSlot, RockMember, RockLife,
            Taken, Kinds, TxnKinds, R!Register, R!IsOpen, R!StateLockFree, R!nativeVars,
            R!replicaVars
      <4> QED BY <3>1, <4>1, <4>2, <4>3, <4>4, <4>5 DEF RockContext
    <3>2. CASE x # c
      BY <1>1, <2>1, <3>2, CoreAssumption, SMTT(30) DEF RockInv, TypeOK, Typed, Fields,
          RockOwner, RockContext, RockShape, RockState, RockSlot, RockMember, RockLife,
          Taken, Kinds, TxnKinds, R!Register, R!IsOpen, R!StateLockFree, R!nativeVars,
          R!replicaVars
    <3> QED BY <3>1, <3>2
  <2>5. Contract!Next
    <3>1. GoesOnOrEnds(c)
      BY <1>1, <2>1, SMTT(30) DEF GoesOnOrEnds, RockInv, TypeOK, Typed, Fields, RockContext,
          RockShape, RockState, RockMember, RockOwner, Kinds, R!Register, R!IsOpen,
          R!StateLockFree, R!nativeVars, R!replicaVars
    <3> QED BY <2>1, <3>1, ContractEndsOne DEF RockInv
  <2> QED BY <2>2, <2>3, <2>4, <2>5 DEF RockInv
<1>2. CASE ~(ctx[c].kind = "snapshot" /\ ~(opened /\ ~closing))
  <2>1. /\ Moves(c, "use")
        /\ active' = active \cup {c}
        /\ UNCHANGED <<opened, db, life, lock, holder, owner, child, native, foreign, mode,
                       epoch, moved, astray>>
    BY <1>2, SMTT(30) DEF RockInv, TypeOK, Typed, Fields, R!Register, R!IsOpen,
        R!StateLockFree, R!nativeVars, R!replicaVars, RockContext, RockShape, RockState,
        RockOwner
  <2>2. TypeOK'
    <3>1. Typed(ctx[c])'
      BY <1>2, <2>1, SMTT(30) DEF RockInv, TypeOK, Typed, Fields, Places, States, Kinds,
          RockOwner
    <3>2. ASSUME NEW x \in Contexts \ {c} PROVE Typed(ctx[x])'
      BY <2>1, SMTT(30) DEF RockInv, TypeOK, Typed, Fields
    <3> QED
      BY <1>2, <2>1, <3>1, <3>2, SMTT(30) DEF RockInv, TypeOK
  <2>3. RockOwner'
    BY <1>2, <2>1, SMTT(30) DEF RockInv, TypeOK, RockOwner, RockContext, RockShape,
        RockState, R!Register, R!IsOpen, R!StateLockFree, R!nativeVars, R!replicaVars
  <2>4. ASSUME NEW x \in Contexts PROVE RockContext(x)'
    <3>1. CASE x = c
      <4>1. RockShape(c)'
        BY <1>2, <2>1, CoreAssumption, SMTT(30) DEF RockInv, TypeOK, Typed, Fields,
            RockOwner, RockContext, RockShape, RockState, RockSlot, RockMember, RockLife,
            Taken, Kinds, TxnKinds, R!Register, R!IsOpen, R!StateLockFree, R!nativeVars,
            R!replicaVars
      <4>2. RockState(c)'
        BY <1>2, <2>1, CoreAssumption, SMTT(30) DEF RockInv, TypeOK, Typed, Fields,
            RockOwner, RockContext, RockShape, RockState, RockSlot, RockMember, RockLife,
            Taken, Kinds, TxnKinds, R!Register, R!IsOpen, R!StateLockFree, R!nativeVars,
            R!replicaVars
      <4>3. RockSlot(c)'
        BY <1>2, <2>1, CoreAssumption, SMTT(30) DEF RockInv, TypeOK, Typed, Fields,
            RockOwner, RockContext, RockShape, RockState, RockSlot, RockMember, RockLife,
            Taken, Kinds, TxnKinds, R!Register, R!IsOpen, R!StateLockFree, R!nativeVars,
            R!replicaVars
      <4>4. RockMember(c)'
        BY <1>2, <2>1, CoreAssumption, SMTT(30) DEF RockInv, TypeOK, Typed, Fields,
            RockOwner, RockContext, RockShape, RockState, RockSlot, RockMember, RockLife,
            Taken, Kinds, TxnKinds, R!Register, R!IsOpen, R!StateLockFree, R!nativeVars,
            R!replicaVars
      <4>5. RockLife(c)'
        BY <1>2, <2>1, CoreAssumption, SMTT(30) DEF RockInv, TypeOK, Typed, Fields,
            RockOwner, RockContext, RockShape, RockState, RockSlot, RockMember, RockLife,
            Taken, Kinds, TxnKinds, R!Register, R!IsOpen, R!StateLockFree, R!nativeVars,
            R!replicaVars
      <4> QED BY <3>1, <4>1, <4>2, <4>3, <4>4, <4>5 DEF RockContext
    <3>2. CASE x # c
      BY <1>2, <2>1, <3>2, CoreAssumption, SMTT(30) DEF RockInv, TypeOK, Typed, Fields,
          RockOwner, RockContext, RockShape, RockState, RockSlot, RockMember, RockLife,
          Taken, Kinds, TxnKinds, R!Register, R!IsOpen, R!StateLockFree, R!nativeVars,
          R!replicaVars
    <3> QED BY <3>1, <3>2
  <2>5. Contract!Next
    <3>1. GoesOnOrEnds(c)
      BY <1>2, <2>1, SMTT(30) DEF GoesOnOrEnds, RockInv, TypeOK, Typed, Fields, RockContext,
          RockShape, RockState, RockMember, RockOwner, Kinds, R!Register, R!IsOpen,
          R!StateLockFree, R!nativeVars, R!replicaVars
    <3> QED BY <2>1, <3>1, ContractEndsOne DEF RockInv
  <2> QED BY <2>2, <2>3, <2>4, <2>5 DEF RockInv
<1> QED BY <1>1, <1>2

LEMMA RockCatchUpFails ==
    ASSUME which = "RocksDB", RockInv, NEW c \in Contexts, R!CatchUpFails(c)
    PROVE  RockInv' /\ Contract!Next
<1>1. /\ Moves(c, IF ctx[c].pc = "read" THEN "use" ELSE "done")
      /\ UNCHANGED <<opened, active, db, life, lock, holder, owner, child, native, foreign,
                     mode, epoch, moved, astray>>
  BY SMTT(30) DEF RockInv, TypeOK, Typed, Fields, R!CatchUpFails, R!IsOpen, R!StateLockFree,
      R!nativeVars, R!replicaVars, RockContext, RockShape, RockState, RockOwner
<1>2. TypeOK'
  <2>1. Typed(ctx[c])'
    BY <1>1, SMTT(30) DEF RockInv, TypeOK, Typed, Fields, Places, States, Kinds, RockOwner
  <2>2. ASSUME NEW x \in Contexts \ {c} PROVE Typed(ctx[x])'
    BY <1>1, SMTT(30) DEF RockInv, TypeOK, Typed, Fields
  <2> QED
    BY <1>1, <2>1, <2>2, SMTT(30) DEF RockInv, TypeOK
<1>3. RockOwner'
  BY <1>1, SMTT(30) DEF RockInv, TypeOK, RockOwner, RockContext, RockShape, RockState,
      R!CatchUpFails, R!IsOpen, R!StateLockFree, R!nativeVars, R!replicaVars
<1>4. ASSUME NEW x \in Contexts PROVE RockContext(x)'
  <2>1. CASE x = c
    <3>1. RockShape(c)'
      BY <1>1, CoreAssumption, SMTT(30) DEF RockInv, TypeOK, Typed, Fields, RockOwner,
          RockContext, RockShape, RockState, RockSlot, RockMember, RockLife, Taken, Kinds,
          TxnKinds, R!CatchUpFails, R!IsOpen, R!StateLockFree, R!nativeVars, R!replicaVars
    <3>2. RockState(c)'
      BY <1>1, CoreAssumption, SMTT(30) DEF RockInv, TypeOK, Typed, Fields, RockOwner,
          RockContext, RockShape, RockState, RockSlot, RockMember, RockLife, Taken, Kinds,
          TxnKinds, R!CatchUpFails, R!IsOpen, R!StateLockFree, R!nativeVars, R!replicaVars
    <3>3. RockSlot(c)'
      BY <1>1, CoreAssumption, SMTT(30) DEF RockInv, TypeOK, Typed, Fields, RockOwner,
          RockContext, RockShape, RockState, RockSlot, RockMember, RockLife, Taken, Kinds,
          TxnKinds, R!CatchUpFails, R!IsOpen, R!StateLockFree, R!nativeVars, R!replicaVars
    <3>4. RockMember(c)'
      BY <1>1, CoreAssumption, SMTT(30) DEF RockInv, TypeOK, Typed, Fields, RockOwner,
          RockContext, RockShape, RockState, RockSlot, RockMember, RockLife, Taken, Kinds,
          TxnKinds, R!CatchUpFails, R!IsOpen, R!StateLockFree, R!nativeVars, R!replicaVars
    <3>5. RockLife(c)'
      BY <1>1, CoreAssumption, SMTT(30) DEF RockInv, TypeOK, Typed, Fields, RockOwner,
          RockContext, RockShape, RockState, RockSlot, RockMember, RockLife, Taken, Kinds,
          TxnKinds, R!CatchUpFails, R!IsOpen, R!StateLockFree, R!nativeVars, R!replicaVars
    <3> QED BY <2>1, <3>1, <3>2, <3>3, <3>4, <3>5 DEF RockContext
  <2>2. CASE x # c
    BY <1>1, <2>2, CoreAssumption, SMTT(30) DEF RockInv, TypeOK, Typed, Fields, RockOwner,
        RockContext, RockShape, RockState, RockSlot, RockMember, RockLife, Taken, Kinds,
        TxnKinds, R!CatchUpFails, R!IsOpen, R!StateLockFree, R!nativeVars, R!replicaVars
  <2> QED BY <2>1, <2>2
<1>5. Contract!Next
  <2>1. GoesOnOrEnds(c)
    BY <1>1, SMTT(30) DEF GoesOnOrEnds, RockInv, TypeOK, Typed, Fields, RockContext,
        RockShape, RockState, RockMember, RockOwner, Kinds, R!CatchUpFails, R!IsOpen,
        R!StateLockFree, R!nativeVars, R!replicaVars
  <2> QED BY <1>1, <2>1, ContractEndsOne DEF RockInv
<1> QED BY <1>2, <1>3, <1>4, <1>5 DEF RockInv

LEMMA RockBeginView ==
    ASSUME which = "RocksDB", RockInv, NEW c \in Contexts, R!BeginView(c)
    PROVE  RockInv' /\ Contract!Next
<1>1. CASE R!IsOpen \/ catching = c
  <2>1. /\ Begins(c, "use", epoch)
        /\ active' = active \cup {c}
        /\ UNCHANGED <<opened, db, life, lock, holder, owner, child, native, foreign, mode,
                       epoch, moved, astray>>
    <3>1. ctx' = [ctx EXCEPT ![c] = [R!Began(c, "use") EXCEPT !.token = epoch]]
      BY <1>1 DEF R!BeginView, R!IsOpen, R!StateLockFree, R!nativeVars, R!replicaVars
    <3>2. /\ active' = active \cup {c}
          /\ UNCHANGED <<opened, db, life, lock, holder, owner, child, native, foreign, mode,
                         epoch, moved, astray>>
      BY <1>1 DEF R!BeginView, R!IsOpen, R!StateLockFree, R!nativeVars, R!replicaVars
    <3>4. Begins(c, "use", epoch)
      BY <1>1, <3>1, SMTT(30) DEF RockInv, TypeOK, Typed, Fields
    <3> QED BY <3>2, <3>4
  <2>2. TypeOK'
    <3>1. Typed(ctx[c])'
      BY <1>1, <2>1, SMTT(30) DEF RockInv, TypeOK, Typed, Fields, Places, States, Kinds,
          RockOwner
    <3>2. ASSUME NEW x \in Contexts \ {c} PROVE Typed(ctx[x])'
      BY <2>1, SMTT(30) DEF RockInv, TypeOK, Typed, Fields
    <3> QED
      BY <1>1, <2>1, <3>1, <3>2, SMTT(30) DEF RockInv, TypeOK
  <2>3. RockOwner'
    BY <1>1, <2>1, SMTT(30) DEF RockInv, TypeOK, RockOwner, RockContext, RockShape,
        RockState, R!BeginView, R!IsOpen, R!StateLockFree, R!nativeVars, R!replicaVars
  <2>4. ASSUME NEW x \in Contexts PROVE RockContext(x)'
    <3>1. CASE x = c
      <4>1. RockShape(c)'
        BY <1>1, <2>1, CoreAssumption, SMTT(30) DEF RockInv, TypeOK, Typed, Fields,
            RockOwner, RockContext, RockShape, RockState, RockSlot, RockMember, RockLife,
            Taken, Kinds, TxnKinds, R!BeginView, R!IsOpen, R!StateLockFree, R!nativeVars,
            R!replicaVars
      <4>2. RockState(c)'
        BY <1>1, <2>1, CoreAssumption, SMTT(30) DEF RockInv, TypeOK, Typed, Fields,
            RockOwner, RockContext, RockShape, RockState, RockSlot, RockMember, RockLife,
            Taken, Kinds, TxnKinds, R!BeginView, R!IsOpen, R!StateLockFree, R!nativeVars,
            R!replicaVars
      <4>3. RockSlot(c)'
        BY <1>1, <2>1, CoreAssumption, SMTT(30) DEF RockInv, TypeOK, Typed, Fields,
            RockOwner, RockContext, RockShape, RockState, RockSlot, RockMember, RockLife,
            Taken, Kinds, TxnKinds, R!BeginView, R!IsOpen, R!StateLockFree, R!nativeVars,
            R!replicaVars
      <4>4. RockMember(c)'
        BY <1>1, <2>1, CoreAssumption, SMTT(30) DEF RockInv, TypeOK, Typed, Fields,
            RockOwner, RockContext, RockShape, RockState, RockSlot, RockMember, RockLife,
            Taken, Kinds, TxnKinds, R!BeginView, R!IsOpen, R!StateLockFree, R!nativeVars,
            R!replicaVars
      <4>5. RockLife(c)'
        BY <1>1, <2>1, CoreAssumption, SMTT(30) DEF RockInv, TypeOK, Typed, Fields,
            RockOwner, RockContext, RockShape, RockState, RockSlot, RockMember, RockLife,
            Taken, Kinds, TxnKinds, R!BeginView, R!IsOpen, R!StateLockFree, R!nativeVars,
            R!replicaVars
      <4> QED BY <3>1, <4>1, <4>2, <4>3, <4>4, <4>5 DEF RockContext
    <3>2. CASE x # c
      BY <1>1, <2>1, <3>2, CoreAssumption, SMTT(30) DEF RockInv, TypeOK, Typed, Fields,
          RockOwner, RockContext, RockShape, RockState, RockSlot, RockMember, RockLife,
          Taken, Kinds, TxnKinds, R!BeginView, R!IsOpen, R!StateLockFree, R!nativeVars,
          R!replicaVars
    <3> QED BY <3>1, <3>2
  <2>5. Contract!Next
    <3>1. ctx[c].state = "none" /\ ctx[c].pc # "read"
      BY <1>1, SMTT(30) DEF RockInv, TypeOK, Typed, Fields, RockContext, RockShape,
          RockState, RockMember, RockOwner, Kinds, R!BeginView, R!IsOpen, R!StateLockFree,
          R!nativeVars, R!replicaVars
    <3>2. Others(c)
      BY <2>1 DEF Others
    <3> QED BY <2>1, <3>1, <3>2, ContractBegins DEF RockInv
  <2> QED BY <2>2, <2>3, <2>4, <2>5 DEF RockInv
<1>2. CASE ~(R!IsOpen \/ catching = c)
  <2>1. /\ Moves(c, "done")
        /\ UNCHANGED <<opened, active, db, life, lock, holder, owner, child, native, foreign,
                       mode, epoch, moved, astray>>
    BY <1>2, SMTT(30) DEF RockInv, TypeOK, Typed, Fields, R!BeginView, R!IsOpen,
        R!StateLockFree, R!nativeVars, R!replicaVars, RockContext, RockShape, RockState,
        RockOwner
  <2>2. TypeOK'
    <3>1. Typed(ctx[c])'
      BY <1>2, <2>1, SMTT(30) DEF RockInv, TypeOK, Typed, Fields, Places, States, Kinds,
          RockOwner
    <3>2. ASSUME NEW x \in Contexts \ {c} PROVE Typed(ctx[x])'
      BY <2>1, SMTT(30) DEF RockInv, TypeOK, Typed, Fields
    <3> QED
      BY <1>2, <2>1, <3>1, <3>2, SMTT(30) DEF RockInv, TypeOK
  <2>3. RockOwner'
    BY <1>2, <2>1, SMTT(30) DEF RockInv, TypeOK, RockOwner, RockContext, RockShape,
        RockState, R!BeginView, R!IsOpen, R!StateLockFree, R!nativeVars, R!replicaVars
  <2>4. ASSUME NEW x \in Contexts PROVE RockContext(x)'
    <3>1. CASE x = c
      <4>1. RockShape(c)'
        BY <1>2, <2>1, CoreAssumption, SMTT(30) DEF RockInv, TypeOK, Typed, Fields,
            RockOwner, RockContext, RockShape, RockState, RockSlot, RockMember, RockLife,
            Taken, Kinds, TxnKinds, R!BeginView, R!IsOpen, R!StateLockFree, R!nativeVars,
            R!replicaVars
      <4>2. RockState(c)'
        BY <1>2, <2>1, CoreAssumption, SMTT(30) DEF RockInv, TypeOK, Typed, Fields,
            RockOwner, RockContext, RockShape, RockState, RockSlot, RockMember, RockLife,
            Taken, Kinds, TxnKinds, R!BeginView, R!IsOpen, R!StateLockFree, R!nativeVars,
            R!replicaVars
      <4>3. RockSlot(c)'
        BY <1>2, <2>1, CoreAssumption, SMTT(30) DEF RockInv, TypeOK, Typed, Fields,
            RockOwner, RockContext, RockShape, RockState, RockSlot, RockMember, RockLife,
            Taken, Kinds, TxnKinds, R!BeginView, R!IsOpen, R!StateLockFree, R!nativeVars,
            R!replicaVars
      <4>4. RockMember(c)'
        BY <1>2, <2>1, CoreAssumption, SMTT(30) DEF RockInv, TypeOK, Typed, Fields,
            RockOwner, RockContext, RockShape, RockState, RockSlot, RockMember, RockLife,
            Taken, Kinds, TxnKinds, R!BeginView, R!IsOpen, R!StateLockFree, R!nativeVars,
            R!replicaVars
      <4>5. RockLife(c)'
        BY <1>2, <2>1, CoreAssumption, SMTT(30) DEF RockInv, TypeOK, Typed, Fields,
            RockOwner, RockContext, RockShape, RockState, RockSlot, RockMember, RockLife,
            Taken, Kinds, TxnKinds, R!BeginView, R!IsOpen, R!StateLockFree, R!nativeVars,
            R!replicaVars
      <4> QED BY <3>1, <4>1, <4>2, <4>3, <4>4, <4>5 DEF RockContext
    <3>2. CASE x # c
      BY <1>2, <2>1, <3>2, CoreAssumption, SMTT(30) DEF RockInv, TypeOK, Typed, Fields,
          RockOwner, RockContext, RockShape, RockState, RockSlot, RockMember, RockLife,
          Taken, Kinds, TxnKinds, R!BeginView, R!IsOpen, R!StateLockFree, R!nativeVars,
          R!replicaVars
    <3> QED BY <3>1, <3>2
  <2>5. Contract!Next
    <3>1. GoesOnOrEnds(c)
      BY <1>2, <2>1, SMTT(30) DEF GoesOnOrEnds, RockInv, TypeOK, Typed, Fields, RockContext,
          RockShape, RockState, RockMember, RockOwner, Kinds, R!BeginView, R!IsOpen,
          R!StateLockFree, R!nativeVars, R!replicaVars
    <3> QED BY <2>1, <3>1, ContractEndsOne DEF RockInv
  <2> QED BY <2>2, <2>3, <2>4, <2>5 DEF RockInv
<1> QED BY <1>1, <1>2

LEMMA RockCheckActive ==
    ASSUME which = "RocksDB", RockInv, NEW c \in Contexts, R!CheckActive(c)
    PROVE  RockInv' /\ Contract!Next
<1>1. /\ Moves(c, "read")
      /\ UNCHANGED <<opened, active, db, life, lock, holder, owner, child, native, foreign,
                     mode, epoch, moved, astray>>
  BY SMTT(30) DEF RockInv, TypeOK, Typed, Fields, R!CheckActive, R!IsOpen, R!StateLockFree,
      R!nativeVars, R!replicaVars, RockContext, RockShape, RockState, RockOwner
<1>2. TypeOK'
  <2>1. Typed(ctx[c])'
    BY <1>1, SMTT(30) DEF RockInv, TypeOK, Typed, Fields, Places, States, Kinds, RockOwner
  <2>2. ASSUME NEW x \in Contexts \ {c} PROVE Typed(ctx[x])'
    BY <1>1, SMTT(30) DEF RockInv, TypeOK, Typed, Fields
  <2> QED
    BY <1>1, <2>1, <2>2, SMTT(30) DEF RockInv, TypeOK
<1>3. RockOwner'
  BY <1>1, SMTT(30) DEF RockInv, TypeOK, RockOwner, RockContext, RockShape, RockState,
      R!CheckActive, R!IsOpen, R!StateLockFree, R!nativeVars, R!replicaVars
<1>4. ASSUME NEW x \in Contexts PROVE RockContext(x)'
  <2>1. CASE x = c
    <3>1. RockShape(c)'
      BY <1>1, CoreAssumption, SMTT(30) DEF RockInv, TypeOK, Typed, Fields, RockOwner,
          RockContext, RockShape, RockState, RockSlot, RockMember, RockLife, Taken, Kinds,
          TxnKinds, R!CheckActive, R!IsOpen, R!StateLockFree, R!nativeVars, R!replicaVars
    <3>2. RockState(c)'
      BY <1>1, CoreAssumption, SMTT(30) DEF RockInv, TypeOK, Typed, Fields, RockOwner,
          RockContext, RockShape, RockState, RockSlot, RockMember, RockLife, Taken, Kinds,
          TxnKinds, R!CheckActive, R!IsOpen, R!StateLockFree, R!nativeVars, R!replicaVars
    <3>3. RockSlot(c)'
      BY <1>1, CoreAssumption, SMTT(30) DEF RockInv, TypeOK, Typed, Fields, RockOwner,
          RockContext, RockShape, RockState, RockSlot, RockMember, RockLife, Taken, Kinds,
          TxnKinds, R!CheckActive, R!IsOpen, R!StateLockFree, R!nativeVars, R!replicaVars
    <3>4. RockMember(c)'
      BY <1>1, CoreAssumption, SMTT(30) DEF RockInv, TypeOK, Typed, Fields, RockOwner,
          RockContext, RockShape, RockState, RockSlot, RockMember, RockLife, Taken, Kinds,
          TxnKinds, R!CheckActive, R!IsOpen, R!StateLockFree, R!nativeVars, R!replicaVars
    <3>5. RockLife(c)'
      BY <1>1, CoreAssumption, SMTT(30) DEF RockInv, TypeOK, Typed, Fields, RockOwner,
          RockContext, RockShape, RockState, RockSlot, RockMember, RockLife, Taken, Kinds,
          TxnKinds, R!CheckActive, R!IsOpen, R!StateLockFree, R!nativeVars, R!replicaVars
    <3> QED BY <2>1, <3>1, <3>2, <3>3, <3>4, <3>5 DEF RockContext
  <2>2. CASE x # c
    BY <1>1, <2>2, CoreAssumption, SMTT(30) DEF RockInv, TypeOK, Typed, Fields, RockOwner,
        RockContext, RockShape, RockState, RockSlot, RockMember, RockLife, Taken, Kinds,
        TxnKinds, R!CheckActive, R!IsOpen, R!StateLockFree, R!nativeVars, R!replicaVars
  <2> QED BY <2>1, <2>2
<1>5. Contract!Next
  <2>1. ctx[c].state = "active"
    BY SMTT(30) DEF RockInv, TypeOK, Typed, Fields, RockContext, RockShape, RockState,
        RockMember, RockOwner, Kinds, R!CheckActive, R!IsOpen, R!StateLockFree,
        R!nativeVars, R!replicaVars
  <2>2. Others(c)
    BY <1>1 DEF Others
  <2> QED BY <1>1, <2>1, <2>2, ContractStartsRead DEF RockInv
<1> QED BY <1>2, <1>3, <1>4, <1>5 DEF RockInv

LEMMA RockReadRaw ==
    ASSUME which = "RocksDB", RockInv, NEW c \in Contexts, R!ReadRaw(c)
    PROVE  RockInv' /\ Contract!Next
<1>1. CASE mode = "secondary" /\ ctx[c].life = life /\ native # 0
  <2>1. /\ Answers(c, db)
        /\ UNCHANGED <<opened, active, db, life, lock, holder, owner, child, native, foreign,
                       mode, epoch, moved, astray>>
    <3>1. ctx' = [ctx EXCEPT ![c] = [@ EXCEPT !.pc = "use", !.answer = db]]
      BY <1>1 DEF R!ReadRaw, R!IsOpen, R!StateLockFree, R!nativeVars, R!replicaVars
    <3>2. /\ UNCHANGED <<opened, active, db, life, lock, holder, owner, child, native, foreign,
                         mode, epoch, moved, astray>>
      BY <1>1 DEF R!ReadRaw, R!IsOpen, R!StateLockFree, R!nativeVars, R!replicaVars
    <3>4. Answers(c, db)
      BY <1>1, <3>1, SMTT(30) DEF RockInv, TypeOK, Typed, Fields
    <3> QED BY <3>2, <3>4
  <2>2. TypeOK'
    <3>1. Typed(ctx[c])'
      BY <1>1, <2>1, SMTT(30) DEF RockInv, TypeOK, Typed, Fields, Places, States, Kinds,
          RockOwner
    <3>2. ASSUME NEW x \in Contexts \ {c} PROVE Typed(ctx[x])'
      BY <2>1, SMTT(30) DEF RockInv, TypeOK, Typed, Fields
    <3> QED
      BY <1>1, <2>1, <3>1, <3>2, SMTT(30) DEF RockInv, TypeOK
  <2>3. RockOwner'
    BY <1>1, <2>1, SMTT(30) DEF RockInv, TypeOK, RockOwner, RockContext, RockShape,
        RockState, R!ReadRaw, R!IsOpen, R!StateLockFree, R!nativeVars, R!replicaVars
  <2>4. ASSUME NEW x \in Contexts PROVE RockContext(x)'
    <3>1. CASE x = c
      <4>1. RockShape(c)'
        BY <1>1, <2>1, CoreAssumption, SMTT(30) DEF RockInv, TypeOK, Typed, Fields,
            RockOwner, RockContext, RockShape, RockState, RockSlot, RockMember, RockLife,
            Taken, Kinds, TxnKinds, R!ReadRaw, R!IsOpen, R!StateLockFree, R!nativeVars,
            R!replicaVars
      <4>2. RockState(c)'
        BY <1>1, <2>1, CoreAssumption, SMTT(30) DEF RockInv, TypeOK, Typed, Fields,
            RockOwner, RockContext, RockShape, RockState, RockSlot, RockMember, RockLife,
            Taken, Kinds, TxnKinds, R!ReadRaw, R!IsOpen, R!StateLockFree, R!nativeVars,
            R!replicaVars
      <4>3. RockSlot(c)'
        BY <1>1, <2>1, CoreAssumption, SMTT(30) DEF RockInv, TypeOK, Typed, Fields,
            RockOwner, RockContext, RockShape, RockState, RockSlot, RockMember, RockLife,
            Taken, Kinds, TxnKinds, R!ReadRaw, R!IsOpen, R!StateLockFree, R!nativeVars,
            R!replicaVars
      <4>4. RockMember(c)'
        BY <1>1, <2>1, CoreAssumption, SMTT(30) DEF RockInv, TypeOK, Typed, Fields,
            RockOwner, RockContext, RockShape, RockState, RockSlot, RockMember, RockLife,
            Taken, Kinds, TxnKinds, R!ReadRaw, R!IsOpen, R!StateLockFree, R!nativeVars,
            R!replicaVars
      <4>5. RockLife(c)'
        BY <1>1, <2>1, CoreAssumption, SMTT(30) DEF RockInv, TypeOK, Typed, Fields,
            RockOwner, RockContext, RockShape, RockState, RockSlot, RockMember, RockLife,
            Taken, Kinds, TxnKinds, R!ReadRaw, R!IsOpen, R!StateLockFree, R!nativeVars,
            R!replicaVars
      <4> QED BY <3>1, <4>1, <4>2, <4>3, <4>4, <4>5 DEF RockContext
    <3>2. CASE x # c
      BY <1>1, <2>1, <3>2, CoreAssumption, SMTT(30) DEF RockInv, TypeOK, Typed, Fields,
          RockOwner, RockContext, RockShape, RockState, RockSlot, RockMember, RockLife,
          Taken, Kinds, TxnKinds, R!ReadRaw, R!IsOpen, R!StateLockFree, R!nativeVars,
          R!replicaVars
    <3> QED BY <3>1, <3>2
  <2>5. Contract!Next
    <3>1. /\ ctx[c].state = "active" \/ ctx[c].pc = "read"
          /\ ctx'[c].answer \in 0 .. db
          /\ ctx[c].state = "active" =>
                \/ ctx'[c].answer = ctx[c].base
                \/ ctx[c].kind = "snapshot" /\ moved /\ ctx'[c].answer = db
      BY <1>1, <2>1, SMTT(30) DEF RockInv, TypeOK, Typed, Fields, RockContext, RockShape,
          RockState, RockMember, RockOwner, Kinds, R!ReadRaw, R!IsOpen, R!StateLockFree,
          R!nativeVars, R!replicaVars, TxnKinds
    <3>2. /\ Others(c) /\ db' = db /\ ctx'[c].pc # "read" /\ ctx'[c].state = ctx[c].state
          /\ ctx'[c].life = ctx[c].life /\ ctx'[c].base = ctx[c].base
      BY <2>1 DEF Others
    <3> QED BY <3>1, <3>2, ContractReads DEF RockInv
  <2> QED BY <2>2, <2>3, <2>4, <2>5 DEF RockInv
<1>2. CASE ~(mode = "secondary" /\ ctx[c].life = life /\ native # 0) /\ ctx[c].token = native
  <2>1. /\ Answers(c, ctx[c].base)
        /\ UNCHANGED <<opened, active, db, life, lock, holder, owner, child, native, foreign,
                       mode, epoch, moved, astray>>
    <3>1. ctx' = [ctx EXCEPT ![c] = [@ EXCEPT !.pc = "use", !.answer = ctx[c].base]]
      BY <1>2 DEF R!ReadRaw, R!IsOpen, R!StateLockFree, R!nativeVars, R!replicaVars
    <3>2. /\ UNCHANGED <<opened, active, db, life, lock, holder, owner, child, native, foreign,
                         mode, epoch, moved, astray>>
      BY <1>2 DEF R!ReadRaw, R!IsOpen, R!StateLockFree, R!nativeVars, R!replicaVars
    <3>4. Answers(c, ctx[c].base)
      BY <1>2, <3>1, SMTT(30) DEF RockInv, TypeOK, Typed, Fields
    <3> QED BY <3>2, <3>4
  <2>2. TypeOK'
    <3>1. Typed(ctx[c])'
      BY <1>2, <2>1, SMTT(30) DEF RockInv, TypeOK, Typed, Fields, Places, States, Kinds,
          RockOwner
    <3>2. ASSUME NEW x \in Contexts \ {c} PROVE Typed(ctx[x])'
      BY <2>1, SMTT(30) DEF RockInv, TypeOK, Typed, Fields
    <3> QED
      BY <1>2, <2>1, <3>1, <3>2, SMTT(30) DEF RockInv, TypeOK
  <2>3. RockOwner'
    BY <1>2, <2>1, SMTT(30) DEF RockInv, TypeOK, RockOwner, RockContext, RockShape,
        RockState, R!ReadRaw, R!IsOpen, R!StateLockFree, R!nativeVars, R!replicaVars
  <2>4. ASSUME NEW x \in Contexts PROVE RockContext(x)'
    <3>1. CASE x = c
      <4>1. RockShape(c)'
        BY <1>2, <2>1, CoreAssumption, SMTT(30) DEF RockInv, TypeOK, Typed, Fields,
            RockOwner, RockContext, RockShape, RockState, RockSlot, RockMember, RockLife,
            Taken, Kinds, TxnKinds, R!ReadRaw, R!IsOpen, R!StateLockFree, R!nativeVars,
            R!replicaVars
      <4>2. RockState(c)'
        BY <1>2, <2>1, CoreAssumption, SMTT(30) DEF RockInv, TypeOK, Typed, Fields,
            RockOwner, RockContext, RockShape, RockState, RockSlot, RockMember, RockLife,
            Taken, Kinds, TxnKinds, R!ReadRaw, R!IsOpen, R!StateLockFree, R!nativeVars,
            R!replicaVars
      <4>3. RockSlot(c)'
        BY <1>2, <2>1, CoreAssumption, SMTT(30) DEF RockInv, TypeOK, Typed, Fields,
            RockOwner, RockContext, RockShape, RockState, RockSlot, RockMember, RockLife,
            Taken, Kinds, TxnKinds, R!ReadRaw, R!IsOpen, R!StateLockFree, R!nativeVars,
            R!replicaVars
      <4>4. RockMember(c)'
        BY <1>2, <2>1, CoreAssumption, SMTT(30) DEF RockInv, TypeOK, Typed, Fields,
            RockOwner, RockContext, RockShape, RockState, RockSlot, RockMember, RockLife,
            Taken, Kinds, TxnKinds, R!ReadRaw, R!IsOpen, R!StateLockFree, R!nativeVars,
            R!replicaVars
      <4>5. RockLife(c)'
        BY <1>2, <2>1, CoreAssumption, SMTT(30) DEF RockInv, TypeOK, Typed, Fields,
            RockOwner, RockContext, RockShape, RockState, RockSlot, RockMember, RockLife,
            Taken, Kinds, TxnKinds, R!ReadRaw, R!IsOpen, R!StateLockFree, R!nativeVars,
            R!replicaVars
      <4> QED BY <3>1, <4>1, <4>2, <4>3, <4>4, <4>5 DEF RockContext
    <3>2. CASE x # c
      BY <1>2, <2>1, <3>2, CoreAssumption, SMTT(30) DEF RockInv, TypeOK, Typed, Fields,
          RockOwner, RockContext, RockShape, RockState, RockSlot, RockMember, RockLife,
          Taken, Kinds, TxnKinds, R!ReadRaw, R!IsOpen, R!StateLockFree, R!nativeVars,
          R!replicaVars
    <3> QED BY <3>1, <3>2
  <2>5. Contract!Next
    <3>1. /\ ctx[c].state = "active" \/ ctx[c].pc = "read"
          /\ ctx'[c].answer \in 0 .. db
          /\ ctx[c].state = "active" =>
                \/ ctx'[c].answer = ctx[c].base
                \/ ctx[c].kind = "snapshot" /\ moved /\ ctx'[c].answer = db
      BY <1>2, <2>1, SMTT(30) DEF RockInv, TypeOK, Typed, Fields, RockContext, RockShape,
          RockState, RockMember, RockOwner, Kinds, R!ReadRaw, R!IsOpen, R!StateLockFree,
          R!nativeVars, R!replicaVars, TxnKinds
    <3>2. /\ Others(c) /\ db' = db /\ ctx'[c].pc # "read" /\ ctx'[c].state = ctx[c].state
          /\ ctx'[c].life = ctx[c].life /\ ctx'[c].base = ctx[c].base
      BY <2>1 DEF Others
    <3> QED BY <3>1, <3>2, ContractReads DEF RockInv
  <2> QED BY <2>2, <2>3, <2>4, <2>5 DEF RockInv
<1>3. CASE ~(mode = "secondary" /\ ctx[c].life = life /\ native # 0) /\ ctx[c].token # native
  <2>1. /\ Moves(c, "use")
        /\ UNCHANGED <<opened, active, db, life, lock, holder, owner, child, native, foreign,
                       mode, epoch, moved, astray>>
    <3>1. ctx' = [ctx EXCEPT ![c] = [@ EXCEPT !.pc = "use", !.answer = ctx[c].answer]]
      BY <1>3 DEF R!ReadRaw, R!IsOpen, R!StateLockFree, R!nativeVars, R!replicaVars
    <3>2. /\ UNCHANGED <<opened, active, db, life, lock, holder, owner, child, native, foreign,
                         mode, epoch, moved, astray>>
      BY <1>3 DEF R!ReadRaw, R!IsOpen, R!StateLockFree, R!nativeVars, R!replicaVars
    <3>4. Moves(c, "use")
      BY <1>3, <3>1, SMTT(30) DEF RockInv, TypeOK, Typed, Fields
    <3> QED BY <3>2, <3>4
  <2>2. TypeOK'
    <3>1. Typed(ctx[c])'
      BY <1>3, <2>1, SMTT(30) DEF RockInv, TypeOK, Typed, Fields, Places, States, Kinds,
          RockOwner
    <3>2. ASSUME NEW x \in Contexts \ {c} PROVE Typed(ctx[x])'
      BY <2>1, SMTT(30) DEF RockInv, TypeOK, Typed, Fields
    <3> QED
      BY <1>3, <2>1, <3>1, <3>2, SMTT(30) DEF RockInv, TypeOK
  <2>3. RockOwner'
    BY <1>3, <2>1, SMTT(30) DEF RockInv, TypeOK, RockOwner, RockContext, RockShape,
        RockState, R!ReadRaw, R!IsOpen, R!StateLockFree, R!nativeVars, R!replicaVars
  <2>4. ASSUME NEW x \in Contexts PROVE RockContext(x)'
    <3>1. CASE x = c
      <4>1. RockShape(c)'
        BY <1>3, <2>1, CoreAssumption, SMTT(30) DEF RockInv, TypeOK, Typed, Fields,
            RockOwner, RockContext, RockShape, RockState, RockSlot, RockMember, RockLife,
            Taken, Kinds, TxnKinds, R!ReadRaw, R!IsOpen, R!StateLockFree, R!nativeVars,
            R!replicaVars
      <4>2. RockState(c)'
        BY <1>3, <2>1, CoreAssumption, SMTT(30) DEF RockInv, TypeOK, Typed, Fields,
            RockOwner, RockContext, RockShape, RockState, RockSlot, RockMember, RockLife,
            Taken, Kinds, TxnKinds, R!ReadRaw, R!IsOpen, R!StateLockFree, R!nativeVars,
            R!replicaVars
      <4>3. RockSlot(c)'
        BY <1>3, <2>1, CoreAssumption, SMTT(30) DEF RockInv, TypeOK, Typed, Fields,
            RockOwner, RockContext, RockShape, RockState, RockSlot, RockMember, RockLife,
            Taken, Kinds, TxnKinds, R!ReadRaw, R!IsOpen, R!StateLockFree, R!nativeVars,
            R!replicaVars
      <4>4. RockMember(c)'
        BY <1>3, <2>1, CoreAssumption, SMTT(30) DEF RockInv, TypeOK, Typed, Fields,
            RockOwner, RockContext, RockShape, RockState, RockSlot, RockMember, RockLife,
            Taken, Kinds, TxnKinds, R!ReadRaw, R!IsOpen, R!StateLockFree, R!nativeVars,
            R!replicaVars
      <4>5. RockLife(c)'
        BY <1>3, <2>1, CoreAssumption, SMTT(30) DEF RockInv, TypeOK, Typed, Fields,
            RockOwner, RockContext, RockShape, RockState, RockSlot, RockMember, RockLife,
            Taken, Kinds, TxnKinds, R!ReadRaw, R!IsOpen, R!StateLockFree, R!nativeVars,
            R!replicaVars
      <4> QED BY <3>1, <4>1, <4>2, <4>3, <4>4, <4>5 DEF RockContext
    <3>2. CASE x # c
      BY <1>3, <2>1, <3>2, CoreAssumption, SMTT(30) DEF RockInv, TypeOK, Typed, Fields,
          RockOwner, RockContext, RockShape, RockState, RockSlot, RockMember, RockLife,
          Taken, Kinds, TxnKinds, R!ReadRaw, R!IsOpen, R!StateLockFree, R!nativeVars,
          R!replicaVars
    <3> QED BY <3>1, <3>2
  <2>5. Contract!Next
    <3>1. GoesOnOrEnds(c)
      BY <1>3, <2>1, SMTT(30) DEF GoesOnOrEnds, RockInv, TypeOK, Typed, Fields, RockContext,
          RockShape, RockState, RockMember, RockOwner, Kinds, R!ReadRaw, R!IsOpen,
          R!StateLockFree, R!nativeVars, R!replicaVars
    <3> QED BY <2>1, <3>1, ContractEndsOne DEF RockInv
  <2> QED BY <2>2, <2>3, <2>4, <2>5 DEF RockInv
<1> QED BY <1>1, <1>2, <1>3

LEMMA RockCommit ==
    ASSUME which = "RocksDB", RockInv, NEW c \in Contexts, R!Commit(c)
    PROVE  RockInv' /\ (astray' = {} => Contract!Next)
<1>1. CASE ctx[c].closed
  <2>1. /\ Moves(c, "done")
        /\ UNCHANGED <<opened, active, db, life, lock, holder, owner, child, native, foreign,
                       mode, epoch, moved, astray>>
    <3>1. ctx' = [ctx EXCEPT ![c].pc = "done"]
      BY <1>1 DEF R!Commit, R!IsOpen, R!StateLockFree, R!nativeVars, R!replicaVars
    <3>2. /\ UNCHANGED <<opened, active, db, life, lock, holder, owner, child, native, foreign,
                         mode, epoch, moved, astray>>
      BY <1>1 DEF R!Commit, R!IsOpen, R!StateLockFree, R!nativeVars, R!replicaVars
    <3>4. Moves(c, "done")
      BY <3>1, SMTT(30) DEF RockInv, TypeOK, Typed, Fields
    <3> QED BY <3>2, <3>4
  <2>2. TypeOK'
    <3>1. Typed(ctx[c])'
      BY <1>1, <2>1, SMTT(30) DEF RockInv, TypeOK, Typed, Fields, Places, States, Kinds,
          RockOwner
    <3>2. ASSUME NEW x \in Contexts \ {c} PROVE Typed(ctx[x])'
      BY <2>1, SMTT(30) DEF RockInv, TypeOK, Typed, Fields
    <3> QED
      BY <1>1, <2>1, <3>1, <3>2, SMTT(30) DEF RockInv, TypeOK
  <2>3. RockOwner'
    BY <1>1, <2>1, SMTT(30) DEF RockInv, TypeOK, RockOwner, RockContext, RockShape,
        RockState, R!Commit, R!IsOpen, R!StateLockFree, R!nativeVars, R!replicaVars
  <2>4. ASSUME NEW x \in Contexts PROVE RockContext(x)'
    <3>1. CASE x = c
      <4>1. RockShape(c)'
        BY <1>1, <2>1, CoreAssumption, SMTT(30) DEF RockInv, TypeOK, Typed, Fields,
            RockOwner, RockContext, RockShape, RockState, RockSlot, RockMember, RockLife,
            Taken, Kinds, TxnKinds, R!Commit, R!IsOpen, R!StateLockFree, R!nativeVars,
            R!replicaVars
      <4>2. RockState(c)'
        BY <1>1, <2>1, CoreAssumption, SMTT(30) DEF RockInv, TypeOK, Typed, Fields,
            RockOwner, RockContext, RockShape, RockState, RockSlot, RockMember, RockLife,
            Taken, Kinds, TxnKinds, R!Commit, R!IsOpen, R!StateLockFree, R!nativeVars,
            R!replicaVars
      <4>3. RockSlot(c)'
        BY <1>1, <2>1, CoreAssumption, SMTT(30) DEF RockInv, TypeOK, Typed, Fields,
            RockOwner, RockContext, RockShape, RockState, RockSlot, RockMember, RockLife,
            Taken, Kinds, TxnKinds, R!Commit, R!IsOpen, R!StateLockFree, R!nativeVars,
            R!replicaVars
      <4>4. RockMember(c)'
        BY <1>1, <2>1, CoreAssumption, SMTT(30) DEF RockInv, TypeOK, Typed, Fields,
            RockOwner, RockContext, RockShape, RockState, RockSlot, RockMember, RockLife,
            Taken, Kinds, TxnKinds, R!Commit, R!IsOpen, R!StateLockFree, R!nativeVars,
            R!replicaVars
      <4>5. RockLife(c)'
        BY <1>1, <2>1, CoreAssumption, SMTT(30) DEF RockInv, TypeOK, Typed, Fields,
            RockOwner, RockContext, RockShape, RockState, RockSlot, RockMember, RockLife,
            Taken, Kinds, TxnKinds, R!Commit, R!IsOpen, R!StateLockFree, R!nativeVars,
            R!replicaVars
      <4> QED BY <3>1, <4>1, <4>2, <4>3, <4>4, <4>5 DEF RockContext
    <3>2. CASE x # c
      BY <1>1, <2>1, <3>2, CoreAssumption, SMTT(30) DEF RockInv, TypeOK, Typed, Fields,
          RockOwner, RockContext, RockShape, RockState, RockSlot, RockMember, RockLife,
          Taken, Kinds, TxnKinds, R!Commit, R!IsOpen, R!StateLockFree, R!nativeVars,
          R!replicaVars
    <3> QED BY <3>1, <3>2
  <2>5. Contract!Next
    <3>1. GoesOnOrEnds(c)
      BY <1>1, <2>1, SMTT(30) DEF GoesOnOrEnds, RockInv, TypeOK, Typed, Fields, RockContext,
          RockShape, RockState, RockMember, RockOwner, Kinds, R!Commit, R!IsOpen,
          R!StateLockFree, R!nativeVars, R!replicaVars
    <3> QED BY <2>1, <3>1, ContractEndsOne DEF RockInv
  <2> QED BY <2>2, <2>3, <2>4, <2>5 DEF RockInv
<1>2. CASE /\ ~ctx[c].closed /\ ctx[c].token = native /\ db' = db + 1
           /\ ctx' = [ctx EXCEPT ![c] = [@ EXCEPT !.pc = "end", !.state = "committed"]]
  <2>1. /\ Ends(c, "end", ctx[c].closed, "committed")
        /\ db' = db + 1
        /\ UNCHANGED <<opened, active, life, lock, holder, owner, child, native, foreign, mode,
                       epoch, moved, astray>>
    <3>1. ctx' = [ctx EXCEPT ![c] = [@ EXCEPT !.pc = "end", !.state = "committed"]]
      BY <1>2 DEF R!Commit, R!IsOpen, R!StateLockFree, R!nativeVars, R!replicaVars
    <3>2. /\ db' = db + 1
          /\ UNCHANGED <<opened, active, life, lock, holder, owner, child, native, foreign,
                         mode, epoch, moved, astray>>
      BY <1>2 DEF R!Commit, R!IsOpen, R!StateLockFree, R!nativeVars, R!replicaVars
    <3>4. Ends(c, "end", ctx[c].closed, "committed")
      BY <1>2, <3>1, SMTT(30) DEF RockInv, TypeOK, Typed, Fields
    <3> QED BY <3>2, <3>4
  <2>2. TypeOK'
    <3>0. ctx'[c].closed \in BOOLEAN
      BY <2>1 DEF RockInv, TypeOK, Typed
    <3>1. Typed(ctx[c])'
      BY <1>2, <2>1, <3>0, SMTT(30) DEF RockInv, TypeOK, Typed, Fields, Places, States,
          Kinds, RockOwner
    <3>2. ASSUME NEW x \in Contexts \ {c} PROVE Typed(ctx[x])'
      BY <2>1, SMTT(30) DEF RockInv, TypeOK, Typed, Fields
    <3> QED
      BY <1>2, <2>1, <3>1, <3>2, SMTT(30) DEF RockInv, TypeOK
  <2>3. RockOwner'
    BY <1>2, <2>1, SMTT(30) DEF RockInv, TypeOK, RockOwner, RockContext, RockShape,
        RockState, R!Commit, R!IsOpen, R!StateLockFree, R!nativeVars, R!replicaVars
  <2>4. ASSUME NEW x \in Contexts PROVE RockContext(x)'
    <3>1. CASE x = c
      <4>1. RockShape(c)'
        BY <1>2, <2>1, CoreAssumption, SMTT(30) DEF RockInv, TypeOK, Typed, Fields,
            RockOwner, RockContext, RockShape, RockState, RockSlot, RockMember, RockLife,
            Taken, Kinds, TxnKinds, R!Commit, R!IsOpen, R!StateLockFree, R!nativeVars,
            R!replicaVars
      <4>2. RockState(c)'
        BY <1>2, <2>1, CoreAssumption, SMTT(30) DEF RockInv, TypeOK, Typed, Fields,
            RockOwner, RockContext, RockShape, RockState, RockSlot, RockMember, RockLife,
            Taken, Kinds, TxnKinds, R!Commit, R!IsOpen, R!StateLockFree, R!nativeVars,
            R!replicaVars
      <4>3. RockSlot(c)'
        BY <1>2, <2>1, CoreAssumption, SMTT(30) DEF RockInv, TypeOK, Typed, Fields,
            RockOwner, RockContext, RockShape, RockState, RockSlot, RockMember, RockLife,
            Taken, Kinds, TxnKinds, R!Commit, R!IsOpen, R!StateLockFree, R!nativeVars,
            R!replicaVars
      <4>4. RockMember(c)'
        BY <1>2, <2>1, CoreAssumption, SMTT(30) DEF RockInv, TypeOK, Typed, Fields,
            RockOwner, RockContext, RockShape, RockState, RockSlot, RockMember, RockLife,
            Taken, Kinds, TxnKinds, R!Commit, R!IsOpen, R!StateLockFree, R!nativeVars,
            R!replicaVars
      <4>5. RockLife(c)'
        BY <1>2, <2>1, CoreAssumption, SMTT(30) DEF RockInv, TypeOK, Typed, Fields,
            RockOwner, RockContext, RockShape, RockState, RockSlot, RockMember, RockLife,
            Taken, Kinds, TxnKinds, R!Commit, R!IsOpen, R!StateLockFree, R!nativeVars,
            R!replicaVars
      <4> QED BY <3>1, <4>1, <4>2, <4>3, <4>4, <4>5 DEF RockContext
    <3>2. CASE x # c
      BY <1>2, <2>1, <3>2, CoreAssumption, SMTT(30) DEF RockInv, TypeOK, Typed, Fields,
          RockOwner, RockContext, RockShape, RockState, RockSlot, RockMember, RockLife,
          Taken, Kinds, TxnKinds, R!Commit, R!IsOpen, R!StateLockFree, R!nativeVars,
          R!replicaVars
    <3> QED BY <3>1, <3>2
  <2>5. ASSUME astray' = {} PROVE Contract!Next
    <3>1. /\ ctx[c].state = "active" /\ ctx[c].pc # "read"
          /\ ctx[c].life = life
          /\ ctx[c].kind = "batch" \/ ctx[c].base = db
      BY <1>2, <2>1, <2>5, SMTT(30) DEF RockInv, TypeOK, Typed, Fields, RockContext,
          RockShape, RockState, RockMember, RockOwner, Kinds, R!Commit, R!IsOpen,
          R!StateLockFree, R!nativeVars, R!replicaVars, RockSlot, RockLife, Taken, TxnKinds
    <3>2. /\ Others(c) /\ db' = db + 1 /\ ctx'[c].pc # "read" /\ ctx'[c].state = "committed"
          /\ ctx'[c].answer = ctx[c].answer
          /\ ctx'[c].life = ctx[c].life /\ ctx'[c].base = ctx[c].base
      BY <2>1 DEF Others
    <3> QED BY <3>1, <3>2, ContractCommits DEF RockInv
  <2> QED BY <2>2, <2>3, <2>4, <2>5 DEF RockInv
<1>3. CASE /\ ~ctx[c].closed /\ db' = db
           /\ ctx' = [ctx EXCEPT ![c] = [@ EXCEPT !.pc = "end", !.state = R!Over(c)]]
  <2>1. /\ Ends(c, "end", ctx[c].closed, R!Over(c))
        /\ UNCHANGED <<opened, active, db, life, lock, holder, owner, child, native, foreign,
                       mode, epoch, moved, astray>>
    BY <1>3, SMTT(30) DEF RockInv, TypeOK, Typed, Fields, R!Commit, R!IsOpen,
        R!StateLockFree, R!nativeVars, R!replicaVars, RockContext, RockShape, RockState,
        RockOwner
  <2>2. TypeOK'
    <3>0. ctx'[c].closed \in BOOLEAN
      BY <2>1 DEF RockInv, TypeOK, Typed
    <3>1. Typed(ctx[c])'
      BY <1>3, <2>1, <3>0, SMTT(30) DEF RockInv, TypeOK, Typed, Fields, Places, States,
          Kinds, RockOwner
    <3>2. ASSUME NEW x \in Contexts \ {c} PROVE Typed(ctx[x])'
      BY <2>1, SMTT(30) DEF RockInv, TypeOK, Typed, Fields
    <3> QED
      BY <1>3, <2>1, <3>1, <3>2, SMTT(30) DEF RockInv, TypeOK
  <2>3. RockOwner'
    BY <1>3, <2>1, SMTT(30) DEF RockInv, TypeOK, RockOwner, RockContext, RockShape,
        RockState, R!Commit, R!IsOpen, R!StateLockFree, R!nativeVars, R!replicaVars
  <2>4. ASSUME NEW x \in Contexts PROVE RockContext(x)'
    <3>1. CASE x = c
      <4>1. RockShape(c)'
        BY <1>3, <2>1, CoreAssumption, SMTT(30) DEF RockInv, TypeOK, Typed, Fields,
            RockOwner, RockContext, RockShape, RockState, RockSlot, RockMember, RockLife,
            Taken, Kinds, TxnKinds, R!Commit, R!IsOpen, R!StateLockFree, R!nativeVars,
            R!replicaVars
      <4>2. RockState(c)'
        BY <1>3, <2>1, CoreAssumption, SMTT(30) DEF RockInv, TypeOK, Typed, Fields,
            RockOwner, RockContext, RockShape, RockState, RockSlot, RockMember, RockLife,
            Taken, Kinds, TxnKinds, R!Commit, R!IsOpen, R!StateLockFree, R!nativeVars,
            R!replicaVars
      <4>3. RockSlot(c)'
        BY <1>3, <2>1, CoreAssumption, SMTT(30) DEF RockInv, TypeOK, Typed, Fields,
            RockOwner, RockContext, RockShape, RockState, RockSlot, RockMember, RockLife,
            Taken, Kinds, TxnKinds, R!Commit, R!IsOpen, R!StateLockFree, R!nativeVars,
            R!replicaVars
      <4>4. RockMember(c)'
        BY <1>3, <2>1, CoreAssumption, SMTT(30) DEF RockInv, TypeOK, Typed, Fields,
            RockOwner, RockContext, RockShape, RockState, RockSlot, RockMember, RockLife,
            Taken, Kinds, TxnKinds, R!Commit, R!IsOpen, R!StateLockFree, R!nativeVars,
            R!replicaVars
      <4>5. RockLife(c)'
        BY <1>3, <2>1, CoreAssumption, SMTT(30) DEF RockInv, TypeOK, Typed, Fields,
            RockOwner, RockContext, RockShape, RockState, RockSlot, RockMember, RockLife,
            Taken, Kinds, TxnKinds, R!Commit, R!IsOpen, R!StateLockFree, R!nativeVars,
            R!replicaVars
      <4> QED BY <3>1, <4>1, <4>2, <4>3, <4>4, <4>5 DEF RockContext
    <3>2. CASE x # c
      BY <1>3, <2>1, <3>2, CoreAssumption, SMTT(30) DEF RockInv, TypeOK, Typed, Fields,
          RockOwner, RockContext, RockShape, RockState, RockSlot, RockMember, RockLife,
          Taken, Kinds, TxnKinds, R!Commit, R!IsOpen, R!StateLockFree, R!nativeVars,
          R!replicaVars
    <3> QED BY <3>1, <3>2
  <2>5. Contract!Next
    <3>1. GoesOnOrEnds(c)
      BY <1>3, <2>1, SMTT(30) DEF GoesOnOrEnds, RockInv, TypeOK, Typed, Fields, RockContext,
          RockShape, RockState, RockMember, RockOwner, Kinds, R!Commit, R!IsOpen,
          R!StateLockFree, R!nativeVars, R!replicaVars
    <3> QED BY <2>1, <3>1, ContractEndsOne DEF RockInv
  <2> QED BY <2>2, <2>3, <2>4, <2>5 DEF RockInv
<1> QED BY <1>1, <1>2, <1>3 DEF R!Commit

LEMMA RockMarkClosed ==
    ASSUME which = "RocksDB", RockInv, NEW c \in Contexts, R!MarkClosed(c)
    PROVE  RockInv' /\ Contract!Next
<1>1. /\ Ends(c, "done", TRUE, ctx[c].state)
      /\ holder' = R!Released(c)
      /\ active' = active \ {c}
      /\ UNCHANGED <<opened, db, life, lock, owner, child, native, foreign, mode, epoch, moved,
                     astray>>
  BY SMTT(30) DEF RockInv, TypeOK, Typed, Fields, R!MarkClosed, R!Closed, R!IsOpen,
      R!StateLockFree, R!nativeVars, R!replicaVars, RockContext, RockShape, RockState,
      RockOwner
<1>2. TypeOK'
  <2>0. ctx'[c].closed \in BOOLEAN
    BY <1>1 DEF RockInv, TypeOK, Typed
  <2>1. Typed(ctx[c])'
    BY <1>1, <2>0, SMTT(30) DEF RockInv, TypeOK, Typed, Fields, Places, States, Kinds,
        RockOwner
  <2>2. ASSUME NEW x \in Contexts \ {c} PROVE Typed(ctx[x])'
    BY <1>1, SMTT(30) DEF RockInv, TypeOK, Typed, Fields
  <2> QED
    BY <1>1, <2>1, <2>2, SMTT(30) DEF RockInv, TypeOK
<1>3. RockOwner'
  BY <1>1, SMTT(30) DEF RockInv, TypeOK, RockOwner, RockContext, RockShape, RockState,
      R!MarkClosed, R!Closed, R!IsOpen, R!StateLockFree, R!nativeVars, R!replicaVars
<1>4. ASSUME NEW x \in Contexts PROVE RockContext(x)'
  <2>1. CASE x = c
    <3>1. RockShape(c)'
      BY <1>1, CoreAssumption, SMTT(30) DEF RockInv, TypeOK, Typed, Fields, RockOwner,
          RockContext, RockShape, RockState, RockSlot, RockMember, RockLife, Taken, Kinds,
          TxnKinds, R!MarkClosed, R!Closed, R!IsOpen, R!StateLockFree, R!nativeVars,
          R!replicaVars
    <3>2. RockState(c)'
      BY <1>1, CoreAssumption, SMTT(30) DEF RockInv, TypeOK, Typed, Fields, RockOwner,
          RockContext, RockShape, RockState, RockSlot, RockMember, RockLife, Taken, Kinds,
          TxnKinds, R!MarkClosed, R!Closed, R!IsOpen, R!StateLockFree, R!nativeVars,
          R!replicaVars
    <3>3. RockSlot(c)'
      BY <1>1, CoreAssumption, SMTT(30) DEF RockInv, TypeOK, Typed, Fields, RockOwner,
          RockContext, RockShape, RockState, RockSlot, RockMember, RockLife, Taken, Kinds,
          TxnKinds, R!MarkClosed, R!Closed, R!IsOpen, R!StateLockFree, R!nativeVars,
          R!replicaVars
    <3>4. RockMember(c)'
      BY <1>1, CoreAssumption, SMTT(30) DEF RockInv, TypeOK, Typed, Fields, RockOwner,
          RockContext, RockShape, RockState, RockSlot, RockMember, RockLife, Taken, Kinds,
          TxnKinds, R!MarkClosed, R!Closed, R!IsOpen, R!StateLockFree, R!nativeVars,
          R!replicaVars
    <3>5. RockLife(c)'
      BY <1>1, CoreAssumption, SMTT(30) DEF RockInv, TypeOK, Typed, Fields, RockOwner,
          RockContext, RockShape, RockState, RockSlot, RockMember, RockLife, Taken, Kinds,
          TxnKinds, R!MarkClosed, R!Closed, R!IsOpen, R!StateLockFree, R!nativeVars,
          R!replicaVars
    <3> QED BY <2>1, <3>1, <3>2, <3>3, <3>4, <3>5 DEF RockContext
  <2>2. CASE x # c
    BY <1>1, <2>2, CoreAssumption, SMTT(30) DEF RockInv, TypeOK, Typed, Fields, RockOwner,
        RockContext, RockShape, RockState, RockSlot, RockMember, RockLife, Taken, Kinds,
        TxnKinds, R!MarkClosed, R!Closed, R!IsOpen, R!StateLockFree, R!nativeVars,
        R!replicaVars
  <2> QED BY <2>1, <2>2
<1>5. Contract!Next
  <2>1. GoesOnOrEnds(c)
    BY <1>1, SMTT(30) DEF GoesOnOrEnds, RockInv, TypeOK, Typed, Fields, RockContext,
        RockShape, RockState, RockMember, RockOwner, Kinds, R!MarkClosed, R!Closed,
        R!IsOpen, R!StateLockFree, R!nativeVars, R!replicaVars
  <2> QED BY <1>1, <2>1, ContractEndsOne DEF RockInv
<1> QED BY <1>2, <1>3, <1>4, <1>5 DEF RockInv

LEMMA RockWrite ==
    ASSUME which = "RocksDB", RockInv, NEW c \in Contexts, R!Write(c)
    PROVE  RockInv' /\ Contract!Next
<1>1. /\ Moves(c, IF ctx[c].closed THEN "done" ELSE IF ~R!IsOpen THEN "use" ELSE "take")
      /\ UNCHANGED <<opened, active, db, life, lock, holder, owner, child, native, foreign,
                     mode, epoch, moved, astray>>
  BY SMTT(30) DEF RockInv, TypeOK, Typed, Fields, R!Write, R!IsOpen, R!StateLockFree,
      R!nativeVars, R!replicaVars, RockContext, RockShape, RockState, RockOwner
<1>2. TypeOK'
  <2>1. Typed(ctx[c])'
    BY <1>1, SMTT(30) DEF RockInv, TypeOK, Typed, Fields, Places, States, Kinds, RockOwner
  <2>2. ASSUME NEW x \in Contexts \ {c} PROVE Typed(ctx[x])'
    BY <1>1, SMTT(30) DEF RockInv, TypeOK, Typed, Fields
  <2> QED
    BY <1>1, <2>1, <2>2, SMTT(30) DEF RockInv, TypeOK
<1>3. RockOwner'
  BY <1>1, SMTT(30) DEF RockInv, TypeOK, RockOwner, RockContext, RockShape, RockState,
      R!Write, R!IsOpen, R!StateLockFree, R!nativeVars, R!replicaVars
<1>4. ASSUME NEW x \in Contexts PROVE RockContext(x)'
  <2>1. CASE x = c
    <3>1. RockShape(c)'
      BY <1>1, CoreAssumption, SMTT(30) DEF RockInv, TypeOK, Typed, Fields, RockOwner,
          RockContext, RockShape, RockState, RockSlot, RockMember, RockLife, Taken, Kinds,
          TxnKinds, R!Write, R!IsOpen, R!StateLockFree, R!nativeVars, R!replicaVars
    <3>2. RockState(c)'
      BY <1>1, CoreAssumption, SMTT(30) DEF RockInv, TypeOK, Typed, Fields, RockOwner,
          RockContext, RockShape, RockState, RockSlot, RockMember, RockLife, Taken, Kinds,
          TxnKinds, R!Write, R!IsOpen, R!StateLockFree, R!nativeVars, R!replicaVars
    <3>3. RockSlot(c)'
      BY <1>1, CoreAssumption, SMTT(30) DEF RockInv, TypeOK, Typed, Fields, RockOwner,
          RockContext, RockShape, RockState, RockSlot, RockMember, RockLife, Taken, Kinds,
          TxnKinds, R!Write, R!IsOpen, R!StateLockFree, R!nativeVars, R!replicaVars
    <3>4. RockMember(c)'
      BY <1>1, CoreAssumption, SMTT(30) DEF RockInv, TypeOK, Typed, Fields, RockOwner,
          RockContext, RockShape, RockState, RockSlot, RockMember, RockLife, Taken, Kinds,
          TxnKinds, R!Write, R!IsOpen, R!StateLockFree, R!nativeVars, R!replicaVars
    <3>5. RockLife(c)'
      BY <1>1, CoreAssumption, SMTT(30) DEF RockInv, TypeOK, Typed, Fields, RockOwner,
          RockContext, RockShape, RockState, RockSlot, RockMember, RockLife, Taken, Kinds,
          TxnKinds, R!Write, R!IsOpen, R!StateLockFree, R!nativeVars, R!replicaVars
    <3> QED BY <2>1, <3>1, <3>2, <3>3, <3>4, <3>5 DEF RockContext
  <2>2. CASE x # c
    BY <1>1, <2>2, CoreAssumption, SMTT(30) DEF RockInv, TypeOK, Typed, Fields, RockOwner,
        RockContext, RockShape, RockState, RockSlot, RockMember, RockLife, Taken, Kinds,
        TxnKinds, R!Write, R!IsOpen, R!StateLockFree, R!nativeVars, R!replicaVars
  <2> QED BY <2>1, <2>2
<1>5. Contract!Next
  <2>1. GoesOnOrEnds(c)
    BY <1>1, SMTT(30) DEF GoesOnOrEnds, RockInv, TypeOK, Typed, Fields, RockContext,
        RockShape, RockState, RockMember, RockOwner, Kinds, R!Write, R!IsOpen,
        R!StateLockFree, R!nativeVars, R!replicaVars
  <2> QED BY <1>1, <2>1, ContractEndsOne DEF RockInv
<1> QED BY <1>2, <1>3, <1>4, <1>5 DEF RockInv

LEMMA RockRecheckBatch ==
    ASSUME which = "RocksDB", RockInv, NEW c \in Contexts, R!RecheckBatch(c)
    PROVE  RockInv' /\ Contract!Next
<1>1. CASE R!IsOpen
  <2>1. /\ Begins(c, "apply", ctx[c].token)
        /\ astray' = IF ctx[c].lock # lock THEN astray \cup {c} ELSE astray
        /\ UNCHANGED <<opened, active, db, life, lock, holder, owner, child, native, foreign,
                       mode, epoch, moved>>
    <3>1. ctx' = [ctx EXCEPT ![c] = R!Began(c, "apply")]
      BY <1>1 DEF R!RecheckBatch, R!IsOpen, R!StateLockFree, R!nativeVars, R!replicaVars
    <3>2. /\ astray' = IF ctx[c].lock # lock THEN astray \cup {c} ELSE astray
          /\ UNCHANGED <<opened, active, db, life, lock, holder, owner, child, native, foreign,
                         mode, epoch, moved>>
      BY <1>1 DEF R!RecheckBatch, R!IsOpen, R!StateLockFree, R!nativeVars, R!replicaVars
    <3>4. Begins(c, "apply", ctx[c].token)
      BY <1>1, <3>1, SMTT(30) DEF RockInv, TypeOK, Typed, Fields
    <3> QED BY <3>2, <3>4
  <2>2. TypeOK'
    <3>1. Typed(ctx[c])'
      BY <1>1, <2>1, SMTT(30) DEF RockInv, TypeOK, Typed, Fields, Places, States, Kinds,
          RockOwner
    <3>2. ASSUME NEW x \in Contexts \ {c} PROVE Typed(ctx[x])'
      BY <2>1, SMTT(30) DEF RockInv, TypeOK, Typed, Fields
    <3> QED
      BY <1>1, <2>1, <3>1, <3>2, SMTT(30) DEF RockInv, TypeOK
  <2>3. RockOwner'
    BY <1>1, <2>1, SMTT(30) DEF RockInv, TypeOK, RockOwner, RockContext, RockShape,
        RockState, R!RecheckBatch, R!IsOpen, R!StateLockFree, R!nativeVars, R!replicaVars
  <2>4. ASSUME NEW x \in Contexts PROVE RockContext(x)'
    <3>1. CASE x = c
      <4>1. RockShape(c)'
        BY <1>1, <2>1, CoreAssumption, SMTT(30) DEF RockInv, TypeOK, Typed, Fields,
            RockOwner, RockContext, RockShape, RockState, RockSlot, RockMember, RockLife,
            Taken, Kinds, TxnKinds, R!RecheckBatch, R!IsOpen, R!StateLockFree, R!nativeVars,
            R!replicaVars
      <4>2. RockState(c)'
        BY <1>1, <2>1, CoreAssumption, SMTT(30) DEF RockInv, TypeOK, Typed, Fields,
            RockOwner, RockContext, RockShape, RockState, RockSlot, RockMember, RockLife,
            Taken, Kinds, TxnKinds, R!RecheckBatch, R!IsOpen, R!StateLockFree, R!nativeVars,
            R!replicaVars
      <4>3. RockSlot(c)'
        BY <1>1, <2>1, CoreAssumption, SMTT(30) DEF RockInv, TypeOK, Typed, Fields,
            RockOwner, RockContext, RockShape, RockState, RockSlot, RockMember, RockLife,
            Taken, Kinds, TxnKinds, R!RecheckBatch, R!IsOpen, R!StateLockFree, R!nativeVars,
            R!replicaVars
      <4>4. RockMember(c)'
        BY <1>1, <2>1, CoreAssumption, SMTT(30) DEF RockInv, TypeOK, Typed, Fields,
            RockOwner, RockContext, RockShape, RockState, RockSlot, RockMember, RockLife,
            Taken, Kinds, TxnKinds, R!RecheckBatch, R!IsOpen, R!StateLockFree, R!nativeVars,
            R!replicaVars
      <4>5. RockLife(c)'
        BY <1>1, <2>1, CoreAssumption, SMTT(30) DEF RockInv, TypeOK, Typed, Fields,
            RockOwner, RockContext, RockShape, RockState, RockSlot, RockMember, RockLife,
            Taken, Kinds, TxnKinds, R!RecheckBatch, R!IsOpen, R!StateLockFree, R!nativeVars,
            R!replicaVars
      <4> QED BY <3>1, <4>1, <4>2, <4>3, <4>4, <4>5 DEF RockContext
    <3>2. CASE x # c
      BY <1>1, <2>1, <3>2, CoreAssumption, SMTT(30) DEF RockInv, TypeOK, Typed, Fields,
          RockOwner, RockContext, RockShape, RockState, RockSlot, RockMember, RockLife,
          Taken, Kinds, TxnKinds, R!RecheckBatch, R!IsOpen, R!StateLockFree, R!nativeVars,
          R!replicaVars
    <3> QED BY <3>1, <3>2
  <2>5. Contract!Next
    <3>1. ctx[c].state = "none" /\ ctx[c].pc # "read"
      BY <1>1, SMTT(30) DEF RockInv, TypeOK, Typed, Fields, RockContext, RockShape,
          RockState, RockMember, RockOwner, Kinds, R!RecheckBatch, R!IsOpen,
          R!StateLockFree, R!nativeVars, R!replicaVars
    <3>2. Others(c)
      BY <2>1 DEF Others
    <3> QED BY <2>1, <3>1, <3>2, ContractBegins DEF RockInv
  <2> QED BY <2>2, <2>3, <2>4, <2>5 DEF RockInv
<1>2. CASE ~R!IsOpen
  <2>1. /\ Moves(c, "end")
        /\ UNCHANGED <<opened, active, db, life, lock, holder, owner, child, native, foreign,
                       mode, epoch, moved, astray>>
    <3>1. ctx' = [ctx EXCEPT ![c] = [ctx[c] EXCEPT !.pc = "end"]]
      BY <1>2 DEF R!RecheckBatch, R!IsOpen, R!StateLockFree, R!nativeVars, R!replicaVars
    <3>2. /\ UNCHANGED <<opened, active, db, life, lock, holder, owner, child, native, foreign,
                         mode, epoch, moved, astray>>
      BY <1>2 DEF R!RecheckBatch, R!IsOpen, R!StateLockFree, R!nativeVars, R!replicaVars
    <3>4. Moves(c, "end")
      BY <1>2, <3>1, SMTT(30) DEF RockInv, TypeOK, Typed, Fields
    <3> QED BY <3>2, <3>4
  <2>2. TypeOK'
    <3>1. Typed(ctx[c])'
      BY <1>2, <2>1, SMTT(30) DEF RockInv, TypeOK, Typed, Fields, Places, States, Kinds,
          RockOwner
    <3>2. ASSUME NEW x \in Contexts \ {c} PROVE Typed(ctx[x])'
      BY <2>1, SMTT(30) DEF RockInv, TypeOK, Typed, Fields
    <3> QED
      BY <1>2, <2>1, <3>1, <3>2, SMTT(30) DEF RockInv, TypeOK
  <2>3. RockOwner'
    BY <1>2, <2>1, SMTT(30) DEF RockInv, TypeOK, RockOwner, RockContext, RockShape,
        RockState, R!RecheckBatch, R!IsOpen, R!StateLockFree, R!nativeVars, R!replicaVars
  <2>4. ASSUME NEW x \in Contexts PROVE RockContext(x)'
    <3>1. CASE x = c
      <4>1. RockShape(c)'
        BY <1>2, <2>1, CoreAssumption, SMTT(30) DEF RockInv, TypeOK, Typed, Fields,
            RockOwner, RockContext, RockShape, RockState, RockSlot, RockMember, RockLife,
            Taken, Kinds, TxnKinds, R!RecheckBatch, R!IsOpen, R!StateLockFree, R!nativeVars,
            R!replicaVars
      <4>2. RockState(c)'
        BY <1>2, <2>1, CoreAssumption, SMTT(30) DEF RockInv, TypeOK, Typed, Fields,
            RockOwner, RockContext, RockShape, RockState, RockSlot, RockMember, RockLife,
            Taken, Kinds, TxnKinds, R!RecheckBatch, R!IsOpen, R!StateLockFree, R!nativeVars,
            R!replicaVars
      <4>3. RockSlot(c)'
        BY <1>2, <2>1, CoreAssumption, SMTT(30) DEF RockInv, TypeOK, Typed, Fields,
            RockOwner, RockContext, RockShape, RockState, RockSlot, RockMember, RockLife,
            Taken, Kinds, TxnKinds, R!RecheckBatch, R!IsOpen, R!StateLockFree, R!nativeVars,
            R!replicaVars
      <4>4. RockMember(c)'
        BY <1>2, <2>1, CoreAssumption, SMTT(30) DEF RockInv, TypeOK, Typed, Fields,
            RockOwner, RockContext, RockShape, RockState, RockSlot, RockMember, RockLife,
            Taken, Kinds, TxnKinds, R!RecheckBatch, R!IsOpen, R!StateLockFree, R!nativeVars,
            R!replicaVars
      <4>5. RockLife(c)'
        BY <1>2, <2>1, CoreAssumption, SMTT(30) DEF RockInv, TypeOK, Typed, Fields,
            RockOwner, RockContext, RockShape, RockState, RockSlot, RockMember, RockLife,
            Taken, Kinds, TxnKinds, R!RecheckBatch, R!IsOpen, R!StateLockFree, R!nativeVars,
            R!replicaVars
      <4> QED BY <3>1, <4>1, <4>2, <4>3, <4>4, <4>5 DEF RockContext
    <3>2. CASE x # c
      BY <1>2, <2>1, <3>2, CoreAssumption, SMTT(30) DEF RockInv, TypeOK, Typed, Fields,
          RockOwner, RockContext, RockShape, RockState, RockSlot, RockMember, RockLife,
          Taken, Kinds, TxnKinds, R!RecheckBatch, R!IsOpen, R!StateLockFree, R!nativeVars,
          R!replicaVars
    <3> QED BY <3>1, <3>2
  <2>5. Contract!Next
    <3>1. GoesOnOrEnds(c)
      BY <1>2, <2>1, SMTT(30) DEF GoesOnOrEnds, RockInv, TypeOK, Typed, Fields, RockContext,
          RockShape, RockState, RockMember, RockOwner, Kinds, R!RecheckBatch, R!IsOpen,
          R!StateLockFree, R!nativeVars, R!replicaVars
    <3> QED BY <2>1, <3>1, ContractEndsOne DEF RockInv
  <2> QED BY <2>2, <2>3, <2>4, <2>5 DEF RockInv
<1> QED BY <1>1, <1>2

LEMMA RockApplyBatch ==
    ASSUME which = "RocksDB", RockInv, NEW c \in Contexts, R!ApplyBatch(c)
    PROVE  RockInv' /\ (astray' = {} => Contract!Next)
<1>1. CASE /\ native # 0 /\ db' = db + 1
           /\ ctx' = [ctx EXCEPT ![c] = [@ EXCEPT !.pc = "end", !.state = "committed"]]
           /\ astray' = IF ctx[c].lock # lock THEN astray \cup {c} ELSE astray
  <2>1. /\ Ends(c, "end", ctx[c].closed, "committed")
        /\ native # 0
        /\ db' = db + 1
        /\ astray' = IF ctx[c].lock # lock THEN astray \cup {c} ELSE astray
        /\ UNCHANGED <<opened, active, life, lock, holder, owner, child, native, foreign, mode,
                       epoch, moved>>
    <3>1. ctx' = [ctx EXCEPT ![c] = [@ EXCEPT !.pc = "end", !.state = "committed"]]
      BY <1>1 DEF R!ApplyBatch, R!IsOpen, R!StateLockFree, R!nativeVars, R!replicaVars
    <3>2. /\ native # 0
          /\ db' = db + 1
          /\ astray' = IF ctx[c].lock # lock THEN astray \cup {c} ELSE astray
          /\ UNCHANGED <<opened, active, life, lock, holder, owner, child, native, foreign,
                         mode, epoch, moved>>
      BY <1>1 DEF R!ApplyBatch, R!IsOpen, R!StateLockFree, R!nativeVars, R!replicaVars
    <3>4. Ends(c, "end", ctx[c].closed, "committed")
      BY <1>1, <3>1, SMTT(30) DEF RockInv, TypeOK, Typed, Fields
    <3> QED BY <3>2, <3>4
  <2>2. TypeOK'
    <3>0. ctx'[c].closed \in BOOLEAN
      BY <2>1 DEF RockInv, TypeOK, Typed
    <3>1. Typed(ctx[c])'
      BY <1>1, <2>1, <3>0, SMTT(30) DEF RockInv, TypeOK, Typed, Fields, Places, States,
          Kinds, RockOwner
    <3>2. ASSUME NEW x \in Contexts \ {c} PROVE Typed(ctx[x])'
      BY <2>1, SMTT(30) DEF RockInv, TypeOK, Typed, Fields
    <3> QED
      BY <1>1, <2>1, <3>1, <3>2, SMTT(30) DEF RockInv, TypeOK
  <2>3. RockOwner'
    BY <1>1, <2>1, SMTT(30) DEF RockInv, TypeOK, RockOwner, RockContext, RockShape,
        RockState, R!ApplyBatch, R!IsOpen, R!StateLockFree, R!nativeVars, R!replicaVars
  <2>4. ASSUME NEW x \in Contexts PROVE RockContext(x)'
    <3>1. CASE x = c
      <4>1. RockShape(c)'
        BY <1>1, <2>1, CoreAssumption, SMTT(30) DEF RockInv, TypeOK, Typed, Fields,
            RockOwner, RockContext, RockShape, RockState, RockSlot, RockMember, RockLife,
            Taken, Kinds, TxnKinds, R!ApplyBatch, R!IsOpen, R!StateLockFree, R!nativeVars,
            R!replicaVars
      <4>2. RockState(c)'
        BY <1>1, <2>1, CoreAssumption, SMTT(30) DEF RockInv, TypeOK, Typed, Fields,
            RockOwner, RockContext, RockShape, RockState, RockSlot, RockMember, RockLife,
            Taken, Kinds, TxnKinds, R!ApplyBatch, R!IsOpen, R!StateLockFree, R!nativeVars,
            R!replicaVars
      <4>3. RockSlot(c)'
        BY <1>1, <2>1, CoreAssumption, SMTT(30) DEF RockInv, TypeOK, Typed, Fields,
            RockOwner, RockContext, RockShape, RockState, RockSlot, RockMember, RockLife,
            Taken, Kinds, TxnKinds, R!ApplyBatch, R!IsOpen, R!StateLockFree, R!nativeVars,
            R!replicaVars
      <4>4. RockMember(c)'
        BY <1>1, <2>1, CoreAssumption, SMTT(30) DEF RockInv, TypeOK, Typed, Fields,
            RockOwner, RockContext, RockShape, RockState, RockSlot, RockMember, RockLife,
            Taken, Kinds, TxnKinds, R!ApplyBatch, R!IsOpen, R!StateLockFree, R!nativeVars,
            R!replicaVars
      <4>5. RockLife(c)'
        BY <1>1, <2>1, CoreAssumption, SMTT(30) DEF RockInv, TypeOK, Typed, Fields,
            RockOwner, RockContext, RockShape, RockState, RockSlot, RockMember, RockLife,
            Taken, Kinds, TxnKinds, R!ApplyBatch, R!IsOpen, R!StateLockFree, R!nativeVars,
            R!replicaVars
      <4> QED BY <3>1, <4>1, <4>2, <4>3, <4>4, <4>5 DEF RockContext
    <3>2. CASE x # c
      BY <1>1, <2>1, <3>2, CoreAssumption, SMTT(30) DEF RockInv, TypeOK, Typed, Fields,
          RockOwner, RockContext, RockShape, RockState, RockSlot, RockMember, RockLife,
          Taken, Kinds, TxnKinds, R!ApplyBatch, R!IsOpen, R!StateLockFree, R!nativeVars,
          R!replicaVars
    <3> QED BY <3>1, <3>2
  <2>5. ASSUME astray' = {} PROVE Contract!Next
    <3>1. /\ ctx[c].state = "active" /\ ctx[c].pc # "read"
          /\ ctx[c].life = life
          /\ ctx[c].kind = "batch" \/ ctx[c].base = db
      BY <1>1, <2>1, <2>5, SMTT(30) DEF RockInv, TypeOK, Typed, Fields, RockContext,
          RockShape, RockState, RockMember, RockOwner, Kinds, R!ApplyBatch, R!IsOpen,
          R!StateLockFree, R!nativeVars, R!replicaVars, RockSlot, RockLife, Taken, TxnKinds
    <3>2. /\ Others(c) /\ db' = db + 1 /\ ctx'[c].pc # "read" /\ ctx'[c].state = "committed"
          /\ ctx'[c].answer = ctx[c].answer
          /\ ctx'[c].life = ctx[c].life /\ ctx'[c].base = ctx[c].base
      BY <2>1 DEF Others
    <3> QED BY <3>1, <3>2, ContractCommits DEF RockInv
  <2> QED BY <2>2, <2>3, <2>4, <2>5 DEF RockInv
<1>2. CASE /\ db' = db /\ astray' = astray
           /\ ctx' = [ctx EXCEPT ![c] = [@ EXCEPT !.pc = "end", !.state = R!Over(c)]]
  <2>1. /\ Ends(c, "end", ctx[c].closed, R!Over(c))
        /\ UNCHANGED <<opened, active, db, life, lock, holder, owner, child, native, foreign,
                       mode, epoch, moved, astray>>
    BY <1>2, SMTT(30) DEF RockInv, TypeOK, Typed, Fields, R!ApplyBatch, R!IsOpen,
        R!StateLockFree, R!nativeVars, R!replicaVars, RockContext, RockShape, RockState,
        RockOwner
  <2>2. TypeOK'
    <3>0. ctx'[c].closed \in BOOLEAN
      BY <2>1 DEF RockInv, TypeOK, Typed
    <3>1. Typed(ctx[c])'
      BY <1>2, <2>1, <3>0, SMTT(30) DEF RockInv, TypeOK, Typed, Fields, Places, States,
          Kinds, RockOwner
    <3>2. ASSUME NEW x \in Contexts \ {c} PROVE Typed(ctx[x])'
      BY <2>1, SMTT(30) DEF RockInv, TypeOK, Typed, Fields
    <3> QED
      BY <1>2, <2>1, <3>1, <3>2, SMTT(30) DEF RockInv, TypeOK
  <2>3. RockOwner'
    BY <1>2, <2>1, SMTT(30) DEF RockInv, TypeOK, RockOwner, RockContext, RockShape,
        RockState, R!ApplyBatch, R!IsOpen, R!StateLockFree, R!nativeVars, R!replicaVars
  <2>4. ASSUME NEW x \in Contexts PROVE RockContext(x)'
    <3>1. CASE x = c
      <4>1. RockShape(c)'
        BY <1>2, <2>1, CoreAssumption, SMTT(30) DEF RockInv, TypeOK, Typed, Fields,
            RockOwner, RockContext, RockShape, RockState, RockSlot, RockMember, RockLife,
            Taken, Kinds, TxnKinds, R!ApplyBatch, R!IsOpen, R!StateLockFree, R!nativeVars,
            R!replicaVars
      <4>2. RockState(c)'
        BY <1>2, <2>1, CoreAssumption, SMTT(30) DEF RockInv, TypeOK, Typed, Fields,
            RockOwner, RockContext, RockShape, RockState, RockSlot, RockMember, RockLife,
            Taken, Kinds, TxnKinds, R!ApplyBatch, R!IsOpen, R!StateLockFree, R!nativeVars,
            R!replicaVars
      <4>3. RockSlot(c)'
        BY <1>2, <2>1, CoreAssumption, SMTT(30) DEF RockInv, TypeOK, Typed, Fields,
            RockOwner, RockContext, RockShape, RockState, RockSlot, RockMember, RockLife,
            Taken, Kinds, TxnKinds, R!ApplyBatch, R!IsOpen, R!StateLockFree, R!nativeVars,
            R!replicaVars
      <4>4. RockMember(c)'
        BY <1>2, <2>1, CoreAssumption, SMTT(30) DEF RockInv, TypeOK, Typed, Fields,
            RockOwner, RockContext, RockShape, RockState, RockSlot, RockMember, RockLife,
            Taken, Kinds, TxnKinds, R!ApplyBatch, R!IsOpen, R!StateLockFree, R!nativeVars,
            R!replicaVars
      <4>5. RockLife(c)'
        BY <1>2, <2>1, CoreAssumption, SMTT(30) DEF RockInv, TypeOK, Typed, Fields,
            RockOwner, RockContext, RockShape, RockState, RockSlot, RockMember, RockLife,
            Taken, Kinds, TxnKinds, R!ApplyBatch, R!IsOpen, R!StateLockFree, R!nativeVars,
            R!replicaVars
      <4> QED BY <3>1, <4>1, <4>2, <4>3, <4>4, <4>5 DEF RockContext
    <3>2. CASE x # c
      BY <1>2, <2>1, <3>2, CoreAssumption, SMTT(30) DEF RockInv, TypeOK, Typed, Fields,
          RockOwner, RockContext, RockShape, RockState, RockSlot, RockMember, RockLife,
          Taken, Kinds, TxnKinds, R!ApplyBatch, R!IsOpen, R!StateLockFree, R!nativeVars,
          R!replicaVars
    <3> QED BY <3>1, <3>2
  <2>5. Contract!Next
    <3>1. GoesOnOrEnds(c)
      BY <1>2, <2>1, SMTT(30) DEF GoesOnOrEnds, RockInv, TypeOK, Typed, Fields, RockContext,
          RockShape, RockState, RockMember, RockOwner, Kinds, R!ApplyBatch, R!IsOpen,
          R!StateLockFree, R!nativeVars, R!replicaVars
    <3> QED BY <2>1, <3>1, ContractEndsOne DEF RockInv
  <2> QED BY <2>2, <2>3, <2>4, <2>5 DEF RockInv
<1> QED BY <1>1, <1>2 DEF R!ApplyBatch

LEMMA RockAbort ==
    ASSUME which = "RocksDB", RockInv, NEW c \in Contexts, R!Abort(c)
    PROVE  RockInv' /\ Contract!Next
<1>1. /\ Ends(c, "done", TRUE, IF ctx[c].closed THEN ctx[c].state ELSE R!Over(c))
      /\ holder' = R!Released(c)
      /\ active' = active \ {c}
      /\ UNCHANGED <<opened, db, life, lock, owner, child, native, foreign, mode, epoch, moved,
                     astray>>
  BY SMTT(30) DEF RockInv, TypeOK, Typed, Fields, R!Abort, R!Closed, R!IsOpen,
      R!StateLockFree, R!nativeVars, R!replicaVars, RockContext, RockShape, RockState,
      RockOwner
<1>2. TypeOK'
  <2>0. ctx'[c].closed \in BOOLEAN
    BY <1>1 DEF RockInv, TypeOK, Typed
  <2>1. Typed(ctx[c])'
    BY <1>1, <2>0, SMTT(30) DEF RockInv, TypeOK, Typed, Fields, Places, States, Kinds,
        RockOwner
  <2>2. ASSUME NEW x \in Contexts \ {c} PROVE Typed(ctx[x])'
    BY <1>1, SMTT(30) DEF RockInv, TypeOK, Typed, Fields
  <2> QED
    BY <1>1, <2>1, <2>2, SMTT(30) DEF RockInv, TypeOK
<1>3. RockOwner'
  BY <1>1, SMTT(30) DEF RockInv, TypeOK, RockOwner, RockContext, RockShape, RockState,
      R!Abort, R!Closed, R!IsOpen, R!StateLockFree, R!nativeVars, R!replicaVars
<1>4. ASSUME NEW x \in Contexts PROVE RockContext(x)'
  <2>1. CASE x = c
    <3>1. RockShape(c)'
      BY <1>1, CoreAssumption, SMTT(30) DEF RockInv, TypeOK, Typed, Fields, RockOwner,
          RockContext, RockShape, RockState, RockSlot, RockMember, RockLife, Taken, Kinds,
          TxnKinds, R!Abort, R!Closed, R!IsOpen, R!StateLockFree, R!nativeVars,
          R!replicaVars
    <3>2. RockState(c)'
      BY <1>1, CoreAssumption, SMTT(30) DEF RockInv, TypeOK, Typed, Fields, RockOwner,
          RockContext, RockShape, RockState, RockSlot, RockMember, RockLife, Taken, Kinds,
          TxnKinds, R!Abort, R!Closed, R!IsOpen, R!StateLockFree, R!nativeVars,
          R!replicaVars
    <3>3. RockSlot(c)'
      BY <1>1, CoreAssumption, SMTT(30) DEF RockInv, TypeOK, Typed, Fields, RockOwner,
          RockContext, RockShape, RockState, RockSlot, RockMember, RockLife, Taken, Kinds,
          TxnKinds, R!Abort, R!Closed, R!IsOpen, R!StateLockFree, R!nativeVars,
          R!replicaVars
    <3>4. RockMember(c)'
      BY <1>1, CoreAssumption, SMTT(30) DEF RockInv, TypeOK, Typed, Fields, RockOwner,
          RockContext, RockShape, RockState, RockSlot, RockMember, RockLife, Taken, Kinds,
          TxnKinds, R!Abort, R!Closed, R!IsOpen, R!StateLockFree, R!nativeVars,
          R!replicaVars
    <3>5. RockLife(c)'
      BY <1>1, CoreAssumption, SMTT(30) DEF RockInv, TypeOK, Typed, Fields, RockOwner,
          RockContext, RockShape, RockState, RockSlot, RockMember, RockLife, Taken, Kinds,
          TxnKinds, R!Abort, R!Closed, R!IsOpen, R!StateLockFree, R!nativeVars,
          R!replicaVars
    <3> QED BY <2>1, <3>1, <3>2, <3>3, <3>4, <3>5 DEF RockContext
  <2>2. CASE x # c
    BY <1>1, <2>2, CoreAssumption, SMTT(30) DEF RockInv, TypeOK, Typed, Fields, RockOwner,
        RockContext, RockShape, RockState, RockSlot, RockMember, RockLife, Taken, Kinds,
        TxnKinds, R!Abort, R!Closed, R!IsOpen, R!StateLockFree, R!nativeVars, R!replicaVars
  <2> QED BY <2>1, <2>2
<1>5. Contract!Next
  <2>1. GoesOnOrEnds(c)
    BY <1>1, SMTT(30) DEF GoesOnOrEnds, RockInv, TypeOK, Typed, Fields, RockContext,
        RockShape, RockState, RockMember, RockOwner, Kinds, R!Abort, R!Closed, R!IsOpen,
        R!StateLockFree, R!nativeVars, R!replicaVars
  <2> QED BY <1>1, <2>1, ContractEndsOne DEF RockInv
<1> QED BY <1>2, <1>3, <1>4, <1>5 DEF RockInv

LEMMA RockCloseContext ==
    ASSUME which = "RocksDB", RockInv, NEW c \in Contexts, R!CloseContext(c)
    PROVE  RockInv' /\ Contract!Next
<1>1. /\ Ends(c, ctx[c].pc, TRUE, IF ctx[c].closed THEN ctx[c].state ELSE R!Over(c))
      /\ owner.pc = "ending" /\ c \in owner.toEnd
      /\ holder' = R!Released(c)
      /\ active' = active \ {c}
      /\ owner' = [owner EXCEPT !.toEnd = @ \ {c}]
      /\ UNCHANGED <<opened, db, life, lock, child, native, foreign, mode, epoch, moved, astray>>
  BY SMTT(30) DEF RockInv, TypeOK, Typed, Fields, R!CloseContext, R!Closed, R!IsOpen,
      R!StateLockFree, R!nativeVars, R!replicaVars, RockContext, RockShape, RockState,
      RockOwner
<1>2. TypeOK'
  <2>0. ctx'[c].closed \in BOOLEAN
    BY <1>1 DEF RockInv, TypeOK, Typed
  <2>1. Typed(ctx[c])'
    BY <1>1, <2>0, SMTT(30) DEF RockInv, TypeOK, Typed, Fields, Places, States, Kinds,
        RockOwner
  <2>2. ASSUME NEW x \in Contexts \ {c} PROVE Typed(ctx[x])'
    BY <1>1, SMTT(30) DEF RockInv, TypeOK, Typed, Fields
  <2> QED
    BY <1>1, <2>1, <2>2, SMTT(30) DEF RockInv, TypeOK
<1>3. RockOwner'
  BY <1>1, SMTT(30) DEF RockInv, TypeOK, RockOwner, RockContext, RockShape, RockState,
      R!CloseContext, R!Closed, R!IsOpen, R!StateLockFree, R!nativeVars, R!replicaVars
<1>4. ASSUME NEW x \in Contexts PROVE RockContext(x)'
  <2>1. CASE x = c
    <3>1. RockShape(c)'
      BY <1>1, CoreAssumption, SMTT(30) DEF RockInv, TypeOK, Typed, Fields, RockOwner,
          RockContext, RockShape, RockState, RockSlot, RockMember, RockLife, Taken, Kinds,
          TxnKinds, R!CloseContext, R!Closed, R!IsOpen, R!StateLockFree, R!nativeVars,
          R!replicaVars
    <3>2. RockState(c)'
      BY <1>1, CoreAssumption, SMTT(30) DEF RockInv, TypeOK, Typed, Fields, RockOwner,
          RockContext, RockShape, RockState, RockSlot, RockMember, RockLife, Taken, Kinds,
          TxnKinds, R!CloseContext, R!Closed, R!IsOpen, R!StateLockFree, R!nativeVars,
          R!replicaVars
    <3>3. RockSlot(c)'
      BY <1>1, CoreAssumption, SMTT(30) DEF RockInv, TypeOK, Typed, Fields, RockOwner,
          RockContext, RockShape, RockState, RockSlot, RockMember, RockLife, Taken, Kinds,
          TxnKinds, R!CloseContext, R!Closed, R!IsOpen, R!StateLockFree, R!nativeVars,
          R!replicaVars
    <3>4. RockMember(c)'
      BY <1>1, CoreAssumption, SMTT(30) DEF RockInv, TypeOK, Typed, Fields, RockOwner,
          RockContext, RockShape, RockState, RockSlot, RockMember, RockLife, Taken, Kinds,
          TxnKinds, R!CloseContext, R!Closed, R!IsOpen, R!StateLockFree, R!nativeVars,
          R!replicaVars
    <3>5. RockLife(c)'
      BY <1>1, CoreAssumption, SMTT(30) DEF RockInv, TypeOK, Typed, Fields, RockOwner,
          RockContext, RockShape, RockState, RockSlot, RockMember, RockLife, Taken, Kinds,
          TxnKinds, R!CloseContext, R!Closed, R!IsOpen, R!StateLockFree, R!nativeVars,
          R!replicaVars
    <3> QED BY <2>1, <3>1, <3>2, <3>3, <3>4, <3>5 DEF RockContext
  <2>2. CASE x # c
    BY <1>1, <2>2, CoreAssumption, SMTT(30) DEF RockInv, TypeOK, Typed, Fields, RockOwner,
        RockContext, RockShape, RockState, RockSlot, RockMember, RockLife, Taken, Kinds,
        TxnKinds, R!CloseContext, R!Closed, R!IsOpen, R!StateLockFree, R!nativeVars,
        R!replicaVars
  <2> QED BY <2>1, <2>2
<1>5. Contract!Next
  <2>1. GoesOnOrEnds(c)
    BY <1>1, SMTT(30) DEF GoesOnOrEnds, RockInv, TypeOK, Typed, Fields, RockContext,
        RockShape, RockState, RockMember, RockOwner, Kinds, R!CloseContext, R!Closed,
        R!IsOpen, R!StateLockFree, R!nativeVars, R!replicaVars
  <2> QED BY <1>1, <2>1, ContractEndsOne DEF RockInv
<1> QED BY <1>2, <1>3, <1>4, <1>5 DEF RockInv

LEMMA RockOpen ==
    ASSUME which = "RocksDB", RockInv, R!Open
    PROVE  RockInv' /\ Contract!Next
<1>1. /\ ~opened /\ owner.pc = "idle" /\ opened' = TRUE
      /\ native' = owner.opens + 1
      /\ DOMAIN owner' = DOMAIN owner /\ owner'.opens = owner.opens + 1
      /\ owner'.toEnd = owner.toEnd /\ owner'.pc = owner.pc
      /\ UNCHANGED <<active, db, life, lock, holder, child, mode, epoch, moved, astray>>
      /\ DOMAIN ctx' = Contexts /\ \A x \in Contexts : ctx'[x] = ctx[x]
  BY DEF RockInv, TypeOK, R!Open, R!MayOpen, R!nativeVars, R!replicaVars
<1>2. TypeOK'
  <2>1. opened' \in BOOLEAN /\ child' \in BOOLEAN /\ active' \subseteq Contexts
    BY <1>1 DEF RockInv, TypeOK
  <2>2. ASSUME NEW x \in Contexts PROVE Typed(ctx[x])'
    BY <1>1, SMTT(30) DEF RockInv, TypeOK, Typed, Fields
  <2> QED
    BY <1>1, <2>1, <2>2, SMTT(30) DEF RockInv, TypeOK
<1>3. RockOwner'
  BY <1>1, SMTT(30) DEF RockInv, TypeOK, RockOwner
<1>4. ASSUME NEW x \in Contexts PROVE RockContext(x)'
  BY <1>1, CoreAssumption, SMTT(30) DEF RockInv, TypeOK, Typed, Fields, RockOwner,
      RockContext, RockShape, RockState, RockSlot, RockMember, RockLife, Taken, Kinds,
      TxnKinds
<1>5. Contract!Next
  <2>1. \A x \in Contexts : GoesOnOrEnds(x)
    BY <1>1, SMTT(30) DEF RockInv, TypeOK, Typed, Fields, GoesOnOrEnds
  <2> QED BY <1>1, <2>1, ContractEnds DEF RockInv
<1> QED BY <1>2, <1>3, <1>4, <1>5 DEF RockInv

LEMMA RockClose ==
    ASSUME which = "RocksDB", RockInv, R!Close
    PROVE  RockInv' /\ Contract!Next
<1>1. /\ owner.pc = "idle" /\ opened
      /\ DOMAIN owner' = DOMAIN owner /\ owner'.opens = owner.opens
      /\ owner'.toEnd = owner.toEnd /\ owner'.pc = "closing"
      /\ UNCHANGED <<opened, active, db, life, lock, holder, child, native, foreign, mode,
                     epoch, moved, astray>>
      /\ DOMAIN ctx' = Contexts /\ \A x \in Contexts : ctx'[x] = ctx[x]
  BY DEF RockInv, TypeOK, R!Close, R!nativeVars, R!replicaVars
<1>2. TypeOK'
  <2>1. opened' \in BOOLEAN /\ child' \in BOOLEAN /\ active' \subseteq Contexts
    BY <1>1 DEF RockInv, TypeOK
  <2>2. ASSUME NEW x \in Contexts PROVE Typed(ctx[x])'
    BY <1>1, SMTT(30) DEF RockInv, TypeOK, Typed, Fields
  <2> QED
    BY <1>1, <2>1, <2>2, SMTT(30) DEF RockInv, TypeOK
<1>3. RockOwner'
  BY <1>1, SMTT(30) DEF RockInv, TypeOK, RockOwner
<1>4. ASSUME NEW x \in Contexts PROVE RockContext(x)'
  BY <1>1, CoreAssumption, SMTT(30) DEF RockInv, TypeOK, Typed, Fields, RockOwner,
      RockContext, RockShape, RockState, RockSlot, RockMember, RockLife, Taken, Kinds,
      TxnKinds
<1>5. Contract!Next
  <2>1. \A x \in Contexts : GoesOnOrEnds(x)
    BY <1>1, SMTT(30) DEF RockInv, TypeOK, Typed, Fields, GoesOnOrEnds
  <2> QED BY <1>1, <2>1, ContractEnds DEF RockInv
<1> QED BY <1>2, <1>3, <1>4, <1>5 DEF RockInv

LEMMA RockCloseDb ==
    ASSUME which = "RocksDB", RockInv, R!CloseDb
    PROVE  RockInv' /\ Contract!Next
<1>1. /\ owner.pc = "closing" /\ native' = 0
      /\ DOMAIN owner' = DOMAIN owner /\ owner'.opens = owner.opens
      /\ owner'.toEnd = owner.toEnd /\ owner'.pc = "closed"
      /\ UNCHANGED <<opened, active, db, life, lock, holder, child, foreign, mode, epoch, moved,
                     astray>>
      /\ DOMAIN ctx' = Contexts /\ \A x \in Contexts : ctx'[x] = ctx[x]
  BY DEF RockInv, TypeOK, R!CloseDb, R!nativeVars, R!replicaVars
<1>2. TypeOK'
  <2>1. opened' \in BOOLEAN /\ child' \in BOOLEAN /\ active' \subseteq Contexts
    BY <1>1 DEF RockInv, TypeOK
  <2>2. ASSUME NEW x \in Contexts PROVE Typed(ctx[x])'
    BY <1>1, SMTT(30) DEF RockInv, TypeOK, Typed, Fields
  <2> QED
    BY <1>1, <2>1, <2>2, SMTT(30) DEF RockInv, TypeOK
<1>3. RockOwner'
  BY <1>1, SMTT(30) DEF RockInv, TypeOK, RockOwner
<1>4. ASSUME NEW x \in Contexts PROVE RockContext(x)'
  BY <1>1, CoreAssumption, SMTT(30) DEF RockInv, TypeOK, Typed, Fields, RockOwner,
      RockContext, RockShape, RockState, RockSlot, RockMember, RockLife, Taken, Kinds,
      TxnKinds
<1>5. Contract!Next
  <2>1. \A x \in Contexts : GoesOnOrEnds(x)
    BY <1>1, SMTT(30) DEF RockInv, TypeOK, Typed, Fields, GoesOnOrEnds
  <2> QED BY <1>1, <2>1, ContractEnds DEF RockInv
<1> QED BY <1>2, <1>3, <1>4, <1>5 DEF RockInv

LEMMA RockCloseFails ==
    ASSUME which = "RocksDB", RockInv, R!CloseFails
    PROVE  RockInv' /\ Contract!Next
<1>1. /\ owner.pc = "closing"
      /\ DOMAIN owner' = DOMAIN owner /\ owner'.opens = owner.opens
      /\ owner'.toEnd = owner.toEnd /\ owner'.pc = "idle"
      /\ UNCHANGED <<opened, active, db, life, lock, holder, child, native, foreign, mode,
                     epoch, moved, astray>>
      /\ DOMAIN ctx' = Contexts /\ \A x \in Contexts : ctx'[x] = ctx[x]
  BY DEF RockInv, TypeOK, R!CloseFails, R!nativeVars, R!replicaVars
<1>2. TypeOK'
  <2>1. opened' \in BOOLEAN /\ child' \in BOOLEAN /\ active' \subseteq Contexts
    BY <1>1 DEF RockInv, TypeOK
  <2>2. ASSUME NEW x \in Contexts PROVE Typed(ctx[x])'
    BY <1>1, SMTT(30) DEF RockInv, TypeOK, Typed, Fields
  <2> QED
    BY <1>1, <2>1, <2>2, SMTT(30) DEF RockInv, TypeOK
<1>3. RockOwner'
  BY <1>1, SMTT(30) DEF RockInv, TypeOK, RockOwner
<1>4. ASSUME NEW x \in Contexts PROVE RockContext(x)'
  BY <1>1, CoreAssumption, SMTT(30) DEF RockInv, TypeOK, Typed, Fields, RockOwner,
      RockContext, RockShape, RockState, RockSlot, RockMember, RockLife, Taken, Kinds,
      TxnKinds
<1>5. Contract!Next
  <2>1. \A x \in Contexts : GoesOnOrEnds(x)
    BY <1>1, SMTT(30) DEF RockInv, TypeOK, Typed, Fields, GoesOnOrEnds
  <2> QED BY <1>1, <2>1, ContractEnds DEF RockInv
<1> QED BY <1>2, <1>3, <1>4, <1>5 DEF RockInv

LEMMA RockCollect ==
    ASSUME which = "RocksDB", RockInv, R!Collect
    PROVE  RockInv' /\ Contract!Next
<1>1. /\ owner.pc = "closed" /\ active' = {} /\ opened' = FALSE
      /\ DOMAIN owner' = DOMAIN owner /\ owner'.opens = owner.opens
      /\ owner'.toEnd = active /\ owner'.pc = "ending"
      /\ UNCHANGED <<db, life, lock, holder, child, native, foreign, mode, epoch, moved, astray>>
      /\ DOMAIN ctx' = Contexts /\ \A x \in Contexts : ctx'[x] = ctx[x]
  BY DEF RockInv, TypeOK, R!Collect, R!nativeVars, R!replicaVars
<1>2. TypeOK'
  <2>1. opened' \in BOOLEAN /\ child' \in BOOLEAN /\ active' \subseteq Contexts
    BY <1>1 DEF RockInv, TypeOK
  <2>2. ASSUME NEW x \in Contexts PROVE Typed(ctx[x])'
    BY <1>1, SMTT(30) DEF RockInv, TypeOK, Typed, Fields
  <2> QED
    BY <1>1, <2>1, <2>2, SMTT(30) DEF RockInv, TypeOK
<1>3. RockOwner'
  BY <1>1, SMTT(30) DEF RockInv, TypeOK, RockOwner
<1>4. ASSUME NEW x \in Contexts PROVE RockContext(x)'
  BY <1>1, CoreAssumption, SMTT(30) DEF RockInv, TypeOK, Typed, Fields, RockOwner,
      RockContext, RockShape, RockState, RockSlot, RockMember, RockLife, Taken, Kinds,
      TxnKinds
<1>5. Contract!Next
  <2>1. \A x \in Contexts : GoesOnOrEnds(x)
    BY <1>1, SMTT(30) DEF RockInv, TypeOK, Typed, Fields, GoesOnOrEnds
  <2> QED BY <1>1, <2>1, ContractEnds DEF RockInv
<1> QED BY <1>2, <1>3, <1>4, <1>5 DEF RockInv

LEMMA RockReplaceSlot ==
    ASSUME which = "RocksDB", RockInv, R!ReplaceSlot
    PROVE  RockInv' /\ Contract!Next
<1>1. /\ owner.pc = "ending" /\ owner.toEnd = {}
      /\ lock' = lock + 1 /\ holder' = NoOne /\ life' = life + 1
      /\ DOMAIN owner' = DOMAIN owner /\ owner'.opens = owner.opens
      /\ owner'.toEnd = owner.toEnd /\ owner'.pc = "idle"
      /\ UNCHANGED <<opened, active, db, child, native, foreign, mode, epoch, moved, astray>>
      /\ DOMAIN ctx' = Contexts /\ \A x \in Contexts : ctx'[x] = ctx[x]
  BY DEF RockInv, TypeOK, R!ReplaceSlot, R!nativeVars, R!replicaVars
<1>2. TypeOK'
  <2>1. opened' \in BOOLEAN /\ child' \in BOOLEAN /\ active' \subseteq Contexts
    BY <1>1 DEF RockInv, TypeOK
  <2>2. ASSUME NEW x \in Contexts PROVE Typed(ctx[x])'
    BY <1>1, SMTT(30) DEF RockInv, TypeOK, Typed, Fields
  <2> QED
    BY <1>1, <2>1, <2>2, SMTT(30) DEF RockInv, TypeOK
<1>3. RockOwner'
  BY <1>1, SMTT(30) DEF RockInv, TypeOK, RockOwner
<1>4. ASSUME NEW x \in Contexts PROVE RockContext(x)'
  BY <1>1, CoreAssumption, SMTT(30) DEF RockInv, TypeOK, Typed, Fields, RockOwner,
      RockContext, RockShape, RockState, RockSlot, RockMember, RockLife, Taken, Kinds,
      TxnKinds
<1>5. Contract!Next
  <2>1. \A x \in Contexts : GoesOnOrEnds(x)
    BY <1>1, SMTT(30) DEF RockInv, TypeOK, Typed, Fields, GoesOnOrEnds
  <2> QED BY <1>1, <2>1, ContractEnds DEF RockInv
<1> QED BY <1>2, <1>3, <1>4, <1>5 DEF RockInv

LEMMA RockFork ==
    ASSUME which = "RocksDB", RockInv, R!Fork
    PROVE  RockInv' /\ Contract!Next
<1>1. /\ owner.pc = "idle" /\ child' = TRUE /\ foreign' = opened
      /\ UNCHANGED <<opened, active, db, life, lock, holder, owner, native, mode, epoch, moved,
                   astray>>
  BY DEF R!Fork, R!MayFork, R!nativeVars, R!replicaVars
<1>2. /\ DOMAIN ctx' = Contexts
      /\ \A x \in Contexts : ctx'[x] = [ctx[x] EXCEPT !.pc = R!Survives(x)]
  BY DEF R!Fork
<1>3. ASSUME NEW x \in Contexts PROVE Typed(ctx[x])'
  BY <1>1, <1>2, SMTT(30) DEF RockInv, TypeOK, Typed, Fields, Places, States, R!Survives
<1>4. TypeOK' /\ RockOwner'
  <2>1. opened' \in BOOLEAN /\ child' \in BOOLEAN /\ active' \subseteq Contexts
    BY <1>1 DEF RockInv, TypeOK
  <2>2. moved' \in BOOLEAN
    BY <1>1 DEF RockInv, RockOwner
  <2> QED BY <1>1, <1>2, <1>3, <2>1, <2>2, SMTT(30) DEF RockInv, TypeOK, RockOwner
<1>5. ASSUME NEW x \in Contexts PROVE RockContext(x)'
  <2>1. RockShape(x)'
    BY <1>1, <1>2, SMTT(30) DEF RockInv, TypeOK, Typed, Fields, RockContext, RockShape,
        RockState, Kinds, TxnKinds, R!Survives
  <2>2. RockState(x)'
    BY <1>1, <1>2, SMTT(30) DEF RockInv, TypeOK, Typed, Fields, RockOwner, RockContext, RockShape,
        RockState, RockMember, Kinds, TxnKinds, R!Survives
  <2>3. RockSlot(x)'
    BY <1>1, <1>2, CoreAssumption, SMTT(30) DEF RockInv, TypeOK, Typed, Fields, RockOwner,
        RockContext, RockShape, RockSlot, RockMember, Taken, Kinds, TxnKinds, R!Survives
  <2>4. RockMember(x)'
    BY <1>1, <1>2, SMTT(30) DEF RockInv, TypeOK, Typed, Fields, RockOwner, RockContext, RockShape,
        RockState, RockMember, Kinds, TxnKinds, R!Survives
  <2>5. RockLife(x)'
    BY <1>1, <1>2, CoreAssumption, SMTT(30) DEF RockInv, TypeOK, Typed, Fields, RockOwner,
        RockContext, RockShape, RockState, RockSlot, RockLife, RockMember, Taken, Kinds,
        TxnKinds, R!Survives
  <2> QED BY <2>1, <2>2, <2>3, <2>4, <2>5 DEF RockContext
<1>6. Contract!Next
  <2>1. \A x \in Contexts : GoesOnOrEnds(x)
    BY <1>1, <1>2, SMTT(30) DEF RockInv, TypeOK, Typed, Fields, RockContext, RockShape,
        GoesOnOrEnds, R!Survives
  <2> QED BY <1>1, <2>1, ContractEnds DEF RockInv
<1> QED BY <1>4, <1>5, <1>6 DEF RockInv

LEMMA RockForgetInherited ==
    ASSUME which = "RocksDB", RockInv, R!ForgetInherited
    PROVE  RockInv' /\ Contract!Next
<1>1. /\ owner.pc = "idle" /\ opened /\ opened' = FALSE /\ active' = {} /\ native' = 0
      /\ lock' = lock + 1 /\ holder' = NoOne /\ life' = life + 1
      /\ UNCHANGED <<db, owner, child, foreign, mode, epoch, moved, astray>>
  BY DEF R!ForgetInherited, R!nativeVars, R!replicaVars
<1>2. /\ DOMAIN ctx' = Contexts
      /\ \A x \in Contexts :
            /\ DOMAIN ctx'[x] = Fields
            /\ ctx'[x].pc = ctx[x].pc
            /\ ctx'[x].closed \in BOOLEAN
            /\ ctx'[x].closed <=> ctx[x].closed \/ x \in active
            /\ ctx'[x].state = IF x \in active THEN R!Over(x) ELSE ctx[x].state
            /\ ctx'[x].kind = ctx[x].kind /\ ctx'[x].lock = ctx[x].lock
            /\ ctx'[x].life = ctx[x].life /\ ctx'[x].base = ctx[x].base
            /\ ctx'[x].answer = ctx[x].answer /\ ctx'[x].token = ctx[x].token
  <2>1. /\ DOMAIN ctx' = Contexts
        /\ \A x \in Contexts :
              ctx'[x] = [ctx[x] EXCEPT !.closed = @ \/ x \in active,
                                       !.state = IF x \in active THEN R!Over(x) ELSE @]
    BY DEF R!ForgetInherited
  <2>2. ASSUME NEW x \in Contexts
        PROVE /\ DOMAIN ctx'[x] = Fields /\ ctx'[x].pc = ctx[x].pc
              /\ ctx'[x].closed = (ctx[x].closed \/ x \in active)
              /\ ctx'[x].state = IF x \in active THEN R!Over(x) ELSE ctx[x].state
              /\ ctx'[x].kind = ctx[x].kind /\ ctx'[x].lock = ctx[x].lock
              /\ ctx'[x].life = ctx[x].life /\ ctx'[x].base = ctx[x].base
              /\ ctx'[x].answer = ctx[x].answer /\ ctx'[x].token = ctx[x].token
    <3> DEFINE closed == ctx[x].closed \/ x \in active
               state == IF x \in active THEN R!Over(x) ELSE ctx[x].state
    <3>1. DOMAIN ctx[x] = Fields
      BY DEF RockInv, TypeOK, Typed
    <3>2. ctx'[x] = [ctx[x] EXCEPT !.closed = closed, !.state = state]
      BY <2>1, Zenon
    <3> HIDE DEF closed, state
    <3>3. /\ DOMAIN ctx'[x] = Fields /\ ctx'[x].pc = ctx[x].pc
          /\ ctx'[x].closed = closed /\ ctx'[x].state = state
          /\ ctx'[x].kind = ctx[x].kind /\ ctx'[x].lock = ctx[x].lock
          /\ ctx'[x].life = ctx[x].life /\ ctx'[x].base = ctx[x].base
          /\ ctx'[x].answer = ctx[x].answer /\ ctx'[x].token = ctx[x].token
      BY <3>1, <3>2 DEF Fields
    <3>4. ctx'[x].closed = (ctx[x].closed \/ x \in active)
      BY <3>3, Zenon DEF closed
    <3>5. ctx'[x].state = IF x \in active THEN R!Over(x) ELSE ctx[x].state
      BY <3>3, Zenon DEF state
    <3> QED BY <3>3, <3>4, <3>5
  <2>3. ASSUME NEW x \in Contexts PROVE ctx'[x].closed \in BOOLEAN
    BY <2>2, Zenon
  <2> QED BY <2>1, <2>2, <2>3
<1>3. ASSUME NEW x \in Contexts PROVE Typed(ctx[x])'
  BY <1>1, <1>2, SMTT(30) DEF RockInv, TypeOK, Typed, Fields, Places, States
<1>4. TypeOK' /\ RockOwner'
  <2>1. opened' \in BOOLEAN /\ child' \in BOOLEAN /\ active' \subseteq Contexts
    BY <1>1 DEF RockInv, TypeOK
  <2>2. moved' \in BOOLEAN
    BY <1>1 DEF RockInv, RockOwner
  <2> QED BY <1>1, <1>2, <1>3, <2>1, <2>2, SMTT(30) DEF RockInv, TypeOK, RockOwner
<1>5. ASSUME NEW x \in Contexts PROVE RockContext(x)'
  <2>1. RockShape(x)'
    BY <1>1, <1>2, SMTT(30) DEF RockInv, TypeOK, Typed, Fields, RockContext, RockShape,
        RockState, Kinds, TxnKinds
  <2>2. RockState(x)'
    BY <1>1, <1>2, SMTT(30) DEF RockInv, TypeOK, Typed, Fields, RockOwner, RockContext, RockShape,
        RockState, RockMember, Kinds, TxnKinds
  <2>3. RockSlot(x)'
    BY <1>1, <1>2, CoreAssumption, SMTT(30) DEF RockInv, TypeOK, Typed, Fields, RockOwner,
        RockContext, RockShape, RockSlot, RockMember, Taken, Kinds, TxnKinds
  <2>4. RockMember(x)'
    BY <1>1, <1>2, SMTT(30) DEF RockInv, TypeOK, Typed, Fields, RockOwner, RockContext, RockShape,
        RockState, RockMember, Kinds, TxnKinds
  <2>5. RockLife(x)'
    BY <1>1, <1>2, CoreAssumption, SMTT(30) DEF RockInv, TypeOK, Typed, Fields, RockOwner,
        RockContext, RockShape, RockState, RockSlot, RockLife, RockMember, Taken, Kinds,
        TxnKinds
  <2> QED BY <2>1, <2>2, <2>3, <2>4, <2>5 DEF RockContext
<1>6. Contract!Next
  <2>1. \A x \in Contexts : GoesOnOrEnds(x)
    BY <1>1, <1>2, SMTT(30) DEF RockInv, TypeOK, Typed, Fields, RockContext, RockShape,
        GoesOnOrEnds
  <2> QED BY <1>1, <2>1, ContractEnds DEF RockInv
<1> QED BY <1>4, <1>5, <1>6 DEF RockInv

LEMMA RockCatchUp ==
    ASSUME which = "RocksDB", RockInv, NEW c \in Contexts, R!CatchUp(c)
    PROVE  RockInv' /\ Contract!Next
<1>1. /\ mode = "secondary" /\ moved' = TRUE /\ db' \in {db, db + 1}
      /\ UNCHANGED <<opened, active, life, lock, holder, owner, child, native, foreign, mode,
                     epoch,
                     astray>>
  <2>1. db' = db \/ db' = db + 1
    BY DEF R!CatchUp, R!News
  <2> QED BY <2>1 DEF R!CatchUp, R!nativeVars, R!replicaVars
<1>2. DOMAIN ctx' = Contexts /\ \A x \in Contexts : ctx'[x] = ctx[x]
  BY DEF R!CatchUp, RockInv, TypeOK
<1>3. ASSUME NEW x \in Contexts PROVE Typed(ctx[x])'
  BY <1>1, <1>2, SMTT(30) DEF RockInv, TypeOK, Typed, Fields, Places, States
<1>4. TypeOK' /\ RockOwner'
  <2>1. opened' \in BOOLEAN /\ child' \in BOOLEAN /\ active' \subseteq Contexts
    BY <1>1 DEF RockInv, TypeOK
  <2>2. moved' \in BOOLEAN
    BY <1>1 DEF RockInv, RockOwner
  <2> QED BY <1>1, <1>2, <1>3, <2>1, <2>2, SMTT(30) DEF RockInv, TypeOK, RockOwner
<1>5. ASSUME NEW x \in Contexts PROVE RockContext(x)'
  <2>1. RockShape(x)'
    BY <1>1, <1>2, SMTT(30) DEF RockInv, TypeOK, Typed, Fields, RockContext, RockShape,
        RockState, Kinds, TxnKinds
  <2>2. RockState(x)'
    BY <1>1, <1>2, SMTT(30) DEF RockInv, TypeOK, Typed, Fields, RockOwner, RockContext, RockShape,
        RockState, RockMember, Kinds, TxnKinds
  <2>3. RockSlot(x)'
    BY <1>1, <1>2, CoreAssumption, SMTT(30) DEF RockInv, TypeOK, Typed, Fields, RockOwner,
        RockContext, RockShape, RockSlot, RockMember, Taken, Kinds, TxnKinds
  <2>4. RockMember(x)'
    BY <1>1, <1>2, SMTT(30) DEF RockInv, TypeOK, Typed, Fields, RockOwner, RockContext, RockShape,
        RockState, RockMember, Kinds, TxnKinds
  <2>5. RockLife(x)'
    BY <1>1, <1>2, CoreAssumption, SMTT(30) DEF RockInv, TypeOK, Typed, Fields, RockOwner,
        RockContext, RockShape, RockState, RockSlot, RockLife, RockMember, Taken, Kinds,
        TxnKinds
  <2> QED BY <2>1, <2>2, <2>3, <2>4, <2>5 DEF RockContext
<1>6. Contract!Next
  <2>1. \A x \in Contexts : GoesOnOrEnds(x)
    BY <1>1, <1>2, SMTT(30) DEF RockInv, TypeOK, Typed, Fields, RockContext, RockShape,
        GoesOnOrEnds
  <2> QED BY <1>1, <2>1, ContractEnds DEF RockInv
<1> QED BY <1>4, <1>5, <1>6 DEF RockInv

LEMMA RockRetire ==
    ASSUME which = "RocksDB", RockInv, NEW c \in Contexts, R!Retire(c)
    PROVE  RockInv' /\ Contract!Next
<1>1. /\ mode = "secondary" /\ moved /\ moved' = FALSE /\ epoch' = epoch + 1
      /\ UNCHANGED <<opened, active, db, life, lock, holder, owner, child, native, foreign, mode,
                     astray>>
  BY DEF R!Retire, RockInv, RockOwner, R!nativeVars, R!replicaVars
<1>2. /\ DOMAIN ctx' = Contexts
      /\ \A x \in Contexts :
            /\ DOMAIN ctx'[x] = Fields
            /\ ctx'[x].pc = IF x = c /\ ctx[x].pc = "read" THEN "use" ELSE ctx[x].pc
            /\ ctx'[x].state = IF ctx[x].kind = "snapshot" THEN R!Over(x) ELSE ctx[x].state
            /\ ctx'[x].kind = ctx[x].kind /\ ctx'[x].lock = ctx[x].lock
            /\ ctx'[x].life = ctx[x].life /\ ctx'[x].base = ctx[x].base
            /\ ctx'[x].answer = ctx[x].answer /\ ctx'[x].token = ctx[x].token
            /\ ctx'[x].closed = ctx[x].closed
  <2>1. /\ DOMAIN ctx' = Contexts
        /\ \A x \in Contexts :
              ctx'[x] = [ctx[x] EXCEPT !.pc = IF x = c /\ ctx[x].pc = "read" THEN "use" ELSE @,
                                       !.state = IF ctx[x].kind = "snapshot" THEN R!Over(x) ELSE @]
    BY DEF R!Retire
  <2>2. ASSUME NEW x \in Contexts
        PROVE /\ DOMAIN ctx'[x] = Fields /\ ctx'[x].closed = ctx[x].closed
              /\ ctx'[x].pc = IF x = c /\ ctx[x].pc = "read" THEN "use" ELSE ctx[x].pc
              /\ ctx'[x].state = IF ctx[x].kind = "snapshot" THEN R!Over(x) ELSE ctx[x].state
              /\ ctx'[x].kind = ctx[x].kind /\ ctx'[x].lock = ctx[x].lock
              /\ ctx'[x].life = ctx[x].life /\ ctx'[x].base = ctx[x].base
              /\ ctx'[x].answer = ctx[x].answer /\ ctx'[x].token = ctx[x].token
    <3> DEFINE pc == IF x = c /\ ctx[x].pc = "read" THEN "use" ELSE ctx[x].pc
               state == IF ctx[x].kind = "snapshot" THEN R!Over(x) ELSE ctx[x].state
    <3>1. DOMAIN ctx[x] = Fields
      BY DEF RockInv, TypeOK, Typed
    <3>2. ctx'[x] = [ctx[x] EXCEPT !.pc = pc, !.state = state]
      BY <2>1, Zenon
    <3> HIDE DEF pc, state
    <3>3. /\ DOMAIN ctx'[x] = Fields /\ ctx'[x].closed = ctx[x].closed
          /\ ctx'[x].pc = pc /\ ctx'[x].state = state
          /\ ctx'[x].kind = ctx[x].kind /\ ctx'[x].lock = ctx[x].lock
          /\ ctx'[x].life = ctx[x].life /\ ctx'[x].base = ctx[x].base
          /\ ctx'[x].answer = ctx[x].answer /\ ctx'[x].token = ctx[x].token
      BY <3>1, <3>2 DEF Fields
    <3> QED BY <3>3, Zenon DEF pc, state
  <2> QED BY <2>1, <2>2
<1>3. ASSUME NEW x \in Contexts PROVE Typed(ctx[x])'
  BY <1>1, <1>2, SMTT(30) DEF RockInv, TypeOK, Typed, Fields, Places, States
<1>4. TypeOK' /\ RockOwner'
  <2>1. opened' \in BOOLEAN /\ child' \in BOOLEAN /\ active' \subseteq Contexts
    BY <1>1 DEF RockInv, TypeOK
  <2>2. moved' \in BOOLEAN
    BY <1>1 DEF RockInv, RockOwner
  <2> QED BY <1>1, <1>2, <1>3, <2>1, <2>2, SMTT(30) DEF RockInv, TypeOK, RockOwner
<1>5. ASSUME NEW x \in Contexts PROVE RockContext(x)'
  <2>1. RockShape(x)'
    BY <1>1, <1>2, SMTT(30) DEF RockInv, TypeOK, Typed, Fields, RockContext, RockShape,
        RockState, Kinds, TxnKinds
  <2>2. RockState(x)'
    BY <1>1, <1>2, SMTT(30) DEF RockInv, TypeOK, Typed, Fields, RockOwner, RockContext, RockShape,
        RockState, RockMember, Kinds, TxnKinds
  <2>3. RockSlot(x)'
    BY <1>1, <1>2, CoreAssumption, SMTT(30) DEF RockInv, TypeOK, Typed, Fields, RockOwner,
        RockContext, RockShape, RockSlot, RockMember, Taken, Kinds, TxnKinds
  <2>4. RockMember(x)'
    BY <1>1, <1>2, SMTT(30) DEF RockInv, TypeOK, Typed, Fields, RockOwner, RockContext, RockShape,
        RockState, RockMember, Kinds, TxnKinds
  <2>5. RockLife(x)'
    BY <1>1, <1>2, CoreAssumption, SMTT(30) DEF RockInv, TypeOK, Typed, Fields, RockOwner,
        RockContext, RockShape, RockState, RockSlot, RockLife, RockMember, Taken, Kinds,
        TxnKinds
  <2> QED BY <2>1, <2>2, <2>3, <2>4, <2>5 DEF RockContext
<1>6. Contract!Next
  <2>1. \A x \in Contexts : GoesOnOrEnds(x)
    BY <1>1, <1>2, SMTT(30) DEF RockInv, TypeOK, Typed, Fields, RockContext, RockShape,
        GoesOnOrEnds
  <2> QED BY <1>1, <2>1, ContractEnds DEF RockInv
<1> QED BY <1>4, <1>5, <1>6 DEF RockInv

-----------------------------------------------------------------------------
(* The three together.                                                      *)

LEMMA MemNext ==
    ASSUME which = "memory", MemInv, M!Next
    PROVE  MemInv' /\ Contract!Next
<1>1. ASSUME NEW c \in Contexts,
             M!Call(c) \/ M!Pin(c) \/ M!RegisterSnapshot(c) \/ M!TakeSlot(c) \/
             M!GiveUp(c) \/ M!TakeOver(c) \/ M!ReleaseSlot(c) \/ M!RegisterTxn(c) \/
             M!MakeBatch(c) \/ M!RegisterBatch(c) \/ M!CheckActive(c) \/ M!Lookup(c)
          \/ M!ClaimEnd(c) \/ M!Apply(c) \/ M!EndWrite(c) \/ M!Abort(c) \/
             M!Drop(c) \/ M!CloseContext(c)
      PROVE  MemInv' /\ Contract!Next
  BY <1>1, MemCall, MemPin, MemRegisterSnapshot, MemTakeSlot, MemGiveUp, MemTakeOver,
      MemReleaseSlot, MemRegisterTxn, MemMakeBatch, MemRegisterBatch, MemCheckActive,
      MemLookup, MemClaimEnd, MemApply, MemEndWrite, MemAbort, MemDrop, MemCloseContext
<1>2. CASE M!Open \/ M!Opened \/ M!Close \/ M!ReplaceSlot \/ M!ResetStore \/ M!Fork
  BY <1>2, MemOpen, MemOpened, MemClose, MemReplaceSlot, MemResetStore, MemFork
<1> QED BY <1>1, <1>2 DEF M!Next

LEMMA SqlNext ==
    ASSUME which = "SQLite", SqlInv, S!Next
    PROVE  SqlInv' /\ Contract!Next
<1>1. ASSUME NEW c \in Contexts,
             S!Call(c) \/ S!TakeSlot(c) \/ S!GiveUp(c) \/ S!Connect(c) \/ S!BeginOn(c)
          \/ S!BeginFails(c) \/ S!Recheck(c) \/ S!RegisterBegun(c) \/
             S!RegisterBatch(c) \/ S!TakeOver(c) \/ S!Detach(c) \/ S!ReleaseSlot(c) \/
             S!Read(c) \/ S!Write(c) \/ S!Commit(c) \/ S!ApplyBatch(c) \/ S!Abort(c)
          \/ S!Drop(c) \/ S!CloseContext(c) \/ S!Collected(c)
      PROVE  SqlInv' /\ Contract!Next
  BY <1>1, SqlCall, SqlTakeSlot, SqlGiveUp, SqlConnect, SqlBeginOn, SqlBeginFails,
      SqlRecheck, SqlRegisterBegun, SqlRegisterBatch, SqlTakeOver, SqlDetach,
      SqlReleaseSlot, SqlRead, SqlWrite, SqlCommit, SqlApplyBatch, SqlAbort, SqlDrop,
      SqlCloseContext, SqlCollected
<1>2. CASE S!Open \/ S!Close \/ S!ReplaceSlot \/ S!Elsewhere \/ S!Fork \/ S!CheckFork
  BY <1>2, SqlOpen, SqlClose, SqlReplaceSlot, SqlElsewhere, SqlFork, SqlCheckFork
<1> QED BY <1>1, <1>2 DEF S!Next

LEMMA RockNext ==
    ASSUME which = "RocksDB", RockInv, R!Next
    PROVE  RockInv' /\ (astray' = {} => Contract!Next)
<1>1. ASSUME NEW c \in Contexts,
             R!Call(c) \/ R!TakeSlot(c) \/ R!GiveUp(c) \/ R!TakeOver(c) \/
             R!ReleaseSlot(c) \/ R!BeginTxn(c) \/ R!BeginSnapshot(c) \/ R!Register(c)
          \/ R!CatchUpFails(c) \/ R!BeginView(c) \/ R!CheckActive(c) \/
             R!ReadRaw(c) \/ R!Commit(c) \/ R!MarkClosed(c) \/ R!Write(c) \/
             R!RecheckBatch(c) \/ R!ApplyBatch(c) \/ R!Abort(c) \/ R!CloseContext(c)
          \/ R!CatchUp(c) \/ R!Retire(c)
      PROVE  RockInv' /\ (astray' = {} => Contract!Next)
  BY <1>1, RockCall, RockTakeSlot, RockGiveUp, RockTakeOver, RockReleaseSlot, RockBeginTxn,
      RockBeginSnapshot, RockRegister, RockCatchUpFails, RockBeginView, RockCheckActive,
      RockReadRaw, RockCommit, RockMarkClosed, RockWrite, RockRecheckBatch, RockApplyBatch,
      RockAbort, RockCloseContext, RockCatchUp, RockRetire
<1>2. CASE R!Open \/ R!Close \/ R!CloseDb \/ R!CloseFails \/ R!Collect \/ R!ReplaceSlot \/
            R!Fork \/ R!ForgetInherited
  BY <1>2, RockOpen, RockClose, RockCloseDb, RockCloseFails, RockCollect, RockReplaceSlot,
      RockFork, RockForgetInherited
<1> QED BY <1>1, <1>2 DEF R!Next

\* The invariant of the storage at hand; what only the others have is as it was at first.
Inv ==
    /\ which \in {"memory", "SQLite", "RocksDB"}
    /\ which = "memory" => MemInv
    /\ which = "SQLite" => SqlInv
    /\ which = "RocksDB" => RockInv
    /\ which # "memory" => pins = {}
    /\ which # "SQLite" => idle = 0 /\ conns = {} /\ open = 0 /\ file = NoOne /\ touched = FALSE
    /\ which # "RocksDB" => native = 0

LEMMA Initially ==
    ASSUME Init
    PROVE  Inv /\ Contract!Init
<1>1. PICK plan \in Plans : ctx = [c \in Contexts |-> M!Fresh(plan[c])]
  BY DEF Init, M!Init, M!CoreInit
<1>2. \A x \in Contexts : ctx[x] = M!Fresh(plan[x]) /\ plan[x] \in Kinds
  BY <1>1, CoreAssumption
<1>3. /\ opened = FALSE /\ active = {} /\ db = 0 /\ life = 0 /\ lock = 1 /\ holder = NoOne
      /\ owner = [pc |-> "idle", opens |-> 0, toEnd |-> {}] /\ child = FALSE
      /\ pins = {} /\ idle = 0 /\ conns = {} /\ open = 0 /\ file = NoOne
      /\ reserved = {} /\ pid = "own" /\ inherited = {} /\ touched = FALSE
      /\ native = 0 /\ epoch = 0 /\ moved = FALSE /\ astray = {}
      /\ which \in {"memory", "SQLite", "RocksDB"}
  BY StoragesAssumption DEF Init, M!Init, M!CoreInit, S!Init, R!Init
<1>4. ASSUME NEW x \in Contexts
      PROVE /\ DOMAIN ctx[x] = Fields
            /\ ctx[x].kind \in Kinds /\ ctx[x].pc = "idle" /\ ctx[x].state = "none"
            /\ ctx[x].closed \in BOOLEAN /\ ~ctx[x].closed
            /\ ctx[x].lock = 0 /\ ctx[x].life = 0 /\ ctx[x].base = 0
            /\ ctx[x].answer = 0 /\ ctx[x].token = 0
  <2> DEFINE closed == FALSE
  <2>1. ctx[x] = [kind |-> plan[x], pc |-> "idle", closed |-> closed, state |-> "none", lock |-> 0,
                  life |-> 0, base |-> 0, answer |-> 0, token |-> 0]
    BY <1>2, Zenon DEF M!Fresh
  <2>2. closed \in BOOLEAN /\ ~closed
    OBVIOUS
  <2> HIDE DEF closed
  <2>3. /\ DOMAIN ctx[x] = Fields
        /\ ctx[x].kind = plan[x] /\ ctx[x].pc = "idle" /\ ctx[x].state = "none"
        /\ ctx[x].closed = closed /\ ctx[x].lock = 0 /\ ctx[x].life = 0 /\ ctx[x].base = 0
        /\ ctx[x].answer = 0 /\ ctx[x].token = 0
    BY <2>1 DEF Fields
  <2>4. ctx[x].closed \in BOOLEAN /\ ~ctx[x].closed
    BY <2>2, <2>3, Zenon
  <2> QED BY <1>2, <2>3, <2>4
<1>5. TypeOK
  <2>1. ASSUME NEW x \in Contexts PROVE Typed(ctx[x])
    BY <1>3, <1>4, SMTT(30) DEF Typed, Places, States
  <2>2. opened \in BOOLEAN /\ child \in BOOLEAN
    BY <1>3, Zenon
  <2> QED BY <1>1, <1>3, <2>1, <2>2, SMTT(30) DEF TypeOK
<1>6. MemInv
  BY <1>3, <1>4, <1>5, CoreAssumption, SMTT(30) DEF MemInv, MemOwner, MemContext, MemShape,
      MemState, MemSlot, MemMember, MemLife, MemPins, MemHolds, Live, TxnKinds
<1>7. SqlInv
  <2>1. SqlOwner
    BY <1>3, FS_EmptySet, SMTT(30) DEF SqlOwner
  <2> QED
    BY <1>3, <1>4, <1>5, <2>1, CoreAssumption, SMTT(30) DEF SqlInv, SqlContext, SqlShape,
        SqlState, SqlEnded, SqlConns, SqlSlot, SqlMember, TxnKinds
<1>8. RockInv
  <2>1. moved \in BOOLEAN /\ ~moved
    BY <1>3, Zenon
  <2>2. RockOwner
    BY <1>3, <2>1, SMTT(30) DEF RockOwner
  <2> QED
    BY <1>3, <1>4, <1>5, <2>2, CoreAssumption, SMTT(30) DEF RockInv, RockContext, RockShape,
        RockState, RockSlot, RockMember, RockLife, Taken, TxnKinds
<1>9. Contract!Init
  BY <1>3, <1>4 DEF Contract!Init
<1> QED BY <1>3, <1>6, <1>7, <1>8, <1>9 DEF Inv

LEMMA Stutters ==
    ASSUME Inv, UNCHANGED allVars
    PROVE  Inv'
<1> USE DEF allVars, memOnly, sqliteOnly, rocksOnly
<1>1. TypeOK => TypeOK'
  BY DEF TypeOK, Typed, Fields
<1>2. MemInv => MemInv'
  BY <1>1, SMTT(30) DEF MemInv, MemOwner, MemContext, MemShape, MemState, MemSlot, MemMember,
      MemLife, MemPins, MemHolds, Live
<1>3. SqlInv => SqlInv'
  BY <1>1, SMTT(30) DEF SqlInv, SqlOwner, SqlContext, SqlShape, SqlState, SqlEnded, SqlConns,
      SqlSlot, SqlMember
<1>4. RockInv => RockInv'
  BY <1>1, SMTT(30) DEF RockInv, RockOwner, RockContext, RockShape, RockState, RockSlot,
      RockMember, RockLife, Taken
<1> QED BY <1>2, <1>3, <1>4 DEF Inv

LEMMA Steps ==
    ASSUME Inv, Next
    PROVE  Inv' /\ (astray' = {} => Contract!Next)
<1>1. CASE which = "memory" /\ M!Next /\ UNCHANGED <<which, sqliteOnly, rocksOnly, elsewhere>>
  <2>1. MemInv' /\ Contract!Next
    BY <1>1, MemNext DEF Inv
  <2> QED BY <1>1, <2>1 DEF Inv, sqliteOnly, rocksOnly
<1>2. CASE which = "SQLite" /\ S!Next /\ UNCHANGED <<which, memOnly, rocksOnly>>
  <2>1. SqlInv' /\ Contract!Next
    BY <1>2, SqlNext DEF Inv
  <2> QED BY <1>2, <2>1 DEF Inv, memOnly, rocksOnly
<1>3. CASE which = "RocksDB" /\ R!Next /\ UNCHANGED <<which, memOnly, sqliteOnly>>
  <2>1. RockInv' /\ (astray' = {} => Contract!Next)
    BY <1>3, RockNext DEF Inv
  <2> QED BY <1>3, <2>1 DEF Inv, memOnly, sqliteOnly
<1> QED BY <1>1, <1>2, <1>3 DEF Next

\* The invariant of the storages holds in every reachable state.
THEOREM StoragesInvariant == Spec => []Inv
<1>1. Init => Inv
  BY Initially
<1>2. Inv /\ [Next]_allVars => Inv'
  BY Steps, Stutters
<1> QED BY <1>1, <1>2, PTL DEF Spec

\* Whatever closes, reopens or forks a storage meanwhile (close, open, _check_fork), a write
\* lands in the life it began in, on the state it began on, and a context that lives reads
\* that state, or for a view of a secondary that catches up the next (_catch_up_locked moves
\* the data before it bumps the epoch); on RocksDB, as long as no writer reached a database
\* opened after its slot was replaced.
THEOREM StoragesKeepContract == Spec => KeepsContract
<1>1. Init => Contract!Init
  BY Initially
<1>2. Inv /\ [Next]_allVars => [astray' = {} => Contract!Next]_<<life, db, ctx>>
  BY Steps DEF allVars
<1> QED BY <1>1, <1>2, StoragesInvariant, PTL DEF Spec, KeepsContract

\* Once every call has returned no slot is held, no context registered, no version pinned,
\* and every connection is closed or pooled, whatever order close, the ends of the contexts
\* and their finalizers came in; but a child forked from a closed storage may have opened it
\* with the slot a lost thread held (the fork hook visits the open storages only).
THEOREM StoragesLeaveNothingBehind == Spec => []NothingLeftBehind
<1>1. Inv => NothingLeftBehind
  <2> SUFFICES ASSUME Inv, Quiet PROVE NothingLeftBehind
    BY DEF NothingLeftBehind
  <2> DEFINE Gone == {c \in Contexts : At(c, "gone")}
  <2>1. owner.pc = "idle" /\ \A c \in Contexts : ctx[c].pc \in {"idle", "done", "gone"}
    BY DEF Quiet
  <2>2. CASE which = "memory"
    <3>1. holder = NoOne /\ active \subseteq Gone /\ pins \subseteq Gone
      BY <2>1, <2>2, SMTT(30) DEF Inv, MemInv, TypeOK, MemOwner, MemContext, MemSlot, MemMember,
          MemPins, MemHolds, Live, At
    <3> QED BY <2>2, <3>1, FS_EmptySet DEF Inv, NothingLeftBehind
  <2>3. CASE which = "SQLite"
    <3>1. /\ holder = NoOne \/ (holder \in Gone /\ pid # "own")
          /\ active \subseteq Gone /\ conns \subseteq inherited
      BY <2>1, <2>3, SMTT(30) DEF Inv, SqlInv, TypeOK, SqlOwner, SqlContext, SqlSlot, SqlMember,
          SqlConns, At
    <3>2. open = idle + Cardinality(conns) /\ file \in conns \cup {NoOne} /\ (~opened => idle = 0)
      BY <2>3 DEF Inv, SqlInv, SqlOwner
    <3> QED BY <2>3, <3>1, <3>2 DEF Inv, NothingLeftBehind
  <2>4. CASE which = "RocksDB"
    <3>1. (holder = NoOne \/ holder \in Gone) /\ active \subseteq Gone
      BY <2>1, <2>4, SMTT(30) DEF Inv, RockInv, TypeOK, RockContext, RockSlot, RockMember,
          Taken, At
    <3>2. ~opened => native = 0
      BY <2>4 DEF Inv, RockInv, RockOwner
    <3> QED BY <2>4, <3>1, <3>2, FS_EmptySet DEF Inv, NothingLeftBehind
  <2> QED BY <2>2, <2>3, <2>4 DEF Inv
<1> QED BY <1>1, StoragesInvariant, PTL

\* A child that was forked neither runs a statement on a connection of its parent, nor frees
\* one (_check_fork parks them all).
THEOREM ConnectionsStayUntouched == Spec => []InheritedUntouched
<1>1. Inv => InheritedUntouched
  BY DEF Inv, SqlInv, SqlOwner, InheritedUntouched
<1> QED BY <1>1, StoragesInvariant, PTL
=============================================================================
