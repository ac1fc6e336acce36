----------------------------- MODULE WriterSlot -----------------------------
(***************************************************************************)
(* The in-process writer slot shared by the single-writer storages         *)
(* (_backends/storages/_write_slot.py): WriterLock and WriteSlot.          *)
(*                                                                         *)
(* Threads barge: they take the native lock whenever it is free.           *)
(* Coroutines queue: a release hands the still locked lock to the head.    *)
(* Everything the code changes under WriterLock._guard is one step on the  *)
(* record w; native lock takes and gives are steps of their own, so a      *)
(* close, a timeout or another caller may come between any two of them.    *)
(***************************************************************************)
EXTENDS Integers, FiniteSets, Sequences

CONSTANTS
    Threads,          \* plain threads, outside any task
    Coros,            \* tasks; each has at most one reservation at a time
    Loops,            \* event loops, each on a thread of its own
    LoopOf,           \* LoopOf[c]: the loop that runs c
    None,             \* no actor
    MaxReplace,       \* bound: how often close or a fork replaces the lock
    Closable,         \* the loops that may be closed under their coroutines
    Interruptible,    \* the threads an interrupt may be raised into
    ReleaseDuringJob  \* may a task release a slot its to_thread job still uses?

Actors == Threads \cup Coros
Locks  == 0 .. MaxReplace     \* lock identities, in the order they are made

ASSUME ActorsAssumption ==
    /\ Threads \cap Coros = {}
    /\ None \notin Actors
    /\ LoopOf \in [Coros -> Loops]
    /\ Closable \subseteq Loops
    /\ Interruptible \subseteq Threads
    /\ ReleaseDuringJob \in BOOLEAN
ASSUME BoundAssumption == MaxReplace \in Nat

VARIABLES
    w,            \* WriterLock, with the native locks and its waiters' states
    pc,           \* where each actor is
    lk,           \* the lock each actor read or took
    slot,         \* the WriteSlot each coroutine was given
    quit,         \* why a queued coroutine's future ended early
    closedLoops,
    job           \* the coroutine a to_thread job works for

vars == <<w, pc, lk, slot, quit, closedLoops, job>>

WaiterStates == {"none", "waiting", "granted", "closed", "abandoned"}
SlotStates   == {"held", "taken", "released"}

\* A synchronous section: while a coroutine is in one its loop runs nothing else.
MidCall == {"try", "count", "blocked", "record", "recordWaited", "giveback",
            "passon", "grant", "wsRelease", "begin"}
PCs == MidCall \cup {"idle", "await", "reserved", "lent", "job", "holding"}

WriterStates ==
    [lock : Locks, locked : SUBSET Locks,
     owner : Actors \cup {None}, marked : SUBSET Actors,
     waiters : Seq(Coros), pending : Coros \cup {None},
     wstate : [Coros -> WaiterStates], wlock : [Coros -> Locks],
     syncWaiting : Int, bargeNext : BOOLEAN]

TypeOK ==
    /\ w \in WriterStates
    /\ pc \in [Actors -> PCs]
    /\ lk \in [Actors -> Locks]
    /\ slot \in [Coros -> [lock : Locks, state : SlotStates]]
    /\ quit \in [Coros -> {"no", "timeout", "cancel"}]
    /\ closedLoops \subseteq Loops
    /\ job \in [Threads -> Coros \cup {None}]

NoSlot == [lock |-> 0, state |-> "released"]

Init ==
    /\ w = [lock |-> 0, locked |-> {}, owner |-> None, marked |-> {},
            waiters |-> <<>>, pending |-> None,
            wstate |-> [c \in Coros |-> "none"], wlock |-> [c \in Coros |-> 0],
            syncWaiting |-> 0, bargeNext |-> FALSE]
    /\ pc = [a \in Actors |-> "idle"]
    /\ lk = [a \in Actors |-> 0]
    /\ slot = [c \in Coros |-> NoSlot]
    /\ quit = [c \in Coros |-> "no"]
    /\ closedLoops = {}
    /\ job = [t \in Threads |-> None]

-----------------------------------------------------------------------------
(* Queue mechanics: what the guarded helpers make of the record.           *)

Gone(c) == LoopOf[c] \in closedLoops
Dead(c) == Gone(c) \/ quit[c] # "no"      \* _Waiter.dead: loop closed or future done

Unlock(r) == [r EXCEPT !.locked = @ \ {r.lock}, !.bargeNext = FALSE]

\* Positions of the waiters a handoff may wake.
LiveAt(r) == {i \in 1 .. Len(r.waiters) : ~Dead(r.waiters[i])}

\* Waiters before position k are skipped: abandoned, and out of the queue.
Skip(r, k) ==
    [r EXCEPT !.waiters = SubSeq(@, k, Len(@)),
              !.wstate  = [c \in Coros |->
                  IF \E i \in 1 .. k - 1 : r.waiters[i] = c THEN "abandoned" ELSE @[c]]]

Grant(r, c) ==
    [r EXCEPT !.waiters = Tail(@), !.wstate[c] = "granted", !.wlock[c] = r.lock,
              !.pending = c, !.bargeNext = TRUE]

HandOff(r) ==
    IF LiveAt(r) = {}
    THEN Unlock(Skip(r, Len(r.waiters) + 1))
    ELSE LET k == CHOOSE i \in LiveAt(r) : \A j \in LiveAt(r) : i <= j
         IN  Grant(Skip(r, k), r.waiters[k])

\* Faulty variants: no turns, either side always first.
ReleaseToThreads(r) ==
    IF r.waiters # <<>> /\ r.syncWaiting = 0 THEN HandOff(r) ELSE Unlock(r)

ReleaseToQueue(r) ==
    IF r.waiters # <<>> THEN HandOff(r) ELSE Unlock(r)

ReleaseLocked(r) ==
    IF r.waiters # <<>> /\ ~(r.bargeNext /\ r.syncWaiting # 0)
    THEN HandOff(r)
    ELSE Unlock(r)

\* Faulty variant: the handoff is left pending.
RevokeKeepsPending(r, c) == [r EXCEPT !.wstate[c] = "abandoned"]

\* A waiter whose grant is taken back: it is no longer the one being handed to.
Revoke(r, c) == [r EXCEPT !.wstate[c] = "abandoned",
                          !.pending = IF @ = c THEN None ELSE @]

ReclaimDeadPending(r) ==
    IF r.pending # None /\ r.wstate[r.pending] = "granted" /\ Gone(r.pending)
    THEN LET s == Revoke(r, r.pending)
         IN  IF r.wlock[r.pending] = r.lock THEN ReleaseLocked(s) ELSE s
    ELSE r

\* Faulty variant: nobody rescues the queue.
RescueNothing(r) == r

RescueQueue(r) ==
    IF r.waiters # <<>> /\ r.lock \notin r.locked
    THEN HandOff([r EXCEPT !.locked = @ \cup {r.lock}])
    ELSE r

\* The coroutine's areserve is over, and its waiter with it.
Drop(r, c) == [r EXCEPT !.wstate[c] = "none", !.wlock[c] = 0]

\* self._waiters.remove(waiter)
Leave(r, i) == [r EXCEPT !.waiters = SubSeq(@, 1, i - 1) \o SubSeq(@, i + 1, Len(@))]

NoQuit(c)  == quit' = [quit EXCEPT ![c] = "no"]

Uncount(r) == [r EXCEPT !.syncWaiting = @ - 1]

\* Faulty variant: releases the current lock, whichever lock the caller took.
ReleaseAny(r, lock) ==
    IF r.lock \in r.locked
    THEN ReleaseLocked([r EXCEPT !.owner = None, !.marked = {}])
    ELSE r

\* release(lock): nothing when the lock was replaced, or (RuntimeError) is free.
ReleaseHold(r, lock) ==
    IF lock = r.lock /\ r.lock \in r.locked
    THEN ReleaseLocked([r EXCEPT !.owner = None, !.marked = {}])
    ELSE r

-----------------------------------------------------------------------------
(* Who may take a step, and who waits on itself.                           *)

\* c's loop is open and not inside another coroutine's synchronous section.
CanRun(c) ==
    /\ ~Gone(c)
    /\ \A d \in Coros \ {c} : LoopOf[d] = LoopOf[c] => pc[d] \notin MidCall

\* A finalizer or the teardown of a closed loop runs the step instead.
CanRunOrGone(c) == CanRun(c) \/ Gone(c)

Runs(a)       == a \in Coros => CanRun(a)
RunsOrGone(a) == a \in Coros => CanRunOrGone(a)

IsNested(a) == /\ w.owner # None
               /\ a \in w.marked
               /\ a \in Threads \/ w.owner = a

\* acquire refuses at once: the holder is a task of the loop that would block.
OwnerOnMyLoop(a) == /\ a \in Coros
                    /\ w.owner \in Coros
                    /\ LoopOf[w.owner] = LoopOf[a]

Goto(a, where) == pc' = [pc EXCEPT ![a] = where]

\* The call returned or raised, and its locals are gone; a to_thread job ends with it.
Finish(a) == /\ Goto(a, "idle")
             /\ lk' = [lk EXCEPT ![a] = 0]
             /\ job' = [t \in Threads |-> IF t = a THEN None ELSE job[t]]

-----------------------------------------------------------------------------
(* acquire: the sync path, from a thread, a to_thread job or a task.       *)

AcquireBegin(a) ==
    /\ pc[a] = "idle" \/ (a \in Threads /\ pc[a] = "job")
    /\ Runs(a)
    /\ ~IsNested(a)
    /\ ~OwnerOnMyLoop(a)
    /\ lk' = [lk EXCEPT ![a] = w.lock]
    /\ Goto(a, "try")
    /\ UNCHANGED <<w, slot, quit, closedLoops, job>>

\* A job below the holder asks for the slot: StorageNestedTransactionError.
AcquireNested(t) ==
    /\ pc[t] = "job"
    /\ IsNested(t)
    /\ Finish(t)
    /\ UNCHANGED <<w, slot, quit, closedLoops>>

TryTake(a) ==
    /\ pc[a] = "try"
    /\ lk[a] \notin w.locked
    /\ w' = [w EXCEPT !.locked = @ \cup {lk[a]}]
    /\ Goto(a, "record")
    /\ UNCHANGED <<lk, slot, quit, closedLoops, job>>

TryBusy(a) ==
    /\ pc[a] = "try"
    /\ lk[a] \in w.locked
    /\ Goto(a, "count")
    /\ UNCHANGED <<w, lk, slot, quit, closedLoops, job>>

CountWaiting(a) ==
    /\ pc[a] = "count"
    /\ w' = [ReclaimDeadPending(w) EXCEPT !.syncWaiting = @ + 1]
    /\ lk' = [lk EXCEPT ![a] = w.lock]
    /\ Goto(a, "blocked")
    /\ UNCHANGED <<slot, quit, closedLoops, job>>

BlockedTake(a) ==
    /\ pc[a] = "blocked"
    /\ lk[a] \notin w.locked
    /\ w' = [w EXCEPT !.locked = @ \cup {lk[a]}]
    /\ Goto(a, "recordWaited")
    /\ UNCHANGED <<lk, slot, quit, closedLoops, job>>

\* Timed out, or interrupted without the lock: both leave in the same way.
WaitGivesUp(a) ==
    /\ pc[a] = "blocked"
    /\ w' = RescueQueue(ReclaimDeadPending(Uncount(w)))
    /\ Finish(a)
    /\ UNCHANGED <<slot, quit, closedLoops>>

\* The interrupt lands as the native wait took the lock (got[0] is True).
InterruptTaken(a) ==
    /\ pc[a] = "blocked"
    /\ lk[a] \notin w.locked
    /\ w' = ReleaseLocked(Uncount([w EXCEPT !.locked = @ \cup {lk[a]}]))
    /\ Finish(a)
    /\ UNCHANGED <<slot, quit, closedLoops>>

\* _held_by, for a taken lock that is still the slot.
RecordHold(a) ==
    /\ pc[a] \in {"record", "recordWaited"}
    /\ lk[a] = w.lock
    /\ w' = [w EXCEPT !.owner = a, !.marked = {a},
                      !.syncWaiting = IF pc[a] = "recordWaited" THEN @ - 1 ELSE @]
    /\ Goto(a, "holding")
    /\ UNCHANGED <<lk, slot, quit, closedLoops, job>>

\* _held_by, for a lock that was replaced while the caller waited or took it.
RecordStale(a) ==
    /\ pc[a] \in {"record", "recordWaited"}
    /\ lk[a] # w.lock
    /\ w' = IF pc[a] = "recordWaited" THEN RescueQueue(Uncount(w)) ELSE w
    /\ Goto(a, "giveback")
    /\ UNCHANGED <<lk, slot, quit, closedLoops, job>>

GiveBackStale(a) ==
    /\ pc[a] = "giveback"
    /\ w' = [w EXCEPT !.locked = @ \ {lk[a]}]
    /\ Finish(a)
    /\ UNCHANGED <<slot, quit, closedLoops>>

\* The transaction ends (commit, abort, or its finalizer) and releases by identity.
Release(a) ==
    /\ pc[a] = "holding"
    /\ RunsOrGone(a)
    /\ w' = ReleaseHold(w, lk[a])
    /\ slot' = [c \in Coros |-> IF c = a THEN NoSlot ELSE slot[c]]
    /\ Finish(a)
    /\ UNCHANGED <<quit, closedLoops>>

-----------------------------------------------------------------------------
(* areserve: the queue of coroutines.                                      *)

\* A task reserves again once the job it started has ended.
MayReserve(c) == /\ pc[c] = "idle"
                 /\ CanRun(c)
                 /\ ~IsNested(c)
                 /\ \A t \in Threads : job[t] # c

FreeForReserve(r) == /\ r.waiters = <<>>
                     /\ r.syncWaiting = 0
                     /\ r.lock \notin r.locked

GiveSlot(c) == slot' = [slot EXCEPT ![c] = [lock |-> w.lock, state |-> "held"]]

ReserveFree(c) ==
    LET r == ReclaimDeadPending(w) IN
    /\ MayReserve(c)
    /\ FreeForReserve(r)
    /\ w' = [r EXCEPT !.locked = @ \cup {r.lock}, !.owner = c, !.marked = {c}]
    /\ GiveSlot(c)
    /\ Goto(c, "reserved")
    /\ UNCHANGED <<lk, quit, closedLoops, job>>

ReserveQueue(c) ==
    LET r == ReclaimDeadPending(w) IN
    /\ MayReserve(c)
    /\ ~FreeForReserve(r)
    /\ w' = [r EXCEPT !.waiters = Append(@, c), !.wstate[c] = "waiting"]
    /\ Goto(c, "await")
    /\ UNCHANGED <<lk, slot, quit, closedLoops, job>>

\* wait_for's timer, a cancellation, or the teardown of a closed loop ends the
\* future; the coroutine itself runs later.
GiveUp(c, why) ==
    /\ pc[c] = "await"
    /\ quit[c] = "no"
    /\ CanRun(c) \/ (Gone(c) /\ why = "cancel")
    /\ quit' = [quit EXCEPT ![c] = why]
    /\ UNCHANGED <<w, pc, lk, slot, closedLoops, job>>

WakeUp(c) ==
    /\ pc[c] = "await"
    /\ quit[c] = "no"
    /\ w.wstate[c] \in {"granted", "closed"}
    /\ CanRun(c)
    /\ Goto(c, "grant")
    /\ UNCHANGED <<w, lk, slot, quit, closedLoops, job>>

\* The except path of the wait: the queue is left, or the grant looked at again.
LeaveQueue(c) ==
    /\ pc[c] = "await"
    /\ quit[c] # "no"
    /\ CanRunOrGone(c)
    /\ \/ /\ w.wstate[c] = "waiting"
          /\ \E i \in 1 .. Len(w.waiters) :
                w.waiters[i] = c /\ w' = Leave(Drop(w, c), i)
       \/ /\ w.wstate[c] = "abandoned"
          /\ w' = Drop(w, c)
    /\ NoQuit(c)
    /\ Finish(c)
    /\ UNCHANGED <<slot, closedLoops>>

LateGrant(c) ==
    /\ pc[c] = "await"
    /\ quit[c] # "no"
    /\ CanRunOrGone(c)
    /\ w.wstate[c] \in {"granted", "closed"}
    /\ Goto(c, IF quit[c] = "cancel" THEN "passon" ELSE "grant")
    /\ UNCHANGED <<w, lk, slot, quit, closedLoops, job>>

\* Faulty variant: a cancelled reservation forgets that it was granted.
PassOnForgets(c) ==
    /\ pc[c] = "passon"
    /\ w' = Drop(IF w.wstate[c] = "granted" THEN Revoke(w, c) ELSE w, c)
    /\ NoQuit(c)
    /\ Finish(c)
    /\ UNCHANGED <<slot, closedLoops>>

PassOn(c) ==
    /\ pc[c] = "passon"
    /\ w' = LET r == IF w.wstate[c] # "granted" THEN w
                     ELSE IF w.wlock[c] = w.lock THEN ReleaseLocked(Revoke(w, c))
                     ELSE Revoke(w, c)
            IN  Drop(r, c)
    /\ NoQuit(c)
    /\ Finish(c)
    /\ UNCHANGED <<slot, closedLoops>>

StillGranted(c) == w.wstate[c] = "granted" /\ w.wlock[c] = w.lock

Granted(c) ==
    /\ pc[c] = "grant"
    /\ StillGranted(c)
    /\ w' = [Drop(w, c) EXCEPT !.pending = IF @ = c THEN None ELSE @,
                               !.owner = c, !.marked = {c}]
    /\ GiveSlot(c)
    /\ NoQuit(c)
    /\ Goto(c, "reserved")
    /\ UNCHANGED <<lk, closedLoops, job>>

\* StorageClosedError.
GrantClosed(c) ==
    /\ pc[c] = "grant"
    /\ ~StillGranted(c)
    /\ w' = Drop(w, c)
    /\ NoQuit(c)
    /\ Finish(c)
    /\ UNCHANGED <<slot, closedLoops>>

-----------------------------------------------------------------------------
(* The WriteSlot: taken by its own task, or by a to_thread job it starts.  *)

HandOver(c, t) ==
    /\ pc[c] = "reserved"
    /\ CanRun(c)
    /\ pc[t] = "idle"
    /\ pc' = [pc EXCEPT ![c] = "lent", ![t] = "job"]
    /\ job' = [job EXCEPT ![t] = c]
    \* to_thread copies the context, with the mark of the current hold.
    /\ w' = [w EXCEPT !.marked = IF c \in @ THEN @ \cup {t} ELSE @]
    /\ UNCHANGED <<lk, slot, quit, closedLoops>>

\* Actor a begins a transaction on the slot of c.
BeginsOn(a, c) == \/ a = c /\ pc[c] = "reserved" /\ CanRun(c)
                  \/ a \in Threads /\ pc[a] = "job" /\ job[a] = c

TakeSlot(a, c) ==
    /\ BeginsOn(a, c)
    /\ slot[c].state = "held"
    /\ slot[c].lock = w.lock
    /\ slot' = [slot EXCEPT ![c].state = "taken"]
    /\ w' = [w EXCEPT !.owner = a,
                      !.marked = IF a \in Coros THEN @ \cup {a} ELSE @]
    /\ lk' = [lk EXCEPT ![a] = slot[c].lock]
    /\ Goto(a, "begin")
    /\ UNCHANGED <<quit, closedLoops, job>>

\* Already taken or released, or from before a close or a fork: StorageError.
TakeSlotRefused(a, c) ==
    /\ BeginsOn(a, c)
    /\ slot[c].state # "held" \/ slot[c].lock # w.lock
    /\ slot' = [slot EXCEPT ![c] = IF @.state = "held" THEN NoSlot ELSE @]
    /\ Finish(a)
    /\ UNCHANGED <<w, quit, closedLoops>>

BeginSucceeds(a) ==
    /\ pc[a] = "begin"
    /\ Goto(a, "holding")
    /\ UNCHANGED <<w, lk, slot, quit, closedLoops, job>>

\* give_back: the slot and its previous owner, who is the task it was given to.
BeginFails(a, c) ==
    /\ pc[a] = "begin"
    /\ a = c \/ (a \in Threads /\ job[a] = c)
    /\ IF lk[a] = w.lock
       THEN /\ w' = [w EXCEPT !.owner = c]
            /\ slot' = [slot EXCEPT ![c].state = IF @ = "taken" THEN "held" ELSE @]
       ELSE /\ slot' = [slot EXCEPT ![c] = NoSlot]
            /\ UNCHANGED w
    /\ IF a = c /\ lk[a] = w.lock
       THEN Goto(a, "reserved") /\ UNCHANGED <<lk, job>>
       ELSE Finish(a)
    /\ UNCHANGED <<quit, closedLoops>>

\* The task resumes from its job: nothing to give back unless the slot is held.
JobEnded(c) ==
    /\ pc[c] = "lent"
    /\ CanRun(c)
    /\ \A t \in Threads : job[t] # c
    /\ Goto(c, IF slot[c].state = "held" THEN "reserved" ELSE "idle")
    /\ slot' = [slot EXCEPT ![c] = IF @.state = "held" THEN @ ELSE NoSlot]
    /\ UNCHANGED <<w, lk, quit, closedLoops, job>>

\* WriteSlot.release reads the state without the guard ...
ReleaseSlotCheck(c) ==
    /\ \/ pc[c] = "reserved"
       \/ ReleaseDuringJob /\ pc[c] = "lent"
    /\ CanRunOrGone(c)
    /\ Goto(c, IF slot[c].state = "held" THEN "wsRelease" ELSE "idle")
    /\ UNCHANGED <<w, lk, slot, quit, closedLoops, job>>

\* ... and gives the lock back in a later step.
ReleaseSlot(c) ==
    /\ pc[c] = "wsRelease"
    /\ slot' = [slot EXCEPT ![c] = NoSlot]
    /\ w' = ReleaseHold(w, slot[c].lock)
    /\ Finish(c)
    /\ UNCHANGED <<quit, closedLoops>>

-----------------------------------------------------------------------------
(* Lifecycle: close and fork replace the lock; a loop may close.           *)

CloseWaiters(r) ==
    [c \in Coros |->
        IF r.pending = c \/ \E i \in 1 .. Len(r.waiters) : r.waiters[i] = c
        THEN "closed" ELSE r.wstate[c]]

Close ==
    /\ w.lock < MaxReplace
    /\ w' = [w EXCEPT
          !.lock      = @ + 1,
          !.locked    = IF w.owner # None \/ w.pending # None THEN @ \ {w.lock} ELSE @,
          !.owner     = None,
          !.marked    = {},
          !.pending   = None,
          !.waiters   = <<>>,
          !.wstate    = CloseWaiters(w),
          !.bargeNext = FALSE]
    /\ UNCHANGED <<pc, lk, slot, quit, closedLoops, job>>

\* The child of a fork made by a: reset, and nobody else exists there. The
\* names of the others stand for threads and tasks the child starts itself.
Fork(a) ==
    /\ w.lock < MaxReplace
    /\ pc[a] \in {"idle", "holding", "reserved"}
    /\ Runs(a)
    /\ w' = [w EXCEPT
          !.lock = @ + 1, !.owner = None, !.marked = {}, !.pending = None,
          !.waiters = <<>>, !.wstate = [c \in Coros |-> "none"],
          !.wlock = [c \in Coros |-> 0], !.syncWaiting = 0, !.bargeNext = FALSE]
    /\ pc' = [b \in Actors |-> IF b = a THEN pc[a] ELSE "idle"]
    /\ slot' = [c \in Coros |-> IF c = a THEN slot[c] ELSE NoSlot]
    /\ job' = [t \in Threads |-> None]
    /\ lk' = [b \in Actors |-> IF b = a THEN lk[a] ELSE 0]
    /\ quit' = [c \in Coros |-> "no"]
    /\ UNCHANGED closedLoops

CloseLoop(l) ==
    /\ l \in Closable \ closedLoops
    /\ \A c \in Coros : LoopOf[c] = l => pc[c] \notin MidCall
    /\ closedLoops' = closedLoops \cup {l}
    /\ UNCHANGED <<w, pc, lk, slot, quit, job>>

-----------------------------------------------------------------------------

ActorStep(a) ==
    \/ AcquireBegin(a) \/ TryTake(a) \/ TryBusy(a) \/ CountWaiting(a)
    \/ BlockedTake(a) \/ WaitGivesUp(a)
    \/ RecordHold(a) \/ RecordStale(a) \/ GiveBackStale(a)
    \/ Release(a) \/ BeginSucceeds(a) \/ Fork(a)

CoroStep(c) ==
    \/ ReserveFree(c) \/ ReserveQueue(c)
    \/ GiveUp(c, "timeout") \/ GiveUp(c, "cancel")
    \/ WakeUp(c) \/ LeaveQueue(c) \/ LateGrant(c) \/ PassOn(c)
    \/ Granted(c) \/ GrantClosed(c)
    \/ JobEnded(c) \/ ReleaseSlotCheck(c) \/ ReleaseSlot(c)

SlotStep(a, c) == TakeSlot(a, c) \/ TakeSlotRefused(a, c) \/ BeginFails(a, c)

Next ==
    \/ \E a \in Actors : ActorStep(a)
    \/ \E c \in Coros : CoroStep(c)
    \/ \E a \in Actors, c \in Coros : SlotStep(a, c)
    \/ \E c \in Coros, t \in Threads : HandOver(c, t)
    \/ \E t \in Threads : AcquireNested(t)
    \/ \E t \in Interruptible : InterruptTaken(t)
    \/ Close
    \/ \E l \in Loops : CloseLoop(l)

Spec == Init /\ [][Next]_vars

-----------------------------------------------------------------------------
(* Properties.                                                             *)

\* a runs a write transaction under the current slot.
Writes(a) == pc[a] \in {"begin", "holding"} /\ lk[a] = w.lock

\* c was given the current slot, and no transaction took it and c did not release it.
Keeps(c) == slot[c] = [lock |-> w.lock, state |-> "held"]

Holders == {a \in Actors : Writes(a)} \cup {c \in Coros : Keeps(c)}

\* Took a native lock, and has not yet recorded that or given the lock back.
InFlight(a) == pc[a] \in {"record", "recordWaited", "giveback"}

\* One writer at a time: whatever is handed over, handed on, reclaimed, closed or
\* forked, no two actors hold the current slot, and the holder is the recorded
\* owner of a locked lock (WriterLock: "mutual exclusion is the lock alone").
OneWriter ==
    \A a \in Holders : w.owner = a /\ w.lock \in w.locked

\* No slot is lost or freed twice: the current lock is locked exactly while
\* someone is bound to give it up - a recorded owner who really holds it, a
\* coroutine it was handed to, or a taker about to record itself - and those
\* exclude each other. A lock held for nobody would time out every later writer.
NoLostSlot ==
    LET takers == {a \in Actors : InFlight(a) /\ lk[a] = w.lock}
    IN  /\ w.owner # None => w.owner \in Holders
        /\ w.pending # None => w.wstate[w.pending] = "granted"
        /\ Cardinality(takers) + (IF w.owner # None THEN 1 ELSE 0)
             + (IF w.pending # None THEN 1 ELSE 0)
             = (IF w.lock \in w.locked THEN 1 ELSE 0)

\* No queue is stranded on a free lock: coroutines wait on an unlocked slot only
\* while some counted thread still has to take it, or to stop waiting and rescue
\* them (acquire's timeout and interrupt paths, _held_by on a replaced lock).
NoStrandedQueue ==
    w.waiters # <<>> /\ w.lock \notin w.locked =>
        \E a \in Actors : pc[a] \in {"blocked", "recordWaited"}

\* What OneWriter rests on, as an inductive invariant: the claims on the current lock
\* (a taker in flight, the recorded owner, a pending handoff) exclude each other, every
\* holder is the owner, and a release acts for a slot nobody else uses.
Coherent(r) ==
    /\ r.owner # None => r.lock \in r.locked /\ r.pending = None
    /\ r.pending # None => r.lock \in r.locked
    /\ \A c \in Coros : r.wstate[c] = "granted" => r.pending = c

Bounded == /\ \A l \in w.locked : l <= w.lock
           /\ \A a \in Actors : lk[a] <= w.lock
           /\ \A c \in Coros : slot[c].lock <= w.lock

TakersExclude ==
    /\ \A a \in Actors : InFlight(a) => lk[a] \in w.locked
    /\ \A a, b \in Actors : InFlight(a) /\ InFlight(b) /\ lk[a] = lk[b] => a = b
    /\ \A a \in Actors : InFlight(a) /\ lk[a] = w.lock =>
                           w.owner = None /\ w.pending = None
    /\ \A a \in Actors : pc[a] = "giveback" => lk[a] # w.lock

SlotUse ==
    /\ \A c \in Coros : pc[c] = "wsRelease" => slot[c].state = "held"
    /\ \A t \in Threads : job[t] # None => pc[job[t]] = "lent"

SlotInv == TypeOK /\ Coherent(w) /\ Bounded /\ TakersExclude /\ OneWriter /\ SlotUse

\* What NoLostSlot and NoStrandedQueue rest on: the handoff is for the lock of today,
\* the queue holds each waiter once, and every one of them still waits ...
Tidy(r) ==
    /\ r.pending # None => r.wstate[r.pending] = "granted" /\ r.wlock[r.pending] = r.lock
    /\ \A i \in 1 .. Len(r.waiters) : r.wstate[r.waiters[i]] = "waiting"
    /\ \A i, j \in 1 .. Len(r.waiters) : r.waiters[i] = r.waiters[j] => i = j

\* ... a queue on a free lock is left to the counted callers, who are exactly the
\* blocked ones and those that took the lock and still count themselves ...
Attended(r) == r.waiters # <<>> /\ r.lock \notin r.locked => r.syncWaiting # 0

Waiting == {a \in Actors : pc[a] \in {"blocked", "recordWaited"}}
Counted == IsFiniteSet(Waiting) /\ w.syncWaiting = Cardinality(Waiting)

\* ... a waiter lives as long as its areserve, a slot that is held is its task's to
\* use, lend or release, and a transaction that begins on a slot took that slot ...
Queued ==
    \A c \in Coros : /\ w.wstate[c] # "none" => pc[c] \in {"await", "passon", "grant"}
                     /\ w.wstate[c] = "waiting" => pc[c] = "await"

BeginsFor(a, c) == pc[a] = "begin" /\ (a = c \/ (a \in Threads /\ job[a] = c))

SlotPlaces ==
    /\ \A c \in Coros : slot[c].state = "held" => pc[c] \in {"reserved", "lent", "wsRelease"}
    /\ \A t, u \in Threads : job[t] # None /\ job[t] = job[u] => t = u
    /\ \A a \in Actors, c \in Coros :
          BeginsFor(a, c) => slot[c] = [lock |-> lk[a], state |-> "taken"]

\* ... and a locked slot is somebody's.
OwnerHolds == w.owner # None => w.owner \in Holders

Claimed ==
    w.lock \in w.locked =>
        \/ w.owner # None
        \/ w.pending # None
        \/ \E a \in Actors : InFlight(a) /\ lk[a] = w.lock

ClaimInv == /\ Tidy(w) /\ Attended(w) /\ Counted /\ Queued
            /\ SlotPlaces /\ OwnerHolds /\ Claimed

SlotClaimInv == SlotInv /\ ClaimInv

=============================================================================
