----------------------------- MODULE LmdbWriter -----------------------------
(***************************************************************************)
(* Writers of the LMDB storage: who may begin, end and undo a write        *)
(* transaction, beside close and open, a peer process and a writer that    *)
(* does not go through virtuals.                                           *)
(*                                                                         *)
(* A writer takes three things in order: the in-process slot, the gate (an *)
(* flock that keeps virtuals processes apart) and LMDB's own mutex, which  *)
(* only the writer thread takes.  Everything LMDB does to a write          *)
(* transaction is a job on that thread; the requester waits for the job,   *)
(* and may leave before it lands.  A contended gate is waited for by a     *)
(* helper thread, on a duplicate of the descriptor.                        *)
(*                                                                         *)
(* Code under _env_lock, _call_lock, _mu or the thread's lock is one step. *)
(* The slot is module WriterSlot's, reduced to its lock and owner.         *)
(***************************************************************************)
EXTENDS Integers, Sequences, FiniteSets

CONSTANTS
    Txns,         \* threads that begin a transaction, use it and end it
    Batches,      \* threads that write a batch
    Reservers,    \* coroutines that reserve a slot, then release it or begin on it
    None,
    MaxOpens,     \* how often the storage is opened
    MaxOthers,    \* how often the peer takes the gate, the outside writer the mutex
    MaxReads      \* reads of a transaction that is not begun yet

Actors == Txns \cup Batches \cup Reservers

ASSUME WriterAssumption ==
    /\ None \notin Actors \cup {"close"} /\ "close" \notin Actors
    /\ Txns \cap Batches = {} /\ Txns \cap Reservers = {} /\ Batches \cap Reservers = {}
    /\ MaxOpens \in Nat \ {0} /\ MaxOthers \in Nat /\ MaxReads \in Nat

VARIABLES
    storage,   \* LMDBStorage and its slot: see StorageStates
    closer,    \* the thread in close: what it does, what it still has to end, whom it waits on
    gate,      \* WriterGate
    helper,    \* per descriptor: the wait the helper thread has on a duplicate of it
    flock,     \* who holds the lock of the gate file: a descriptor, the peer, nobody
    mutex,     \* who holds LMDB's writer mutex
    jobs,      \* the queue of the writer thread
    worker,    \* the writer thread: the begin it is in
    reply,     \* what a requester's future says
    act,       \* per actor: the caller and the context or slot it made
    others,    \* bounds what the peer and the outside writer do
    committed, \* history: whose writes LMDB committed
    slips      \* history: which of three rare races happened, see SlipStates
vars == <<storage, closer, gate, helper, flock, mutex, jobs, worker, reply, act, others, committed,
          slips>>

\* The lock of the gate file is held by a descriptor of this process, named by its generation.
Descriptors == 1 .. 2 * MaxOpens
Free == 0
PeerHas == -1
Requesters == Actors \cup {"close"}
Begins == {"begin", "staged"}
Jobs == [op : {"begin", "staged", "commit", "abort", "drop", "abandon"}, who : Actors,
         by : Requesters \cup {None}, cancelled : BOOLEAN]
\* Three races that the code lets through: an interrupted wait for the gate gives back a lock
\* that its helper has just landed; an interrupt between a begin's "running" and its result;
\* a close and a reopen between a release's look at the slot and its unlock.
SlipStates == {"gate", "landing", "release"}
NoJob == [pc |-> "idle", job |-> None]

\* pc of a caller; "open" and "reserved" are the application's own time.
PCs == {"idle", "slot", "gate", "gateWait", "flag", "register", "undo", "open", "reading",
        "unreplay", "apply", "committing", "ending", "release", "unlock",
        "begin", "beginWait", "bind", "reserved", "done"}
ActorStates ==
    [pc : PCs, lock : Nat, gen : Nat, gate : {"none", "waiting", "landed", "closed"},
     handle : {"none", "pending", "begun"}, begun : BOOLEAN, closed : BOOLEAN, reads : Nat,
     result : {"none", "ok", "failed"}]
StorageStates ==
    [opened : BOOLEAN, gateHeld : BOOLEAN, slot : Nat, owner : Actors \cup {None},
     active : SUBSET Actors, reserved : SUBSET Actors, live : SUBSET Actors,
     stopped : BOOLEAN, stuck : BOOLEAN, opens : Nat]

Init ==
    /\ storage = [opened |-> TRUE, gateHeld |-> FALSE, slot |-> 0, owner |-> None, active |-> {},
                  reserved |-> {}, live |-> {}, stopped |-> FALSE, stuck |-> FALSE, opens |-> 1]
    /\ closer = [pc |-> "open", left |-> {}, on |-> None]
    /\ gate = [open |-> TRUE, gen |-> 1, waiting |-> FALSE, consumer |-> None]
    /\ helper = [g \in Descriptors |-> "none"]
    /\ flock = Free /\ mutex = "free"
    /\ jobs = <<>> /\ worker = NoJob
    /\ reply = [r \in Requesters |-> "none"]
    /\ act = [a \in Actors |->
                 [pc |-> "idle", lock |-> 0, gen |-> 0, gate |-> "none", handle |-> "none",
                  begun |-> FALSE, closed |-> FALSE, reads |-> 0, result |-> "none"]]
    /\ others = [peer |-> MaxOthers, outside |-> MaxOthers]
    /\ committed = {} /\ slips = {}

\* _require_slot_current
Current(a) == storage.opened /\ act[a].lock = storage.slot

Goto(a, pc) == act' = [act EXCEPT ![a].pc = pc]

\* The begin or the write of a context failed; what it holds is given back at pc.
Fail(a, pc) == act' = [act EXCEPT ![a] = [@ EXCEPT !.pc = pc, !.result = "failed", !.closed = TRUE,
                                                   !.handle = "none"]]

\* Who releases a descriptor's lock when one of its two files is closed: the other keeps it.
CloseFile(g, stillOpen) == flock' = IF flock = g /\ ~stillOpen THEN Free ELSE flock
-----------------------------------------------------------------------------
(* The queue of the writer thread                                          *)

Job(op, a, r) == [op |-> op, who |-> a, by |-> r, cancelled |-> FALSE]

\* _submit, for a job that r waits for.
Submit(op, a, r) ==
    /\ ~storage.stopped
    /\ jobs' = Append(jobs, Job(op, a, r))
    /\ reply' = [reply EXCEPT ![r] = "waiting"]

\* fire and try_fire: nobody waits, and after stop the job is dropped.
Fire(queue, op, a) == IF storage.stopped THEN queue ELSE Append(queue, Job(op, a, None))

\* future.cancel() of a begin that has not landed: the thread finds it out when it lands.
CancelBegin(a) ==
    LET Cancelled(j) == IF j.by = a /\ j.op \in Begins THEN [j EXCEPT !.cancelled = TRUE] ELSE j
    IN /\ reply[a] = "waiting"
       /\ jobs' = [i \in DOMAIN jobs |-> Cancelled(jobs[i])]
       /\ worker' = IF worker.pc = "idle" THEN worker
                    ELSE [worker EXCEPT !.job = Cancelled(worker.job)]
       /\ reply' = [reply EXCEPT ![a] = "none"]

\* _left and the end of arun, for a begin that is marked running and has no result yet: it
\* cannot be cancelled any more, and the callback added to it is run by set_result.
LeaveRunning(a) ==
    /\ reply[a] = "running"
    /\ worker' = [worker EXCEPT !.job.cancelled = TRUE]
    /\ reply' = [reply EXCEPT ![a] = "none"]

Answer(r, x) == IF r = None THEN reply ELSE [reply EXCEPT ![r] = x]

\* The thread takes a begin off the queue; a reservation's begin checks its slot first.
PickBegin ==
    /\ worker.pc = "idle" /\ jobs # <<>> /\ Head(jobs).op \in Begins
    /\ LET j == Head(jobs) IN
       IF j.who \in Reservers /\ ~Current(j.who)
       THEN /\ reply' = IF j.cancelled THEN reply ELSE Answer(j.by, "failed")
            /\ UNCHANGED worker
       ELSE /\ worker' = [pc |-> "begin", job |-> j]
            /\ UNCHANGED reply
    /\ jobs' = Tail(jobs)
    /\ UNCHANGED <<storage, closer, gate, helper, flock, mutex, act, others, committed, slips>>

\* env.begin(write=True) returns: LMDB's mutex is this thread's.
EnvBegin ==
    /\ worker.pc = "begin" /\ mutex = "free"
    /\ mutex' = "us"
    /\ worker' = [worker EXCEPT !.pc = "register"]
    /\ UNCHANGED <<storage, closer, gate, helper, flock, jobs, reply, act, others, committed, slips>>

\* The begun transaction is live, or ended here when close came first.
RegisterLive ==
    /\ worker.pc = "register"
    /\ LET a == worker.job.who IN
       IF storage.opened
       THEN /\ storage' = [storage EXCEPT !.live = @ \cup {a}]
            /\ worker' = [worker EXCEPT !.pc = "land"]
            /\ act' = IF a \in Reservers THEN [act EXCEPT ![a].begun = TRUE] ELSE act
            /\ UNCHANGED <<mutex, reply>>
       ELSE /\ mutex' = "free" /\ worker' = NoJob
            /\ reply' = IF worker.job.cancelled THEN reply ELSE Answer(worker.job.by, "failed")
            /\ UNCHANGED <<storage, act>>
    /\ UNCHANGED <<closer, gate, helper, flock, jobs, others, committed, slips>>

\* set_running_or_notify_cancel: the requester's cancel wins, or the begin lands.
Land ==
    /\ worker.pc = "land"
    /\ LET j == worker.job IN
       \/ /\ j.cancelled
          /\ worker' = [worker EXCEPT !.pc = "drop"]
          /\ UNCHANGED reply
       \/ /\ ~j.cancelled /\ j.op = "staged"
          /\ worker' = [worker EXCEPT !.pc = "apply"]
          /\ reply' = Answer(j.by, "landed")
       \/ /\ ~j.cancelled /\ j.op = "begin"
          /\ worker' = [worker EXCEPT !.pc = "result"]
          /\ reply' = Answer(j.by, "running")
    /\ UNCHANGED <<storage, closer, gate, helper, flock, mutex, jobs, act, others, committed, slips>>

\* set_result: callbacks added since it was marked running fire now, on this thread.
SetResult ==
    /\ worker.pc = "result"
    /\ LET a == worker.job.who IN
       IF worker.job.cancelled
       THEN /\ jobs' = Fire(jobs, IF a \in Reservers THEN "abandon" ELSE "drop", a)
            /\ UNCHANGED reply
       ELSE /\ reply' = Answer(worker.job.by, "ok")
            /\ UNCHANGED jobs
    /\ worker' = NoJob
    /\ UNCHANGED <<storage, closer, gate, helper, flock, mutex, act, others, committed, slips>>

\* _end_live: off the live set, then ended; a transaction already ended is left alone.
EndLive(a) ==
    /\ storage' = [storage EXCEPT !.live = @ \ {a}]
    /\ mutex' = IF a \in storage.live THEN "free" ELSE mutex

\* An abandoned begin is aborted right where it landed. A reservation's may have been
\* taken out of "begun" by its own exception path, which then aborts it.
DropAbandoned ==
    /\ worker.pc = "drop"
    /\ LET a == worker.job.who IN
       IF a \in Reservers /\ ~act[a].begun
       THEN UNCHANGED <<storage, mutex, act>>
       ELSE EndLive(a) /\ act' = [act EXCEPT ![a].begun = FALSE]
    /\ worker' = NoJob
    /\ UNCHANGED <<closer, gate, helper, flock, jobs, reply, others, committed, slips>>

\* _apply_and_commit: the replay or the commit fails, or the writes are committed.
ApplyAndCommit ==
    /\ worker.pc = "apply"
    /\ LET a == worker.job.who IN
       /\ EndLive(a)
       /\ \/ a \in storage.live /\ committed' = committed \cup {a} /\ reply' = [reply EXCEPT ![a] = "ok"]
          \/ UNCHANGED committed /\ reply' = [reply EXCEPT ![a] = "failed"]
    /\ worker' = NoJob
    /\ UNCHANGED <<closer, gate, helper, flock, jobs, act, others, slips>>

\* The other jobs: commit or abort of a begun transaction, or the abort of an abandoned one.
RunEnd ==
    /\ worker.pc = "idle" /\ jobs # <<>> /\ Head(jobs).op \notin Begins
    /\ LET j == Head(jobs)
           mine == j.who \notin Reservers \/ j.op # "abandon" \/ act[j.who].begun
       IN /\ IF mine THEN EndLive(j.who) ELSE UNCHANGED <<storage, mutex>>
          /\ act' = IF j.op = "abandon" THEN [act EXCEPT ![j.who].begun = FALSE] ELSE act
          /\ \/ /\ j.op # "commit" /\ reply' = Answer(j.by, "ok") /\ UNCHANGED committed
             \/ /\ j.op = "commit" /\ j.who \in storage.live
                /\ committed' = committed \cup {j.who} /\ reply' = Answer(j.by, "ok")
             \/ j.op = "commit" /\ reply' = Answer(j.by, "failed") /\ UNCHANGED committed
    /\ jobs' = Tail(jobs)
    /\ UNCHANGED <<closer, gate, helper, flock, worker, others, slips>>

Worker ==
    \/ PickBegin \/ EnvBegin \/ RegisterLive \/ Land \/ SetResult \/ DropAbandoned
    \/ ApplyAndCommit \/ RunEnd
-----------------------------------------------------------------------------
(* The gate                                                                *)

GateVars == <<gate, helper, flock>>

\* _attach, inside the caller's check that its slot is current.
Attach(a) ==
    /\ act[a].pc = "gate"
    /\ \/ /\ ~Current(a)
          /\ Goto(a, "undo") /\ UNCHANGED GateVars
       \/ /\ Current(a) /\ ~gate.waiting /\ flock \in {Free, gate.gen}
          /\ flock' = gate.gen
          /\ act' = [act EXCEPT ![a] = [@ EXCEPT !.pc = "flag", !.gen = gate.gen]]
          /\ UNCHANGED <<gate, helper>>
       \/ /\ Current(a) /\ (gate.waiting \/ flock \notin {Free, gate.gen})
          /\ gate' = [gate EXCEPT !.waiting = TRUE, !.consumer = a]
          /\ helper' = IF gate.waiting THEN helper ELSE [helper EXCEPT ![gate.gen] = "asked"]
          /\ act' = [act EXCEPT ![a] = [@ EXCEPT !.pc = "gateWait", !.gate = "waiting",
                                                !.gen = gate.gen]]
          /\ UNCHANGED flock
    /\ UNCHANGED <<storage, closer, mutex, jobs, worker, reply, others, committed, slips>>

\* _serve: a request of a gate closed since is thrown away with its descriptor.
HelperStarts(g) ==
    /\ helper[g] = "asked"
    /\ helper' = [helper EXCEPT ![g] = IF g = gate.gen THEN "blocked" ELSE "none"]
    /\ CloseFile(g, g = gate.gen)
    /\ UNCHANGED <<storage, closer, gate, mutex, jobs, worker, reply, act, others, committed, slips>>

\* The blocking flock returns.
HelperLocks(g) ==
    /\ helper[g] = "blocked" /\ flock \in {Free, g}
    /\ flock' = g
    /\ helper' = [helper EXCEPT ![g] = "landed"]
    /\ UNCHANGED <<storage, closer, gate, mutex, jobs, worker, reply, act, others, committed, slips>>

\* Mutant: the helper keeps a lock that nobody wants any more.
HelperDelivers_Keeps(g) ==
    /\ helper[g] = "landed"
    /\ helper' = [helper EXCEPT ![g] = "none"]
    /\ IF g = gate.gen
       THEN /\ gate' = [gate EXCEPT !.waiting = FALSE, !.consumer = None]
            /\ act' = IF gate.consumer = None THEN act
                      ELSE [act EXCEPT ![gate.consumer].gate = "landed"]
            /\ UNCHANGED flock
       ELSE CloseFile(g, FALSE) /\ UNCHANGED <<gate, act>>
    /\ UNCHANGED <<storage, closer, mutex, jobs, worker, reply, others, committed, slips>>

\* Then, under _mu: hand the lock to who waits, or release it, or let it go with the file.
HelperDelivers(g) ==
    /\ helper[g] = "landed"
    /\ helper' = [helper EXCEPT ![g] = "none"]
    /\ IF g = gate.gen
       THEN /\ gate' = [gate EXCEPT !.waiting = FALSE, !.consumer = None]
            /\ IF gate.consumer = None
               THEN /\ flock' = IF flock = g THEN Free ELSE flock
                    /\ UNCHANGED act
               ELSE /\ act' = [act EXCEPT ![gate.consumer].gate = "landed"]
                    /\ UNCHANGED flock
       ELSE CloseFile(g, FALSE) /\ UNCHANGED <<gate, act>>
    /\ UNCHANGED <<storage, closer, mutex, jobs, worker, reply, others, committed, slips>>

\* The wait for the gate ends: it landed, or the storage closed.
GateLands(a) ==
    /\ act[a].pc = "gateWait" /\ act[a].gate \in {"landed", "closed"}
    /\ act' = [act EXCEPT ![a] = [@ EXCEPT !.gate = "none",
                                           !.pc = IF act[a].gate = "landed"
                                                  THEN "flag" ELSE "undo"]]
    /\ UNCHANGED <<storage, closer, gate, helper, flock, mutex, jobs, worker, reply, others, committed, slips>>

\* Mutant: a timeout goes on as if the lock had landed.
GateTimesOut_GoesOn(a) ==
    /\ act[a].pc = "gateWait" /\ gate.consumer = a
    /\ gate' = [gate EXCEPT !.consumer = None]
    /\ act' = [act EXCEPT ![a] = [@ EXCEPT !.gate = "none", !.pc = "flag"]]
    /\ UNCHANGED <<storage, closer, helper, flock, mutex, jobs, worker, reply, others, committed, slips>>

\* A timeout leaves only a wait that is still attached (_detach).
GateTimesOut(a) ==
    /\ act[a].pc = "gateWait" /\ gate.consumer = a
    /\ gate' = [gate EXCEPT !.consumer = None]
    /\ act' = [act EXCEPT ![a] = [@ EXCEPT !.gate = "none", !.pc = "undo"]]
    /\ UNCHANGED <<storage, closer, helper, flock, mutex, jobs, worker, reply, others, committed, slips>>

\* release(generation): a no-op on any other descriptor than the one named.
Unlock(g) == flock' = IF gate.open /\ gate.gen = g /\ flock = g THEN Free ELSE flock

\* A coroutine is cancelled: detach, or give back the lock that landed for it.
GateCancelled(a) ==
    /\ a \in Reservers /\ act[a].pc = "gateWait"
    /\ gate' = IF gate.consumer = a THEN [gate EXCEPT !.consumer = None] ELSE gate
    /\ IF act[a].gate = "landed" THEN Unlock(act[a].gen) ELSE UNCHANGED flock
    /\ act' = [act EXCEPT ![a] = [@ EXCEPT !.gate = "none", !.pc = "undo"]]
    /\ UNCHANGED <<storage, closer, helper, mutex, jobs, worker, reply, others, committed, slips>>

\* A thread's wait is interrupted: acquire detaches or releases, and _acquire_gate then
\* releases again, whatever the state.
GateInterrupted(a) ==
    /\ a \notin Reservers /\ act[a].pc = "gateWait"
    /\ gate' = IF gate.consumer = a THEN [gate EXCEPT !.consumer = None] ELSE gate
    /\ act' = [act EXCEPT ![a] = [@ EXCEPT !.gate = "none", !.pc = "undo"]]
    /\ Unlock(act[a].gen)
    /\ storage' = IF gate.open /\ gate.gen = act[a].gen
                  THEN [storage EXCEPT !.gateHeld = FALSE] ELSE storage
    /\ slips' = IF gate.gen = act[a].gen /\ helper[gate.gen] = "landed"
                THEN slips \cup {"gate"} ELSE slips
    /\ UNCHANGED <<closer, helper, mutex, jobs, worker, reply, others, committed>>

\* The caller finds its slot still current and marks the gate held.
FlagGate(a) ==
    /\ act[a].pc = "flag"
    /\ IF Current(a)
       THEN /\ storage' = [storage EXCEPT !.gateHeld = TRUE]
            /\ Goto(a, CASE a \in Txns -> "register" [] a \in Batches -> "apply"
                         [] a \in Reservers -> "begin")
       ELSE Goto(a, "undo") /\ UNCHANGED storage
    /\ UNCHANGED <<closer, gate, helper, flock, mutex, jobs, worker, reply, others, committed, slips>>

Gate ==
    \/ \E g \in Descriptors : HelperStarts(g) \/ HelperLocks(g) \/ HelperDelivers(g)
    \/ \E a \in Actors : \/ Attach(a) \/ GateLands(a) \/ GateTimesOut(a) \/ GateCancelled(a)
                         \/ GateInterrupted(a) \/ FlagGate(a)
-----------------------------------------------------------------------------
(* Taking and giving back                                                  *)

\* The storage is open; a batch registers itself now.
Start(a) ==
    /\ act[a].pc = "idle" /\ storage.opened
    /\ storage' = IF a \in Batches THEN [storage EXCEPT !.active = @ \cup {a}] ELSE storage
    /\ Goto(a, "slot")
    /\ UNCHANGED <<closer, gate, helper, flock, mutex, jobs, worker, reply, others, committed, slips>>

TakeSlot(a) ==
    /\ act[a].pc = "slot" /\ storage.owner = None
    /\ storage' = [storage EXCEPT !.owner = a]
    /\ act' = [act EXCEPT ![a] = [@ EXCEPT !.pc = "gate", !.lock = storage.slot]]
    /\ UNCHANGED <<closer, gate, helper, flock, mutex, jobs, worker, reply, others, committed, slips>>

\* Timed out, cancelled, or woken by close: it holds nothing.
SlotGivesUp(a) ==
    /\ act[a].pc = "slot" /\ (storage.owner # None \/ ~storage.opened)
    /\ Fail(a, "done")
    /\ storage' = [storage EXCEPT !.active = @ \ {a}]
    /\ UNCHANGED <<closer, gate, helper, flock, mutex, jobs, worker, reply, others, committed, slips>>

\* _release_write_slot by the holder of lock l: nothing, when it is not the slot's any more.
\* The gate goes first, then the slot.
ReleaseBoth(s, l) == IF l # s.slot THEN s ELSE [s EXCEPT !.gateHeld = FALSE, !.owner = None]
ReleaseFile(s, l) ==
    IF l = s.slot /\ s.gateHeld /\ gate.open /\ flock = gate.gen THEN Free ELSE flock

\* The exception path of a begin. A thread whose slot was replaced gives nothing back; a
\* batch releases the slot only, as it never gets here with the gate held.
Undo(a) ==
    /\ act[a].pc = "undo"
    /\ IF a \in Batches
       THEN /\ storage' = [storage EXCEPT !.owner = IF act[a].lock = storage.slot THEN None ELSE @,
                                          !.active = @ \ {a}]
            /\ UNCHANGED flock
       ELSE /\ storage' = ReleaseBoth(storage, act[a].lock)
            /\ flock' = ReleaseFile(storage, act[a].lock)
    \* a begin that landed for a reservation is aborted on the thread
    /\ jobs' = IF act[a].begun THEN Fire(jobs, "drop", a) ELSE jobs
    /\ act' = [act EXCEPT ![a] = [@ EXCEPT !.pc = "done", !.result = "failed", !.begun = FALSE,
                                           !.closed = TRUE]]
    /\ UNCHANGED <<closer, gate, helper, mutex, worker, reply, others, committed, slips>>

\* The end of a context that was used: nothing, for a slot that was replaced. Else, with no
\* lock held in between, the gate and then the slot.
Release(a) ==
    /\ act[a].pc = "release"
    /\ IF act[a].lock = storage.slot
       THEN Goto(a, "unlock") /\ UNCHANGED storage
       ELSE Goto(a, "done") /\ storage' = [storage EXCEPT !.active = @ \ {a}]
    /\ UNCHANGED <<closer, gate, helper, flock, mutex, jobs, worker, reply, others, committed, slips>>

\* _release_gate looks at the flag alone; WriterLock.release compares the slot once more.
ReleaseUnlocks(a) ==
    /\ act[a].pc = "unlock"
    /\ flock' = IF storage.gateHeld /\ gate.open /\ flock = gate.gen THEN Free ELSE flock
    /\ storage' = [storage EXCEPT !.gateHeld = FALSE, !.active = @ \ {a},
                                  !.owner = IF act[a].lock = storage.slot THEN None ELSE @]
    /\ slips' = IF act[a].lock # storage.slot THEN slips \cup {"release"} ELSE slips
    /\ Goto(a, "done")
    /\ UNCHANGED <<closer, gate, helper, mutex, jobs, worker, reply, others, committed>>

Slot ==
    \E a \in Actors : \/ Start(a) \/ TakeSlot(a) \/ SlotGivesUp(a) \/ Undo(a)
                     \/ Release(a) \/ ReleaseUnlocks(a)
-----------------------------------------------------------------------------
(* A transaction                                                           *)

\* close() is inside abort(a) and holds a's call lock; a's own calls wait.
MayCall(a) == closer.on # a

\* A call of an open context submits op and waits for it. The thread is never stopped before
\* close has ended every open context.
Ask(a, op, pc) == Submit(op, a, a) /\ Goto(a, pc)

\* Registered under _env_lock while the slot is current; nothing is begun yet.
Register(a) ==
    /\ act[a].pc = "register"
    /\ IF Current(a)
       THEN /\ storage' = [storage EXCEPT !.active = @ \cup {a}]
            /\ act' = [act EXCEPT ![a] = [@ EXCEPT !.pc = "open", !.handle = "pending"]]
       ELSE Goto(a, "undo") /\ UNCHANGED storage
    /\ UNCHANGED <<closer, gate, helper, flock, mutex, jobs, worker, reply, others, committed, slips>>

\* The first read begins the pending transaction.
Read(a) ==
    /\ act[a].pc = "open" /\ act[a].handle = "pending" /\ MayCall(a) /\ act[a].reads < MaxReads
    /\ Submit("begin", a, a)
    /\ act' = [act EXCEPT ![a] = [@ EXCEPT !.pc = "reading", !.reads = act[a].reads + 1]]
    /\ UNCHANGED <<storage, closer, gate, helper, flock, mutex, worker, others, committed, slips>>

\* The begin landed and the pending writes are replayed, or the replay failed and the
\* begun transaction is aborted; or the begin failed. The context stays open.
ReadBegins(a) ==
    /\ act[a].pc = "reading" /\ reply[a] \in {"ok", "failed"}
    /\ \/ /\ reply[a] = "ok"
          /\ act' = [act EXCEPT ![a] = [@ EXCEPT !.pc = "open", !.handle = "begun"]]
          /\ reply' = Answer(a, "none") /\ UNCHANGED jobs
       \/ reply[a] = "ok" /\ Submit("abort", a, a) /\ Goto(a, "unreplay")
       \/ /\ reply[a] = "failed"
          /\ Goto(a, "open")
          /\ reply' = Answer(a, "none") /\ UNCHANGED jobs
    /\ UNCHANGED <<storage, closer, gate, helper, flock, mutex, worker, others, committed, slips>>

Unreplayed(a) ==
    /\ act[a].pc = "unreplay" /\ reply[a] = "ok"
    /\ Goto(a, "open") /\ reply' = Answer(a, "none")
    /\ UNCHANGED <<storage, closer, gate, helper, flock, mutex, jobs, worker, others, committed, slips>>

\* The wait for the begin times out, or is interrupted before it lands.
ReadGivesUp(a) ==
    /\ act[a].pc = "reading"
    /\ CancelBegin(a)
    /\ Goto(a, "open")
    /\ UNCHANGED <<storage, closer, gate, helper, flock, mutex, others, committed, slips>>

\* _left: interrupted when it had landed, the abort is queued; marked running but without
\* its result yet, the thread queues it when it sets the result.
ReadInterrupted(a) ==
    /\ act[a].pc = "reading"
    /\ \/ /\ reply[a] = "ok"
          /\ jobs' = Fire(jobs, "drop", a) /\ reply' = Answer(a, "none")
          /\ UNCHANGED <<worker, slips>>
       \/ LeaveRunning(a) /\ slips' = slips \cup {"landing"} /\ UNCHANGED jobs
    /\ Goto(a, "open")
    /\ UNCHANGED <<storage, closer, gate, helper, flock, mutex, others, committed>>

\* commit: of a begun transaction, or begin, replay and commit in one job.
Commit(a) ==
    /\ act[a].pc = "open" /\ MayCall(a)
    /\ \/ /\ act[a].closed
          /\ act' = [act EXCEPT ![a] = [@ EXCEPT !.pc = "done", !.result = "failed"]]
          /\ UNCHANGED <<jobs, reply>>
       \/ ~act[a].closed /\ act[a].handle = "pending" /\ Ask(a, "staged", "committing")
       \/ ~act[a].closed /\ act[a].handle = "begun" /\ Ask(a, "commit", "ending")
    /\ UNCHANGED <<storage, closer, gate, helper, flock, mutex, worker, others, committed, slips>>

\* abort: a pending one just closes.
Abort(a) ==
    /\ act[a].pc = "open" /\ MayCall(a) /\ ~act[a].closed
    /\ \/ act[a].handle = "pending" /\ Fail(a, "release") /\ UNCHANGED <<jobs, reply>>
       \/ act[a].handle = "begun" /\ Ask(a, "abort", "ending")
    /\ UNCHANGED <<storage, closer, gate, helper, flock, mutex, worker, others, committed, slips>>

\* The caller drops it un-ended; close holds a reference to what it still has to end.
Finalize(a) ==
    /\ act[a].pc = "open" /\ ~act[a].closed /\ a \notin closer.left
    /\ jobs' = IF act[a].handle = "begun" THEN Fire(jobs, "drop", a) ELSE jobs
    /\ Fail(a, "release")
    /\ UNCHANGED <<storage, closer, gate, helper, flock, mutex, worker, reply, others, committed, slips>>

\* The answer of a commit or an abort. Only a commit that ran reports success.
Ended(a) ==
    /\ act[a].pc \in {"committing", "ending"} /\ reply[a] \in {"ok", "failed"}
    /\ act' = [act EXCEPT ![a] = [@ EXCEPT !.pc = "release", !.closed = TRUE, !.handle = "none",
                                           !.result = IF reply[a] = "ok" /\ a \in committed
                                                      THEN "ok" ELSE "failed"]]
    /\ reply' = Answer(a, "none")
    /\ UNCHANGED <<storage, closer, gate, helper, flock, mutex, jobs, worker, others, committed, slips>>

\* Mutant: a commit that timed out is not cancelled on the thread.
CommitGivesUp_Runs(a) ==
    /\ act[a].pc = "committing" /\ reply[a] = "waiting"
    /\ reply' = Answer(a, "none")
    /\ Fail(a, "release")
    /\ UNCHANGED <<storage, closer, gate, helper, flock, mutex, jobs, worker, others, committed, slips>>

\* A staged commit times out, or is interrupted (NOT_RUN), before its begin lands; from then
\* on it is waited out.
CommitGivesUp(a) ==
    /\ act[a].pc = "committing"
    /\ CancelBegin(a)
    /\ Fail(a, "release")
    /\ UNCHANGED <<storage, closer, gate, helper, flock, mutex, others, committed, slips>>

\* An interrupted abort closes and releases; the thread still runs it.
AbortInterrupted(a) ==
    /\ act[a].pc = "ending" /\ reply[a] = "waiting"
    /\ \E i \in DOMAIN jobs : jobs[i].by = a /\ jobs[i].op = "abort"
    /\ jobs' = [i \in DOMAIN jobs |-> IF jobs[i].by = a THEN [jobs[i] EXCEPT !.by = None] ELSE jobs[i]]
    /\ reply' = Answer(a, "none")
    /\ Fail(a, "release")
    /\ UNCHANGED <<storage, closer, gate, helper, flock, mutex, worker, others, committed, slips>>

\* A batch with its slot and gate: closed meanwhile, or committed in one job.
ApplyBatch(a) ==
    /\ act[a].pc = "apply" /\ MayCall(a)
    /\ IF act[a].closed
       THEN Goto(a, "release") /\ UNCHANGED <<jobs, reply>>
       ELSE Ask(a, "staged", "committing")
    /\ UNCHANGED <<storage, closer, gate, helper, flock, mutex, worker, others, committed, slips>>

Contexts ==
    \E a \in Actors :
        \/ Register(a) \/ Read(a) \/ ReadBegins(a) \/ Unreplayed(a) \/ ReadGivesUp(a)
        \/ ReadInterrupted(a) \/ Commit(a) \/ Abort(a) \/ Finalize(a) \/ Ended(a)
        \/ CommitGivesUp(a) \/ AbortInterrupted(a) \/ ApplyBatch(a)
-----------------------------------------------------------------------------
(* A reserved slot                                                         *)

ReserveBegins(a) ==
    /\ act[a].pc = "begin"
    /\ \/ Submit("begin", a, a) /\ Goto(a, "beginWait")
       \/ storage.stopped /\ Goto(a, "undo") /\ UNCHANGED <<jobs, reply>>
    /\ UNCHANGED <<storage, closer, gate, helper, flock, mutex, worker, others, committed, slips>>

ReserveAnswered(a) ==
    /\ act[a].pc = "beginWait" /\ reply[a] \in {"ok", "failed"}
    /\ Goto(a, IF reply[a] = "ok" THEN "bind" ELSE "undo")
    /\ reply' = Answer(a, "none")
    /\ UNCHANGED <<storage, closer, gate, helper, flock, mutex, jobs, worker, others, committed, slips>>

\* Timed out, or the task was cancelled.
ReserveGivesUp(a) ==
    /\ act[a].pc = "beginWait"
    /\ \/ CancelBegin(a)
       \/ /\ reply[a] = "ok"
          /\ jobs' = Fire(jobs, "abandon", a) /\ reply' = Answer(a, "none") /\ UNCHANGED worker
       \/ LeaveRunning(a) /\ UNCHANGED jobs
    /\ Goto(a, "undo")
    /\ UNCHANGED <<storage, closer, gate, helper, flock, mutex, others, committed, slips>>

\* The slot object is made while the slot is current.
Bind(a) ==
    /\ act[a].pc = "bind"
    /\ IF Current(a)
       THEN /\ storage' = [storage EXCEPT !.reserved = @ \cup {a}]
            /\ act' = [act EXCEPT ![a] = [@ EXCEPT !.pc = "reserved", !.begun = FALSE,
                                                  !.handle = "begun"]]
       ELSE Goto(a, "undo") /\ UNCHANGED storage
    /\ UNCHANGED <<closer, gate, helper, flock, mutex, jobs, worker, reply, others, committed, slips>>

\* release(): the transaction goes first, if close has not cleared it.
ReleaseReserved(a) ==
    /\ act[a].pc = "reserved"
    /\ storage' = [storage EXCEPT !.reserved = @ \ {a}]
    /\ IF act[a].handle = "begun" /\ ~storage.stopped
       THEN Submit("abort", a, a) /\ Goto(a, "ending")
       ELSE Fail(a, "release") /\ UNCHANGED <<jobs, reply>>
    /\ UNCHANGED <<closer, gate, helper, flock, mutex, worker, others, committed, slips>>

\* begin_transaction on it: a stale slot is refused, one that close cleared stays reserved.
TakeReserved(a) ==
    /\ act[a].pc = "reserved"
    /\ IF act[a].lock # storage.slot
       THEN /\ jobs' = IF act[a].handle = "begun" THEN Fire(jobs, "drop", a) ELSE jobs
            /\ Fail(a, "done")
            /\ UNCHANGED storage
       ELSE /\ act[a].handle = "begun"
            /\ storage' = [storage EXCEPT !.reserved = @ \ {a}, !.active = @ \cup {a}]
            /\ Goto(a, "open")
            /\ UNCHANGED jobs
    /\ UNCHANGED <<closer, gate, helper, flock, mutex, worker, reply, others, committed, slips>>

Reservations ==
    \E a \in Reservers : \/ ReserveBegins(a) \/ ReserveAnswered(a) \/ ReserveGivesUp(a) \/ Bind(a)
                         \/ ReleaseReserved(a) \/ TakeReserved(a)
-----------------------------------------------------------------------------
(* Close and open                                                          *)

\* Under _env_lock: nothing registers from here on, and the gate's waiter is woken.
StartClose ==
    /\ closer.pc = "open"
    /\ closer' = [pc |-> "contexts", on |-> None,
                  left |-> {a \in storage.active : ~act[a].closed}]
    /\ storage' = [storage EXCEPT !.opened = FALSE, !.active = {}, !.reserved = {}]
    /\ gate' = [gate EXCEPT !.consumer = None]
    /\ act' = [a \in Actors |->
                  IF a \in storage.reserved THEN [act[a] EXCEPT !.handle = "none"]
                  ELSE IF gate.consumer = a THEN [act[a] EXCEPT !.gate = "closed"] ELSE act[a]]
    /\ UNCHANGED <<helper, flock, mutex, jobs, worker, reply, others, committed, slips>>

CallLocked(a) == act[a].pc \in {"reading", "unreplay", "committing", "ending"}

\* What close does to a context once it has ended: a transaction gives its slot back.
Closed(a) ==
    /\ act' = [act EXCEPT ![a] = [@ EXCEPT !.closed = TRUE, !.handle = "none", !.result = "failed"]]
    /\ IF a \in Batches THEN UNCHANGED <<storage, flock>>
       ELSE storage' = ReleaseBoth(storage, act[a].lock) /\ flock' = ReleaseFile(storage, act[a].lock)
    /\ closer' = [closer EXCEPT !.left = @ \ {a}, !.on = None]

\* abort() of each context that was registered: closed meanwhile, nothing begun, or begun.
CloseAborts(a) ==
    /\ closer.pc = "contexts" /\ closer.on = None /\ a \in closer.left
    /\ \/ /\ act[a].closed
          /\ closer' = [closer EXCEPT !.left = @ \ {a}]
          /\ UNCHANGED <<storage, flock, act, jobs, reply>>
       \/ /\ ~act[a].closed /\ ~CallLocked(a) /\ act[a].handle # "begun"
          /\ Closed(a) /\ UNCHANGED <<jobs, reply>>
       \/ /\ ~act[a].closed /\ ~CallLocked(a) /\ act[a].handle = "begun"
          /\ Submit("abort", a, "close")
          /\ closer' = [closer EXCEPT !.on = a]
          /\ UNCHANGED <<storage, flock, act>>
    /\ UNCHANGED <<gate, helper, mutex, worker, others, committed, slips>>

CloseAborted ==
    /\ closer.pc = "contexts" /\ closer.on # None /\ reply["close"] = "ok"
    /\ Closed(closer.on)
    /\ reply' = Answer("close", "none")
    /\ UNCHANGED <<gate, helper, mutex, jobs, worker, others, committed, slips>>

\* Then whatever is still live: reserved slots, and begins whose requester left.
CloseLive ==
    /\ closer.pc = "contexts" /\ closer.left = {}
    /\ closer' = [pc |-> "live", left |-> storage.live, on |-> None]
    /\ UNCHANGED <<storage, gate, helper, flock, mutex, jobs, worker, reply, act, others, committed, slips>>

CloseEnds(a) ==
    /\ closer.pc = "live" /\ closer.on = None /\ a \in closer.left
    /\ Submit("abort", a, "close")
    /\ closer' = [closer EXCEPT !.left = @ \ {a}, !.on = None, !.pc = "liveWait"]
    /\ UNCHANGED <<storage, gate, helper, flock, mutex, worker, act, others, committed, slips>>

CloseEnded ==
    /\ closer.pc = "liveWait" /\ reply["close"] = "ok"
    /\ closer' = [closer EXCEPT !.pc = "live"]
    /\ reply' = Answer("close", "none")
    /\ UNCHANGED <<storage, gate, helper, flock, mutex, jobs, worker, act, others, committed, slips>>

\* WriterLock.close replaces the slot; then the thread is told to stop.
CloseSlot ==
    /\ closer.pc = "live" /\ closer.left = {}
    /\ storage' = [storage EXCEPT !.slot = @ + 1, !.owner = None]
    /\ closer' = [closer EXCEPT !.pc = "slot"]
    /\ UNCHANGED <<gate, helper, flock, mutex, jobs, worker, reply, act, others, committed, slips>>

StopWorker ==
    /\ closer.pc = "slot"
    /\ storage' = [storage EXCEPT !.stopped = TRUE]
    /\ closer' = [closer EXCEPT !.pc = "joining"]
    /\ UNCHANGED <<gate, helper, flock, mutex, jobs, worker, reply, act, others, committed, slips>>

\* The thread exits after its last job, or is left behind inside LMDB. The gate's file goes,
\* and with it the lock, unless the helper still has its duplicate.
FinishClose ==
    /\ closer.pc = "joining"
    /\ \/ worker.pc = "idle" /\ jobs = <<>> /\ storage' = [storage EXCEPT !.gateHeld = FALSE]
       \/ /\ worker.pc = "begin" /\ mutex # "free"
          /\ storage' = [storage EXCEPT !.gateHeld = FALSE, !.stuck = TRUE]
    /\ CloseFile(gate.gen, helper[gate.gen] # "none")
    /\ gate' = [open |-> FALSE, gen |-> gate.gen + 1, waiting |-> FALSE, consumer |-> None]
    /\ act' = IF gate.consumer = None THEN act ELSE [act EXCEPT ![gate.consumer].gate = "closed"]
    /\ closer' = [closer EXCEPT !.pc = "closed"]
    /\ UNCHANGED <<helper, mutex, jobs, worker, reply, others, committed, slips>>

\* py-lmdb refuses to open an environment that a stuck close left open.
Open ==
    /\ closer.pc = "closed" /\ ~storage.stuck /\ storage.opens < MaxOpens
    /\ storage' = [storage EXCEPT !.opened = TRUE, !.stopped = FALSE, !.gateHeld = FALSE,
                                  !.opens = @ + 1]
    /\ gate' = [open |-> TRUE, gen |-> gate.gen + 1, waiting |-> FALSE, consumer |-> None]
    /\ closer' = [closer EXCEPT !.pc = "open"]
    /\ UNCHANGED <<helper, flock, mutex, jobs, worker, reply, act, others, committed, slips>>

CloseAndOpen ==
    \/ StartClose \/ (\E a \in Actors : CloseAborts(a) \/ CloseEnds(a)) \/ CloseAborted
    \/ CloseLive \/ CloseEnded \/ CloseSlot \/ StopWorker \/ FinishClose \/ Open
-----------------------------------------------------------------------------
(* Other processes                                                         *)

\* A virtuals process: the gate, then the mutex, and both back.
Peer ==
    /\ \/ others.peer > 0 /\ flock = Free /\ flock' = PeerHas
          /\ others' = [others EXCEPT !.peer = @ - 1] /\ UNCHANGED mutex
       \/ flock = PeerHas /\ mutex = "free" /\ mutex' = "peer" /\ UNCHANGED <<flock, others>>
       \/ flock = PeerHas /\ flock' = Free /\ UNCHANGED others
          /\ mutex' = IF mutex = "peer" THEN "free" ELSE mutex
    /\ UNCHANGED <<storage, closer, gate, helper, jobs, worker, reply, act, committed, slips>>

\* A writer that does not use the gate.
Outside ==
    /\ \/ others.outside > 0 /\ mutex = "free" /\ mutex' = "outside"
          /\ others' = [others EXCEPT !.outside = @ - 1]
       \/ mutex = "outside" /\ mutex' = "free" /\ UNCHANGED others
    /\ UNCHANGED <<storage, closer, gate, helper, flock, jobs, worker, reply, act, committed, slips>>

Quiet ==
    /\ \A a \in Actors : act[a].pc \in {"idle", "done"}
    /\ closer.pc \in {"open", "closed"} /\ jobs = <<>> /\ worker.pc = "idle"
    /\ \A g \in Descriptors : helper[g] = "none"

\* Everyone is done.
Terminating == Quiet /\ UNCHANGED vars

Next ==
    \/ Worker \/ Gate \/ Slot \/ Contexts \/ Reservations \/ CloseAndOpen \/ Peer \/ Outside
    \/ Terminating
Spec == Init /\ [][Next]_vars
-----------------------------------------------------------------------------
\* Every variable keeps its shape, and who waits for the gate is the one attached to its wait,
\* until the lock lands or the storage closes: a stale consumer would swallow the lock.
TypeOK ==
    /\ \A a \in Actors : gate.consumer = a <=> act[a].pc = "gateWait" /\ act[a].gate = "waiting"
    /\ storage \in StorageStates
    /\ act \in [Actors -> ActorStates]
    /\ gate \in [open : BOOLEAN, gen : Nat, waiting : BOOLEAN, consumer : Actors \cup {None}]
    /\ closer.left \subseteq Actors /\ closer.on \in Actors \cup {None}
    /\ helper \in [Descriptors -> {"none", "asked", "blocked", "landed"}]
    /\ flock \in {Free, PeerHas} \cup Descriptors
    /\ mutex \in {"free", "us", "peer", "outside"}
    /\ \A i \in DOMAIN jobs : jobs[i] \in Jobs
    /\ reply \in [Requesters -> {"none", "waiting", "landed", "running", "ok", "failed"}]
    /\ slips \subseteq SlipStates

\* A begin that somebody waits for is inside LMDB behind a virtuals process.
BehindPeer == storage.opened /\ worker.pc = "begin" /\ ~worker.job.cancelled /\ mutex = "peer"

\* The writer thread waits in LMDB neither for the mutex that it holds itself, since whoever
\* leaves a begun transaction behind has its end queued before the next begin
\* (_writer.py:410-440), nor for another virtuals process, since the gate is ours from before
\* the begin to its end (_writer.py:13-18); except after one of the three races.
BeginAlone == slips = {} => ~(worker.pc = "begin" /\ mutex = "us") /\ ~BehindPeer

\* At rest nothing of ours is left behind: no transaction, no lock of the gate, no slot.
NothingLeft ==
    Quiet /\ ~storage.stuck =>
        /\ storage.live = {} /\ mutex # "us"
        /\ flock \notin Descriptors
        /\ storage.owner = None /\ storage.active = {}

\* A caller is told that its writes were committed exactly when they were.
OutcomeTrue ==
    \A a \in Actors : /\ act[a].result = "ok" => a \in committed
                      /\ act[a].result = "failed" => a \notin committed
=============================================================================
