------------------------------ MODULE Publisher ------------------------------
(***************************************************************************)
(* The publishers' shared machinery (_backends/publishers/_base.py): a     *)
(* bounded queue per connection, the worker that drains it, and the calls  *)
(* notify, flush, connect and disconnect beside it.                        *)
(*                                                                         *)
(* A connection is a generation: connect makes a fresh queue, stop event   *)
(* and worker, and a worker keeps those it was started with. One lifecycle *)
(* thread connects and disconnects; any number of threads notify and       *)
(* flush. A call reads the publisher's fields in several steps, and each   *)
(* access to a queue is a step.                                            *)
(***************************************************************************)
EXTENDS Integers, FiniteSets, Sequences, Functions

CONSTANTS
    Calls,           \* notify() calls; each happens at most once
    BatchOf,         \* BatchOf[c]: the keys of call c, in the order it queues them
    Flushes,         \* flush() calls; also the sentinels they queue
    StopMarker,
    NoItem,          \* no sentinel
    QueueMax,        \* queue_maxsize
    ChunkMax,        \* MAX_KEYS_PER_CALL
    Unroutable,      \* keys that _prepare_chunk cannot encode
    PatientNotify,   \* notify_timeout=None?
    PatientFlushes,  \* the calls flush(timeout=None)
    Overlap,         \* may a notify or a patient flush overlap the end of a disconnect?
    MaxGen,          \* bound: connections
    MaxFails         \* bound: sends that raise

Gens  == 0 .. MaxGen
Keys  == UNION {Range(BatchOf[c]) : c \in Calls}
Items == Keys \cup Flushes \cup {StopMarker}

ASSUME CallsAssumption ==
    /\ \A c \in Calls : BatchOf[c] \in Seq(Range(BatchOf[c])) /\ BatchOf[c] # <<>>
    /\ \A c \in Calls : IsInjective(BatchOf[c])
    /\ \A c, d \in Calls : c # d => Range(BatchOf[c]) \cap Range(BatchOf[d]) = {}
    /\ Keys \cap Flushes = {}
    /\ {StopMarker, NoItem} \cap (Keys \cup Flushes) = {} /\ StopMarker # NoItem
    /\ PatientFlushes \subseteq Flushes
    /\ PatientNotify \in BOOLEAN /\ Overlap \in BOOLEAN
ASSUME BoundsAssumption ==
    QueueMax \in Nat \ {0} /\ ChunkMax \in Nat \ {0} /\ MaxGen \in Nat /\ MaxFails \in Nat

VARIABLES
    pub,        \* the fields of PublisherBase
    queue,      \* queue[g], stop[g]: what connection g was started with
    stop,
    worker,     \* worker[g]: the thread of connection g
    life,       \* where the lifecycle thread is, and the leftovers it counted
    call,       \* where each notify() is
    flush,      \* where each flush() is, and who set its event
    delivered,  \* the chunks the transport was given, in order (Received: the keys of them)
    fails,      \* how many sends raised
    history     \* keys accepted, dropped and raised; what was queued before each flush

vars == <<pub, queue, stop, worker, life, call, flush, delivered, fails, history>>

WorkerPCs == {"none", "get", "empty", "more", "publish", "chunk", "send", "dead"}
LifePCs   == {"idle", "connecting", "marking", "joining", "clearing", "closing"}
CallPCs   == {"start", "ensure", "read", "put", "wait", "drop", "done"}
FlushPCs  == {"start", "put", "wait", "raise", "done"}

Fields ==
    [connected : BOOLEAN, owned : BOOLEAN, gen : Gens, thread : Gens, stalled : BOOLEAN,
     drainFailed : BOOLEAN, dropped_keys : Nat, lastError : BOOLEAN]
WorkerStates ==
    [pc : WorkerPCs, batch : Seq(Keys), chunk : Seq(Keys),
     item : Flushes \cup {StopMarker, NoItem}]
CallStates  == [pc : CallPCs, q : Gens, i : Nat \ {0}]
FlushStates == [pc : FlushPCs, q : Gens, set : {"no", "worker", "disconnect"}]
Histories   == [accepted : Seq(Keys), dropped : SUBSET Keys, raised : SUBSET Keys,
                before : [Flushes -> SUBSET Keys]]

TypeOK ==
    /\ pub \in Fields
    /\ queue \in [Gens -> Seq(Items)] /\ \A g \in Gens : Len(queue[g]) <= QueueMax
    /\ stop \in [Gens -> BOOLEAN]
    /\ worker \in [Gens -> WorkerStates]
    /\ life \in [pc : LifePCs, left : SUBSET Keys]
    /\ call \in [Calls -> CallStates]
    /\ flush \in [Flushes -> FlushStates]
    /\ delivered \in Seq(Seq(Keys))
    /\ fails \in 0 .. MaxFails
    /\ history \in Histories

Init ==
    /\ pub = [connected |-> FALSE, owned |-> TRUE, gen |-> 0, thread |-> 0, stalled |-> FALSE,
              drainFailed |-> FALSE, dropped_keys |-> 0, lastError |-> FALSE]
    /\ queue = [g \in Gens |-> <<>>]
    /\ stop = [g \in Gens |-> FALSE]
    /\ worker = [g \in Gens |-> [pc |-> "none", batch |-> <<>>, chunk |-> <<>>, item |-> NoItem]]
    /\ life = [pc |-> "idle", left |-> {}]
    /\ call = [c \in Calls |-> [pc |-> "start", q |-> 0, i |-> 1]]
    /\ flush = [f \in Flushes |-> [pc |-> "start", q |-> 0, set |-> "no"]]
    /\ delivered = <<>> /\ fails = 0
    /\ history = [accepted |-> <<>>, dropped |-> {}, raised |-> {},
                  before |-> [f \in Flushes |-> {}]]

-----------------------------------------------------------------------------
Alive(g) == worker[g].pc \notin {"none", "dead"}
Full(g) == Len(queue[g]) = QueueMax

\* The keys call c has not queued yet.
Rest(c) == {BatchOf[c][j] : j \in call[c].i .. Len(BatchOf[c])}

CallOpen(c)  == call[c].pc \notin {"start", "done"}
FlushOpen(f) == flush[f].pc \notin {"start", "done"}
Returned     == [pc |-> "done", q |-> 0, i |-> 1]

\* Without Overlap an application ends its commits before disconnect queues the marker,
\* and begins none before disconnect returns; calls without a timeout it keeps clear of
\* all of disconnect.
NoNotify  == \A c \in Calls : ~CallOpen(c)
NoPatient == /\ \A f \in PatientFlushes : ~FlushOpen(f)
             /\ PatientNotify => NoNotify
Leaving(patient) ==
    /\ ~Overlap
    /\ \/ life.pc \in {"joining", "clearing", "closing"}
       \/ patient /\ life.pc = "marking"

\* Faulty variant: counts one key however many were dropped.
RecordDropOnce(p, ks) ==
    IF ks = {} THEN p ELSE [p EXCEPT !.dropped_keys = @ + 1, !.lastError = TRUE]

\* _record_drop, as it changes pub and the history.
RecordDrop(p, ks) ==
    IF ks = {} THEN p
    ELSE [p EXCEPT !.dropped_keys = @ + Cardinality(ks), !.lastError = TRUE]
Drop(ks) == [history EXCEPT !.dropped = @ \cup ks]

\* item.set(): nobody waits for the event of a flush that timed out.
Signalled(x, who) ==
    [f \in Flushes |-> IF f = x /\ flush[f].pc = "wait" THEN [flush[f] EXCEPT !.set = who]
                       ELSE flush[f]]
-----------------------------------------------------------------------------
(* notify()                                                                *)

NotifyConnected(c) ==
    /\ call[c].pc = "start" /\ pub.owned /\ ~Leaving(PatientNotify)
    /\ pub.connected
    /\ call' = [call EXCEPT ![c].pc = "read"]
    /\ UNCHANGED <<pub, queue, stop, worker, life, flush, delivered, fails, history>>

NotifyUnconnected(c) ==
    /\ call[c].pc = "start" /\ pub.owned /\ ~Leaving(PatientNotify)
    /\ ~pub.connected
    /\ pub' = RecordDrop(pub, Rest(c))
    /\ history' = Drop(Rest(c))
    /\ call' = [call EXCEPT ![c].pc = "ensure"]
    /\ UNCHANGED <<queue, stop, worker, life, flush, delivered, fails>>

\* _ensure_connected reads the flag again: a connect in between lets the call go on.
NotifyEnsure(c) ==
    /\ call[c].pc = "ensure"
    /\ call' = [call EXCEPT ![c] = IF pub.connected THEN [@ EXCEPT !.pc = "read"] ELSE Returned]
    /\ UNCHANGED <<pub, queue, stop, worker, life, flush, delivered, fails, history>>

NotifyRead(c) ==
    /\ call[c].pc = "read"
    /\ call' = [call EXCEPT ![c] = [@ EXCEPT !.pc = "put", !.q = pub.gen]]
    /\ UNCHANGED <<pub, queue, stop, worker, life, flush, delivered, fails, history>>

\* put_nowait, or a put that waited and found room.
Put(c) ==
    /\ call[c].pc \in {"put", "wait"}
    /\ ~Full(call[c].q)
    /\ LET k == BatchOf[c][call[c].i] IN
       /\ queue' = [queue EXCEPT ![call[c].q] = Append(@, k)]
       /\ history' = [history EXCEPT !.accepted = Append(@, k)]
    /\ call' = [call EXCEPT ![c] = IF @.i = Len(BatchOf[c]) THEN Returned
                                   ELSE [pc |-> "put", q |-> @.q, i |-> @.i + 1]]
    /\ UNCHANGED <<pub, stop, worker, life, flush, delivered, fails>>

\* Queue full: wait for room, or after an earlier drop do not.
PutFull(c) ==
    /\ call[c].pc = "put" /\ Full(call[c].q)
    /\ call' = [call EXCEPT ![c].pc = IF PatientNotify \/ ~pub.stalled THEN "wait" ELSE "drop"]
    /\ UNCHANGED <<pub, queue, stop, worker, life, flush, delivered, fails, history>>

PutTimesOut(c) ==
    /\ call[c].pc = "wait" /\ Full(call[c].q) /\ ~PatientNotify
    /\ call' = [call EXCEPT ![c].pc = "drop"]
    /\ UNCHANGED <<pub, queue, stop, worker, life, flush, delivered, fails, history>>

DropRest(c) ==
    /\ call[c].pc = "drop"
    /\ pub' = RecordDrop([pub EXCEPT !.stalled = TRUE], Rest(c))
    /\ history' = Drop(Rest(c))
    /\ call' = [call EXCEPT ![c] = Returned]
    /\ UNCHANGED <<queue, stop, worker, life, flush, delivered, fails>>

Notify(c) ==
    \/ NotifyConnected(c) \/ NotifyUnconnected(c) \/ NotifyEnsure(c) \/ NotifyRead(c)
    \/ Put(c) \/ PutFull(c) \/ PutTimesOut(c) \/ DropRest(c)
-----------------------------------------------------------------------------
(* flush()                                                                 *)

FlushStart(f) ==
    /\ flush[f].pc = "start" /\ pub.owned
    /\ f \in PatientFlushes => ~Leaving(TRUE)
    /\ flush' = [flush EXCEPT ![f] = [@ EXCEPT !.pc = IF pub.connected THEN "put" ELSE "raise",
                                               !.q = pub.gen]]
    /\ UNCHANGED <<pub, queue, stop, worker, life, call, delivered, fails, history>>

FlushPut(f) ==
    /\ flush[f].pc = "put" /\ ~Full(flush[f].q)
    /\ queue' = [queue EXCEPT ![flush[f].q] = Append(@, f)]
    /\ history' = [history EXCEPT !.before[f] = Range(history.accepted)]
    /\ flush' = [flush EXCEPT ![f].pc = "wait"]
    /\ UNCHANGED <<pub, stop, worker, life, call, delivered, fails>>

FlushWake(f) ==
    /\ flush[f].pc = "wait" /\ flush[f].set # "no"
    /\ flush' = [flush EXCEPT ![f].pc = "raise"]
    /\ UNCHANGED <<pub, queue, stop, worker, life, call, delivered, fails, history>>

FlushTimesOut(f) ==
    /\ f \notin PatientFlushes
    /\ \/ flush[f].pc = "put" /\ Full(flush[f].q)
       \/ flush[f].pc = "wait" /\ flush[f].set = "no"
    /\ flush' = [flush EXCEPT ![f].pc = "raise"]
    /\ UNCHANGED <<pub, queue, stop, worker, life, call, delivered, fails, history>>

\* _raise_last_error: raise what was dropped since an error was last raised.
FlushRaise(f) ==
    /\ flush[f].pc = "raise"
    /\ flush' = [flush EXCEPT ![f] = [pc |-> "done", q |-> 0, set |-> "no"]]
    /\ pub' = [pub EXCEPT !.lastError = FALSE]
    /\ history' = [history EXCEPT !.before[f] = {},
                                  !.raised = IF pub.lastError THEN history.dropped ELSE @]
    /\ UNCHANGED <<queue, stop, worker, life, call, delivered, fails>>

Flush(f) ==
    FlushStart(f) \/ FlushPut(f) \/ FlushWake(f) \/ FlushTimesOut(f) \/ FlushRaise(f)
-----------------------------------------------------------------------------
(* The worker of connection g.                                             *)

\* Faulty variant: the batch is filled from the front.
TakenReversed(wk, x) ==
    IF x \in Keys THEN [wk EXCEPT !.batch = <<x>> \o @, !.pc = "more"]
                  ELSE [wk EXCEPT !.item = x, !.pc = "publish"]

\* The worker after it took x: a key joins the batch, a sentinel ends it.
Taken(wk, x) ==
    IF x \in Keys THEN [wk EXCEPT !.batch = Append(@, x), !.pc = "more"]
                  ELSE [wk EXCEPT !.item = x, !.pc = "publish"]

WorkerGet(g) ==
    /\ worker[g].pc \in {"get", "more"} /\ queue[g] # <<>>
    /\ worker' = [worker EXCEPT ![g] = Taken(@, Head(queue[g]))]
    /\ queue' = [queue EXCEPT ![g] = Tail(@)]
    /\ UNCHANGED <<pub, stop, life, call, flush, delivered, fails, history>>

\* The idle poll found nothing; only then does the worker look at its stop event.
WorkerEmpty(g) ==
    /\ worker[g].pc = "get" /\ queue[g] = <<>>
    /\ worker' = [worker EXCEPT ![g].pc = "empty"]
    /\ UNCHANGED <<pub, queue, stop, life, call, flush, delivered, fails, history>>

\* Faulty variant: only the marker ends the worker.
WorkerPollOwned(g) ==
    /\ worker[g].pc = "empty"
    /\ worker' = [worker EXCEPT ![g].pc = IF ~pub.owned THEN "dead" ELSE "get"]
    /\ UNCHANGED <<pub, queue, stop, life, call, flush, delivered, fails, history>>

WorkerPoll(g) ==
    /\ worker[g].pc = "empty"
    /\ worker' = [worker EXCEPT ![g].pc = IF stop[g] \/ ~pub.owned THEN "dead" ELSE "get"]
    /\ UNCHANGED <<pub, queue, stop, life, call, flush, delivered, fails, history>>

WorkerDrained(g) ==
    /\ worker[g].pc = "more" /\ queue[g] = <<>>
    /\ worker' = [worker EXCEPT ![g].pc = "publish"]
    /\ UNCHANGED <<pub, queue, stop, life, call, flush, delivered, fails, history>>

\* Faulty variant: signals the sentinel before the batch ahead of it is sent.
StartBatchSignals(g) ==
    /\ worker[g].pc = "publish" /\ worker[g].batch # <<>> /\ pub.owned
    /\ worker' = [worker EXCEPT ![g].pc = "chunk"]
    /\ flush' = Signalled(worker[g].item, "worker")
    /\ UNCHANGED <<pub, queue, stop, life, call, delivered, fails, history>>

\* _publish found an owner: it holds it while it sends.
StartBatch(g) ==
    /\ worker[g].pc = "publish" /\ worker[g].batch # <<>> /\ pub.owned
    /\ worker' = [worker EXCEPT ![g].pc = "chunk"]
    /\ UNCHANGED <<pub, queue, stop, life, call, flush, delivered, fails, history>>

\* Faulty variant: a sentinel with nothing ahead of it is not signalled.
EndBatchUnsignalled(g) ==
    LET wk    == worker[g]
        alive == wk.batch = <<>> \/ pub.owned
    IN /\ \/ wk.pc = "publish" /\ (wk.batch = <<>> \/ ~pub.owned)
          \/ wk.pc = "chunk" /\ wk.batch = <<>>
       /\ worker' = [worker EXCEPT
             ![g] = [@ EXCEPT !.batch = <<>>, !.item = NoItem,
                              !.pc = IF wk.item = StopMarker \/ ~alive THEN "dead"
                                     ELSE IF wk.item \in Flushes THEN "more" ELSE "get"]]
       /\ flush' = IF wk.pc = "chunk" THEN Signalled(wk.item, "worker") ELSE flush
       /\ UNCHANGED <<pub, queue, stop, life, call, delivered, fails, history>>

\* The batch is done with, or lost with its owner: set the event, then go on or exit.
EndBatch(g) ==
    LET wk    == worker[g]
        alive == wk.batch = <<>> \/ pub.owned
    IN /\ \/ wk.pc = "publish" /\ (wk.batch = <<>> \/ ~pub.owned)
          \/ wk.pc = "chunk" /\ wk.batch = <<>>
       /\ worker' = [worker EXCEPT
             ![g] = [@ EXCEPT !.batch = <<>>, !.item = NoItem,
                              !.pc = IF wk.item = StopMarker \/ ~alive THEN "dead"
                                     ELSE IF wk.item \in Flushes THEN "more" ELSE "get"]]
       /\ flush' = Signalled(wk.item, "worker")
       /\ UNCHANGED <<pub, queue, stop, life, call, delivered, fails, history>>

Smaller(m, n) == IF m < n THEN m ELSE n

\* _prepare_chunk, and the drain that failed before: the next chunk is encoded once, and
\* the keys that cannot be are counted; the others are sent, or counted too.
StartChunk(g) ==
    LET batch == worker[g].batch
        n     == Smaller(ChunkMax, Len(batch))
        chunk == SubSeq(batch, 1, n)
        sends == /\ ~(Range(chunk) \subseteq Unroutable)
                 /\ ~(pub.drainFailed /\ stop[g])
        lost  == IF sends THEN Range(chunk) \cap Unroutable ELSE Range(chunk)
    IN /\ worker[g].pc = "chunk" /\ batch # <<>>
       /\ pub' = RecordDrop(pub, lost)
       /\ history' = Drop(lost)
       /\ worker' = [worker EXCEPT ![g] = [@ EXCEPT !.batch = SubSeq(batch, n + 1, Len(batch)),
                                                    !.chunk = IF sends THEN chunk ELSE <<>>,
                                                    !.pc = IF sends THEN "send" ELSE "chunk"]]
       /\ UNCHANGED <<queue, stop, life, call, flush, delivered, fails>>

ChunkDone(g) == worker' = [worker EXCEPT ![g] = [@ EXCEPT !.chunk = <<>>, !.pc = "chunk"]]

SendOk(g) ==
    /\ worker[g].pc = "send"
    /\ delivered' = Append(delivered, worker[g].chunk)
    /\ pub' = [pub EXCEPT !.stalled = FALSE]
    /\ ChunkDone(g)
    /\ UNCHANGED <<queue, stop, life, call, flush, fails, history>>

\* A send that raises may have reached the server: the reply was lost.
SendRaises(g) ==
    /\ worker[g].pc = "send" /\ fails < MaxFails
    /\ fails' = fails + 1
    /\ delivered' \in {delivered, Append(delivered, worker[g].chunk)}

\* The chunk is sent again, within publish_retry_seconds.
SendRetried(g) ==
    /\ SendRaises(g) /\ ~stop[g]
    /\ UNCHANGED <<pub, queue, stop, worker, life, call, flush, history>>

\* The retry window is over, or a disconnect is waiting.
SendDropped(g) ==
    LET lost == Range(worker[g].chunk) \ Unroutable IN
    /\ SendRaises(g)
    /\ pub' = RecordDrop([pub EXCEPT !.drainFailed = @ \/ stop[g]], lost)
    /\ history' = Drop(lost)
    /\ ChunkDone(g)
    /\ UNCHANGED <<queue, stop, life, call, flush>>

Work(g) ==
    \/ WorkerGet(g) \/ WorkerEmpty(g) \/ WorkerPoll(g) \/ WorkerDrained(g)
    \/ StartBatch(g) \/ EndBatch(g) \/ StartChunk(g)
    \/ SendOk(g) \/ SendRetried(g) \/ SendDropped(g)
-----------------------------------------------------------------------------
(* connect(), disconnect(), and a publisher that is collected instead.     *)

\* Faulty variant: does not look for a worker that outlived its connection.
ConnectAnyway ==
    /\ life.pc = "idle" /\ ~pub.connected /\ pub.owned
    /\ pub.gen < MaxGen
    /\ pub' = [pub EXCEPT !.gen = @ + 1, !.drainFailed = FALSE, !.stalled = FALSE]
    /\ life' = [life EXCEPT !.pc = "connecting"]
    /\ UNCHANGED <<queue, stop, worker, call, flush, delivered, fails, history>>

\* Refused while the worker of a disconnect that timed out is still sending.
Connect ==
    /\ life.pc = "idle" /\ ~pub.connected /\ pub.owned
    /\ ~Alive(pub.thread)
    /\ pub.gen < MaxGen
    /\ pub' = [pub EXCEPT !.gen = @ + 1, !.drainFailed = FALSE, !.stalled = FALSE]
    /\ life' = [life EXCEPT !.pc = "connecting"]
    /\ UNCHANGED <<queue, stop, worker, call, flush, delivered, fails, history>>

Connected ==
    /\ life.pc = "connecting"
    /\ worker' = [worker EXCEPT ![pub.gen].pc = "get"]
    /\ pub' = [pub EXCEPT !.thread = pub.gen, !.connected = TRUE]
    /\ life' = [life EXCEPT !.pc = "idle"]
    /\ UNCHANGED <<queue, stop, call, flush, delivered, fails, history>>

\* _on_connect raised.
ConnectFails ==
    /\ life.pc = "connecting"
    /\ life' = [life EXCEPT !.pc = "idle"]
    /\ UNCHANGED <<pub, queue, stop, worker, call, flush, delivered, fails, history>>

Disconnect ==
    /\ life.pc = "idle" /\ pub.connected /\ pub.owned
    /\ Overlap \/ NoPatient
    /\ stop' = [stop EXCEPT ![pub.gen] = TRUE]
    /\ life' = [life EXCEPT !.pc = "marking"]
    /\ UNCHANGED <<pub, queue, worker, call, flush, delivered, fails, history>>

\* In the five seconds disconnect waits, a worker that lives does all but return from a
\* send that hangs.
Stuck(g) == worker[g].pc = "send"

PutMarker ==
    /\ life.pc = "marking" /\ (Overlap \/ NoNotify)
    /\ ~Full(pub.gen)
    /\ queue' = [queue EXCEPT ![pub.gen] = Append(@, StopMarker)]
    /\ life' = [life EXCEPT !.pc = "joining"]
    /\ UNCHANGED <<pub, stop, worker, call, flush, delivered, fails, history>>

MarkerTimesOut ==
    /\ life.pc = "marking" /\ (Overlap \/ NoNotify)
    /\ Full(pub.gen) /\ (Stuck(pub.thread) \/ ~Alive(pub.thread))
    /\ life' = [life EXCEPT !.pc = "joining"]
    /\ UNCHANGED <<pub, queue, stop, worker, call, flush, delivered, fails, history>>

\* Faulty variant: leaves what the worker did not reach.
JoinForgets ==
    /\ life.pc = "joining" /\ ~Alive(pub.thread)
    /\ pub' = [pub EXCEPT !.thread = 0]
    /\ life' = [life EXCEPT !.pc = "closing"]
    /\ UNCHANGED <<queue, stop, worker, call, flush, delivered, fails, history>>

Join ==
    /\ life.pc = "joining" /\ ~Alive(pub.thread)
    /\ pub' = [pub EXCEPT !.thread = 0]
    /\ life' = [life EXCEPT !.pc = "clearing"]
    /\ UNCHANGED <<queue, stop, worker, call, flush, delivered, fails, history>>

\* The worker is left to exit on its own, and stays self._thread.
JoinTimesOut ==
    /\ life.pc = "joining" /\ Stuck(pub.thread)
    /\ life' = [life EXCEPT !.pc = "closing"]
    /\ UNCHANGED <<pub, queue, stop, worker, call, flush, delivered, fails, history>>

\* _drop_leftovers, one item at a time.
DropNext ==
    /\ life.pc = "clearing" /\ queue[pub.gen] # <<>>
    /\ LET x == Head(queue[pub.gen]) IN
       /\ life' = [life EXCEPT !.left = @ \cup ({x} \cap Keys)]
       /\ flush' = Signalled(x, "disconnect")
    /\ queue' = [queue EXCEPT ![pub.gen] = Tail(@)]
    /\ UNCHANGED <<pub, stop, worker, call, delivered, fails, history>>

\* Faulty variant: the leftovers are only logged.
DropEndLogged ==
    /\ life.pc = "clearing" /\ queue[pub.gen] = <<>>
    /\ life' = [pc |-> "closing", left |-> {}]
    /\ UNCHANGED <<pub, queue, stop, worker, call, flush, delivered, fails, history>>

DropEnd ==
    /\ life.pc = "clearing" /\ queue[pub.gen] = <<>>
    /\ pub' = RecordDrop(pub, life.left)
    /\ history' = Drop(life.left)
    /\ life' = [pc |-> "closing", left |-> {}]
    /\ UNCHANGED <<queue, stop, worker, call, flush, delivered, fails>>

Disconnected ==
    /\ life.pc = "closing"
    /\ pub' = [pub EXCEPT !.connected = FALSE]
    /\ life' = [life EXCEPT !.pc = "idle"]
    /\ UNCHANGED <<queue, stop, worker, call, flush, delivered, fails, history>>

\* The last reference goes, no call being in progress; _stop_worker runs if connected.
Collect ==
    /\ pub.owned /\ life.pc = "idle"
    /\ \A c \in Calls : ~CallOpen(c)
    /\ \A f \in Flushes : ~FlushOpen(f)
    /\ \A g \in Gens : worker[g].pc \notin {"chunk", "send"}
    /\ pub' = [pub EXCEPT !.owned = FALSE]
    /\ IF pub.connected
       THEN /\ stop' = [stop EXCEPT ![pub.gen] = TRUE]
            /\ queue' = IF Full(pub.gen) THEN queue
                        ELSE [queue EXCEPT ![pub.gen] = Append(@, StopMarker)]
       ELSE UNCHANGED <<queue, stop>>
    /\ UNCHANGED <<worker, life, call, flush, delivered, fails, history>>

Disconnecting ==
    PutMarker \/ MarkerTimesOut \/ Join \/ JoinTimesOut \/ DropNext \/ DropEnd \/ Disconnected
Lifecycle == Connect \/ Connected \/ ConnectFails \/ Disconnect \/ Disconnecting \/ Collect

Next ==
    \/ \E c \in Calls : Notify(c)
    \/ \E f \in Flushes : Flush(f)
    \/ \E g \in Gens : Work(g)
    \/ Lifecycle

Spec == Init /\ [][Next]_vars
-----------------------------------------------------------------------------
(* Safety.                                                                 *)

\* What the transport was given in the chunks it was sent.
Received == (UNION {Range(chunk) : chunk \in Range(delivered)}) \ Unroutable

\* Keys some live worker, or the end of a disconnect, still has to deal with.
InQueue ==
    {g \in Gens : Alive(g) \/ (g = pub.gen /\ life.pc \in {"marking", "joining", "clearing"})}
OnTheWay ==
    (UNION {Range(queue[g]) : g \in InQueue}) \cup life.left
    \cup UNION {Range(worker[g].batch) \cup Range(worker[g].chunk) : g \in {h \in Gens : Alive(h)}}

\* "No silent drops": a key that notify queued is delivered, counted as dropped, or still
\* on its way, across full queues, failing sends, a join that times out, and reconnects;
\* and a call that returned has queued or counted all its keys.
Accounted ==
    pub.owned =>
        /\ \A k \in Range(history.accepted) :
               k \in Received \cup history.dropped \cup OnTheWay
        /\ \A c \in Calls : call[c].pc = "done" =>
               Range(BatchOf[c]) \subseteq Range(history.accepted) \cup history.dropped

\* The counter misses no key, and an error waits for the next flush as long as some
\* dropped key was not raised (a key counted by a notify that a connect overtook may
\* be counted again).
DropsSurface ==
    /\ pub.dropped_keys >= Cardinality(history.dropped)
    /\ history.dropped \ history.raised # {} => pub.lastError

\* A flush that saw its event and returns without raising is a barrier: every key queued
\* before it was delivered, or dropped and raised by some flush.
FlushIsBarrier ==
    [][\A f \in Flushes :
          /\ flush[f].pc = "raise" /\ flush[f].set = "worker"
          /\ flush'[f].pc = "done" /\ ~pub.lastError
          => history.before[f] \subseteq Received \cup history.raised]_vars

\* Exactly one worker ever runs, also after a join that timed out.
OneWorker == \A g, h \in Gens : Alive(g) /\ Alive(h) => g = h

\* What makes OneWorker and Accounted inductive. A worker lives only in the connection
\* that is current and none while another is made; a worker between batches has none.
WorkerInv ==
    /\ \A g \in Gens : Alive(g) => g = pub.gen /\ g = pub.thread
    /\ life.pc \in {"connecting", "clearing"} => \A g \in Gens : ~Alive(g)
    /\ \A g \in Gens :
          /\ worker[g].pc # "send" => worker[g].chunk = <<>>
          /\ worker[g].pc \notin {"more", "publish", "chunk", "send"} => worker[g].batch = <<>>
          /\ worker[g].pc \notin {"publish", "chunk", "send"} => worker[g].item = NoItem

InUse   == life.pc = "marking" \/ (life.pc = "idle" /\ pub.connected)
Finishing == life.pc = "closing" \/ (life.pc = "idle" /\ ~pub.connected)

\* A connection in use has a worker and no marker yet; later ones are untouched.
ConnectionInv ==
    /\ life.pc \in {"marking", "joining", "clearing", "closing"} => pub.connected
    /\ life.pc = "connecting" => ~pub.connected
    /\ life.pc = "idle" /\ pub.connected => Alive(pub.gen) /\ ~stop[pub.gen]
    /\ InUse \/ life.pc = "connecting" => /\ StopMarker \notin Range(queue[pub.gen])
                                         /\ worker[pub.gen].item # StopMarker
    /\ life.pc = "connecting" => ~stop[pub.gen]
    /\ \A g \in Gens : g > pub.gen => queue[g] = <<>> /\ ~stop[g]
    /\ \A f \in Flushes : flush[f].q <= pub.gen

\* Without Overlap, keys are queued only on a connection in use.
CallInv ==
    \A c \in Calls :
        /\ call[c].pc \in {"read", "put", "wait", "drop"} => InUse
        /\ call[c].pc \in {"put", "wait", "drop"} => call[c].q = pub.gen
        /\ call[c].pc = "ensure" => life.pc \in {"idle", "connecting", "marking"}

\* So none is behind the marker, nor left by a worker that exits on its own.
Ordered(s) ==
    \A i, j \in DOMAIN s : i < j /\ s[i] = StopMarker => s[j] \notin Keys
QueueInv ==
    \A g \in Gens :
        /\ Range(queue[g]) \cap Keys # {} => g \in InQueue
        /\ worker[g].item = StopMarker => Range(queue[g]) \cap Keys = {}
        /\ Ordered(queue[g])
        /\ g = pub.gen /\ Finishing /\ worker[g].pc = "empty" => Range(queue[g]) \cap Keys = {}

\* No step loses a key: a queued one is somewhere, and what a chunk leaves out is counted.
Somewhere(k) ==
    \/ k \in Received \cup history.dropped \cup life.left
    \/ \E g \in Gens : k \in Range(queue[g]) \cup Range(worker[g].batch) \cup Range(worker[g].chunk)
Settled(c, j) == BatchOf[c][j] \in Range(history.accepted) \cup history.dropped
KeysInv ==
    /\ \A k \in Range(history.accepted) : Somewhere(k)
    /\ \A g \in Gens : Range(worker[g].chunk) \cap Unroutable \subseteq history.dropped
    /\ \A c \in Calls : \A j \in 1 .. Len(BatchOf[c]) :
           call[c].pc \in {"ensure", "done"} \/ j < call[c].i => Settled(c, j)

AccountInv == pub.owned => ConnectionInv /\ CallInv /\ QueueInv /\ KeysInv

\* Position of k in s.
At(k, s) == CHOOSE i \in DOMAIN s : s[i] = k

\* Keys reach the transport in the order they were queued, but for repeats of a chunk
\* whose reply was lost.
InOrder ==
    LET Overtakes(k, l) == At(k, history.accepted) < At(l, history.accepted) IN
    /\ \A i \in DOMAIN delivered : \A a, b \in DOMAIN delivered[i] :
           a < b => ~Overtakes(delivered[i][b], delivered[i][a])
    /\ \A i, j \in DOMAIN delivered : \A k \in Range(delivered[i]), l \in Range(delivered[j]) :
           i < j /\ Overtakes(l, k) => \E h \in 1 .. i : l \in Range(delivered[h])
-----------------------------------------------------------------------------
(* Liveness. Threads are scheduled and a send returns (the transport has a *)
(* socket timeout); notify, flush and disconnect go on once begun, by      *)
(* their timeouts if by nothing else. Nobody has to call any of them.      *)

Fairness ==
    /\ \A g \in Gens : WF_vars(Work(g))
    /\ \A c \in Calls : WF_vars(CallOpen(c) /\ Notify(c))
    /\ \A f \in Flushes : WF_vars(FlushOpen(f) /\ Flush(f))
    /\ WF_vars(Connected \/ ConnectFails)
    /\ WF_vars(Disconnecting)

FairSpec == Spec /\ Fairness

\* A worker told to stop, or whose publisher was collected, exits: through the marker,
\* or without it when the queue was full.
WorkerStops == \A g \in Gens : stop[g] ~> ~Alive(g)

\* Every key that was queued is delivered or counted in the end, if the publisher lives.
Settles ==
    \A k \in Keys : k \in Range(history.accepted) ~>
        ~pub.owned \/ k \in Received \cup history.dropped

\* flush(None) and a notify that waits without a timeout return.
PatientReturns ==
    /\ \A f \in PatientFlushes : flush[f].pc = "put" ~> flush[f].pc = "done"
    /\ \A c \in Calls : call[c].pc = "put" ~> call[c].pc = "done"
=============================================================================
