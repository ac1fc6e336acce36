------------------------------ MODULE Observer ------------------------------
(***************************************************************************)
(* An observer on the in-memory transport (_backends/observers/_base.py,   *)
(* mem.py, tkv/transport, tkv/observer): connections and their dispatch    *)
(* workers, subscriptions and their receivers, and the keys on their way   *)
(* from a publish to the callbacks.                                        *)
(*                                                                         *)
(* Connections are numbered; each has its own queue, stop event, registry  *)
(* and worker thread, and `cur` names the ones the observer's fields hold. *)
(* A controller thread connects and disconnects, others subscribe, bind,   *)
(* unbind and close, publish, and flush; a callback may publish, close,    *)
(* unbind or disconnect on the worker's own thread.  A key is published    *)
(* once, so a key identifies its publication.                              *)
(***************************************************************************)
EXTENDS Registry, SequencesExt

CONSTANTS
    Subs,           \* subscriptions, each made once
    FilterOf,       \* the filter of each subscription
    Receivers,      \* callbacks
    SubOf,          \* the subscription each receiver is bound to
    Batches,        \* what the publisher publishes: a sequence of batches of keys
    OwnKeys,        \* keys a callback may publish, each once
    QueueMax,       \* dispatch_queue_maxsize
    BatchMax,       \* DISPATCH_BATCH_MAX
    MaxConn,        \* bound: connections
    Plans           \* bound: what an application may do, see `plan`

ASSUME ObserverAssumption ==
    /\ QueueMax \in Nat \ {0} /\ BatchMax \in Nat \ {0}
    /\ MaxConn \in Nat \ {0}
    /\ SubOf \in [Receivers -> Subs]

Conns == 1 .. MaxConn

\* Who may run a publish or a disconnect: a thread of the application, or the
\* worker of a connection, inside a callback.
Outside == 0
Callers == {Outside} \cup Conns

\* What a dispatch queue holds: keys, the stop marker, the event of a flush.
Item(kind, key) == [kind |-> kind, key |-> key]
StopMarker == Item("stop", <<>>)
FlushEvent == Item("flush", <<>>)

VARIABLES
    connected, cur,     \* _connected; the connection the observer's fields hold
    registry,           \* per connection: its SubscriptionRegistry
    dropped,            \* connections whose registry a disconnect has let go of
    late,               \* subscriptions added to a registry already let go of
    listening,          \* the transport has this observer's listener
    connecting,         \* a connect() is between its two steps
    leaving,            \* per caller: where its disconnect() is
    queue, stop,        \* per connection: _dispatch_queue, _stop_event
    worker,             \* per connection: the dispatch worker
    sub, bound,         \* per subscription: its state, and its receivers in order
    feed,               \* per caller: the publish it is in
    batches, own,       \* what is still to be published
    flush,              \* the flush() call
    acts,               \* closes, unbinds, and things callbacks have done
    plan,               \* chosen once: the receivers bound, whether flush() is called, and
                        \* how many acts there are
    log,                \* per receiver: the keys it was called with
    order,              \* the keys, in the order they were queued
    owed                \* <<receiver, key>>: queued while that receiver was bound, not
                        \* called, unbound, closed, nor cut off with its batch since

connVars == <<connected, cur, dropped, listening, connecting, leaving>>
userVars == <<sub, bound, registry, late>>
keyVars  == <<feed, batches, own, order>>
vars == <<connVars, userVars, keyVars, queue, stop, worker, flush, acts, plan, log, owed>>

NoWorker == [pc |-> "none", batch |-> <<>>, next |-> "top", notes |-> <<>>, key |-> <<>>,
             to |-> <<>>]
IdleFeed == [pc |-> "idle", keys |-> <<>>, conn |-> 0]

Init ==
    /\ connected = FALSE /\ cur = 0 /\ dropped = {} /\ listening = FALSE
    /\ connecting = FALSE /\ leaving = [c \in Callers |-> "no"]
    /\ registry = [g \in Conns |-> NewRegistry] /\ late = {}
    /\ queue = [g \in Conns |-> <<>>] /\ stop = [g \in Conns |-> FALSE]
    /\ worker = [g \in Conns |-> NoWorker]
    /\ sub = [s \in Subs |-> [pc |-> "new", conn |-> 0, closed |-> FALSE]]
    /\ bound = [s \in Subs |-> <<>>]
    /\ feed = [c \in Callers |-> IdleFeed] /\ batches = Batches /\ own = OwnKeys
    /\ flush = [pc |-> "new", conn |-> 0]
    /\ plan \in Plans /\ acts = 0 /\ order = <<>> /\ owed = {}
    /\ log = [r \in Receivers |-> <<>>]

Alive(g) == worker[g].pc \notin {"none", "exit"}
InCallback(g) == worker[g].pc = "callback"

\* The connection whose registry the field _registry holds, 0 for None.
Held == IF cur \in dropped THEN 0 ELSE cur

\* A caller in the middle of nothing else: the worker's only inside a callback.
Free(c) == /\ feed[c].pc = "idle" /\ leaving[c] = "no"
           /\ c \in Conns => InCallback(c)

\* What callbacks do besides returning, and what is closed or unbound outside
\* them, is counted, and bounded.
Count == acts < plan.acts /\ acts' = acts + 1

-----------------------------------------------------------------------------
\* Closing subscriptions: closed, receivers cleared, nothing owed any more.
Close(ss) ==
    /\ sub' = [s \in Subs |-> IF s \in ss THEN [sub[s] EXCEPT !.closed = TRUE] ELSE sub[s]]
    /\ bound' = [s \in Subs |-> IF s \in ss THEN <<>> ELSE bound[s]]
    /\ owed' = {o \in owed : SubOf[o[1]] \notin ss}

\* _close_all_subscriptions.
CloseAll == Close(IF Held = 0 THEN {} ELSE registry[Held].all)

\* connect() makes the registry, the stop event and the queue and registers
\* the listener; it refuses while the last worker is inside a callback.
ConnectStart ==
    /\ ~connected /\ ~connecting /\ leaving[Outside] = "no"
    /\ cur > 0 => ~Alive(cur)
    /\ cur < MaxConn
    /\ cur' = cur + 1 /\ listening' = TRUE /\ connecting' = TRUE
    /\ UNCHANGED <<connected, dropped, leaving, userVars, keyVars, queue, stop, worker, flush,
                   acts, log, owed>>

\* Then it starts the worker and is connected.
ConnectEnd ==
    /\ connecting
    /\ worker' = [worker EXCEPT ![cur].pc = "top"]
    /\ connected' = TRUE /\ connecting' = FALSE
    /\ UNCHANGED <<cur, dropped, listening, leaving, userVars, keyVars, queue, stop, flush, acts,
                   log, owed>>

-----------------------------------------------------------------------------
\* disconnect(), by the controller or by a callback: the stop event and the
\* stop marker (_stop_worker) first.
DisconnectStart(c) ==
    /\ connected /\ Free(c)
    /\ IF c = Outside THEN acts' = acts ELSE Count
    /\ leaving' = [leaving EXCEPT ![c] = "close"]
    /\ stop' = [stop EXCEPT ![cur] = TRUE]
    /\ queue' = [queue EXCEPT ![cur] = IF Len(@) < QueueMax THEN Append(@, StopMarker) ELSE @]
    /\ UNCHANGED <<connected, cur, dropped, listening, connecting, userVars, keyVars, worker,
                   flush, log, owed>>

\* Every subscription is closed before the worker is waited for.
DisconnectClose(c) ==
    /\ leaving[c] = "close"
    /\ CloseAll
    /\ leaving' = [leaving EXCEPT ![c] = IF c = Outside /\ Alive(cur) THEN "join" ELSE "hook"]
    /\ UNCHANGED <<connected, cur, dropped, listening, connecting, registry, late, keyVars, queue,
                   stop, worker, flush, acts, log>>

\* The join ends with the worker, or times out while it is inside a callback:
\* only a callback takes as long as _WORKER_JOIN_SECONDS.
DisconnectJoin ==
    /\ leaving[Outside] = "join"
    /\ ~Alive(cur) \/ InCallback(cur)
    /\ leaving' = [leaving EXCEPT ![Outside] = "hook"]
    /\ UNCHANGED <<connected, cur, dropped, listening, connecting, userVars, keyVars, queue, stop,
                   worker, flush, acts, log, owed>>

\* _on_disconnect unregisters the listener.
DisconnectHook(c) ==
    /\ leaving[c] = "hook"
    /\ listening' = FALSE
    /\ leaving' = [leaving EXCEPT ![c] = "flag"]
    /\ UNCHANGED <<connected, cur, dropped, connecting, userVars, keyVars, queue, stop, worker,
                   flush, acts, log, owed>>

DisconnectFlag(c) ==
    /\ leaving[c] = "flag"
    /\ connected' = FALSE
    /\ leaving' = [leaving EXCEPT ![c] = "last"]
    /\ UNCHANGED <<cur, dropped, listening, connecting, userVars, keyVars, queue, stop, worker,
                   flush, acts, log, owed>>

DisconnectEndNoLastPass(c) ==
    /\ leaving[c] = "last"
    /\ registry' = [registry EXCEPT ![cur] = NewRegistry]
    /\ dropped' = dropped \cup {cur}
    /\ leaving' = [leaving EXCEPT ![c] = "no"]
    /\ UNCHANGED <<connected, cur, listening, connecting, late, keyVars, queue, stop, worker,
                   flush, acts, log, sub, bound, owed>>

\* The last close pass; the registry is cleared and let go of.
DisconnectEnd(c) ==
    /\ leaving[c] = "last"
    /\ CloseAll
    /\ registry' = [registry EXCEPT ![cur] = NewRegistry]
    /\ dropped' = dropped \cup {cur}
    /\ leaving' = [leaving EXCEPT ![c] = "no"]
    /\ UNCHANGED <<connected, cur, listening, connecting, late, keyVars, queue, stop, worker,
                   flush, acts, log>>

-----------------------------------------------------------------------------
\* subscribe() checks that the observer is connected and reads its registry.
SubscribeStart(s) ==
    /\ sub[s].pc = "new" /\ \E r \in plan.receivers : SubOf[r] = s
    /\ connected /\ Held # 0
    /\ sub' = [sub EXCEPT ![s] = [@ EXCEPT !.pc = "add", !.conn = cur]]
    /\ UNCHANGED <<connVars, bound, registry, late, keyVars, queue, stop, worker, flush, acts, log,
                   owed>>

\* It adds to the registry it has read, which may have been let go of since.
SubscribeAdd(s) ==
    /\ sub[s].pc = "add"
    /\ registry' = [registry EXCEPT ![sub[s].conn] = RegistryAdd(@, s, FilterOf[s])]
    /\ late' = IF sub[s].conn = Held THEN late ELSE late \cup {s}
    /\ sub' = [sub EXCEPT ![s].pc = "check"]
    /\ UNCHANGED <<connVars, bound, keyVars, queue, stop, worker, flush, acts, log, owed>>

\* A disconnect meanwhile: the subscription is taken out, closed, and refused.
SubscribeEnd(s) ==
    /\ sub[s].pc = "check"
    /\ IF connected
       THEN sub' = [sub EXCEPT ![s].pc = "open"] /\ UNCHANGED registry
       ELSE /\ sub' = [sub EXCEPT ![s] = [@ EXCEPT !.pc = "refused", !.closed = TRUE]]
            /\ registry' = [registry EXCEPT ![sub[s].conn] = RegistryRemove(@, s, FilterOf[s])]
    /\ UNCHANGED <<connVars, bound, late, keyVars, queue, stop, worker, flush, acts, log, owed>>

\* Subscription.bind raises on a closed one, and does not bind twice.
Bind(r) ==
    LET s == SubOf[r] IN
    /\ sub[s].pc = "open" /\ ~sub[s].closed
    /\ r \in plan.receivers /\ ~Contains(bound[s], r)
    /\ bound' = [bound EXCEPT ![s] = Append(@, r)]
    /\ UNCHANGED <<connVars, sub, registry, late, keyVars, queue, stop, worker, flush, acts, log,
                   owed>>

\* Subscription.unbind, by a thread of the application or by a callback.
Unbind(c, r) ==
    LET s == SubOf[r] IN
    /\ Free(c) /\ Count
    /\ Contains(bound[s], r)
    /\ bound' = [bound EXCEPT ![s] = SelectSeq(@, LAMBDA x : x # r)]
    /\ owed' = {o \in owed : o[1] # r}
    /\ UNCHANGED <<connVars, sub, registry, late, keyVars, queue, stop, worker, flush, log>>

\* Subscription.close, then _close_subscription on the registry held now.
CloseSub(c, s) ==
    /\ Free(c) /\ Count
    /\ sub[s].pc = "open" /\ ~sub[s].closed
    /\ Close({s})
    /\ registry' = IF Held = 0 THEN registry
                   ELSE [registry EXCEPT ![Held] = RegistryRemove(@, s, FilterOf[s])]
    /\ UNCHANGED <<connVars, late, keyVars, queue, stop, worker, flush, log>>

-----------------------------------------------------------------------------
\* InMemoryTransport.publish: the listeners, once, then each of them in turn.
Publish(c, keys) ==
    /\ Free(c)
    /\ feed' = [feed EXCEPT ![c] = IF listening THEN [IdleFeed EXCEPT !.pc = "check", !.keys = keys]
                                   ELSE IdleFeed]
    /\ UNCHANGED <<connVars, userVars, order, queue, stop, worker, flush, log, owed>>

PublishBatch ==
    /\ batches # <<>>
    /\ Publish(Outside, Head(batches)) /\ batches' = Tail(batches)
    /\ UNCHANGED <<own, acts>>

PublishOwn(g) ==
    /\ Count
    /\ \E k \in own : Publish(g, <<k>>) /\ own' = own \ {k}
    /\ UNCHANGED batches

\* _dispatch_incoming looks at _connected once, before the first key.
DispatchIncoming(c) ==
    /\ feed[c].pc = "check"
    /\ feed' = [feed EXCEPT ![c] = IF connected THEN [@ EXCEPT !.pc = "put"] ELSE IdleFeed]
    /\ UNCHANGED <<connVars, userVars, batches, own, order, queue, stop, worker, flush, acts, log,
                   owed>>

\* Who waits for a key put on the queue of g: every receiver bound to an open
\* subscription of that connection whose filter matches.
Waiting(g, k) ==
    {r \in Receivers : LET s == SubOf[r] IN
        g = Held /\ sub[s].conn = g /\ Contains(bound[s], r) /\ Matches(FilterOf[s], k)}

\* A key is on the queue of g.
Put(c, g) ==
    LET k == Head(feed[c].keys) IN
    /\ Len(queue[g]) < QueueMax
    /\ queue' = [queue EXCEPT ![g] = Append(@, Item("key", k))]
    /\ order' = Append(order, k)
    /\ owed' = owed \cup (Waiting(g, k) \X {k})
    /\ feed' = [feed EXCEPT ![c] = IF Len(@.keys) = 1 THEN IdleFeed
                                   ELSE [pc |-> "put", keys |-> Tail(@.keys), conn |-> 0]]
    /\ UNCHANGED <<connVars, userVars, batches, own, stop, worker, flush, acts, log>>

\* _enqueue takes the queue and the stop event of now, and waits on a full one.
Enqueue(c) ==
    /\ feed[c].pc = "put"
    /\ \/ Put(c, cur)
       \/ /\ Len(queue[cur]) >= QueueMax
          /\ feed' = [feed EXCEPT ![c] = [@ EXCEPT !.pc = "blocked", !.conn = cur]]
          /\ UNCHANGED <<connVars, userVars, batches, own, order, queue, stop, worker, flush, acts,
                         log, owed>>

EnqueueBlocked(c) == feed[c].pc = "blocked" /\ Put(c, feed[c].conn)

EnqueueNeverGivesUp(c) == FALSE /\ UNCHANGED vars

\* Still full, and the observer is stopping: the rest of the batch is dropped.
EnqueueGivesUp(c) ==
    /\ feed[c].pc = "blocked"
    /\ Len(queue[feed[c].conn]) >= QueueMax
    /\ stop[feed[c].conn] \/ ~connected
    /\ feed' = [feed EXCEPT ![c] = IdleFeed]
    /\ UNCHANGED <<connVars, userVars, batches, own, order, queue, stop, worker, flush, acts, log,
                   owed>>

-----------------------------------------------------------------------------
\* flush() queues an event, if there is room, and waits for it.
FlushStart ==
    /\ plan.flush /\ flush.pc = "new" /\ connected
    /\ Len(queue[cur]) < QueueMax
    /\ queue' = [queue EXCEPT ![cur] = Append(@, FlushEvent)]
    /\ flush' = [pc |-> "waiting", conn |-> cur]
    /\ UNCHANGED <<connVars, userVars, keyVars, stop, worker, acts, log, owed>>

FlushTimesOut ==
    /\ flush.pc = "waiting"
    /\ flush' = [flush EXCEPT !.pc = "gave_up"]
    /\ UNCHANGED <<connVars, userVars, keyVars, queue, stop, worker, acts, log, owed>>

-----------------------------------------------------------------------------
\* _dispatch_worker, one step at a time.  `next` is what follows the delivery
\* of the batch in hand: another round, the exit, or the event of a flush.
Become(g, w) == worker' = [worker EXCEPT ![g] = w]

WorkerTop(g) ==
    /\ worker[g].pc = "top"
    /\ Become(g, [worker[g] EXCEPT !.pc = IF stop[g] THEN "exit" ELSE "get"])
    /\ UNCHANGED <<connVars, userVars, keyVars, queue, stop, flush, acts, log, owed>>

\* What an item taken from the queue does to the worker's round.
Taken(w, item) ==
    LET batch == Append(w.batch, item.key) IN
    CASE item = StopMarker -> [w EXCEPT !.pc = "deliver", !.next = "exit"]
      [] item = FlushEvent -> [w EXCEPT !.pc = "deliver", !.next = "event"]
      [] OTHER -> [w EXCEPT !.batch = batch, !.next = "top",
                            !.pc = IF Len(batch) >= BatchMax THEN "deliver" ELSE "more"]

\* The get of a round waits for an item and looks at stop when none comes; the
\* gets after it end the round on an empty queue.
WorkerTake(g) ==
    /\ worker[g].pc \in {"get", "more"}
    /\ IF queue[g] # <<>>
       THEN /\ Become(g, Taken(worker[g], Head(queue[g])))
            /\ queue' = [queue EXCEPT ![g] = Tail(@)]
       ELSE /\ Become(g, [worker[g] EXCEPT !.pc = IF @ = "get" THEN "top" ELSE "deliver",
                                           !.next = "top"])
            /\ UNCHANGED queue
    /\ UNCHANGED <<connVars, userVars, keyVars, stop, flush, acts, log, owed>>

\* _deliver_batch matches the whole batch, in the registry the observer holds
\* now, before it calls anyone.
Notifications(batch) ==
    LET found == [i \in DOMAIN batch |->
                    [key |-> batch[i],
                     subs |-> IF Held = 0 THEN {} ELSE Match(registry[Held], batch[i], FilterOf)]]
    IN  SelectSeq(found, LAMBDA n : n.subs # {})

WorkerDeliverKeepsBatch(g) ==
    /\ worker[g].pc = "deliver"
    /\ Become(g, [worker[g] EXCEPT !.pc = "notify", !.notes = Notifications(worker[g].batch)])
    /\ UNCHANGED <<connVars, userVars, keyVars, queue, stop, flush, acts, log, owed>>

WorkerDeliver(g) ==
    /\ worker[g].pc = "deliver"
    /\ Become(g, [worker[g] EXCEPT !.pc = "notify", !.batch = <<>>,
                                   !.notes = Notifications(worker[g].batch)])
    /\ UNCHANGED <<connVars, userVars, keyVars, queue, stop, flush, acts, log, owed>>

\* deliver_local: key by key, the subscriptions of a key in any order.  notify
\* goes through a snapshot of the receivers.
WorkerNotify(g) ==
    LET w == worker[g]
        n == Head(w.notes)
    IN
    /\ w.pc = "notify" /\ w.notes # <<>>
    /\ \E s \in n.subs :
         Become(g, [w EXCEPT !.pc = "call", !.key = n.key, !.to = bound[s],
                             !.notes = IF n.subs = {s} THEN Tail(@)
                                       ELSE [@ EXCEPT ![1].subs = @ \ {s}]])
    /\ UNCHANGED <<connVars, userVars, keyVars, queue, stop, flush, acts, log, owed>>

WorkerCallUnchecked(g) ==
    LET w == worker[g] IN
    /\ w.pc = "call"
    /\ IF w.to = <<>>
       THEN /\ Become(g, [w EXCEPT !.pc = "notify", !.to = <<>>])
            /\ UNCHANGED <<log, owed>>
       ELSE /\ Become(g, [w EXCEPT !.pc = "callback", !.to = Tail(@)])
            /\ log' = [log EXCEPT ![Head(w.to)] = Append(@, w.key)]
            /\ owed' = owed \ {<<Head(w.to), w.key>>}
    /\ UNCHANGED <<connVars, userVars, keyVars, queue, stop, flush, acts>>

\* A closed subscription ends its wake.
WorkerCall(g) ==
    LET w == worker[g] IN
    /\ w.pc = "call"
    /\ IF w.to = <<>> \/ sub[SubOf[Head(w.to)]].closed
       THEN /\ Become(g, [w EXCEPT !.pc = "notify", !.to = <<>>])
            /\ UNCHANGED <<log, owed>>
       ELSE /\ Become(g, [w EXCEPT !.pc = "callback", !.to = Tail(@)])
            /\ log' = [log EXCEPT ![Head(w.to)] = Append(@, w.key)]
            /\ owed' = owed \ {<<Head(w.to), w.key>>}
    /\ UNCHANGED <<connVars, userVars, keyVars, queue, stop, flush, acts>>

\* A callback returns, or raises an Exception: it is logged and delivery goes on.
CallbackReturns(g) ==
    /\ InCallback(g) /\ Free(g)
    /\ Become(g, [worker[g] EXCEPT !.pc = "call"])
    /\ UNCHANGED <<connVars, userVars, keyVars, queue, stop, flush, acts, log, owed>>

\* The wakes a worker has in hand: of the receivers left in a subscription's
\* round, and of the subscriptions it has still to notify.
InHand(w, r, k) ==
    \/ w.key = k /\ Contains(w.to, r)
    \/ \E i \in DOMAIN w.notes : w.notes[i].key = k /\ SubOf[r] \in w.notes[i].subs

\* A callback raises SystemExit or KeyboardInterrupt, which notify lets through
\* and _deliver catches: the rest of the batch goes, the worker stays.
CallbackExits(g) ==
    /\ InCallback(g) /\ Free(g) /\ Count
    /\ Become(g, [worker[g] EXCEPT !.pc = "notify", !.notes = <<>>, !.to = <<>>])
    /\ owed' = {o \in owed : ~InHand(worker[g], o[1], o[2])}
    /\ UNCHANGED <<connVars, userVars, keyVars, queue, stop, flush, log>>

WorkerDone(g) ==
    LET w == worker[g] IN
    /\ w.pc = "notify" /\ w.notes = <<>>
    /\ Become(g, [NoWorker EXCEPT !.pc = IF w.next = "event" THEN "more" ELSE w.next,
                                  !.batch = w.batch])
    /\ flush' = IF w.next = "event" /\ flush.pc = "waiting" THEN [flush EXCEPT !.pc = "done"]
                ELSE flush
    /\ UNCHANGED <<connVars, userVars, keyVars, queue, stop, acts, log, owed>>

-----------------------------------------------------------------------------
Disconnect(c) ==
    \/ DisconnectClose(c) \/ DisconnectHook(c) \/ DisconnectFlag(c) \/ DisconnectEnd(c)
    \/ (c = Outside /\ DisconnectJoin)

Feeding(c) == DispatchIncoming(c) \/ Enqueue(c) \/ EnqueueBlocked(c) \/ EnqueueGivesUp(c)

Worker(g) ==
    \/ WorkerTop(g) \/ WorkerTake(g) \/ WorkerDeliver(g) \/ WorkerNotify(g) \/ WorkerCall(g)
    \/ CallbackReturns(g) \/ CallbackExits(g) \/ WorkerDone(g)

Subscribe(s) == SubscribeStart(s) \/ SubscribeAdd(s) \/ SubscribeEnd(s)

Step ==
    \/ ConnectStart \/ ConnectEnd
    \/ \E c \in Callers :
         \/ DisconnectStart(c) \/ Disconnect(c) \/ Feeding(c)
         \/ \E r \in Receivers : Unbind(c, r)
         \/ \E s \in Subs : CloseSub(c, s)
    \/ \E s \in Subs : Subscribe(s)
    \/ \E r \in Receivers : Bind(r)
    \/ \E g \in Conns : Worker(g) \/ PublishOwn(g)
    \/ PublishBatch
    \/ FlushStart \/ FlushTimesOut

Next == Step /\ UNCHANGED plan

Spec == Init /\ [][Next]_vars

\* Threads run, callbacks return, and a disconnect or a publish once begun goes
\* on; nobody has to begin anything.
Fairness ==
    /\ \A g \in Conns : WF_vars(Worker(g) /\ UNCHANGED plan)
    /\ \A c \in Callers : WF_vars(Disconnect(c) /\ UNCHANGED plan)
    /\ \A c \in Callers : WF_vars(Feeding(c) /\ UNCHANGED plan)

FairSpec == Spec /\ Fairness

-----------------------------------------------------------------------------
\* subscribe() never leaves an open subscription that cannot fire: an open one is
\* in the registry the worker reads.  The exception the code has: a disconnect
\* lets go of the registry before subscribe adds to it, and a connect follows
\* before subscribe looks at _connected again.
OpenIsRegistered ==
    \A s \in Subs : sub[s].pc = "open" /\ ~sub[s].closed
                      => \/ Held # 0 /\ s \in registry[Held].all
                         \/ s \in late /\ sub[s].conn < cur

\* Where a key that a receiver waits for can be.
OnTheWay(r, k) ==
    \/ Contains(queue[cur], Item("key", k))
    \/ Contains(worker[cur].batch, k)
    \/ InHand(worker[cur], r, k)

\* No wake is lost: a key queued while a receiver was bound is still on its way
\* to it, unless the receiver was called with it, unbound, or its subscription
\* closed, or a callback called before it with the same batch raised what is not
\* an Exception; whatever other callbacks close or unbind, and whatever the
\* filters.
NothingLost == \A o \in owed : OnTheWay(o[1], o[2])

Position(k) == CHOOSE i \in DOMAIN order : order[i] = k

\* A receiver gets the keys in the order they were queued, and none twice.
InOrderOnce ==
    \A r \in Receivers : \A i, j \in DOMAIN log[r] :
        i < j => Position(log[r][i]) < Position(log[r][j])

\* Once disconnect() has returned no callback starts, whoever called it.
QuietAfterDisconnect ==
    [][\A g \in dropped : InCallback(g)' => InCallback(g) /\ log' = log]_vars

\* A worker told to stop ends, even when its own callback waits for room in
\* its own queue.
WorkerStops == \A g \in Conns : stop[g] ~> ~Alive(g)
=============================================================================
