--------------------------- MODULE RedisObserver ----------------------------
(***************************************************************************)
(* The Redis observer (_backends/observers/redis_pubsub.py): how a filter  *)
(* becomes live on the server, stays live across lost connections, and is  *)
(* given up.  Each caller is a thread that makes one subscription and may  *)
(* close it; callers of one filter share a hash.  The listener thread owns *)
(* the pubsub connection, the maintenance thread registers a hash again    *)
(* after a reconnect, and the worker empties the dispatch queue.           *)
(*                                                                         *)
(* redis-py and the server are modelled from how the code uses them: the   *)
(* server confirms SUBSCRIBE and UNSUBSCRIBE in order; a connection it has *)
(* cut is noticed by the client later; on a reconnect redis-py subscribes  *)
(* again to every channel it knows.                                        *)
(***************************************************************************)
EXTENDS NotifyServer, SequencesExt

CONSTANTS
    Threads,        \* callers of subscribe()
    FilterOf,       \* the filter each subscribes to
    Keys,           \* keys that may be published, and checked for routing
    QueueMax,       \* dispatch_queue_maxsize, also the cap of the overflow
    Plans           \* bounds: who subscribes, what is published and what may go wrong

\* One caller of each filter stands for its hash.
HashOf == [c \in Threads |-> CHOOSE d \in Threads : FilterHash(FilterOf[d]) = FilterHash(FilterOf[c])]
Hashes == {HashOf[c] : c \in Threads}

\* routing_hints of the canonical form; a filter that matches nothing has none.
EntriesOf == [h \in Hashes |-> RoutingHints(FilterHash(FilterOf[h]))]

Unset == -1
Failed == -2

VARIABLES
    thread,             \* per caller: where it is, and the _Ready it waits on
    ack,                \* per caller: generation its confirmation was read on, Unset or Failed
    refcount,           \* _local_hash_refcount
    local,              \* the hashes of _local
    ready, readyOf,     \* the _Ready objects made so far, and the one of each hash
    gen,                \* _conn_gen
    commands,           \* _control_cmd_queue
    pending,            \* per hash: groups of callers whose SUBSCRIBE awaits confirmation
    rereg, maint,       \* _rereg_q, and what the maintenance thread has in hand
    overflow, queued,   \* keys parked, and keys in the dispatch queue
    channels, leaving,  \* redis-py: channels, pending_unsubscribe_channels
    link,               \* the connection: up, cut by the server, or down
    toServer, toClient, \* the two directions of the connection
    subscribed, index,  \* the server: channels of this client; the routing index
    published,
    connected,          \* the observer is connected
    plan,               \* chosen once: the callers, and bounds on losses and failures
    losses, failures, timeouts,
    slipped             \* hashes whose readiness was brought by the confirmation of an
                        \* earlier life of the channel: ReadyIsRouted leaves them out

callVars  == <<thread, ack>>
stateVars == <<refcount, local, ready, readyOf, gen>>
pubsubVars == <<pending, channels, leaving>>
wireVars  == <<link, toServer, toClient, subscribed>>
flowVars  == <<overflow, queued, published>>
boundVars == <<losses, failures, timeouts, slipped>>
vars == <<callVars, stateVars, commands, pubsubVars, rereg, maint, flowVars, wireVars, index,
          connected, plan, boundVars>>

NoHash == "none"
\* `life` is history, for `slipped`: the _Ready that a resubscription restores,
\* none when the channel is about to be left.
Own == -1
Message(kind, h) == [kind |-> kind, hash |-> h, life |-> Own]
ToBeLeft(h) == \E i \in DOMAIN commands : commands[i].action = "unsub" /\ commands[i].hash = h
Resubscription(h, r) == [kind |-> "resub", hash |-> h, life |-> IF ToBeLeft(h) THEN 0 ELSE r]
Command(action, h, c) == [action |-> action, hash |-> h, caller |-> c]

Init ==
    /\ thread = [c \in Threads |-> [pc |-> "new", ready |-> 0]]
    /\ ack = [c \in Threads |-> Unset]
    /\ refcount = [h \in Hashes |-> 0] /\ local = {}
    /\ ready = <<>> /\ readyOf = [h \in Hashes |-> 0] /\ gen = 0
    /\ commands = <<>> /\ pending = [h \in Hashes |-> <<>>]
    /\ rereg = <<>> /\ maint = [pc |-> "idle", hash |-> NoHash, gen |-> 0, life |-> Own]
    /\ overflow = 0 /\ queued = 0 /\ published = 0
    /\ channels = {} /\ leaving = {}
    /\ link = "up" /\ toServer = <<>> /\ toClient = <<>>
    /\ subscribed = {} /\ index = EmptyIndex
    /\ connected = TRUE
    /\ plan \in Plans /\ losses = 0 /\ failures = 0 /\ timeouts = 0 /\ slipped = {}

Go(c, pc) == thread' = [thread EXCEPT ![c].pc = pc]
IsSet(r) == r # 0 /\ ready[r] = "set"
Event(r, state) == ready' = [ready EXCEPT ![r] = state]
Queue(cmd) == commands' = IF connected THEN Append(commands, cmd) ELSE commands

-----------------------------------------------------------------------------
\* _register_local_filter.  The first of a hash makes its _Ready; the others
\* wait on the one there is.
Register(c) ==
    LET h == HashOf[c] IN
    /\ thread[c].pc = "new" /\ c \in plan.threads /\ connected
    /\ refcount' = [refcount EXCEPT ![h] = @ + 1]
    /\ IF refcount[h] = 0
       THEN /\ ready' = Append(ready, "unset")
            /\ readyOf' = [readyOf EXCEPT ![h] = Len(ready) + 1]
            /\ thread' = [thread EXCEPT ![c] = [pc |-> "first", ready |-> Len(ready) + 1]]
       ELSE /\ thread' = [thread EXCEPT ![c] = [pc |-> "waiting", ready |-> readyOf[h]]]
            /\ UNCHANGED <<ready, readyOf>>
    /\ UNCHANGED <<ack, local, gen, commands, pubsubVars, rereg, maint, flowVars, wireVars, index,
                   connected, boundVars>>

\* The first registrant asks the listener to SUBSCRIBE, unless the filter
\* matches nothing.
AskSubscribe(c) ==
    LET h == HashOf[c] IN
    /\ thread[c].pc = "first"
    /\ IF EntriesOf[h] = {}
       THEN /\ Event(thread[c].ready, "set") /\ Go(c, "done")
            /\ UNCHANGED <<local, commands>>
       ELSE /\ local' = local \cup {h}
            /\ Queue(Command("sub", h, c))
            /\ Go(c, IF connected THEN "acking" ELSE "failing")
            /\ UNCHANGED ready
    /\ UNCHANGED <<ack, refcount, readyOf, gen, pubsubVars, rereg, maint, flowVars, wireVars,
                   index, connected, boundVars>>

Acked(c) ==
    /\ thread[c].pc = "acking" /\ ack[c] # Unset
    /\ Go(c, IF ack[c] = Failed THEN "failing" ELSE "registering")
    /\ UNCHANGED <<ack, stateVars, commands, pubsubVars, rereg, maint, flowVars, wireVars, index,
                   connected, boundVars>>

\* The call of nu1_reg, on the other connection; it may fail.
RegisterHash(c) ==
    /\ thread[c].pc = "registering"
    /\ \/ /\ index' = Reg(index, HashOf[c], EntriesOf[HashOf[c]])
          /\ Go(c, "checking")
          /\ UNCHANGED failures
       \/ /\ failures < plan.failures /\ failures' = failures + 1
          /\ Go(c, "failing")
          /\ UNCHANGED index
    /\ UNCHANGED <<ack, stateVars, commands, pubsubVars, rereg, maint, flowVars, wireVars,
                   connected, losses, timeouts, slipped>>

CheckStale_Trusts(c) ==
    /\ thread[c].pc = "checking"
    /\ Event(thread[c].ready, "set") /\ Go(c, "done")
    /\ UNCHANGED <<ack, refcount, local, readyOf, gen, commands, pubsubVars, rereg, maint,
                   flowVars, wireVars, index, connected, boundVars>>

\* Ready, if the connection is still the one the confirmation was read on;
\* else the reconnect's registration makes it ready.
CheckStale(c) ==
    /\ thread[c].pc = "checking"
    /\ IF gen = ack[c]
       THEN Event(thread[c].ready, "set") /\ Go(c, "done")
       ELSE Go(c, "stale") /\ UNCHANGED ready
    /\ UNCHANGED <<ack, refcount, local, readyOf, gen, commands, pubsubVars, rereg, maint,
                   flowVars, wireVars, index, connected, boundVars>>

\* Readiness, or its failure, reaches who waits for it.  The first registrant
\* does not look for an error.
Woken(c) ==
    LET r == thread[c].ready IN
    /\ thread[c].pc \in {"waiting", "stale"}
    /\ ready[r] # "unset"
    /\ Go(c, IF ready[r] = "error" /\ thread[c].pc = "waiting" THEN "failed" ELSE "done")
    /\ UNCHANGED <<ack, stateVars, commands, pubsubVars, rereg, maint, flowVars, wireVars, index,
                   connected, boundVars>>

\* While the observer is connected a wait is over its deadline a bounded number
\* of times; after a disconnect every wait that nothing ends is.
MayTimeOut ==
    \/ connected /\ timeouts < plan.timeouts /\ timeouts' = timeouts + 1
    \/ ~connected /\ UNCHANGED timeouts

\* A wait of the first registrant is over its deadline.
FirstTimesOut(c) ==
    /\ thread[c].pc \in {"acking", "stale"}
    /\ MayTimeOut
    /\ Go(c, "failing")
    /\ UNCHANGED <<ack, stateVars, commands, pubsubVars, rereg, maint, flowVars, wireVars, index,
                   connected, losses, failures, slipped>>

\* The hash is rolled back, and everyone who waits for it fails.
RollBack(c) ==
    LET h == HashOf[c]
        mine == readyOf[h] = thread[c].ready
    IN
    /\ thread[c].pc = "failing"
    /\ IF mine
       THEN /\ readyOf' = [readyOf EXCEPT ![h] = 0]
            /\ refcount' = [refcount EXCEPT ![h] = 0]
            /\ local' = local \ {h}
            /\ Queue(Command("unsub", h, c))
       ELSE UNCHANGED <<readyOf, refcount, local, commands>>
    /\ Event(thread[c].ready, "error")
    /\ Go(c, "failed")
    /\ UNCHANGED <<ack, gen, pubsubVars, rereg, maint, flowVars, wireVars, index, connected,
                   boundVars>>

\* A waiter that gives up drops its refcount (_release), but not the last one,
\* and not after its _Ready was replaced.
WaiterTimesOut(c) ==
    LET h == HashOf[c] IN
    /\ thread[c].pc = "waiting"
    /\ MayTimeOut
    /\ refcount' = [refcount EXCEPT ![h] =
                       IF readyOf[h] = thread[c].ready /\ @ > 1 THEN @ - 1 ELSE @]
    /\ Go(c, "failed")
    /\ UNCHANGED <<ack, local, ready, readyOf, gen, commands, pubsubVars, rereg, maint, flowVars,
                   wireVars, index, connected, losses, failures, slipped>>

\* subscribe() looks at _connected last.
Return(c) ==
    /\ thread[c].pc = "done"
    /\ Go(c, IF connected THEN "open" ELSE "refused")
    /\ UNCHANGED <<ack, stateVars, commands, pubsubVars, rereg, maint, flowVars, wireVars, index,
                   connected, boundVars>>

CloseSub_LastButOne(c) ==
    LET h == HashOf[c] IN
    /\ thread[c].pc = "open" /\ connected
    /\ Go(c, "closed")
    /\ refcount' = [refcount EXCEPT ![h] = 0]
    /\ readyOf' = [readyOf EXCEPT ![h] = 0]
    /\ local' = local \ {h}
    /\ IF h \in local THEN Queue(Command("unsub", h, c)) ELSE UNCHANGED commands
    /\ UNCHANGED <<ack, ready, gen, pubsubVars, rereg, maint, flowVars, wireVars, index, connected,
                   boundVars>>

\* _unregister_local_filter: the last subscription of a hash unsubscribes.
CloseSub(c) ==
    LET h == HashOf[c] IN
    /\ thread[c].pc = "open" /\ connected
    /\ Go(c, "closed")
    /\ IF refcount[h] > 1
       THEN /\ refcount' = [refcount EXCEPT ![h] = @ - 1]
            /\ UNCHANGED <<local, readyOf, commands>>
       ELSE /\ refcount' = [refcount EXCEPT ![h] = 0]
            /\ readyOf' = [readyOf EXCEPT ![h] = 0]
            /\ local' = local \ {h}
            /\ IF h \in local THEN Queue(Command("unsub", h, c)) ELSE UNCHANGED commands
    /\ UNCHANGED <<ack, ready, gen, pubsubVars, rereg, maint, flowVars, wireVars, index, connected,
                   boundVars>>

-----------------------------------------------------------------------------
\* redis-py sends over a connection that is up; over one the server has cut the
\* write is lost, unless it raises (CommandFails).
Send(m) == IF link = "up" THEN Append(toServer, m) ELSE toServer

\* The listener runs a queued command (_run_cmd).
RunCommand ==
    LET cmd == Head(commands)
        h == cmd.hash
    IN
    /\ connected /\ commands # <<>> /\ link # "down"
    /\ commands' = Tail(commands)
    /\ toServer' = Send(Message(cmd.action, h))
    /\ IF cmd.action = "sub"
       THEN /\ channels' = channels \cup {h} /\ leaving' = leaving \ {h}
            /\ pending' = [pending EXCEPT ![h] = Append(@, {cmd.caller})]
       ELSE leaving' = leaving \cup {h} /\ UNCHANGED <<channels, pending>>
    /\ UNCHANGED <<callVars, stateVars, rereg, maint, flowVars, link, toClient, subscribed, index,
                   connected, boundVars>>

\* The send raises: redis-py has closed the connection, the caller fails.
CommandFails ==
    LET cmd == Head(commands) IN
    /\ connected /\ commands # <<>> /\ link = "cut"
    /\ commands' = Tail(commands)
    /\ link' = "down" /\ toClient' = <<>>
    /\ IF cmd.action = "sub"
       THEN ack' = [ack EXCEPT ![cmd.caller] = Failed] /\ UNCHANGED leaving
       ELSE leaving' = leaving \cup {cmd.hash} /\ UNCHANGED ack
    /\ UNCHANGED <<thread, stateVars, pending, channels, rereg, maint, flowVars, toServer,
                   subscribed, index, connected, boundVars>>

Room_Bounded == overflow < QueueMax

\* The socket is read while the overflow has room, or a SUBSCRIBE is pending.
Room == overflow < QueueMax \/ \E h \in Hashes : pending[h] # <<>>

\* _invalidate_ready: a fresh _Ready for each hash that was ready.  One whose
\* first registrant is in flight keeps its own.
Invalidate ==
    LET lost == SetToSeq({h \in local : readyOf[h] # 0 /\ IsSet(readyOf[h])})
    IN  /\ gen' = gen + 1
        /\ ready' = ready \o [i \in DOMAIN lost |-> "unset"]
        /\ readyOf' = [h \in Hashes |->
                         IF Contains(lost, h) THEN Len(ready) + CHOOSE i \in DOMAIN lost : lost[i] = h
                         ELSE readyOf[h]]

\* get_message raises: the connection is known to be lost.
NoticeLoss ==
    /\ connected /\ link = "cut" /\ channels # {} /\ Room
    /\ link' = "down" /\ toClient' = <<>>
    /\ Invalidate
    /\ UNCHANGED <<callVars, refcount, local, commands, pubsubVars, rereg, maint, flowVars,
                   toServer, subscribed, index, connected, boundVars>>

Reconnect_KeepsGroups ==
    /\ connected /\ link \in {"cut", "down"}
    /\ commands # <<>> \/ (channels # {} /\ Room)
    /\ link' = "up" /\ toClient' = <<>>
    /\ Invalidate
    /\ toServer' = LET known == SetToSeq(channels)
                   IN  [i \in DOMAIN known |-> Message("sub", known[i])]
    /\ leaving' = {}
    /\ UNCHANGED <<callVars, refcount, local, commands, pending, channels, rereg, maint, flowVars,
                   subscribed, index, connected, boundVars>>

\* The next command or read connects again: redis-py subscribes to its channels,
\* then the callback
\* (_on_pubsub_reconnect) makes the groups of a channel one.
Reconnect ==
    /\ connected /\ link \in {"cut", "down"}
    /\ commands # <<>> \/ (channels # {} /\ Room)
    /\ link' = "up" /\ toClient' = <<>>
    /\ Invalidate
    /\ toServer' = LET known == SetToSeq(channels)
                   IN  [i \in DOMAIN known |->
                          IF pending[known[i]] = <<>> THEN Resubscription(known[i], readyOf'[known[i]])
                          ELSE Message("sub", known[i])]
    /\ leaving' = {}
    /\ pending' = [h \in Hashes |->
                     IF h \in channels /\ pending[h] # <<>>
                     THEN <<UNION {pending[h][i] : i \in DOMAIN pending[h]}>> ELSE <<>>]
    /\ UNCHANGED <<callVars, refcount, local, commands, channels, rereg, maint, flowVars, subscribed,
                   index, connected, boundVars>>

\* _unsubscribe_orphan.
GiveUpChannel(h) ==
    IF h \in channels \ leaving
    THEN leaving' = leaving \cup {h} /\ toServer' = Send(Message("unsub", h))
    ELSE UNCHANGED <<leaving, toServer>>

\* _on_subscribed: a confirmation releases the oldest group of its channel;
\* with nobody waiting it is a resubscription, to be registered again.  One that
\* nobody waited for when the connection came back may release a group all the
\* same, if a SUBSCRIBE was sent meanwhile.
OnSubscribed(m) ==
    LET h == m.hash IN
    /\ slipped' = IF m.kind = "resub" /\ pending[h] # <<>> THEN slipped \cup {h} ELSE slipped
    /\ IF pending[h] # <<>>
       THEN /\ ack' = [c \in Threads |-> IF c \in Head(pending[h]) THEN gen ELSE ack[c]]
            /\ pending' = [pending EXCEPT ![h] = Tail(@)]
            /\ IF Len(pending[h]) = 1 /\ h \notin local THEN GiveUpChannel(h)
               ELSE UNCHANGED <<leaving, toServer>>
            /\ UNCHANGED rereg
       ELSE /\ IF h \in local
               THEN rereg' = Append(rereg, [hash |-> h, gen |-> gen, life |-> m.life]) /\ UNCHANGED <<leaving, toServer>>
               ELSE GiveUpChannel(h) /\ UNCHANGED rereg
            /\ UNCHANGED <<ack, pending>>

\* The listener takes one message.  redis-py drops a channel when the
\* UNSUBSCRIBE it still wants is confirmed.
ReadMessage ==
    LET m == Head(toClient) IN
    /\ connected /\ link # "down" /\ toClient # <<>> /\ Room
    /\ toClient' = Tail(toClient)
    /\ CASE m.kind \in {"sub", "resub"} -> OnSubscribed(m) /\ UNCHANGED <<channels, overflow>>
         [] m.kind = "unsub" ->
              /\ IF m.hash \in leaving
                 THEN channels' = channels \ {m.hash} /\ leaving' = leaving \ {m.hash}
                 ELSE UNCHANGED <<channels, leaving>>
              /\ UNCHANGED <<ack, pending, rereg, toServer, overflow, slipped>>
         [] m.kind = "notif" ->
              /\ overflow' = overflow + 1
              /\ UNCHANGED <<ack, pending, channels, leaving, rereg, toServer, slipped>>
    /\ UNCHANGED <<thread, stateVars, commands, maint, queued, published, link, subscribed, index,
                   connected, losses, failures, timeouts>>

\* _drain_overflow, one key at a time.
Drain ==
    /\ connected /\ overflow > 0 /\ queued < QueueMax
    /\ overflow' = overflow - 1 /\ queued' = queued + 1
    /\ UNCHANGED <<callVars, stateVars, commands, pubsubVars, rereg, maint, published, wireVars,
                   index, connected, boundVars>>

\* The worker delivers a key; a callback may keep it for ever.
Deliver ==
    /\ queued > 0 /\ queued' = queued - 1
    /\ UNCHANGED <<callVars, stateVars, commands, pubsubVars, rereg, maint, overflow, published,
                   wireVars, index, connected, boundVars>>

-----------------------------------------------------------------------------
\* The maintenance thread takes a resubscribed hash, registers it, again and
\* again while that fails (_reregister_once), and marks it ready if no
\* connection was lost since (_mark_ready).
TakeRereg ==
    /\ connected /\ maint.pc = "idle" /\ rereg # <<>>
    /\ maint' = [pc |-> "register"] @@ Head(rereg)
    /\ rereg' = Tail(rereg)
    /\ UNCHANGED <<callVars, stateVars, commands, pubsubVars, flowVars, wireVars, index, connected,
                   boundVars>>

Idle == [pc |-> "idle", hash |-> NoHash, gen |-> 0, life |-> Own]

Reregister ==
    /\ connected /\ maint.pc = "register"
    /\ IF maint.hash \in local
       THEN \/ /\ index' = Reg(index, maint.hash, EntriesOf[maint.hash])
               /\ maint' = [maint EXCEPT !.pc = "mark"]
               /\ UNCHANGED failures
            \/ /\ failures < plan.failures /\ failures' = failures + 1
               /\ UNCHANGED <<index, maint>>
       ELSE maint' = Idle /\ UNCHANGED <<index, failures>>
    /\ UNCHANGED <<callVars, stateVars, commands, pubsubVars, rereg, flowVars, wireVars, connected,
                   losses, timeouts, slipped>>

MarkReady ==
    LET h == maint.hash
        r == readyOf[h]
    IN
    /\ connected /\ maint.pc = "mark"
    /\ maint' = Idle
    /\ IF r # 0 /\ maint.gen = gen /\ h \in local /\ ready[r] = "unset"
       THEN /\ Event(r, "set")
            /\ slipped' = IF maint.life \notin {Own, r} THEN slipped \cup {h} ELSE slipped
       ELSE UNCHANGED <<ready, slipped>>
    /\ UNCHANGED <<callVars, refcount, local, readyOf, gen, commands, pubsubVars, rereg, flowVars,
                   wireVars, index, connected, losses, failures, timeouts>>

-----------------------------------------------------------------------------
\* _on_disconnect: both threads are told to stop and are joined, and commands
\* are taken no more ...
Shutdown ==
    /\ connected /\ plan.disconnect
    /\ connected' = FALSE
    /\ commands' = <<>>
    /\ link' = "down" /\ toServer' = <<>> /\ toClient' = <<>> /\ subscribed' = {}
    /\ overflow' = 0
    /\ UNCHANGED <<callVars, stateVars, pubsubVars, rereg, maint, queued, published, index,
                   boundVars>>

\* ... and then every waiter is failed.
Cleanup ==
    /\ ~connected /\ \E h \in Hashes : readyOf[h] # 0
    /\ refcount' = [h \in Hashes |-> 0] /\ local' = {}
    /\ ready' = [r \in DOMAIN ready |->
                   IF ready[r] = "unset" /\ (\E h \in Hashes : readyOf[h] = r) THEN "error"
                   ELSE ready[r]]
    /\ readyOf' = [h \in Hashes |-> 0]
    /\ UNCHANGED <<callVars, gen, commands, pubsubVars, rereg, maint, flowVars, wireVars, index,
                   connected, boundVars>>

-----------------------------------------------------------------------------
\* The server takes a command of the connection and confirms it.
Serve ==
    LET m == Head(toServer) IN
    /\ link = "up" /\ toServer # <<>>
    /\ toServer' = Tail(toServer)
    /\ toClient' = Append(toClient, m)
    /\ subscribed' = IF m.kind = "unsub" THEN subscribed \ {m.hash} ELSE subscribed \cup {m.hash}
    /\ UNCHANGED <<callVars, stateVars, commands, pubsubVars, rereg, maint, flowVars, link, index,
                   connected, boundVars>>

\* nu1_route: a key is published to the hashes its sets hold; one with no
\* subscriber leaves the index.
Publish(k) ==
    LET routed == Route(index, k)
        heard == SetToSeq(routed \cap subscribed)
        unheard == routed \ subscribed
    IN
    /\ connected /\ published < plan.published /\ published' = published + 1
    /\ toClient' = toClient \o [i \in DOMAIN heard |-> Message("notif", heard[i])]
    /\ index' = FoldSet(LAMBDA h, left : Unreg(left, h), index, unheard)
    /\ UNCHANGED <<callVars, stateVars, commands, pubsubVars, rereg, maint, overflow, queued,
                   link, toServer, subscribed, connected, boundVars>>

\* The server cuts the connection, or restarts and has lost its index as well.
Cut ==
    /\ connected /\ link = "up" /\ losses < plan.losses /\ losses' = losses + 1
    /\ link' = "cut" /\ toServer' = <<>> /\ subscribed' = {}
    /\ index' = IF plan.restart THEN EmptyIndex ELSE index
    /\ UNCHANGED <<callVars, stateVars, commands, pubsubVars, rereg, maint, flowVars, toClient,
                   connected, failures, timeouts, slipped>>

-----------------------------------------------------------------------------
\* What a caller's thread does by itself; and what its clock and its user may do.
CallerStep(c) ==
    \/ AskSubscribe(c) \/ Acked(c) \/ RegisterHash(c) \/ CheckStale(c)
    \/ Woken(c) \/ RollBack(c) \/ Return(c)
TimesOut(c) == FirstTimesOut(c) \/ WaiterTimesOut(c)

ListenerStep == RunCommand \/ CommandFails \/ NoticeLoss \/ Reconnect \/ ReadMessage \/ Drain
MaintStep == TakeRereg \/ Reregister \/ MarkReady

Step ==
    \/ \E c \in Threads : Register(c) \/ CallerStep(c) \/ TimesOut(c) \/ CloseSub(c)
    \/ ListenerStep \/ MaintStep \/ Deliver
    \/ Shutdown \/ Cleanup
    \/ Serve \/ Cut \/ \E k \in Keys : Publish(k)

Next == Step /\ UNCHANGED plan

\* The threads and the server run; callbacks need not return, keys need not be
\* published, connections need not be lost.  Only the wait for a confirmation is
\* sure to reach its deadline, and only once no confirmation can come.
Fairness ==
    /\ \A c \in Threads : /\ WF_vars(CallerStep(c) /\ UNCHANGED plan)
                          /\ WF_vars(FirstTimesOut(c) /\ thread[c].pc = "acking" /\ ~connected /\ UNCHANGED plan)
    /\ WF_vars((RunCommand \/ CommandFails) /\ UNCHANGED plan)
    /\ WF_vars((NoticeLoss \/ Reconnect \/ ReadMessage) /\ UNCHANGED plan)
    /\ WF_vars(Drain /\ UNCHANGED plan)
    /\ WF_vars(MaintStep /\ UNCHANGED plan)
    /\ WF_vars(Cleanup /\ UNCHANGED plan)
    /\ WF_vars(Serve /\ UNCHANGED plan)

Spec == Init /\ [][Next]_vars /\ Fairness

-----------------------------------------------------------------------------
\* A hash that is ready on a live connection is routed: the server has its
\* channel, and the index leads to it for every key that its filter matches.
\* Readiness must therefore fall with every loss, and come back only after a
\* registration that no loss has overtaken (_invalidate_ready, the generation
\* checks of _register_local_filter and _mark_ready).  Left out: a hash that slipped.
ReadyIsRouted ==
    \A h \in local \ slipped : connected /\ link = "up" /\ IsSet(readyOf[h]) =>
        /\ h \in subscribed
        /\ \A k \in Keys : Matches(FilterOf[h], k) => h \in Route(index, k)

\* An open subscription keeps its hash: closes, waiters that give up and
\* rollbacks of others of the same filter never take it away.  Left out: the
\* subscription whose first registrant failed after its _Ready had been set by
\* the re-registration of a reconnect.
OpenIsLocal ==
    \A c \in Threads :
        connected /\ thread[c].pc = "open" /\ EntriesOf[HashOf[c]] # {}
          /\ ready[thread[c].ready] # "error"
        => HashOf[c] \in local /\ readyOf[HashOf[c]] # 0 /\ refcount[HashOf[c]] > 0

\* The wait for a SUBSCRIBE's confirmation ends whatever the receiver does: no
\* fairness of Deliver is assumed, so the queue and the overflow may stay full.
ConfirmedUnderBacklog == \A c \in Threads : thread[c].pc = "acking" ~> thread[c].pc # "acking"

\* If the receiver keeps making room, the channels of the server end as those
\* of the local hashes and every local hash is ready again, whatever was lost
\* on the way (_on_pubsub_reconnect, _on_subscribed, _unsubscribe_orphan).
Settled ==
    /\ \A h \in Hashes : (h \in local) <=> (h \in subscribed)
    /\ \A h \in local : readyOf[h] # 0 /\ IsSet(readyOf[h])
    /\ \A c \in Threads : thread[c].pc \notin {"first", "acking", "registering", "stale", "waiting"}
Settles == ([]<>(queued < QueueMax)) => <>[](connected => Settled)

=============================================================================
