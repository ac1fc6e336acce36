-------------------------- MODULE WriterSlotTurns ---------------------------
(***************************************************************************)
(* Turns on the writer slot: how long a queued coroutine or a blocked      *)
(* thread may be passed over, and that each is served in the end. The slot *)
(* is WriterSlot's; the history variable bypass counts thread transactions *)
(* since the queue last moved.                                             *)
(***************************************************************************)
EXTENDS WriterSlot

VARIABLE bypass

turnVars == <<vars, bypass>>

\* A caller of acquire was recorded as the owner in this step.
Barged == \E a \in Actors : /\ pc[a] \in {"record", "recordWaited"}
                            /\ pc'[a] = "holding"

QueueMoved == \/ w'.waiters = <<>>
              \/ w'.pending # None /\ w'.pending # w.pending

CountBypass ==
    bypass' = IF QueueMoved THEN 0 ELSE IF Barged THEN bypass + 1 ELSE bypass

TurnInit == Init /\ bypass = 0
TurnNext == Next /\ CountBypass
TurnSpec == TurnInit /\ [][TurnNext]_turnVars

\* Threads and coroutines take turns: while coroutines are queued, at most one thread
\* transaction begins between two moves of the queue, however many threads barge,
\* time out or are interrupted and however many grants are passed on or reclaimed
\* (WriterLock: "at most one thread transaction per coroutine ahead of it").
BoundedBypass == bypass <= 1

-----------------------------------------------------------------------------
(* Fairness. The OS runs every thread, the loop runs every ready callback  *)
(* in turn, and the application ends the transactions it began. Timeouts   *)
(* and cancellations need not happen, except the 50 ms cap on a sync wait  *)
(* on a loop thread.                                                       *)

\* The synchronous section a caller is in goes on.
Proceeds(a) ==
    \/ TryTake(a) \/ TryBusy(a) \/ CountWaiting(a) \/ BlockedTake(a)
    \/ RecordHold(a) \/ RecordStale(a) \/ GiveBackStale(a) \/ BeginSucceeds(a)

JobProceeds(t) == \E c \in Coros : TakeSlot(t, c) \/ TakeSlotRefused(t, c)

LoopCapExpires(c) == WaitGivesUp(c)

\* What the loop does for c once it gets to it.
LoopRuns(c) ==
    WakeUp(c) \/ LeaveQueue(c) \/ LateGrant(c) \/ Release(c) \/ JobEnded(c)

\* The application does not retry a failing begin on one slot for ever.
GivesSlotBack(c) == pc[c] = "reserved" /\ ReleaseSlotCheck(c)

\* A free native lock wakes a thread blocked in it, sooner or later before it times out.
NativeWake == \E t \in Threads : BlockedTake(t)

GuardedRest(c) == PassOn(c) \/ Granted(c) \/ GrantClosed(c) \/ ReleaseSlot(c)

Fairness ==
    /\ \A a \in Actors : WF_vars(Proceeds(a))
    /\ SF_vars(NativeWake)
    /\ \A t \in Threads : WF_vars(Release(t)) /\ WF_vars(JobProceeds(t))
    /\ \A c \in Coros : /\ WF_vars(LoopCapExpires(c))
                        /\ SF_vars(LoopRuns(c))
                        /\ SF_vars(GivesSlotBack(c))
                        /\ WF_vars(GuardedRest(c))

FairSpec == TurnSpec /\ Fairness

\* Every queued coroutine is served, skipped or gives up: none waits forever behind
\* threads that barge, behind tasks that reserve again, or behind a loop that blocks
\* in a sync begin (areserve next to a thread writing in a loop).
QueuedServed == \A c \in Coros : w.wstate[c] = "waiting" ~> w.wstate[c] # "waiting"

\* Neither are the blocked threads starved by a queue that never empties: the lock is
\* unlocked for one of them in the end.
ThreadsServed ==
    (\E t \in Threads : pc[t] = "blocked") ~>
        \/ \E a \in Actors : pc[a] \in {"record", "recordWaited"}
        \/ \A t \in Threads : pc[t] # "blocked"
=============================================================================
