-------------------------- MODULE WriterSlot_proofs --------------------------
(***************************************************************************)
(* One writer at a time, for any number of threads, coroutines, loops and  *)
(* replacements of the lock: SlotInv of WriterSlot is inductive.           *)
(***************************************************************************)
EXTENDS WriterSlot, SequenceTheorems, WellFoundedInduction, TLAPS

\* What a guarded helper may change: s is r but for the queue, the waiters' states,
\* the pending handoff, the turn, and whether the current lock is locked.
SameSlot(r, s) ==
    /\ s.lock = r.lock /\ s.owner = r.owner
    /\ \A l \in Locks : l # r.lock => (l \in s.locked <=> l \in r.locked)

\* Skipping the waiters before a position keeps the record's type.
LEMMA SkipType ==
    ASSUME NEW r \in WriterStates, NEW k \in 1 .. Len(r.waiters) + 1
    PROVE  /\ Skip(r, k) \in WriterStates
           /\ SameSlot(r, Skip(r, k))
           /\ Skip(r, k).locked = r.locked
           /\ Skip(r, k).pending = r.pending
           /\ k <= Len(r.waiters) => Skip(r, k).waiters # <<>>
           /\ \A c \in Coros : Skip(r, k).wstate[c] = "granted" => r.wstate[c] = "granted"
<1> DEFINE q == r.waiters
           n == Len(q)
<1>1. q \in Seq(Coros) /\ n \in Nat /\ \A i \in 1 .. n : q[i] \in Coros
  BY ElementOfSeq, LenProperties DEF WriterStates
<1>2. SubSeq(q, k, n) \in Seq(Coros) /\ (k <= n => SubSeq(q, k, n) # <<>>)
  <2>1. k \in Int /\ n \in Int /\ \A i \in k .. n : q[i] \in Coros
    BY <1>1
  <2>2. /\ SubSeq(q, k, n) \in Seq(Coros)
        /\ Len(SubSeq(q, k, n)) = IF k <= n THEN n - k + 1 ELSE 0
    BY <2>1, SubSeqProperties
  <2>3. k <= n => Len(SubSeq(q, k, n)) # 0
    BY <2>1, <2>2
  <2> QED BY <2>2, <2>3, EmptySeq
<1> DEFINE ws == [c \in Coros |->
                    IF \E i \in 1 .. k - 1 : q[i] = c THEN "abandoned" ELSE r.wstate[c]]
<1>3. ws \in [Coros -> WaiterStates]
  BY DEF WriterStates, WaiterStates
<1>4. Skip(r, k) = [r EXCEPT !.waiters = SubSeq(q, k, n), !.wstate = ws]
  BY DEF Skip
<1> HIDE DEF q, n, ws
<1>5. Skip(r, k) \in WriterStates
  BY <1>2, <1>3, <1>4 DEF WriterStates
<1>6. /\ SameSlot(r, Skip(r, k))
      /\ Skip(r, k).locked = r.locked
      /\ Skip(r, k).pending = r.pending
      /\ Skip(r, k).waiters = SubSeq(q, k, n)
      /\ Skip(r, k).wstate = ws
  BY <1>4 DEF WriterStates, SameSlot
<1>7. \A c \in Coros : ws[c] = "granted" => r.wstate[c] = "granted"
  BY DEF ws
<1> QED BY <1>2, <1>5, <1>6, <1>7 DEF n, q

\* A slot that is held for nobody: what a release starts from.
Ownerless(r) == /\ r \in WriterStates
                /\ r.owner = None /\ r.pending = None
                /\ r.lock \in r.locked
                /\ \A c \in Coros : r.wstate[c] # "granted"

\* Unlocking a slot held for nobody keeps the record coherent.
LEMMA UnlockCoherent ==
    ASSUME NEW r, Ownerless(r)
    PROVE  Unlock(r) \in WriterStates /\ Coherent(Unlock(r)) /\ SameSlot(r, Unlock(r))
BY DEF Ownerless, WriterStates, Unlock, Coherent, SameSlot

\* Granting the head of the queue keeps the lock locked and names one waiter.
LEMMA GrantCoherent ==
    ASSUME NEW r, Ownerless(r), NEW c \in Coros, r.waiters # <<>>
    PROVE  Grant(r, c) \in WriterStates /\ Coherent(Grant(r, c)) /\ SameSlot(r, Grant(r, c))
<1>1. r.waiters \in Seq(Coros) /\ Tail(r.waiters) \in Seq(Coros)
  BY HeadTailProperties DEF Ownerless, WriterStates
<1>2. Grant(r, c) \in WriterStates
  BY <1>1 DEF Ownerless, WriterStates, Grant, WaiterStates
<1>3. Coherent(Grant(r, c)) /\ SameSlot(r, Grant(r, c))
  BY <1>1 DEF Ownerless, WriterStates, Grant, WaiterStates, Coherent, SameSlot
<1> QED BY <1>2, <1>3

\* A set of natural numbers that is not empty has a least element.
LEMMA SmallestNat ==
    ASSUME NEW S, S \subseteq Nat, S # {}
    PROVE  \E i \in S : \A j \in S : i <= j
<1> DEFINE Less == {p \in Nat \X Nat : p[1] < p[2]}
<1>1. IsWellFoundedOn(Less, Nat)
  BY NatLessThanWellFounded, Zenon DEF OpToRel
<1>2. PICK i \in S : \A j \in S : ~(<<j, i>> \in Less)
  <2> HIDE DEF Less
  <2> QED BY <1>1, WFMin
<1>3. ASSUME NEW j \in S
      PROVE  i <= j
  <2>1. i \in Nat /\ j \in Nat
    OBVIOUS
  <2>2. j < i => <<j, i>> \in Less
    BY <2>1
  <2> QED BY <1>2, <2>1, <2>2
<1> QED BY <1>3

\* A handoff grants one waiter of the queue, or unlocks when none is left.
LEMMA HandOffCoherent ==
    ASSUME NEW r, Ownerless(r)
    PROVE  HandOff(r) \in WriterStates /\ Coherent(HandOff(r)) /\ SameSlot(r, HandOff(r))
<1> DEFINE n == Len(r.waiters)
<1>1. n \in Nat /\ r.waiters \in Seq(Coros) /\ r \in WriterStates
  BY LenProperties DEF Ownerless, WriterStates
<1>2. ASSUME NEW k \in 1 .. n + 1
      PROVE  Ownerless(Skip(r, k)) /\ SameSlot(r, Skip(r, k))
  <2>1. /\ Skip(r, k) \in WriterStates
        /\ SameSlot(r, Skip(r, k))
        /\ Skip(r, k).locked = r.locked
        /\ Skip(r, k).pending = r.pending
        /\ \A c \in Coros : Skip(r, k).wstate[c] = "granted" => r.wstate[c] = "granted"
    BY <1>1, <1>2, SkipType
  <2> QED BY <2>1 DEF Ownerless, SameSlot
<1>3. CASE LiveAt(r) = {}
  <2>1. n + 1 \in 1 .. n + 1
    BY <1>1
  <2>2. HandOff(r) = Unlock(Skip(r, n + 1))
    BY <1>3 DEF HandOff
  <2>3. Ownerless(Skip(r, n + 1)) /\ SameSlot(r, Skip(r, n + 1))
    BY <1>2, <2>1
  <2> QED BY <2>2, <2>3, UnlockCoherent DEF SameSlot
<1>4. CASE LiveAt(r) # {}
  <2> DEFINE k == CHOOSE i \in LiveAt(r) : \A j \in LiveAt(r) : i <= j
  <2>1. LiveAt(r) \subseteq 1 .. n
    BY DEF LiveAt
  <2>2. k \in LiveAt(r)
    <3>1. LiveAt(r) \subseteq Nat
      BY <2>1
    <3>2. \E i \in LiveAt(r) : \A j \in LiveAt(r) : i <= j
      BY <1>4, <3>1, SmallestNat
    <3> QED BY <3>2
  <2>3. HandOff(r) = Grant(Skip(r, k), r.waiters[k])
    BY <1>4 DEF HandOff
  <2> HIDE DEF k
  <2>4. k \in 1 .. n /\ k \in 1 .. n + 1
    BY <2>1, <2>2, <1>1
  <2>5. r.waiters[k] \in Coros
    BY <1>1, <2>4, ElementOfSeq
  <2>6. Skip(r, k).waiters # <<>>
    BY <1>1, <2>4, SkipType
  <2>7. Ownerless(Skip(r, k)) /\ SameSlot(r, Skip(r, k))
    BY <1>2, <2>4
  <2> QED BY <2>3, <2>5, <2>6, <2>7, GrantCoherent DEF SameSlot
<1> QED BY <1>3, <1>4

\* A release of a slot held for nobody hands it off or unlocks it.
LEMMA ReleaseLockedCoherent ==
    ASSUME NEW r, Ownerless(r)
    PROVE  /\ ReleaseLocked(r) \in WriterStates
           /\ Coherent(ReleaseLocked(r))
           /\ SameSlot(r, ReleaseLocked(r))
BY HandOffCoherent, UnlockCoherent DEF ReleaseLocked

\* A grant taken back leaves a held slot without an owner.
LEMMA RevokeOwnerless ==
    ASSUME NEW r \in WriterStates, Coherent(r), NEW c \in Coros, r.wstate[c] = "granted"
    PROVE  Ownerless(Revoke(r, c)) /\ SameSlot(r, Revoke(r, c))
BY ActorsAssumption DEF WriterStates, Coherent, Revoke, Ownerless, SameSlot, WaiterStates, Actors

\* Taking back the grant of a coroutine whose loop closed keeps the record coherent.
LEMMA ReclaimCoherent ==
    ASSUME NEW r \in WriterStates, Coherent(r)
    PROVE  /\ ReclaimDeadPending(r) \in WriterStates
           /\ Coherent(ReclaimDeadPending(r))
           /\ SameSlot(r, ReclaimDeadPending(r))
           /\ r.pending = None => ReclaimDeadPending(r) = r
<1>1. CASE /\ r.pending # None
           /\ r.wstate[r.pending] = "granted"
           /\ Gone(r.pending)
  <2> DEFINE s == Revoke(r, r.pending)
  <2>1. r.pending \in Coros
    BY <1>1 DEF WriterStates
  <2>2. Ownerless(s) /\ SameSlot(r, s)
    BY <1>1, <2>1, RevokeOwnerless
  <2>3. s \in WriterStates /\ Coherent(s)
    BY <2>2 DEF Ownerless, Coherent
  <2>4. /\ ReleaseLocked(s) \in WriterStates
        /\ Coherent(ReleaseLocked(s))
        /\ SameSlot(s, ReleaseLocked(s))
    BY <2>2, ReleaseLockedCoherent
  <2>5. ReclaimDeadPending(r) = IF r.wlock[r.pending] = r.lock THEN ReleaseLocked(s) ELSE s
    BY <1>1 DEF ReclaimDeadPending
  <2> HIDE DEF s
  <2>6. SameSlot(r, ReleaseLocked(s))
    BY <2>2, <2>4 DEF SameSlot
  <2> QED BY <1>1, <2>2, <2>3, <2>4, <2>5, <2>6
<1>2. CASE ~(/\ r.pending # None
             /\ r.wstate[r.pending] = "granted"
             /\ Gone(r.pending))
  BY <1>2 DEF ReclaimDeadPending, SameSlot
<1> QED BY <1>1, <1>2

\* The rescue hands a free slot to a stranded queue, and does nothing else.
LEMMA RescueCoherent ==
    ASSUME NEW r \in WriterStates, Coherent(r)
    PROVE  /\ RescueQueue(r) \in WriterStates
           /\ Coherent(RescueQueue(r))
           /\ SameSlot(r, RescueQueue(r))
           /\ r.lock \in r.locked => RescueQueue(r) = r
<1>1. CASE r.waiters # <<>> /\ r.lock \notin r.locked
  <2> DEFINE s == [r EXCEPT !.locked = @ \cup {r.lock}]
  <2>1. Ownerless(s) /\ SameSlot(r, s)
    BY <1>1, ActorsAssumption DEF WriterStates, Coherent, Ownerless, SameSlot, Actors
  <2>2. HandOff(s) \in WriterStates /\ Coherent(HandOff(s)) /\ SameSlot(s, HandOff(s))
    BY <2>1, HandOffCoherent
  <2>3. RescueQueue(r) = HandOff(s)
    BY <1>1 DEF RescueQueue
  <2> HIDE DEF s
  <2> QED BY <1>1, <2>1, <2>2, <2>3 DEF SameSlot
<1>2. CASE ~(r.waiters # <<>> /\ r.lock \notin r.locked)
  BY <1>2 DEF RescueQueue, SameSlot
<1> QED BY <1>1, <1>2

\* Uncounting a blocked caller leaves the slot and its queue alone.
LEMMA UncountCoherent ==
    ASSUME NEW r \in WriterStates, Coherent(r)
    PROVE  /\ Uncount(r) \in WriterStates /\ Coherent(Uncount(r)) /\ SameSlot(r, Uncount(r))
           /\ Uncount(r).pending = r.pending /\ Uncount(r).locked = r.locked
BY DEF WriterStates, Coherent, Uncount, SameSlot

\* Releasing a hold by identity frees the slot, or does nothing when it was replaced.
LEMMA ReleaseHoldCoherent ==
    ASSUME NEW r \in WriterStates, Coherent(r), NEW l \in Locks, l = r.lock => r.owner # None
    PROVE  /\ ReleaseHold(r, l) \in WriterStates
           /\ Coherent(ReleaseHold(r, l))
           /\ ReleaseHold(r, l).lock = r.lock
           /\ \A k \in Locks : k # r.lock =>
                 (k \in ReleaseHold(r, l).locked <=> k \in r.locked)
           /\ l = r.lock => ReleaseHold(r, l).owner = None
           /\ l # r.lock => ReleaseHold(r, l) = r
<1> DEFINE z == [r EXCEPT !.owner = None, !.marked = {}]
<1>1. CASE l = r.lock
  <2>1. r.lock \in r.locked /\ r.pending = None
    BY <1>1 DEF Coherent
  <2>2. ReleaseHold(r, l) = ReleaseLocked(z)
    BY <1>1, <2>1 DEF ReleaseHold
  <2>3. Ownerless(z)
    BY <2>1, ActorsAssumption DEF WriterStates, Coherent, Ownerless, Actors
  <2>4. z.lock = r.lock /\ z.locked = r.locked /\ z.owner = None
    BY DEF WriterStates
  <2> HIDE DEF z
  <2>5. /\ ReleaseLocked(z) \in WriterStates
        /\ Coherent(ReleaseLocked(z))
        /\ SameSlot(z, ReleaseLocked(z))
    BY <2>3, ReleaseLockedCoherent
  <2> QED BY <1>1, <2>2, <2>4, <2>5 DEF SameSlot
<1>2. CASE l # r.lock
  BY <1>2 DEF ReleaseHold
<1> QED BY <1>1, <1>2

-----------------------------------------------------------------------------
(* The inductive step, one lemma per kind of action. The configuration is  *)
(* the one without the two races the README's findings describe.           *)

Config == Interruptible = {} /\ ~ReleaseDuringJob

USE DEF Locks, PCs, MidCall, SlotStates

\* The invariant holds of a slot that was just built.
LEMMA InitInv == ASSUME Init PROVE SlotInv
<1>1. w \in WriterStates /\ Coherent(w)
  BY BoundAssumption, EmptySeq DEF Init, WriterStates, WaiterStates, Coherent
<1>2. TypeOK
  BY <1>1, BoundAssumption DEF Init, TypeOK, NoSlot
<1>3. Bounded /\ TakersExclude
  BY BoundAssumption DEF Init, Bounded, TakersExclude, InFlight, NoSlot
<1>4. OneWriter /\ SlotUse
  BY ActorsAssumption DEF Init, OneWriter, SlotUse, Holders, Writes, Keeps, NoSlot, Actors
<1> QED BY <1>1, <1>2, <1>3, <1>4 DEF SlotInv

\* Steps that move one caller and leave the record alone.
LEMMA QuietSteps ==
    ASSUME SlotInv, Config, NEW a \in Actors,
           AcquireBegin(a) \/ TryBusy(a) \/ BeginSucceeds(a)
    PROVE  SlotInv'
<1>1. w' = w /\ slot' = slot /\ job' = job /\ UNCHANGED <<quit, closedLoops>>
  BY DEF AcquireBegin, TryBusy, BeginSucceeds
<1>2. TypeOK'
  BY <1>1 DEF SlotInv, TypeOK, AcquireBegin, TryBusy, BeginSucceeds, Goto, WriterStates
<1>3. Coherent(w)' /\ Bounded'
  <2>1. w.lock \in Int /\ (lk' = lk \/ lk' = [lk EXCEPT ![a] = w.lock])
    BY DEF SlotInv, TypeOK, WriterStates, AcquireBegin, TryBusy, BeginSucceeds
  <2> QED BY <1>1, <2>1 DEF SlotInv, TypeOK, Coherent, Bounded
<1>4. TakersExclude'
  BY <1>1 DEF SlotInv, TypeOK, AcquireBegin, TryBusy, BeginSucceeds, Goto, TakersExclude, InFlight
<1>5. OneWriter'
  BY <1>1 DEF SlotInv, TypeOK, AcquireBegin, TryBusy, BeginSucceeds, Goto, OneWriter, Holders, Writes, Keeps
<1>6. SlotUse'
  BY <1>1 DEF SlotInv, TypeOK, AcquireBegin, TryBusy, BeginSucceeds, Goto, SlotUse, Actors
<1> QED BY <1>2, <1>3, <1>4, <1>5, <1>6 DEF SlotInv

Claiming == {"record", "recordWaited", "giveback", "begin", "holding"}

\* A step that only moves the queue: every caller stays where it is or stops claiming
\* the slot, and a taker in flight keeps the lock it took.
LEMMA QueueStep ==
    ASSUME SlotInv,
           w' \in WriterStates, Coherent(w'), SameSlot(w, w'),
           \A b \in Actors : InFlight(b) /\ lk[b] = w.lock =>
                w.lock \in w'.locked /\ w'.pending = None,
           \A b \in Actors : \/ pc'[b] = pc[b] /\ lk'[b] = lk[b]
                             \/ pc'[b] \notin Claiming /\ lk'[b] \in Locks /\ lk'[b] <= w.lock
                             \/ /\ InFlight(b) /\ pc'[b] = "giveback"
                                /\ lk'[b] = lk[b] /\ lk[b] # w.lock,
           \A c \in Coros : slot'[c] = slot[c] \/ slot'[c] = NoSlot
    PROVE  Coherent(w)' /\ Bounded' /\ TakersExclude' /\ OneWriter'
<1>1. /\ w'.lock = w.lock /\ w'.owner = w.owner
      /\ \A l \in Locks : l # w.lock => (l \in w'.locked <=> l \in w.locked)
      /\ w.lock \in Locks /\ w.locked \subseteq Locks /\ w'.locked \subseteq Locks
      /\ lk \in [Actors -> Locks]
  BY DEF SameSlot, SlotInv, TypeOK, WriterStates
<1>2. \A b \in Actors : InFlight(b)' => InFlight(b) /\ lk'[b] = lk[b]
  BY DEF InFlight, Claiming
<1>3. \A b \in Actors : Writes(b)' => Writes(b)
  BY <1>1 DEF Writes, Claiming
<1>4. \A c \in Coros : Keeps(c)' => Keeps(c)
  BY <1>1 DEF Keeps, NoSlot
<1>5. Coherent(w)'
  BY DEF Coherent
<1>6. Bounded'
  <2>1. \A l \in w'.locked : l <= w.lock
    BY <1>1 DEF SlotInv, Bounded
  <2>2. \A b \in Actors : lk'[b] <= w.lock
    BY DEF SlotInv, Bounded
  <2>3. \A c \in Coros : slot'[c].lock <= w.lock
    BY <1>1 DEF SlotInv, Bounded, NoSlot
  <2> QED BY <1>1, <2>1, <2>2, <2>3 DEF Bounded
<1>7. TakersExclude'
  <2>1. \A b \in Actors : InFlight(b)' => lk'[b] \in w'.locked
    BY <1>1, <1>2 DEF SlotInv, TakersExclude
  <2>2. \A b, d \in Actors : InFlight(b)' /\ InFlight(d)' /\ lk'[b] = lk'[d] => b = d
    BY <1>2 DEF SlotInv, TakersExclude
  <2>3. \A b \in Actors : InFlight(b)' /\ lk'[b] = w.lock => w.owner = None /\ w'.pending = None
    BY <1>2 DEF SlotInv, TakersExclude
  <2>4. \A b \in Actors : pc'[b] = "giveback" => lk'[b] # w.lock
    BY DEF SlotInv, TakersExclude, Claiming
  <2> QED BY <1>1, <2>1, <2>2, <2>3, <2>4 DEF TakersExclude
<1>8. OneWriter'
  <2>1. \A b \in Holders' : b \in Holders
    BY <1>3, <1>4 DEF Holders
  <2>2. \A b \in Holders : w.owner = b /\ b # None
    BY ActorsAssumption DEF SlotInv, OneWriter, Holders, Actors
  <2> QED BY <1>1, <2>1, <2>2 DEF OneWriter, Coherent
<1> QED BY <1>5, <1>6, <1>7, <1>8

\* The end of a call keeps the pairing of slots and jobs.
LEMMA FinishUse ==
    ASSUME SlotInv, NEW a \in Actors, Finish(a), pc[a] # "lent",
           \A c \in Coros \ {a} : pc[c] = "wsRelease" => slot'[c] = slot[c]
    PROVE  /\ SlotUse' /\ pc' \in [Actors -> PCs] /\ lk' \in [Actors -> Locks]
           /\ job' \in [Threads -> Coros \cup {None}]
           /\ \A b \in Actors : \/ pc'[b] = pc[b] /\ lk'[b] = lk[b]
                                \/ pc'[b] = "idle" /\ lk'[b] = 0
           /\ 0 \in Locks /\ 0 <= w.lock
<1>1. pc \in [Actors -> PCs] /\ lk \in [Actors -> Locks] /\ w.lock \in Locks
      /\ job \in [Threads -> Coros \cup {None}]
  BY DEF SlotInv, TypeOK, WriterStates
<1>2. /\ pc' \in [Actors -> PCs] /\ lk' \in [Actors -> Locks]
      /\ job' \in [Threads -> Coros \cup {None}]
      /\ pc' = [pc EXCEPT ![a] = "idle"] /\ lk' = [lk EXCEPT ![a] = 0]
      /\ 0 \in Locks /\ 0 <= w.lock
  BY <1>1, BoundAssumption DEF Finish, Goto
<1>3. \A c \in Coros : pc'[c] = "wsRelease" => slot'[c].state = "held"
  BY <1>1, <1>2 DEF SlotInv, SlotUse, Actors
<1>4. \A t \in Threads : job'[t] # None => pc'[job'[t]] = "lent"
  BY <1>1, <1>2 DEF SlotInv, SlotUse, Actors, Finish
<1> QED BY <1>1, <1>2, <1>3, <1>4 DEF SlotUse

\* The current record is typed, coherent, and kept locked for a taker in flight.
LEMMA Facts ==
    ASSUME SlotInv
    PROVE  /\ w \in WriterStates /\ Coherent(w) /\ w.lock \in Locks
           /\ pc \in [Actors -> PCs] /\ lk \in [Actors -> Locks]
           /\ slot \in [Coros -> [lock : Locks, state : SlotStates]]
           /\ NoSlot \in [lock : Locks, state : SlotStates]
           /\ job \in [Threads -> Coros \cup {None}]
           /\ quit \in [Coros -> {"no", "timeout", "cancel"}]
           /\ closedLoops \subseteq Loops
           /\ \A b \in Actors : InFlight(b) /\ lk[b] = w.lock =>
                w.lock \in w.locked /\ w.pending = None
BY BoundAssumption DEF SlotInv, TypeOK, TakersExclude, WriterStates, NoSlot

\* A nested acquire is refused and leaves the slot to its holder.
LEMMA AcquireNestedStep ==
    ASSUME SlotInv, NEW t \in Threads, AcquireNested(t)
    PROVE  SlotInv'
<1>1. t \in Actors /\ pc[t] # "lent" /\ Finish(t) /\ w' = w /\ slot' = slot
      /\ quit' = quit /\ closedLoops' = closedLoops
  BY DEF AcquireNested, Actors
<1>2. SameSlot(w, w')
  BY <1>1 DEF SameSlot
<1> QED BY <1>1, <1>2, FinishUse, QueueStep, Facts DEF SlotInv, TypeOK, Claiming

\* The updates of single fields that the actions make.
LEMMA CountType ==
    ASSUME NEW r \in WriterStates, NEW s, s = [r EXCEPT !.syncWaiting = @ + 1]
    PROVE  /\ s \in WriterStates /\ SameSlot(r, s) /\ s.locked = r.locked
           /\ s.pending = r.pending /\ s.wstate = r.wstate
<1> DEFINE n == r.syncWaiting + 1
<1>1. n \in Int
  BY DEF WriterStates
<1>2. s = [r EXCEPT !.syncWaiting = n]
  OBVIOUS
<1> HIDE DEF n
<1>3. s \in WriterStates
  BY <1>1, <1>2 DEF WriterStates
<1> QED BY <1>2, <1>3 DEF WriterStates, SameSlot

\* Taking a native lock changes nothing else of the record.
LEMMA LockType ==
    ASSUME NEW r \in WriterStates, NEW l \in Locks, NEW s, s = [r EXCEPT !.locked = @ \cup {l}]
    PROVE  /\ s \in WriterStates /\ s.lock = r.lock /\ s.owner = r.owner
           /\ s.locked = r.locked \cup {l}
           /\ s.pending = r.pending /\ s.wstate = r.wstate
BY DEF WriterStates

\* A caller counts itself, after taking back a dead grant.
LEMMA CountWaitingStep ==
    ASSUME SlotInv, NEW a \in Actors, CountWaiting(a)
    PROVE  SlotInv'
<1> DEFINE r == ReclaimDeadPending(w)
<1>1. /\ r \in WriterStates /\ Coherent(r) /\ SameSlot(w, r)
      /\ w.pending = None => r = w
  BY Facts, ReclaimCoherent
<1>2. /\ w' = [r EXCEPT !.syncWaiting = @ + 1]
      /\ lk' = [lk EXCEPT ![a] = w.lock] /\ pc' = [pc EXCEPT ![a] = "blocked"]
      /\ pc[a] = "count" /\ UNCHANGED <<slot, quit, closedLoops, job>>
  BY DEF CountWaiting, Goto
<1> HIDE DEF r
<1>3. /\ w' \in WriterStates /\ Coherent(w') /\ SameSlot(w, w')
      /\ w'.locked = r.locked /\ w'.pending = r.pending
  <2>1. /\ w' \in WriterStates /\ SameSlot(r, w') /\ w'.locked = r.locked
        /\ w'.pending = r.pending /\ w'.wstate = r.wstate
    BY <1>1, <1>2, CountType
  <2> QED BY <1>1, <2>1 DEF Coherent, SameSlot
<1>4. \A b \in Actors : InFlight(b) /\ lk[b] = w.lock =>
            w.lock \in w'.locked /\ w'.pending = None
  BY <1>1, <1>3, Facts
<1>5. /\ \A b \in Actors : \/ pc'[b] = pc[b] /\ lk'[b] = lk[b]
                           \/ pc'[b] \notin Claiming /\ lk'[b] \in Locks /\ lk'[b] <= w.lock
      /\ pc' \in [Actors -> PCs] /\ lk' \in [Actors -> Locks]
  BY <1>2, Facts DEF Claiming
<1>6. Coherent(w)' /\ Bounded' /\ TakersExclude' /\ OneWriter'
  BY <1>2, <1>3, <1>4, <1>5, QueueStep
<1>7. SlotUse'
  BY <1>2, Facts DEF SlotInv, SlotUse, Actors
<1> QED BY <1>2, <1>3, <1>5, <1>6, <1>7, Facts DEF SlotInv, TypeOK

\* A blocked caller leaves: uncounted, a dead grant taken back, the queue rescued.
LEMMA RescueStep ==
    ASSUME SlotInv,
           \/ w' = RescueQueue(ReclaimDeadPending(Uncount(w)))
           \/ w' = RescueQueue(Uncount(w))
    PROVE  /\ w' \in WriterStates /\ Coherent(w') /\ SameSlot(w, w')
           /\ \A b \in Actors : InFlight(b) /\ lk[b] = w.lock =>
                w.lock \in w'.locked /\ w'.pending = None
<1> DEFINE u == Uncount(w)
           r == ReclaimDeadPending(u)
<1>1. /\ u \in WriterStates /\ Coherent(u) /\ SameSlot(w, u)
      /\ u.pending = w.pending /\ u.locked = w.locked
  BY Facts, UncountCoherent
<1>2. /\ r \in WriterStates /\ Coherent(r) /\ SameSlot(u, r)
      /\ u.pending = None => r = u
  BY <1>1, ReclaimCoherent
<1>3. PICK s : /\ w' = RescueQueue(s)
               /\ s \in WriterStates /\ Coherent(s) /\ SameSlot(u, s)
               /\ u.pending = None => s = u
  <2>1. CASE w' = RescueQueue(r)
    BY <1>2, <2>1
  <2>2. CASE w' = RescueQueue(u)
    BY <1>1, <2>2 DEF SameSlot
  <2> QED BY <2>1, <2>2
<1> HIDE DEF u, r
<1>4. /\ w' \in WriterStates /\ Coherent(w') /\ SameSlot(s, w')
      /\ s.lock \in s.locked => w' = s
  BY <1>3, RescueCoherent
<1>5. SameSlot(w, w')
  BY <1>1, <1>3, <1>4 DEF SameSlot
<1>6. \A b \in Actors : InFlight(b) /\ lk[b] = w.lock =>
            w.lock \in w'.locked /\ w'.pending = None
  BY <1>1, <1>3, <1>4, Facts DEF SameSlot
<1> QED BY <1>4, <1>5, <1>6

\* A blocked caller that times out leaves every hold as it was.
LEMMA WaitGivesUpStep ==
    ASSUME SlotInv, NEW a \in Actors, WaitGivesUp(a)
    PROVE  SlotInv'
<1>1. /\ pc[a] # "lent" /\ Finish(a) /\ slot' = slot
      /\ quit' = quit /\ closedLoops' = closedLoops
      /\ w' = RescueQueue(ReclaimDeadPending(Uncount(w)))
  BY DEF WaitGivesUp
<1>2. /\ w' \in WriterStates /\ Coherent(w') /\ SameSlot(w, w')
      /\ \A b \in Actors : InFlight(b) /\ lk[b] = w.lock =>
            w.lock \in w'.locked /\ w'.pending = None
  BY <1>1, RescueStep
<1> QED BY <1>1, <1>2, FinishUse, QueueStep, Facts DEF SlotInv, TypeOK, Claiming

\* Taking a free native lock makes one more taker in flight.
LEMMA TakeStep ==
    ASSUME SlotInv, NEW a \in Actors, TryTake(a) \/ BlockedTake(a)
    PROVE  SlotInv'
<1>1. /\ w' = [w EXCEPT !.locked = @ \cup {lk[a]}]
      /\ lk[a] \notin w.locked
      /\ pc' = [pc EXCEPT ![a] = pc'[a]] /\ pc'[a] \in {"record", "recordWaited"}
      /\ ~InFlight(a) /\ pc[a] \notin {"wsRelease", "lent"}
      /\ UNCHANGED <<lk, slot, quit, closedLoops, job>>
  BY Facts DEF TryTake, BlockedTake, Goto, InFlight
<1>2. /\ w' \in WriterStates /\ w'.lock = w.lock /\ w'.owner = w.owner
      /\ w'.pending = w.pending /\ w'.wstate = w.wstate
      /\ w'.locked = w.locked \cup {lk[a]} /\ lk[a] \in Locks
  <2>1. lk[a] \in Locks /\ w \in WriterStates
    BY Facts
  <2> QED BY <1>1, <2>1, LockType
<1>3. TypeOK'
  BY <1>1, <1>2, Facts DEF TypeOK
<1>4. Coherent(w)' /\ Bounded'
  BY <1>1, <1>2 DEF SlotInv, Coherent, Bounded
<1>5. lk[a] = w.lock => w.owner = None /\ w.pending = None
  BY <1>1 DEF SlotInv, Coherent
<1>6. \A b \in Actors : InFlight(b)' => b = a \/ InFlight(b)
  BY <1>1, Facts DEF InFlight
<1>7. TakersExclude'
  <2>1. \A b \in Actors : InFlight(b) => lk[b] # lk[a]
    BY <1>1 DEF SlotInv, TakersExclude
  <2>2. \A b \in Actors : InFlight(b)' => lk[b] \in w'.locked
    BY <1>2, <1>6 DEF SlotInv, TakersExclude
  <2>3. \A b, d \in Actors : InFlight(b)' /\ InFlight(d)' /\ lk[b] = lk[d] => b = d
    BY <1>6, <2>1 DEF SlotInv, TakersExclude
  <2>4. \A b \in Actors : InFlight(b)' /\ lk[b] = w.lock => w.owner = None /\ w.pending = None
    BY <1>5, <1>6 DEF SlotInv, TakersExclude
  <2>5. \A b \in Actors : pc'[b] = "giveback" => lk[b] # w.lock
    BY <1>1, Facts DEF SlotInv, TakersExclude
  <2> QED BY <1>1, <1>2, <2>2, <2>3, <2>4, <2>5 DEF TakersExclude
<1>8. OneWriter'
  <2>1. \A b \in Holders' : b \in Holders
    BY <1>1, <1>2, Facts DEF Holders, Writes, Keeps
  <2> QED BY <1>2, <2>1 DEF SlotInv, OneWriter
<1>9. SlotUse'
  BY <1>1, Facts DEF SlotInv, SlotUse, Actors
<1> QED BY <1>3, <1>4, <1>7, <1>8, <1>9 DEF SlotInv

\* Recording a hold: the taker in flight becomes the owner.
LEMMA RecordHoldStep ==
    ASSUME SlotInv, NEW a \in Actors, RecordHold(a)
    PROVE  SlotInv'
<1>1. /\ InFlight(a) /\ lk[a] = w.lock /\ a # None
      /\ pc' = [pc EXCEPT ![a] = "holding"]
      /\ UNCHANGED <<lk, slot, quit, closedLoops, job>>
      /\ pc[a] \notin {"wsRelease", "lent"}
  BY ActorsAssumption DEF RecordHold, Goto, InFlight, Actors
<1>2. /\ w' \in WriterStates /\ w'.lock = w.lock /\ w'.owner = a
      /\ w'.pending = w.pending /\ w'.wstate = w.wstate /\ w'.locked = w.locked
  <2> DEFINE n == IF pc[a] = "recordWaited" THEN w.syncWaiting - 1 ELSE w.syncWaiting
             m == {a}
  <2>1. w \in WriterStates /\ n \in Int /\ m \in SUBSET Actors
    BY Facts DEF WriterStates
  <2>2. w' = [w EXCEPT !.owner = a, !.marked = m, !.syncWaiting = n]
    BY DEF RecordHold
  <2> HIDE DEF n, m
  <2> QED BY <2>1, <2>2 DEF WriterStates
<1>3. w.owner = None /\ w.pending = None /\ w.lock \in w.locked
  BY <1>1 DEF SlotInv, TakersExclude
<1>4. TypeOK'
  BY <1>1, <1>2, Facts DEF TypeOK
<1>5. Coherent(w)' /\ Bounded'
  BY <1>1, <1>2, <1>3 DEF SlotInv, Coherent, Bounded
<1>6. \A b \in Actors : InFlight(b)' => InFlight(b) /\ b # a
  BY <1>1, Facts DEF InFlight
<1>7. TakersExclude'
  BY <1>1, <1>2, <1>6, Facts DEF SlotInv, TakersExclude, InFlight
<1>8. OneWriter'
  <2>1. \A b \in Holders' : b = a \/ b \in Holders
    BY <1>1, <1>2, Facts DEF Holders, Writes, Keeps
  <2>2. Holders = {}
    BY <1>3, ActorsAssumption DEF SlotInv, OneWriter, Holders, Actors
  <2> QED BY <1>2, <1>3, <2>1, <2>2 DEF OneWriter
<1>9. SlotUse'
  BY <1>1, Facts DEF SlotInv, SlotUse, Actors
<1> QED BY <1>4, <1>5, <1>7, <1>8, <1>9 DEF SlotInv

\* A taker that finds its lock replaced stays in flight for the old one.
LEMMA RecordStaleStep ==
    ASSUME SlotInv, NEW a \in Actors, RecordStale(a)
    PROVE  SlotInv'
<1>1. /\ InFlight(a) /\ lk[a] # w.lock
      /\ pc' = [pc EXCEPT ![a] = "giveback"]
      /\ UNCHANGED <<lk, slot, quit, closedLoops, job>>
      /\ w' = RescueQueue(Uncount(w)) \/ w' = w
      /\ pc[a] # "lent"
  BY DEF RecordStale, Goto, InFlight
<1>2. /\ w' \in WriterStates /\ Coherent(w') /\ SameSlot(w, w')
      /\ \A b \in Actors : InFlight(b) /\ lk[b] = w.lock =>
            w.lock \in w'.locked /\ w'.pending = None
  <2>1. CASE w' = w
    BY <2>1, Facts DEF SameSlot
  <2>2. CASE w' = RescueQueue(Uncount(w))
    BY <2>2, RescueStep
  <2> QED BY <1>1, <2>1, <2>2
<1>3. \A b \in Actors : \/ pc'[b] = pc[b] /\ lk'[b] = lk[b]
                        \/ /\ InFlight(b) /\ pc'[b] = "giveback"
                           /\ lk'[b] = lk[b] /\ lk[b] # w.lock
  BY <1>1, Facts
<1>4. Coherent(w)' /\ Bounded' /\ TakersExclude' /\ OneWriter'
  BY <1>1, <1>2, <1>3, QueueStep
<1>5. SlotUse' /\ pc' \in [Actors -> PCs]
  BY <1>1, Facts DEF SlotInv, SlotUse, Actors
<1> QED BY <1>1, <1>2, <1>4, <1>5, Facts DEF SlotInv, TypeOK

\* Giving back a lock that is no longer the slot.
LEMMA GiveBackStaleStep ==
    ASSUME SlotInv, NEW a \in Actors, GiveBackStale(a)
    PROVE  SlotInv'
<1>1. /\ InFlight(a) /\ pc[a] = "giveback" /\ lk[a] # w.lock
      /\ Finish(a) /\ pc[a] # "lent"
      /\ slot' = slot /\ quit' = quit /\ closedLoops' = closedLoops
  BY DEF GiveBackStale, InFlight, SlotInv, TakersExclude
<1>2. /\ w' \in WriterStates /\ w'.lock = w.lock /\ w'.owner = w.owner
      /\ w'.pending = w.pending /\ w'.wstate = w.wstate
      /\ w'.locked = w.locked \ {lk[a]}
  BY Facts DEF GiveBackStale, WriterStates
<1>3. /\ SlotUse' /\ pc' \in [Actors -> PCs] /\ lk' \in [Actors -> Locks]
      /\ job' \in [Threads -> Coros \cup {None}]
      /\ \A b \in Actors : \/ pc'[b] = pc[b] /\ lk'[b] = lk[b]
                           \/ pc'[b] = "idle" /\ lk'[b] = 0
      /\ 0 <= w.lock
  BY <1>1, FinishUse
<1>4. pc'[a] = "idle" /\ w.lock \in w.locked => w.lock \in w'.locked
  BY <1>1, <1>2, Facts DEF Finish, Goto
<1>5. TypeOK'
  BY <1>1, <1>2, <1>3, Facts DEF TypeOK
<1>6. Coherent(w)' /\ Bounded'
  <2>1. Coherent(w)'
    BY <1>1, <1>2 DEF SlotInv, Coherent
  <2>2. Bounded'
    BY <1>1, <1>2, <1>3 DEF SlotInv, Bounded
  <2> QED BY <2>1, <2>2
<1>7. \A b \in Actors : InFlight(b)' => InFlight(b) /\ lk'[b] = lk[b] /\ b # a
  BY <1>1, <1>3, Facts DEF InFlight, Finish, Goto
<1>8. TakersExclude'
  <2>1. \A b \in Actors : InFlight(b)' => lk'[b] \in w'.locked
    BY <1>1, <1>2, <1>7 DEF SlotInv, TakersExclude
  <2>2. \A b, d \in Actors : InFlight(b)' /\ InFlight(d)' /\ lk'[b] = lk'[d] => b = d
    BY <1>7 DEF SlotInv, TakersExclude
  <2>3. \A b \in Actors : InFlight(b)' /\ lk'[b] = w.lock => w.owner = None /\ w.pending = None
    BY <1>7 DEF SlotInv, TakersExclude
  <2>4. \A b \in Actors : pc'[b] = "giveback" => lk'[b] # w.lock
    BY <1>3 DEF SlotInv, TakersExclude
  <2> QED BY <1>2, <2>1, <2>2, <2>3, <2>4 DEF TakersExclude
<1>9. OneWriter'
  <2>1. \A b \in Holders' : b \in Holders
    BY <1>1, <1>2, <1>3 DEF Holders, Writes, Keeps
  <2> QED BY <1>1, <1>2, <2>1 DEF SlotInv, OneWriter
<1> QED BY <1>3, <1>5, <1>6, <1>8, <1>9 DEF SlotInv

\* Ending a hold by identity: the holder leaves, and nobody else held the slot.
LEMMA EndHold ==
    ASSUME SlotInv, NEW a \in Actors, NEW l \in Locks,
           w' = ReleaseHold(w, l), l = w.lock => a \in Holders,
           pc'[a] \notin Claiming,
           \A b \in Actors : \/ pc'[b] = pc[b] /\ lk'[b] = lk[b]
                             \/ pc'[b] \notin Claiming /\ lk'[b] \in Locks /\ lk'[b] <= w.lock,
           \A c \in Coros : slot'[c] = slot[c] \/ slot'[c] = NoSlot,
           a \in Coros => slot'[a] = NoSlot
    PROVE  w' \in WriterStates /\ Coherent(w)' /\ Bounded' /\ TakersExclude' /\ OneWriter'
<1>1. CASE l # w.lock
  <2>1. w' = w
    BY <1>1, Facts, ReleaseHoldCoherent
  <2>2. SameSlot(w, w')
    BY <2>1 DEF SameSlot
  <2> QED BY <2>1, <2>2, Facts, QueueStep
<1>2. CASE l = w.lock
  <2>1. /\ w.owner = a /\ a # None /\ w.pending = None
        /\ \A b \in Holders : b = a
        /\ \A b \in Actors : InFlight(b) => lk[b] # w.lock
    BY <1>2, ActorsAssumption DEF SlotInv, OneWriter, Coherent, TakersExclude, Actors
  <2>2. /\ w' \in WriterStates /\ Coherent(w') /\ w'.lock = w.lock /\ w'.owner = None
        /\ \A k \in Locks : k # w.lock => (k \in w'.locked <=> k \in w.locked)
    BY <1>2, <2>1, Facts, ReleaseHoldCoherent
  <2>3. \A b \in Actors : InFlight(b)' => InFlight(b) /\ lk'[b] = lk[b]
    BY DEF InFlight, Claiming
  <2>4. Bounded'
    <3>1. \A k \in w'.locked : k \in Locks /\ (k = w.lock \/ k \in w.locked)
      BY <2>2 DEF WriterStates
    <3>2. \A k \in w'.locked : k <= w.lock
      BY <3>1, Facts DEF SlotInv, Bounded
    <3>3. \A c \in Coros : slot'[c].lock <= w.lock
      BY Facts DEF SlotInv, Bounded, NoSlot
    <3> QED BY <2>2, <3>2, <3>3 DEF SlotInv, Bounded
  <2>5. TakersExclude'
    <3>1. \A b \in Actors : InFlight(b)' => lk'[b] \in w'.locked /\ lk'[b] # w.lock
      BY <2>1, <2>2, <2>3, Facts DEF SlotInv, TakersExclude
    <3>2. \A b, d \in Actors : InFlight(b)' /\ InFlight(d)' /\ lk'[b] = lk'[d] => b = d
      BY <2>3 DEF SlotInv, TakersExclude
    <3>3. \A b \in Actors : pc'[b] = "giveback" => lk'[b] # w.lock
      BY <3>1 DEF InFlight
    <3> QED BY <2>2, <3>1, <3>2, <3>3 DEF TakersExclude
  <2>6. OneWriter'
    <3>1. \A b \in Actors : Writes(b)' => Writes(b) /\ b # a
      BY <2>2 DEF Writes, Claiming
    <3>2. \A c \in Coros : Keeps(c)' => Keeps(c) /\ c # a
      BY <2>2 DEF Keeps, NoSlot
    <3>3. Holders' = {}
      BY <2>1, <3>1, <3>2 DEF Holders
    <3> QED BY <3>3 DEF OneWriter
  <2>7. Coherent(w)'
    BY <2>2 DEF Coherent
  <2> QED BY <2>2, <2>4, <2>5, <2>6, <2>7
<1> QED BY <1>1, <1>2

\* The end of a transaction gives the slot back by identity.
LEMMA ReleaseStep ==
    ASSUME SlotInv, NEW a \in Actors, Release(a)
    PROVE  SlotInv'
<1>1. /\ pc[a] = "holding" /\ w' = ReleaseHold(w, lk[a]) /\ Finish(a)
      /\ slot' = [c \in Coros |-> IF c = a THEN NoSlot ELSE slot[c]]
      /\ quit' = quit /\ closedLoops' = closedLoops /\ lk[a] \in Locks
  BY Facts DEF Release
<1>2. lk[a] = w.lock => a \in Holders
  BY <1>1 DEF Holders, Writes
<1>3. /\ SlotUse' /\ pc' \in [Actors -> PCs] /\ lk' \in [Actors -> Locks]
      /\ job' \in [Threads -> Coros \cup {None}]
      /\ \A b \in Actors : \/ pc'[b] = pc[b] /\ lk'[b] = lk[b]
                           \/ pc'[b] = "idle" /\ lk'[b] = 0
      /\ 0 \in Locks /\ 0 <= w.lock /\ pc'[a] = "idle"
  BY <1>1, FinishUse, Facts DEF Finish, Goto
<1>4. slot' \in [Coros -> [lock : Locks, state : SlotStates]]
  BY <1>1, Facts
<1>5. w' \in WriterStates /\ Coherent(w)' /\ Bounded' /\ TakersExclude' /\ OneWriter'
  BY <1>1, <1>2, <1>3, EndHold DEF Claiming
<1> QED BY <1>1, <1>3, <1>4, <1>5, Facts DEF SlotInv, TypeOK

\* A slot given back unused was still the coroutine's own.
LEMMA ReleaseSlotStep ==
    ASSUME SlotInv, NEW c \in Coros, ReleaseSlot(c)
    PROVE  SlotInv'
<1>1. /\ pc[c] = "wsRelease" /\ w' = ReleaseHold(w, slot[c].lock) /\ Finish(c)
      /\ slot' = [slot EXCEPT ![c] = NoSlot]
      /\ quit' = quit /\ closedLoops' = closedLoops /\ slot[c].lock \in Locks
      /\ c \in Actors
  BY Facts DEF ReleaseSlot, Actors
<1>2. slot[c].lock = w.lock => c \in Holders
  BY <1>1, Facts DEF Holders, Keeps, SlotInv, SlotUse, Actors
<1>3. /\ SlotUse' /\ pc' \in [Actors -> PCs] /\ lk' \in [Actors -> Locks]
      /\ job' \in [Threads -> Coros \cup {None}]
      /\ \A b \in Actors : \/ pc'[b] = pc[b] /\ lk'[b] = lk[b]
                           \/ pc'[b] = "idle" /\ lk'[b] = 0
      /\ 0 \in Locks /\ 0 <= w.lock /\ pc'[c] = "idle"
  BY <1>1, FinishUse, Facts DEF Finish, Goto
<1>4. slot' \in [Coros -> [lock : Locks, state : SlotStates]]
  BY <1>1, Facts
<1>5. w' \in WriterStates /\ Coherent(w)' /\ Bounded' /\ TakersExclude' /\ OneWriter'
  BY <1>1, <1>2, <1>3, <1>4, Facts, EndHold DEF Claiming
<1> QED BY <1>1, <1>3, <1>4, <1>5, Facts DEF SlotInv, TypeOK

\* Steps of a coroutine that change neither the record nor the slots.
LEMMA WaitingSteps ==
    ASSUME SlotInv, NEW c \in Coros,
           GiveUp(c, "timeout") \/ GiveUp(c, "cancel") \/ WakeUp(c) \/ LateGrant(c)
    PROVE  SlotInv'
<1>1. /\ w' = w /\ UNCHANGED <<lk, slot, closedLoops, job>>
      /\ pc' = pc \/ (pc' = [pc EXCEPT ![c] = pc'[c]] /\ pc'[c] \in {"grant", "passon"})
      /\ pc[c] = "await" /\ c \in Actors
      /\ quit' \in [Coros -> {"no", "timeout", "cancel"}]
  BY Facts DEF GiveUp, WakeUp, LateGrant, Goto, Actors
<1>2. SameSlot(w, w')
  BY <1>1 DEF SameSlot
<1>3. /\ \A b \in Actors : \/ pc'[b] = pc[b] /\ lk'[b] = lk[b]
                           \/ pc'[b] \notin Claiming /\ lk'[b] \in Locks /\ lk'[b] <= w.lock
      /\ pc' \in [Actors -> PCs]
  BY <1>1, Facts DEF Claiming, SlotInv, Bounded
<1>4. Coherent(w)' /\ Bounded' /\ TakersExclude' /\ OneWriter'
  BY <1>1, <1>2, <1>3, Facts, QueueStep
<1>5. SlotUse'
  BY <1>1, Facts DEF SlotInv, SlotUse, Actors
<1> QED BY <1>1, <1>3, <1>4, <1>5, Facts DEF SlotInv, TypeOK

\* The end of a reservation forgets its waiter and nothing else.
LEMMA DropCoherent ==
    ASSUME NEW r \in WriterStates, Coherent(r), NEW c \in Coros
    PROVE  /\ Drop(r, c) \in WriterStates /\ Coherent(Drop(r, c)) /\ SameSlot(r, Drop(r, c))
           /\ Drop(r, c).pending = r.pending /\ Drop(r, c).locked = r.locked
           /\ Drop(r, c).waiters = r.waiters
           /\ Drop(r, c).wstate[c] = "none"
<1> DEFINE ws == [r.wstate EXCEPT ![c] = "none"]
           wl == [r.wlock EXCEPT ![c] = 0]
<1>1. ws \in [Coros -> WaiterStates] /\ wl \in [Coros -> Locks] /\ ws[c] = "none"
  BY BoundAssumption DEF WriterStates, WaiterStates
<1>2. \A d \in Coros : ws[d] = "granted" => r.wstate[d] = "granted"
  BY DEF WriterStates
<1>3. Drop(r, c) = [r EXCEPT !.wstate = ws, !.wlock = wl]
  BY DEF Drop, WriterStates
<1> HIDE DEF ws, wl
<1>4. Drop(r, c) \in WriterStates
  BY <1>1, <1>3 DEF WriterStates
<1>5. /\ Drop(r, c).lock = r.lock /\ Drop(r, c).locked = r.locked
      /\ Drop(r, c).owner = r.owner /\ Drop(r, c).marked = r.marked
      /\ Drop(r, c).pending = r.pending /\ Drop(r, c).waiters = r.waiters
      /\ Drop(r, c).wstate = ws
  BY <1>3 DEF WriterStates
<1> QED BY <1>1, <1>2, <1>4, <1>5 DEF Coherent, SameSlot

\* A waiter that leaves the queue does not move the slot.
LEMMA LeaveCoherent ==
    ASSUME NEW r \in WriterStates, Coherent(r), NEW i \in 1 .. Len(r.waiters)
    PROVE  /\ Leave(r, i) \in WriterStates /\ Coherent(Leave(r, i)) /\ SameSlot(r, Leave(r, i))
           /\ Leave(r, i).pending = r.pending /\ Leave(r, i).locked = r.locked
<1> DEFINE q == r.waiters
           n == Len(q)
           rest == SubSeq(q, 1, i - 1) \o SubSeq(q, i + 1, n)
<1>1. q \in Seq(Coros) /\ n \in Nat /\ \A j \in 1 .. n : q[j] \in Coros
  BY ElementOfSeq, LenProperties DEF WriterStates
<1>2. SubSeq(q, 1, i - 1) \in Seq(Coros) /\ SubSeq(q, i + 1, n) \in Seq(Coros)
  <2>1. i - 1 \in Int /\ i + 1 \in Int /\ n \in Int /\ 1 \in Int
    BY <1>1
  <2>2. /\ \A j \in 1 .. i - 1 : q[j] \in Coros
        /\ \A j \in i + 1 .. n : q[j] \in Coros
    BY <1>1
  <2> HIDE DEF n, q
  <2>3. SubSeq(q, 1, i - 1) \in Seq(Coros)
    BY <2>1, <2>2, SubSeqProperties
  <2>4. SubSeq(q, i + 1, n) \in Seq(Coros)
    BY <2>1, <2>2, SubSeqProperties
  <2> QED BY <2>3, <2>4
<1>3. rest \in Seq(Coros)
  BY <1>2, ConcatProperties
<1>4. Leave(r, i) = [r EXCEPT !.waiters = rest]
  BY DEF Leave
<1> HIDE DEF rest
<1> QED BY <1>3, <1>4 DEF WriterStates, Coherent, SameSlot

\* A reservation that gave up before a grant leaves the slot alone.
LEMMA LeaveQueueStep ==
    ASSUME SlotInv, NEW c \in Coros, LeaveQueue(c)
    PROVE  SlotInv'
<1> DEFINE r == Drop(w, c)
<1>1. /\ pc[c] = "await" /\ Finish(c) /\ slot' = slot /\ closedLoops' = closedLoops
      /\ quit' = [quit EXCEPT ![c] = "no"] /\ c \in Actors
      /\ \/ w' = r
         \/ \E i \in 1 .. Len(w.waiters) : w' = Leave(r, i)
  BY DEF LeaveQueue, NoQuit, Actors
<1>2. /\ r \in WriterStates /\ Coherent(r) /\ SameSlot(w, r)
      /\ r.pending = w.pending /\ r.locked = w.locked /\ r.waiters = w.waiters
  BY Facts, DropCoherent
<1> HIDE DEF r
<1>3. /\ w' \in WriterStates /\ Coherent(w') /\ SameSlot(w, w')
      /\ w'.pending = w.pending /\ w'.locked = w.locked
  <2>1. CASE w' = r
    BY <1>2, <2>1
  <2>2. CASE \E i \in 1 .. Len(w.waiters) : w' = Leave(r, i)
    <3>1. PICK i \in 1 .. Len(r.waiters) : w' = Leave(r, i)
      BY <1>2, <2>2
    <3> QED BY <1>2, <3>1, LeaveCoherent DEF SameSlot
  <2> QED BY <1>1, <2>1, <2>2
<1>4. \A b \in Actors : InFlight(b) /\ lk[b] = w.lock =>
            w.lock \in w'.locked /\ w'.pending = None
  BY <1>3, Facts
<1>5. quit' \in [Coros -> {"no", "timeout", "cancel"}]
  BY <1>1, Facts
<1> QED BY <1>1, <1>3, <1>4, <1>5, FinishUse, QueueStep, Facts DEF SlotInv, TypeOK, Claiming

\* A cancelled reservation passes a grant on, unless close or a reclaim took it.
LEMMA PassOnStep ==
    ASSUME SlotInv, NEW c \in Coros, PassOn(c)
    PROVE  SlotInv'
<1> DEFINE r == IF w.wstate[c] # "granted" THEN w
                ELSE IF w.wlock[c] = w.lock THEN ReleaseLocked(Revoke(w, c))
                ELSE Revoke(w, c)
<1>1. /\ pc[c] = "passon" /\ Finish(c) /\ slot' = slot /\ closedLoops' = closedLoops
      /\ quit' = [quit EXCEPT ![c] = "no"] /\ c \in Actors
      /\ w' = Drop(r, c)
  BY DEF PassOn, NoQuit, Actors
<1>2. /\ r \in WriterStates /\ Coherent(r) /\ SameSlot(w, r)
      /\ w.wstate[c] # "granted" => r = w
  <2>1. CASE w.wstate[c] # "granted"
    BY <2>1, Facts DEF SameSlot
  <2>2. CASE w.wstate[c] = "granted"
    <3>1. Ownerless(Revoke(w, c)) /\ SameSlot(w, Revoke(w, c))
      BY <2>2, Facts, RevokeOwnerless
    <3>2. /\ ReleaseLocked(Revoke(w, c)) \in WriterStates
          /\ Coherent(ReleaseLocked(Revoke(w, c)))
          /\ SameSlot(Revoke(w, c), ReleaseLocked(Revoke(w, c)))
      BY <3>1, ReleaseLockedCoherent
    <3>3. Revoke(w, c) \in WriterStates /\ Coherent(Revoke(w, c))
      BY <3>1 DEF Ownerless, Coherent
    <3>4. SameSlot(w, ReleaseLocked(Revoke(w, c)))
      BY <3>1, <3>2 DEF SameSlot
    <3> QED BY <2>2, <3>1, <3>2, <3>3, <3>4
  <2> QED BY <2>1, <2>2
<1> HIDE DEF r
<1>3. /\ w' \in WriterStates /\ Coherent(w') /\ SameSlot(r, w')
      /\ w'.pending = r.pending /\ w'.locked = r.locked
  BY <1>1, <1>2, DropCoherent
<1>4. SameSlot(w, w')
  BY <1>2, <1>3 DEF SameSlot
<1>5. \A b \in Actors : InFlight(b) /\ lk[b] = w.lock =>
            w.lock \in w'.locked /\ w'.pending = None
  <2>1. w.wstate[c] = "granted" => w.pending = c /\ c # None
    BY <1>1, ActorsAssumption DEF SlotInv, Coherent, Actors
  <2> QED BY <1>2, <1>3, <2>1, Facts
<1>6. quit' \in [Coros -> {"no", "timeout", "cancel"}]
  BY <1>1, Facts
<1> QED BY <1>1, <1>3, <1>4, <1>5, <1>6, FinishUse, QueueStep, Facts DEF SlotInv, TypeOK, Claiming

\* A reservation woken by close holds nothing.
LEMMA GrantClosedStep ==
    ASSUME SlotInv, NEW c \in Coros, GrantClosed(c)
    PROVE  SlotInv'
<1>1. /\ pc[c] = "grant" /\ Finish(c) /\ slot' = slot /\ closedLoops' = closedLoops
      /\ quit' = [quit EXCEPT ![c] = "no"] /\ c \in Actors
      /\ w' = Drop(w, c)
  BY DEF GrantClosed, NoQuit, Actors
<1>2. /\ w' \in WriterStates /\ Coherent(w') /\ SameSlot(w, w')
      /\ w'.pending = w.pending /\ w'.locked = w.locked
  BY <1>1, Facts, DropCoherent
<1>3. \A b \in Actors : InFlight(b) /\ lk[b] = w.lock =>
            w.lock \in w'.locked /\ w'.pending = None
  BY <1>2, Facts
<1>4. quit' \in [Coros -> {"no", "timeout", "cancel"}]
  BY <1>1, Facts
<1> QED BY <1>1, <1>2, <1>3, <1>4, FinishUse, QueueStep, Facts DEF SlotInv, TypeOK, Claiming

\* A coroutine is given a slot that nobody holds and no taker is in flight for.
LEMMA NewHolder ==
    ASSUME SlotInv, NEW c \in Coros,
           w' \in WriterStates, Coherent(w'), w'.lock = w.lock, w'.owner = c,
           \A k \in Locks : k # w.lock => (k \in w'.locked <=> k \in w.locked),
           \A b \in Actors : InFlight(b) => lk[b] # w.lock,
           w.owner = None,
           GiveSlot(c), Goto(c, "reserved"), UNCHANGED <<lk, closedLoops, job>>,
           pc[c] \in {"idle", "grant"},
           quit' \in [Coros -> {"no", "timeout", "cancel"}]
    PROVE  SlotInv'
<1>1. /\ slot' = [slot EXCEPT ![c] = [lock |-> w.lock, state |-> "held"]]
      /\ pc' = [pc EXCEPT ![c] = "reserved"] /\ c \in Actors /\ c # None
      /\ lk' = lk /\ job' = job
  BY ActorsAssumption DEF GiveSlot, Goto, Actors
<1>2. TypeOK'
  BY <1>1, Facts DEF TypeOK
<1>3. Bounded'
  <2>1. \A k \in w'.locked : k \in Locks /\ (k = w.lock \/ k \in w.locked)
    BY DEF WriterStates
  <2>2. \A k \in w'.locked : k <= w.lock
    BY <2>1, Facts DEF SlotInv, Bounded
  <2>3. \A d \in Coros : slot'[d].lock <= w.lock
    BY <1>1, Facts DEF SlotInv, Bounded
  <2> QED BY <1>1, <2>2, <2>3 DEF SlotInv, Bounded
<1>4. \A b \in Actors : InFlight(b)' => InFlight(b)
  BY <1>1, Facts DEF InFlight
<1>5. TakersExclude'
  <2>1. \A b \in Actors : InFlight(b)' => lk[b] \in w'.locked /\ lk[b] # w.lock
    BY <1>4, Facts DEF SlotInv, TakersExclude
  <2>2. \A b, d \in Actors : InFlight(b)' /\ InFlight(d)' /\ lk[b] = lk[d] => b = d
    BY <1>4 DEF SlotInv, TakersExclude
  <2>3. \A b \in Actors : pc'[b] = "giveback" => lk[b] # w.lock
    BY <2>1 DEF InFlight
  <2> QED BY <1>1, <2>1, <2>2, <2>3 DEF TakersExclude
<1>6. OneWriter'
  <2>1. Holders = {}
    BY ActorsAssumption DEF SlotInv, OneWriter, Holders, Actors
  <2>2. \A b \in Actors : Writes(b)' => Writes(b)
    BY <1>1, Facts DEF Writes
  <2>3. \A d \in Coros : Keeps(d)' => d = c \/ Keeps(d)
    BY <1>1, Facts DEF Keeps
  <2>4. \A b \in Holders' : b = c
    BY <2>1, <2>2, <2>3 DEF Holders
  <2>5. w.lock \in w'.locked
    BY <1>1 DEF Coherent
  <2> QED BY <2>4, <2>5 DEF OneWriter
<1>7. SlotUse'
  BY <1>1, Facts DEF SlotInv, SlotUse, Actors
<1>8. Coherent(w)'
  BY DEF Coherent
<1> QED BY <1>2, <1>3, <1>5, <1>6, <1>7, <1>8 DEF SlotInv

\* The granted coroutine becomes the holder of the slot handed to it.
LEMMA GrantedStep ==
    ASSUME SlotInv, NEW c \in Coros, Granted(c)
    PROVE  SlotInv'
<1> DEFINE r == Drop(w, c)
<1>1. w.wstate[c] = "granted" /\ pc[c] = "grant" /\ c \in Actors /\ c # None
  BY ActorsAssumption DEF Granted, StillGranted, Actors
<1>2. w.pending = c /\ w.owner = None /\ w.lock \in w.locked
  BY <1>1 DEF SlotInv, Coherent
<1>3. /\ r \in WriterStates /\ Coherent(r) /\ SameSlot(w, r) /\ r.wstate[c] = "none"
      /\ r.pending = w.pending /\ r.locked = w.locked
  BY Facts, DropCoherent
<1>4. \A d \in Coros : r.wstate[d] # "granted"
  BY <1>2, <1>3 DEF Coherent
<1>5. w' = [r EXCEPT !.pending = None, !.owner = c, !.marked = {c}]
  BY <1>2, <1>3 DEF Granted, WriterStates
<1> HIDE DEF r
<1>6. /\ w' \in WriterStates /\ w'.lock = w.lock /\ w'.owner = c /\ w'.pending = None
      /\ w'.locked = w.locked /\ w'.wstate = r.wstate
  <2> DEFINE m == {c}
  <2>1. m \in SUBSET Actors
    BY <1>1
  <2>2. w' = [r EXCEPT !.pending = None, !.owner = c, !.marked = m]
    BY <1>5
  <2> HIDE DEF m
  <2> QED BY <1>1, <1>3, <2>1, <2>2 DEF WriterStates, SameSlot
<1>7. Coherent(w')
  BY <1>2, <1>4, <1>6 DEF Coherent
<1>8. \A b \in Actors : InFlight(b) => lk[b] # w.lock
  BY <1>1, <1>2 DEF SlotInv, TakersExclude
<1>9. /\ GiveSlot(c) /\ Goto(c, "reserved") /\ UNCHANGED <<lk, closedLoops, job>>
      /\ quit' \in [Coros -> {"no", "timeout", "cancel"}]
  BY Facts DEF Granted, NoQuit
<1> QED BY <1>1, <1>2, <1>6, <1>7, <1>8, <1>9, NewHolder

\* A reservation of a free slot takes it.
LEMMA ReserveFreeStep ==
    ASSUME SlotInv, NEW c \in Coros, ReserveFree(c)
    PROVE  SlotInv'
<1> DEFINE r == ReclaimDeadPending(w)
<1>1. /\ r \in WriterStates /\ Coherent(r) /\ SameSlot(w, r)
      /\ w.pending = None => r = w
  BY Facts, ReclaimCoherent
<1>2. r.lock \notin r.locked /\ pc[c] = "idle" /\ c \in Actors /\ c # None
  BY ActorsAssumption DEF ReserveFree, FreeForReserve, MayReserve, Actors
<1>3. w' = [r EXCEPT !.locked = @ \cup {r.lock}, !.owner = c, !.marked = {c}]
  BY DEF ReserveFree
<1> HIDE DEF r
<1>4. r.owner = None /\ r.pending = None /\ w.owner = None
  BY <1>1, <1>2 DEF Coherent, SameSlot
<1>5. /\ w' \in WriterStates /\ w'.lock = r.lock /\ w'.owner = c /\ w'.pending = None
      /\ w'.locked = r.locked \cup {r.lock} /\ w'.wstate = r.wstate
  <2> DEFINE m == {c}
             k == r.locked \cup {r.lock}
  <2>1. m \in SUBSET Actors /\ k \in SUBSET Locks
    BY <1>1, <1>2 DEF WriterStates
  <2>2. w' = [r EXCEPT !.locked = k, !.owner = c, !.marked = m]
    BY <1>3
  <2>3. r \in WriterStates /\ c \in Actors
    BY <1>1, <1>2
  <2> HIDE DEF m, k
  <2>4. /\ w' \in WriterStates /\ w'.lock = r.lock /\ w'.owner = c
        /\ w'.pending = r.pending /\ w'.locked = k /\ w'.wstate = r.wstate
    BY <2>1, <2>2, <2>3 DEF WriterStates
  <2> QED BY <1>4, <2>4 DEF k
<1>6. Coherent(w')
  BY <1>1, <1>4, <1>5, <1>2 DEF Coherent
<1>7. \A b \in Actors : InFlight(b) => lk[b] # w.lock
  BY <1>1, <1>2, Facts DEF SameSlot
<1>8. /\ w'.lock = w.lock
      /\ \A k \in Locks : k # w.lock => (k \in w'.locked <=> k \in w.locked)
  BY <1>1, <1>5 DEF SameSlot
<1>9. /\ GiveSlot(c) /\ Goto(c, "reserved") /\ UNCHANGED <<lk, closedLoops, job>>
      /\ quit' \in [Coros -> {"no", "timeout", "cancel"}]
  BY Facts DEF ReserveFree
<1> QED BY <1>2, <1>4, <1>5, <1>6, <1>7, <1>8, <1>9, NewHolder

\* A reservation of a busy slot only joins the queue.
LEMMA ReserveQueueStep ==
    ASSUME SlotInv, NEW c \in Coros, ReserveQueue(c)
    PROVE  SlotInv'
<1> DEFINE r == ReclaimDeadPending(w)
<1>1. /\ r \in WriterStates /\ Coherent(r) /\ SameSlot(w, r)
      /\ w.pending = None => r = w
  BY Facts, ReclaimCoherent
<1>2. /\ w' = [r EXCEPT !.waiters = Append(@, c), !.wstate[c] = "waiting"]
      /\ pc' = [pc EXCEPT ![c] = "await"] /\ pc[c] = "idle" /\ c \in Actors
      /\ UNCHANGED <<lk, slot, quit, closedLoops, job>>
  BY DEF ReserveQueue, MayReserve, Goto, Actors
<1> HIDE DEF r
<1>3. /\ w' \in WriterStates /\ Coherent(w') /\ SameSlot(r, w')
      /\ w'.locked = r.locked /\ w'.pending = r.pending
  <2> DEFINE ws == [r.wstate EXCEPT ![c] = "waiting"]
             q  == Append(r.waiters, c)
  <2>1. ws \in [Coros -> WaiterStates] /\ q \in Seq(Coros)
    BY <1>1 DEF WriterStates, WaiterStates
  <2>2. \A d \in Coros : ws[d] = "granted" => r.wstate[d] = "granted"
    BY <1>1 DEF WriterStates
  <2>3. w' = [r EXCEPT !.waiters = q, !.wstate = ws]
    BY <1>1, <1>2 DEF WriterStates
  <2> HIDE DEF ws, q
  <2>4. w' \in WriterStates
    BY <1>1, <2>1, <2>3 DEF WriterStates
  <2>5. /\ w'.lock = r.lock /\ w'.locked = r.locked /\ w'.owner = r.owner
        /\ w'.marked = r.marked /\ w'.pending = r.pending /\ w'.wstate = ws
    BY <1>1, <2>3 DEF WriterStates
  <2> QED BY <1>1, <2>2, <2>4, <2>5 DEF Coherent, SameSlot
<1>4. SameSlot(w, w')
  BY <1>1, <1>3 DEF SameSlot
<1>5. \A b \in Actors : InFlight(b) /\ lk[b] = w.lock =>
            w.lock \in w'.locked /\ w'.pending = None
  BY <1>1, <1>3, Facts
<1>6. /\ \A b \in Actors : \/ pc'[b] = pc[b] /\ lk'[b] = lk[b]
                           \/ pc'[b] \notin Claiming /\ lk'[b] \in Locks /\ lk'[b] <= w.lock
      /\ pc' \in [Actors -> PCs]
  BY <1>2, Facts DEF Claiming, SlotInv, Bounded
<1>7. Coherent(w)' /\ Bounded' /\ TakersExclude' /\ OneWriter'
  BY <1>2, <1>3, <1>4, <1>5, <1>6, QueueStep
<1>8. SlotUse'
  BY <1>2, Facts DEF SlotInv, SlotUse, Actors
<1> QED BY <1>2, <1>3, <1>6, <1>7, <1>8, Facts DEF SlotInv, TypeOK

\* to_thread: the job gets the mark of the hold, and the task waits for it.
LEMMA HandOverStep ==
    ASSUME SlotInv, NEW c \in Coros, NEW t \in Threads, HandOver(c, t)
    PROVE  SlotInv'
<1>1. /\ pc[c] = "reserved" /\ pc[t] = "idle" /\ c \in Actors /\ t \in Actors /\ c # t
      /\ c # None /\ t # None /\ t \notin Coros
      /\ pc' = [pc EXCEPT ![c] = "lent", ![t] = "job"]
      /\ job' = [job EXCEPT ![t] = c]
      /\ UNCHANGED <<lk, slot, quit, closedLoops>>
  BY ActorsAssumption DEF HandOver, Actors
<1>2. /\ w' \in WriterStates /\ Coherent(w') /\ SameSlot(w, w')
      /\ w'.locked = w.locked /\ w'.pending = w.pending
  <2> DEFINE m == IF c \in w.marked THEN w.marked \cup {t} ELSE w.marked
  <2>1. w' = [w EXCEPT !.marked = m]
    BY Facts DEF HandOver, WriterStates
  <2>2. m \in SUBSET Actors
    BY <1>1, Facts DEF WriterStates
  <2> HIDE DEF m
  <2>3. w' \in WriterStates
    BY <2>1, <2>2, Facts DEF WriterStates
  <2>4. /\ w'.lock = w.lock /\ w'.locked = w.locked /\ w'.owner = w.owner
        /\ w'.pending = w.pending /\ w'.wstate = w.wstate
    BY <2>1, Facts DEF WriterStates
  <2> QED BY <2>3, <2>4, Facts DEF Coherent, SameSlot
<1>3. \A b \in Actors : \/ pc'[b] = pc[b] /\ lk'[b] = lk[b]
                        \/ pc'[b] \notin Claiming /\ lk'[b] \in Locks /\ lk'[b] <= w.lock
  BY <1>1, Facts DEF Claiming, SlotInv, Bounded
<1>4. Coherent(w)' /\ Bounded' /\ TakersExclude' /\ OneWriter'
  BY <1>1, <1>2, <1>3, Facts, QueueStep
<1>5. SlotUse'
  BY <1>1, Facts DEF SlotInv, SlotUse, Actors
<1>6. TypeOK'
  BY <1>1, <1>2, Facts DEF TypeOK
<1> QED BY <1>4, <1>5, <1>6 DEF SlotInv

\* Who begins on a coroutine's slot is that coroutine, or the job it waits for.
LEMMA BeginnersTask ==
    ASSUME SlotInv, NEW a \in Actors, NEW c \in Coros, BeginsOn(a, c)
    PROVE  /\ pc[a] \in {"reserved", "job"} /\ pc[c] \in {"reserved", "lent"}
           /\ a # c => pc[c] = "lent"
           /\ c \in Actors /\ a # None /\ c # None
BY ActorsAssumption DEF BeginsOn, SlotInv, SlotUse, Actors

\* The slot passes to the transaction begun on it, and no other holder appears.
LEMMA TakeSlotStep ==
    ASSUME SlotInv, NEW a \in Actors, NEW c \in Coros, TakeSlot(a, c)
    PROVE  SlotInv'
<1>1. /\ pc[a] \in {"reserved", "job"} /\ pc[c] \in {"reserved", "lent"}
      /\ a # c => pc[c] = "lent"
      /\ c \in Actors /\ a # None /\ c # None
  BY BeginnersTask DEF TakeSlot
<1>2. /\ slot' = [slot EXCEPT ![c].state = "taken"]
      /\ lk' = [lk EXCEPT ![a] = w.lock] /\ pc' = [pc EXCEPT ![a] = "begin"]
      /\ UNCHANGED <<quit, closedLoops, job>>
  BY DEF TakeSlot, Goto
<1>3. c \in Holders
  BY Facts DEF TakeSlot, Holders, Keeps
<1>4. /\ w.owner = c /\ w.lock \in w.locked /\ w.pending = None
      /\ \A b \in Holders : b = c
      /\ \A b \in Actors : InFlight(b) => lk[b] # w.lock
  BY <1>1, <1>3 DEF SlotInv, OneWriter, Coherent, TakersExclude
<1>5. /\ w' \in WriterStates /\ w'.lock = w.lock /\ w'.owner = a
      /\ w'.locked = w.locked /\ w'.pending = w.pending /\ w'.wstate = w.wstate
  <2> DEFINE m == IF a \in Coros THEN w.marked \cup {a} ELSE w.marked
  <2>1. w' = [w EXCEPT !.owner = a, !.marked = m]
    BY Facts DEF TakeSlot, WriterStates
  <2>2. m \in SUBSET Actors
    BY Facts DEF WriterStates
  <2> HIDE DEF m
  <2>3. w' \in WriterStates
    BY <2>1, <2>2, Facts DEF WriterStates
  <2> QED BY <2>1, <2>3, Facts DEF WriterStates
<1>6. TypeOK'
  BY <1>2, <1>5, Facts DEF TypeOK
<1>7. Coherent(w)' /\ Bounded'
  <2>1. Coherent(w)'
    BY <1>4, <1>5, Facts DEF Coherent
  <2>2. Bounded'
    BY <1>2, <1>5, Facts DEF SlotInv, Bounded
  <2> QED BY <2>1, <2>2
<1>8. \A b \in Actors : InFlight(b)' => InFlight(b) /\ lk'[b] = lk[b]
  BY <1>2, Facts DEF InFlight
<1>9. TakersExclude'
  <2>1. \A b \in Actors : InFlight(b)' => lk'[b] \in w'.locked /\ lk'[b] # w.lock
    BY <1>4, <1>5, <1>8 DEF SlotInv, TakersExclude
  <2>2. \A b, d \in Actors : InFlight(b)' /\ InFlight(d)' /\ lk'[b] = lk'[d] => b = d
    BY <1>8 DEF SlotInv, TakersExclude
  <2>3. \A b \in Actors : pc'[b] = "giveback" => lk'[b] # w.lock
    BY <2>1 DEF InFlight
  <2> QED BY <1>5, <2>1, <2>2, <2>3 DEF TakersExclude
<1>10. OneWriter'
  <2>1. \A b \in Actors : Writes(b)' => b = a \/ (Writes(b) /\ b # c)
    BY <1>1, <1>2, <1>5, Facts DEF Writes
  <2>2. \A d \in Coros : Keeps(d)' => Keeps(d) /\ d # c
    BY <1>2, <1>5, Facts DEF Keeps
  <2>3. \A b \in Holders' : b = a
    BY <1>4, <2>1, <2>2 DEF Holders
  <2> QED BY <1>4, <1>5, <2>3 DEF OneWriter
<1>11. SlotUse'
  BY <1>1, <1>2, Facts DEF SlotInv, SlotUse, Actors
<1> QED BY <1>6, <1>7, <1>9, <1>10, <1>11 DEF SlotInv

\* A begin refused leaves the lock alone; a held slot from before a close is dropped.
LEMMA TakeSlotRefusedStep ==
    ASSUME SlotInv, NEW a \in Actors, NEW c \in Coros, TakeSlotRefused(a, c)
    PROVE  SlotInv'
<1>1. /\ pc[a] \in {"reserved", "job"} /\ pc[c] \in {"reserved", "lent"}
      /\ w' = w /\ quit' = quit /\ closedLoops' = closedLoops /\ Finish(a)
      /\ slot' = [slot EXCEPT ![c] = IF @.state = "held" THEN NoSlot ELSE @]
  BY BeginnersTask DEF TakeSlotRefused
<1>2. SameSlot(w, w')
  BY <1>1 DEF SameSlot
<1>3. /\ \A d \in Coros : slot'[d] = slot[d] \/ slot'[d] = NoSlot
      /\ \A d \in Coros : pc[d] = "wsRelease" => slot'[d] = slot[d]
      /\ slot' \in [Coros -> [lock : Locks, state : SlotStates]]
  BY <1>1, Facts
<1> QED BY <1>1, <1>2, <1>3, FinishUse, QueueStep, Facts DEF SlotInv, TypeOK, Claiming

\* A begin that failed on the current slot gives it back to the task it was given to.
LEMMA BeginUndone ==
    ASSUME SlotInv, NEW a \in Actors, NEW c \in Coros, BeginFails(a, c), lk[a] = w.lock
    PROVE  SlotInv'
<1>1. /\ pc[a] = "begin" /\ c \in Actors /\ a # None /\ c # None
      /\ a = c \/ (a \in Threads /\ job[a] = c /\ pc[c] = "lent" /\ a \notin Coros)
      /\ slot' = [slot EXCEPT ![c].state = IF @ = "taken" THEN "held" ELSE @]
      /\ w' = [w EXCEPT !.owner = c] /\ quit' = quit /\ closedLoops' = closedLoops
      /\ \/ a = c /\ Goto(a, "reserved") /\ UNCHANGED <<lk, job>>
         \/ Finish(a)
  BY ActorsAssumption DEF BeginFails, SlotInv, SlotUse, Actors
<1>2. a \in Holders /\ w.owner = a
  BY <1>1 DEF Holders, Writes, SlotInv, OneWriter
<1>3. /\ w.lock \in w.locked /\ w.pending = None
      /\ \A b \in Holders : b = a
      /\ \A b \in Actors : InFlight(b) => lk[b] # w.lock
  BY <1>1, <1>2 DEF SlotInv, OneWriter, Coherent, TakersExclude
<1>4. /\ w' \in WriterStates /\ w'.lock = w.lock /\ w'.owner = c
      /\ w'.locked = w.locked /\ w'.pending = w.pending /\ w'.wstate = w.wstate
  BY <1>1, Facts DEF WriterStates
<1>5. slot' \in [Coros -> [lock : Locks, state : SlotStates]]
  BY <1>1, Facts
<1>6. /\ pc' \in [Actors -> PCs] /\ lk' \in [Actors -> Locks]
      /\ job' \in [Threads -> Coros \cup {None}]
      /\ \A b \in Actors : \/ pc'[b] = pc[b] /\ lk'[b] = lk[b] /\ b # a
                           \/ pc'[b] \notin Claiming /\ lk'[b] \in Locks /\ lk'[b] <= w.lock
      /\ SlotUse'
  <2>1. CASE a = c /\ Goto(a, "reserved") /\ UNCHANGED <<lk, job>>
    <3>1. SlotUse'
      BY <1>1, <2>1, Facts DEF SlotInv, SlotUse, Goto, Actors
    <3> QED BY <1>1, <2>1, <3>1, Facts DEF Goto, Claiming, SlotInv, Bounded
  <2>2. CASE Finish(a)
    <3>1. \A d \in Coros \ {a} : pc[d] = "wsRelease" => slot'[d] = slot[d]
      BY <1>1, Facts
    <3>2. /\ SlotUse' /\ pc' \in [Actors -> PCs] /\ lk' \in [Actors -> Locks]
          /\ job' \in [Threads -> Coros \cup {None}]
          /\ \A b \in Actors : \/ pc'[b] = pc[b] /\ lk'[b] = lk[b]
                               \/ pc'[b] = "idle" /\ lk'[b] = 0
          /\ 0 \in Locks /\ 0 <= w.lock
      BY <1>1, <2>2, <3>1, FinishUse
    <3>3. pc'[a] = "idle" /\ pc[a] # "idle"
      BY <1>1, <2>2, Facts DEF Finish, Goto
    <3> QED BY <3>2, <3>3 DEF Claiming
  <2> QED BY <1>1, <2>1, <2>2
<1>7. Coherent(w)' /\ Bounded'
  <2>1. Coherent(w)'
    BY <1>3, <1>4, Facts DEF Coherent
  <2>2. \A b \in Actors : lk'[b] <= w.lock
    BY <1>6 DEF SlotInv, Bounded
  <2>3. \A d \in Coros : slot'[d].lock <= w.lock
    BY <1>1, Facts DEF SlotInv, Bounded
  <2> QED BY <1>4, <2>1, <2>2, <2>3 DEF SlotInv, Bounded
<1>8. \A b \in Actors : InFlight(b)' => InFlight(b) /\ lk'[b] = lk[b]
  BY <1>6 DEF InFlight, Claiming
<1>9. TakersExclude'
  <2>1. \A b \in Actors : InFlight(b)' => lk'[b] \in w'.locked /\ lk'[b] # w.lock
    BY <1>3, <1>4, <1>8 DEF SlotInv, TakersExclude
  <2>2. \A b, d \in Actors : InFlight(b)' /\ InFlight(d)' /\ lk'[b] = lk'[d] => b = d
    BY <1>8 DEF SlotInv, TakersExclude
  <2>3. \A b \in Actors : pc'[b] = "giveback" => lk'[b] # w.lock
    BY <2>1 DEF InFlight
  <2> QED BY <1>4, <2>1, <2>2, <2>3 DEF TakersExclude
<1>10. OneWriter'
  <2>1. \A b \in Actors : ~Writes(b)'
    <3>1. \A b \in Actors : Writes(b)' => Writes(b) /\ b # a
      BY <1>4, <1>6 DEF Writes, Claiming
    <3> QED BY <1>3, <3>1 DEF Holders
  <2>2. \A d \in Coros : Keeps(d)' => d = c \/ Keeps(d)
    BY <1>1, <1>4, Facts DEF Keeps
  <2>3. \A b \in Holders' : b = c
    BY <1>1, <1>3, <2>1, <2>2 DEF Holders
  <2> QED BY <1>3, <1>4, <2>3 DEF OneWriter
<1> QED BY <1>1, <1>4, <1>5, <1>6, <1>7, <1>9, <1>10, Facts DEF SlotInv, TypeOK

\* A begin that failed after the lock was replaced only forgets the slot.
LEMMA BeginFailsStep ==
    ASSUME SlotInv, NEW a \in Actors, NEW c \in Coros, BeginFails(a, c)
    PROVE  SlotInv'
<1>1. CASE lk[a] = w.lock
  BY <1>1, BeginUndone
<1>2. CASE lk[a] # w.lock
  <2>1. /\ pc[a] = "begin" /\ w' = w /\ quit' = quit /\ closedLoops' = closedLoops
        /\ Finish(a) /\ slot' = [slot EXCEPT ![c] = NoSlot]
        /\ a = c \/ pc[c] = "lent"
    BY <1>2, ActorsAssumption DEF BeginFails, SlotInv, SlotUse, Actors
  <2>2. SameSlot(w, w')
    BY <2>1 DEF SameSlot
  <2>3. /\ \A d \in Coros : slot'[d] = slot[d] \/ slot'[d] = NoSlot
        /\ \A d \in Coros : pc[d] = "wsRelease" => slot'[d] = slot[d]
        /\ slot' \in [Coros -> [lock : Locks, state : SlotStates]]
    BY <2>1, Facts
  <2> QED BY <2>1, <2>2, <2>3, FinishUse, QueueStep, Facts DEF SlotInv, TypeOK, Claiming
<1> QED BY <1>1, <1>2

\* The task resumes from its job, or looks at its slot to release it.
LEMMA TaskStep ==
    ASSUME SlotInv, Config, NEW c \in Coros, JobEnded(c) \/ ReleaseSlotCheck(c)
    PROVE  SlotInv'
<1>1. /\ w' = w /\ UNCHANGED <<lk, quit, closedLoops, job>> /\ c \in Actors
      /\ pc' = [pc EXCEPT ![c] = pc'[c]] /\ pc'[c] \in {"reserved", "idle", "wsRelease"}
      /\ slot' = [slot EXCEPT ![c] = slot'[c]] /\ slot'[c] \in {slot[c], NoSlot}
      /\ pc'[c] = "wsRelease" => slot'[c].state = "held"
  BY Facts DEF JobEnded, ReleaseSlotCheck, Goto, Actors, Config
<1>2. \A t \in Threads : job[t] # c
  BY ActorsAssumption DEF JobEnded, ReleaseSlotCheck, Config, SlotInv, SlotUse, Actors
<1>3. SameSlot(w, w')
  BY <1>1 DEF SameSlot
<1>4. \A b \in Actors : \/ pc'[b] = pc[b] /\ lk'[b] = lk[b]
                        \/ pc'[b] \notin Claiming /\ lk'[b] \in Locks /\ lk'[b] <= w.lock
  BY <1>1, Facts DEF Claiming, SlotInv, Bounded
<1>5. Coherent(w)' /\ Bounded' /\ TakersExclude' /\ OneWriter'
  BY <1>1, <1>3, <1>4, Facts, QueueStep
<1>6. SlotUse'
  BY <1>1, <1>2, Facts DEF SlotInv, SlotUse, Actors
<1>7. TypeOK'
  BY <1>1, Facts DEF TypeOK
<1> QED BY <1>5, <1>6, <1>7 DEF SlotInv

\* The replaced lock: whoever used the old one holds nothing that is current.
LEMMA NewLock ==
    ASSUME SlotInv, w' \in WriterStates, Coherent(w'), w'.lock = w.lock + 1,
           w'.locked \subseteq w.locked,
           \A b \in Actors : InFlight(b) => lk[b] \in w'.locked,
           \A b \in Actors : \/ pc'[b] = pc[b] /\ lk'[b] = lk[b]
                             \/ pc'[b] \notin Claiming /\ lk'[b] \in Locks /\ lk'[b] <= w.lock,
           \A c \in Coros : slot'[c] = slot[c] \/ slot'[c] = NoSlot
    PROVE  Coherent(w)' /\ Bounded' /\ TakersExclude' /\ OneWriter'
<1>1. /\ w.lock \in Int /\ w.locked \subseteq Locks
      /\ \A b \in Actors : lk'[b] <= w.lock /\ lk'[b] \in Int
      /\ \A c \in Coros : slot'[c].lock <= w.lock /\ slot'[c].lock \in Int
      /\ \A k \in w'.locked : k <= w.lock /\ k \in Int
  <2>1. w.lock \in Int /\ w.locked \subseteq Locks /\ 0 <= w.lock
    BY Facts, BoundAssumption DEF WriterStates
  <2>2. \A b \in Actors : lk'[b] <= w.lock /\ lk'[b] \in Int
    BY Facts, BoundAssumption DEF SlotInv, Bounded
  <2>3. \A c \in Coros : slot[c].lock <= w.lock /\ slot[c].lock \in Int
    BY Facts, BoundAssumption DEF SlotInv, Bounded
  <2>4. \A c \in Coros : slot'[c].lock <= w.lock /\ slot'[c].lock \in Int
    BY <2>1, <2>3 DEF NoSlot
  <2>5. \A k \in w'.locked : k <= w.lock /\ k \in Int
    BY <2>1, BoundAssumption DEF SlotInv, Bounded
  <2> QED BY <2>1, <2>2, <2>4, <2>5
<1>2. Coherent(w)'
  BY DEF Coherent
<1>3. Bounded'
  BY <1>1 DEF Bounded
<1>4. \A b \in Actors : InFlight(b)' => InFlight(b) /\ lk'[b] = lk[b]
  BY DEF InFlight, Claiming
<1>5. TakersExclude'
  <2>1. \A b \in Actors : InFlight(b)' => lk'[b] \in w'.locked /\ lk'[b] # w'.lock
    BY <1>1, <1>4
  <2>2. \A b, d \in Actors : InFlight(b)' /\ InFlight(d)' /\ lk'[b] = lk'[d] => b = d
    BY <1>4 DEF SlotInv, TakersExclude
  <2>3. \A b \in Actors : pc'[b] = "giveback" => lk'[b] # w'.lock
    BY <2>1 DEF InFlight
  <2> QED BY <2>1, <2>2, <2>3 DEF TakersExclude
<1>6. OneWriter'
  <2>1. \A b \in Actors : ~Writes(b)'
    BY <1>1 DEF Writes
  <2>2. \A c \in Coros : ~Keeps(c)'
    BY <1>1 DEF Keeps
  <2> QED BY <2>1, <2>2 DEF OneWriter, Holders
<1> QED BY <1>2, <1>3, <1>5, <1>6

\* close: a fresh lock, and the old one freed unless a taker is still in flight on it.
LEMMA CloseStep ==
    ASSUME SlotInv, Close
    PROVE  SlotInv'
<1> DEFINE k == IF w.owner # None \/ w.pending # None THEN w.locked \ {w.lock} ELSE w.locked
           ws == CloseWaiters(w)
           n == w.lock + 1
           e == <<>>
           m == {}
<1>1. /\ w' = [w EXCEPT !.lock = n, !.locked = k, !.owner = None, !.marked = m,
                        !.pending = None, !.waiters = e, !.wstate = ws, !.bargeNext = FALSE]
      /\ w.lock < MaxReplace /\ UNCHANGED <<pc, lk, slot, quit, closedLoops, job>>
  BY Facts DEF Close, WriterStates
<1>2. /\ n \in Locks /\ k \in SUBSET Locks /\ k \subseteq w.locked /\ e \in Seq(Coros)
      /\ m \in SUBSET Actors
  BY <1>1, Facts, BoundAssumption, EmptySeq DEF WriterStates
<1>3. /\ ws \in [Coros -> WaiterStates]
      /\ \A c \in Coros : ws[c] # "granted"
  BY Facts DEF CloseWaiters, WriterStates, WaiterStates, Coherent
<1>4. \A b \in Actors : InFlight(b) => lk[b] \in k
  BY DEF SlotInv, TakersExclude
<1> HIDE DEF k, ws, n, e, m
<1>5. w' \in WriterStates
  BY <1>1, <1>2, <1>3, Facts DEF WriterStates
<1>6. /\ w'.lock = n /\ w'.locked = k /\ w'.owner = None /\ w'.pending = None
      /\ w'.wstate = ws
  BY <1>1, Facts DEF WriterStates
<1>7. Coherent(w')
  BY <1>3, <1>6 DEF Coherent
<1>8. w'.lock = w.lock + 1
  BY <1>6 DEF n
<1>9. Coherent(w)' /\ Bounded' /\ TakersExclude' /\ OneWriter'
  BY <1>1, <1>2, <1>4, <1>5, <1>6, <1>7, <1>8, NewLock
<1>10. SlotUse'
  BY <1>1 DEF SlotInv, SlotUse
<1> QED BY <1>1, <1>5, <1>9, <1>10, Facts DEF SlotInv, TypeOK

\* fork: a fresh lock in a process where only the caller is left, with what it held.
LEMMA ForkStep ==
    ASSUME SlotInv, NEW a \in Actors, Fork(a)
    PROVE  SlotInv'
<1> DEFINE ws == [c \in Coros |-> "none"]
           wl == [c \in Coros |-> 0]
           n == w.lock + 1
           z == 0
           e == <<>>
           m == {}
<1>1. /\ w' = [w EXCEPT !.lock = n, !.owner = None, !.marked = m, !.pending = None,
                        !.waiters = e, !.wstate = ws, !.wlock = wl,
                        !.syncWaiting = z, !.bargeNext = FALSE]
      /\ w.lock < MaxReplace /\ pc[a] \in {"idle", "holding", "reserved"}
      /\ pc' = [b \in Actors |-> IF b = a THEN pc[a] ELSE "idle"]
      /\ slot' = [c \in Coros |-> IF c = a THEN slot[c] ELSE NoSlot]
      /\ job' = [t \in Threads |-> None]
      /\ lk' = [b \in Actors |-> IF b = a THEN lk[a] ELSE 0]
      /\ quit' = [c \in Coros |-> "no"] /\ closedLoops' = closedLoops
  BY Facts DEF Fork, WriterStates
<1>2. /\ n \in Locks /\ e \in Seq(Coros) /\ m \in SUBSET Actors
      /\ ws \in [Coros -> WaiterStates] /\ wl \in [Coros -> Locks]
      /\ \A c \in Coros : ws[c] # "granted"
      /\ 0 \in Locks /\ 0 <= w.lock /\ z \in Int
  BY <1>1, Facts, BoundAssumption, EmptySeq DEF WaiterStates
<1> HIDE DEF ws, wl, n, z, e, m
<1>3. w' \in WriterStates
  <2> DEFINE u == [w EXCEPT !.lock = n, !.owner = None, !.marked = m, !.pending = None]
  <2>1. u \in WriterStates
    BY <1>2, Facts DEF WriterStates
  <2>2. w' = [u EXCEPT !.waiters = e, !.wstate = ws, !.wlock = wl,
                       !.syncWaiting = z, !.bargeNext = FALSE]
    BY <1>1, Facts DEF WriterStates
  <2> HIDE DEF u
  <2> QED BY <1>2, <2>1, <2>2 DEF WriterStates
<1>4. /\ w'.lock = n /\ w'.locked = w.locked /\ w'.owner = None /\ w'.pending = None
      /\ w'.wstate = ws
  BY <1>1, Facts DEF WriterStates
<1>5. Coherent(w')
  BY <1>2, <1>4 DEF Coherent
<1>6. w'.lock = w.lock + 1
  BY <1>4 DEF n
<1>7. /\ \A b \in Actors : \/ pc'[b] = pc[b] /\ lk'[b] = lk[b]
                           \/ pc'[b] \notin Claiming /\ lk'[b] \in Locks /\ lk'[b] <= w.lock
      /\ \A b \in Actors : InFlight(b) => lk[b] \in w'.locked
      /\ \A c \in Coros : slot'[c] = slot[c] \/ slot'[c] = NoSlot
  BY <1>1, <1>2, <1>4 DEF Claiming, SlotInv, TakersExclude
<1>8. Coherent(w)' /\ Bounded' /\ TakersExclude' /\ OneWriter'
  BY <1>3, <1>4, <1>5, <1>6, <1>7, NewLock
<1>9. SlotUse'
  BY <1>1 DEF SlotUse, Actors
<1>10. TypeOK'
  BY <1>1, <1>2, <1>3, Facts DEF TypeOK
<1> QED BY <1>8, <1>9, <1>10 DEF SlotInv

-----------------------------------------------------------------------------

\* Every step of the slot keeps the inductive invariant.
LEMMA NextInv ==
    ASSUME SlotInv, Config, [Next]_vars
    PROVE  SlotInv'
<1>1. ASSUME NEW a \in Actors, ActorStep(a)
      PROVE  SlotInv'
  <2>1. CASE AcquireBegin(a) \/ TryBusy(a) \/ BeginSucceeds(a)
    BY <2>1, QuietSteps
  <2>2. CASE TryTake(a) \/ BlockedTake(a)
    BY <2>2, TakeStep
  <2>3. CASE CountWaiting(a) \/ WaitGivesUp(a)
    BY <2>3, CountWaitingStep, WaitGivesUpStep
  <2>4. CASE RecordHold(a) \/ RecordStale(a) \/ GiveBackStale(a)
    BY <2>4, RecordHoldStep, RecordStaleStep, GiveBackStaleStep
  <2>5. CASE Release(a) \/ Fork(a)
    BY <2>5, ReleaseStep, ForkStep
  <2> QED BY <1>1, <2>1, <2>2, <2>3, <2>4, <2>5 DEF ActorStep
<1>2. ASSUME NEW c \in Coros, CoroStep(c)
      PROVE  SlotInv'
  <2>1. CASE ReserveFree(c) \/ ReserveQueue(c)
    BY <2>1, ReserveFreeStep, ReserveQueueStep
  <2>2. CASE GiveUp(c, "timeout") \/ GiveUp(c, "cancel") \/ WakeUp(c) \/ LateGrant(c)
    BY <2>2, WaitingSteps
  <2>3. CASE LeaveQueue(c) \/ PassOn(c)
    BY <2>3, LeaveQueueStep, PassOnStep
  <2>4. CASE Granted(c) \/ GrantClosed(c)
    BY <2>4, GrantedStep, GrantClosedStep
  <2>5. CASE JobEnded(c) \/ ReleaseSlotCheck(c) \/ ReleaseSlot(c)
    BY <2>5, TaskStep, ReleaseSlotStep
  <2> QED BY <1>2, <2>1, <2>2, <2>3, <2>4, <2>5 DEF CoroStep
<1>3. ASSUME NEW a \in Actors, NEW c \in Coros, SlotStep(a, c)
      PROVE  SlotInv'
  BY <1>3, TakeSlotStep, TakeSlotRefusedStep, BeginFailsStep DEF SlotStep
<1>4. ASSUME NEW l \in Loops, CloseLoop(l)
      PROVE  SlotInv'
  <2>1. UNCHANGED <<w, pc, lk, slot, quit, job>> /\ closedLoops' \subseteq Loops
    BY <1>4, Facts DEF CloseLoop
  <2> QED BY <2>1 DEF SlotInv, TypeOK, Coherent, Bounded, TakersExclude, InFlight,
                      OneWriter, Holders, Writes, Keeps, SlotUse
<1>5. CASE UNCHANGED vars
  BY <1>5 DEF vars, SlotInv, TypeOK, Coherent, Bounded, TakersExclude, InFlight,
              OneWriter, Holders, Writes, Keeps, SlotUse
<1> QED BY <1>1, <1>2, <1>3, <1>4, <1>5, HandOverStep, AcquireNestedStep, CloseStep
        DEF Next, Config

\* The invariant holds of every behaviour without the two races named by Config.
THEOREM InvariantHolds == ASSUME Config PROVE Spec => []SlotInv
<1>1. Init => SlotInv
  BY InitInv
<1>2. SlotInv /\ [Next]_vars => SlotInv'
  BY NextInv
<1> QED BY <1>1, <1>2, PTL DEF Spec

\* Type correctness of the slot, its waiters and its callers: in particular no waiter
\* and no handoff is ever left in a state the code has no branch for.
THEOREM TypeCorrect == ASSUME Config PROVE Spec => []TypeOK
<1>1. SlotInv => TypeOK
  BY DEF SlotInv
<1> QED BY <1>1, InvariantHolds, PTL

\* One writer at a time, for any number of threads, coroutines, loops, closes and forks:
\* whoever uses the current slot is its recorded owner and the lock is locked.
THEOREM MutualExclusion == ASSUME Config PROVE Spec => []OneWriter
<1>1. SlotInv => OneWriter
  BY DEF SlotInv
<1> QED BY <1>1, InvariantHolds, PTL
=============================================================================
