------------------------ MODULE WriterSlotQueue_proofs ------------------------
(***************************************************************************)
(* No slot is lost and no queue is stranded, for any number of threads,    *)
(* coroutines, loops and replacements of the lock: ClaimInv of WriterSlot  *)
(* is inductive on top of SlotInv. And threads and coroutines take turns:  *)
(* at most one thread transaction begins between two moves of the queue.   *)
(***************************************************************************)
EXTENDS WriterSlot_proofs, WriterSlotTurns, FiniteSetTheorems

\* What every guarded helper leaves alone: the lock, the owner, the count, and the
\* state of whoever neither waits nor was granted.
MovedOn(r, s, c) ==
    \/ s.wstate[c] = r.wstate[c]
    \/ r.wstate[c] \in {"waiting", "granted"} /\ s.wstate[c] \in {"granted", "abandoned"}

Moved(r, s) ==
    /\ s.lock = r.lock /\ s.owner = r.owner /\ s.syncWaiting = r.syncWaiting
    /\ \A c \in Coros : MovedOn(r, s, c)

\* A slot given up: handed to a waiter, or free.
HandedOrFree(s) == s.lock \in s.locked => s.pending # None

\* Skipped waiters are out of the queue, and those behind them keep their places.
LEMMA SkipTidy ==
    ASSUME NEW r \in WriterStates, Tidy(r), r.pending = None,
           NEW k \in 1 .. Len(r.waiters) + 1
    PROVE  /\ Tidy(Skip(r, k)) /\ Moved(r, Skip(r, k))
           /\ k = Len(r.waiters) + 1 => Skip(r, k).waiters = <<>>
           /\ k <= Len(r.waiters) => /\ Skip(r, k).waiters # <<>>
                                     /\ Skip(r, k).waiters[1] = r.waiters[k]
<1> DEFINE q == r.waiters
           n == Len(q)
           rest == SubSeq(q, k, n)
           ws == [c \in Coros |->
                    IF \E i \in 1 .. k - 1 : q[i] = c THEN "abandoned" ELSE r.wstate[c]]
<1>1. /\ q \in Seq(Coros) /\ n \in Nat /\ \A i \in 1 .. n : q[i] \in Coros
      /\ k \in Nat /\ 1 <= k /\ k <= n + 1
  BY ElementOfSeq, LenProperties DEF WriterStates
<1>2. /\ rest \in Seq(Coros)
      /\ Len(rest) = IF k <= n THEN n - k + 1 ELSE 0
      /\ \A i \in 1 .. Len(rest) : rest[i] = q[k + i - 1]
  <2>1. k \in Int /\ n \in Int /\ \A i \in k .. n : q[i] \in Coros
    BY <1>1
  <2> HIDE DEF n, q
  <2> QED BY <2>1, SubSeqProperties
<1>3. Skip(r, k) = [r EXCEPT !.waiters = rest, !.wstate = ws]
  BY DEF Skip
<1>4. \A c \in Coros : \/ ws[c] = r.wstate[c] /\ \A i \in 1 .. k - 1 : q[i] # c
                       \/ ws[c] = "abandoned" /\ \E i \in 1 .. k - 1 : q[i] = c
  OBVIOUS
<1>5. /\ \A i \in 1 .. n : r.wstate[q[i]] = "waiting"
      /\ \A i, j \in 1 .. n : q[i] = q[j] => i = j
  BY DEF Tidy
<1> HIDE DEF rest, ws, q
<1>6. /\ Skip(r, k).waiters = rest /\ Skip(r, k).wstate = ws
      /\ Skip(r, k).pending = None /\ Skip(r, k).lock = r.lock
      /\ Skip(r, k).owner = r.owner /\ Skip(r, k).syncWaiting = r.syncWaiting
  BY <1>3 DEF WriterStates
<1>7. \A i \in 1 .. Len(rest) : /\ k + i - 1 \in 1 .. n /\ rest[i] = q[k + i - 1]
                                /\ k + i - 1 \notin 1 .. k - 1
  BY <1>1, <1>2
<1>8. \A i \in 1 .. Len(rest) : ws[rest[i]] = "waiting"
  <2> TAKE i \in 1 .. Len(rest)
  <2>1. rest[i] \in Coros /\ \A j \in 1 .. k - 1 : j \in 1 .. n /\ q[j] # rest[i]
    BY <1>1, <1>5, <1>7
  <2>2. ws[rest[i]] = r.wstate[rest[i]]
    BY <1>4, <2>1
  <2>3. PICK j \in 1 .. n : rest[i] = q[j]
    BY <1>7
  <2>4. r.wstate[rest[i]] = "waiting"
    BY <1>5, <2>3
  <2> QED BY <2>2, <2>4
<1>9. \A i, j \in 1 .. Len(rest) : rest[i] = rest[j] => i = j
  <2> SUFFICES ASSUME NEW i \in 1 .. Len(rest), NEW j \in 1 .. Len(rest), rest[i] = rest[j]
               PROVE  i = j
    OBVIOUS
  <2>1. /\ k + i - 1 \in 1 .. n /\ rest[i] = q[k + i - 1]
        /\ k + j - 1 \in 1 .. n /\ rest[j] = q[k + j - 1]
    BY <1>7
  <2>2. k + i - 1 = k + j - 1
    BY <1>5, <2>1
  <2> QED BY <1>1, <1>2, <2>2
<1>10. Tidy(Skip(r, k))
  BY <1>6, <1>8, <1>9 DEF Tidy
<1>11. \A c \in Coros :
          ws[c] = r.wstate[c] \/ (r.wstate[c] = "waiting" /\ ws[c] = "abandoned")
  BY <1>1, <1>4, <1>5
<1>12. k = n + 1 => rest = <<>>
  <2>1. k = n + 1 => Len(rest) = 0
    BY <1>1, <1>2
  <2> QED BY <1>2, <2>1, EmptySeq
<1>13. k <= n => rest # <<>> /\ rest[1] = q[k]
  <2>1. k <= n => 1 \in 1 .. Len(rest)
    BY <1>1, <1>2
  <2>2. k <= n => rest[1] = q[k + 1 - 1] /\ k + 1 - 1 = k
    BY <1>2, <2>1
  <2>3. rest = <<>> => Len(rest) = 0
    BY EmptySeq
  <2> QED BY <2>1, <2>2, <2>3
<1> QED BY <1>6, <1>10, <1>11, <1>12, <1>13 DEF Moved, MovedOn, q, n

\* Granting the head of the queue takes it out of the queue.
LEMMA GrantTidy ==
    ASSUME NEW r, Ownerless(r), Tidy(r), r.waiters # <<>>
    PROVE  LET s == Grant(r, r.waiters[1])
           IN  Tidy(s) /\ Moved(r, s) /\ s.pending # None /\ s.locked = r.locked
<1> DEFINE q == r.waiters
           c == q[1]
           n == Len(q)
           rest == Tail(q)
           ws == [r.wstate EXCEPT ![c] = "granted"]
           wl == [r.wlock EXCEPT ![c] = r.lock]
           s == Grant(r, c)
<1>1. /\ q \in Seq(Coros) /\ n \in Nat /\ n >= 1 /\ r \in WriterStates
      /\ \A i \in 1 .. n : q[i] \in Coros
  BY ElementOfSeq, LenProperties, EmptySeq DEF WriterStates, Ownerless
<1>2. /\ rest \in Seq(Coros) /\ Len(rest) = n - 1
      /\ \A i \in 1 .. Len(rest) : rest[i] = q[i + 1]
  BY <1>1, HeadTailProperties
<1>3. c \in Coros /\ c # None /\ 1 \in 1 .. n
  BY <1>1, ActorsAssumption DEF Actors
<1>4. s = [r EXCEPT !.waiters = rest, !.wstate = ws, !.wlock = wl,
                    !.pending = c, !.bargeNext = TRUE]
  BY <1>1 DEF Grant, WriterStates
<1>5. /\ ws[c] = "granted" /\ wl[c] = r.lock
      /\ \A d \in Coros : d # c => ws[d] = r.wstate[d]
  BY <1>1, <1>3 DEF WriterStates
<1>6. /\ \A i \in 1 .. n : r.wstate[q[i]] = "waiting"
      /\ \A i, j \in 1 .. n : q[i] = q[j] => i = j
  BY DEF Tidy
<1> HIDE DEF rest, ws, wl, q, c, s
<1>7. /\ s.waiters = rest /\ s.wstate = ws /\ s.wlock = wl /\ s.pending = c
      /\ s.lock = r.lock /\ s.owner = r.owner /\ s.syncWaiting = r.syncWaiting
      /\ s.locked = r.locked
  BY <1>1, <1>4 DEF WriterStates
<1>8. \A i \in 1 .. Len(rest) : i + 1 \in 1 .. n /\ rest[i] = q[i + 1] /\ i + 1 # 1
  BY <1>1, <1>2
<1>9. \A i \in 1 .. Len(rest) : ws[rest[i]] = "waiting"
  <2> TAKE i \in 1 .. Len(rest)
  <2>1. rest[i] \in Coros /\ rest[i] # c
    BY <1>1, <1>3, <1>6, <1>8 DEF c
  <2> QED BY <1>5, <1>6, <1>8, <2>1
<1>10. \A i, j \in 1 .. Len(rest) : rest[i] = rest[j] => i = j
  <2> SUFFICES ASSUME NEW i \in 1 .. Len(rest), NEW j \in 1 .. Len(rest), rest[i] = rest[j]
               PROVE  i = j
    OBVIOUS
  <2>1. /\ i + 1 \in 1 .. n /\ rest[i] = q[i + 1]
        /\ j + 1 \in 1 .. n /\ rest[j] = q[j + 1]
    BY <1>8
  <2>2. i + 1 = j + 1
    BY <1>6, <2>1
  <2> QED BY <1>1, <1>2, <2>2
<1>11. Tidy(s)
  BY <1>5, <1>7, <1>9, <1>10 DEF Tidy
<1>12. r.wstate[c] = "waiting"
  BY <1>3, <1>6 DEF c
<1>13. Moved(r, s)
  BY <1>5, <1>7, <1>12 DEF Moved, MovedOn
<1> QED BY <1>3, <1>7, <1>11, <1>13 DEF s, c, q

\* A handoff leaves nobody behind on a free lock.
LEMMA HandOffTidy ==
    ASSUME NEW r, Ownerless(r), Tidy(r)
    PROVE  LET s == HandOff(r)
           IN  /\ Tidy(s) /\ Moved(r, s) /\ HandedOrFree(s)
               /\ s.lock \notin s.locked => s.waiters = <<>>
<1> DEFINE n == Len(r.waiters)
<1>1. n \in Nat /\ r.waiters \in Seq(Coros) /\ r \in WriterStates /\ r.pending = None
  BY LenProperties DEF Ownerless, WriterStates
<1>2. ASSUME NEW k \in 1 .. n + 1
      PROVE  /\ Ownerless(Skip(r, k)) /\ Tidy(Skip(r, k)) /\ Moved(r, Skip(r, k))
             /\ k = n + 1 => Skip(r, k).waiters = <<>>
             /\ k <= n => /\ Skip(r, k).waiters # <<>>
                          /\ Skip(r, k).waiters[1] = r.waiters[k]
  <2>1. /\ Skip(r, k) \in WriterStates /\ SameSlot(r, Skip(r, k))
        /\ Skip(r, k).locked = r.locked /\ Skip(r, k).pending = r.pending
        /\ \A c \in Coros : Skip(r, k).wstate[c] = "granted" => r.wstate[c] = "granted"
    BY <1>1, <1>2, SkipType
  <2>2. Ownerless(Skip(r, k))
    BY <2>1 DEF Ownerless, SameSlot
  <2> QED BY <1>1, <1>2, <2>2, SkipTidy
<1>3. CASE LiveAt(r) = {}
  <2> DEFINE z == Skip(r, n + 1)
             u == Unlock(z)
  <2>1. n + 1 \in 1 .. n + 1
    BY <1>1
  <2>2. /\ HandOff(r) = u /\ z.waiters = <<>>
        /\ Ownerless(z) /\ Tidy(z) /\ Moved(r, z)
    BY <1>2, <1>3, <2>1 DEF HandOff
  <2>3. /\ u.lock = z.lock /\ u.locked = z.locked \ {z.lock} /\ u.owner = z.owner
        /\ u.pending = z.pending /\ u.waiters = z.waiters /\ u.wstate = z.wstate
        /\ u.wlock = z.wlock /\ u.syncWaiting = z.syncWaiting
    BY <2>2 DEF Unlock, Ownerless, WriterStates
  <2> HIDE DEF u, z
  <2> QED BY <2>2, <2>3 DEF Tidy, Moved, MovedOn, HandedOrFree
<1>4. CASE LiveAt(r) # {}
  <2> DEFINE k == CHOOSE i \in LiveAt(r) : \A j \in LiveAt(r) : i <= j
             z == Skip(r, k)
             u == Grant(z, z.waiters[1])
  <2>1. LiveAt(r) \subseteq 1 .. n
    BY DEF LiveAt
  <2>2. k \in LiveAt(r)
    <3>1. LiveAt(r) \subseteq Nat
      BY <2>1
    <3>2. \E i \in LiveAt(r) : \A j \in LiveAt(r) : i <= j
      BY <1>4, <3>1, SmallestNat
    <3> QED BY <3>2
  <2>3. HandOff(r) = Grant(z, r.waiters[k])
    BY <1>4 DEF HandOff
  <2> HIDE DEF k
  <2>4. k \in 1 .. n + 1 /\ k <= n
    BY <2>1, <2>2, <1>1
  <2>5. /\ Ownerless(z) /\ Tidy(z) /\ Moved(r, z)
        /\ z.waiters # <<>> /\ z.waiters[1] = r.waiters[k]
    BY <1>2, <2>4
  <2>6. HandOff(r) = u
    BY <2>3, <2>5
  <2> HIDE DEF z
  <2>7. Tidy(u) /\ Moved(z, u) /\ u.pending # None /\ u.locked = z.locked
    BY <2>5, GrantTidy
  <2> HIDE DEF u
  <2>8. Moved(r, u)
    BY <2>5, <2>7 DEF Moved, MovedOn
  <2>9. u.lock \in u.locked
    BY <2>5, <2>7 DEF Moved, MovedOn, Ownerless
  <2> QED BY <2>6, <2>7, <2>8, <2>9 DEF HandedOrFree
<1> QED BY <1>3, <1>4

\* What the ends of a hold make of the queue.
GivenUp(r, s) == Tidy(s) /\ Moved(r, s) /\ HandedOrFree(s) /\ Attended(s)

\* A release hands the slot off, or leaves the queue to a counted caller.
LEMMA ReleaseLockedTidy ==
    ASSUME NEW r, Ownerless(r), Tidy(r)
    PROVE  GivenUp(r, ReleaseLocked(r))
<1>1. CASE r.waiters # <<>> /\ ~(r.bargeNext /\ r.syncWaiting # 0)
  <2>1. ReleaseLocked(r) = HandOff(r)
    BY <1>1 DEF ReleaseLocked
  <2> QED BY <2>1, HandOffTidy DEF GivenUp, Attended
<1>2. CASE ~(r.waiters # <<>> /\ ~(r.bargeNext /\ r.syncWaiting # 0))
  <2> DEFINE u == Unlock(r)
  <2>1. ReleaseLocked(r) = u
    BY <1>2 DEF ReleaseLocked
  <2>2. /\ u.lock = r.lock /\ u.locked = r.locked \ {r.lock} /\ u.owner = r.owner
        /\ u.pending = r.pending /\ u.waiters = r.waiters /\ u.wstate = r.wstate
        /\ u.wlock = r.wlock /\ u.syncWaiting = r.syncWaiting
    BY DEF Unlock, Ownerless, WriterStates
  <2> HIDE DEF u
  <2> QED BY <1>2, <2>1, <2>2 DEF GivenUp, Tidy, Moved, MovedOn, HandedOrFree, Attended
<1> QED BY <1>1, <1>2

\* A grant taken back leaves the queue as it was.
LEMMA RevokeTidy ==
    ASSUME NEW r \in WriterStates, Coherent(r), Tidy(r), NEW c \in Coros,
           r.wstate[c] = "granted"
    PROVE  LET s == Revoke(r, c)
           IN  Tidy(s) /\ Moved(r, s) /\ s.wstate[c] = "abandoned"
<1> DEFINE ws == [r.wstate EXCEPT ![c] = "abandoned"]
           s == Revoke(r, c)
<1>1. r.pending = c
  BY DEF Coherent
<1>2. s = [r EXCEPT !.wstate = ws, !.pending = None]
  BY <1>1 DEF Revoke, WriterStates
<1>3. ws[c] = "abandoned" /\ \A d \in Coros : d # c => ws[d] = r.wstate[d]
  BY DEF WriterStates
<1>4. \A i \in 1 .. Len(r.waiters) : r.waiters[i] \in Coros /\ r.waiters[i] # c
  <2>1. \A i \in 1 .. Len(r.waiters) : r.waiters[i] \in Coros
    BY ElementOfSeq DEF WriterStates
  <2> QED BY <2>1 DEF Tidy
<1> HIDE DEF ws, s
<1>5. /\ s.lock = r.lock /\ s.owner = r.owner /\ s.pending = None /\ s.wstate = ws
      /\ s.waiters = r.waiters /\ s.syncWaiting = r.syncWaiting
  BY <1>2 DEF WriterStates
<1> QED BY <1>3, <1>4, <1>5 DEF Tidy, Moved, MovedOn, s

\* Taking back a dead grant passes the slot on.
LEMMA ReclaimTidy ==
    ASSUME NEW r \in WriterStates, Coherent(r), Tidy(r)
    PROVE  LET s == ReclaimDeadPending(r)
           IN  Tidy(s) /\ Moved(r, s) /\ (s = r \/ GivenUp(r, s))
<1>1. CASE /\ r.pending # None
           /\ r.wstate[r.pending] = "granted"
           /\ Gone(r.pending)
  <2> DEFINE z == Revoke(r, r.pending)
             u == ReleaseLocked(z)
  <2>1. r.pending \in Coros
    BY <1>1 DEF WriterStates
  <2>2. Ownerless(z) /\ Tidy(z) /\ Moved(r, z)
    BY <1>1, <2>1, RevokeOwnerless, RevokeTidy
  <2>3. ReclaimDeadPending(r) = u
    BY <1>1 DEF ReclaimDeadPending, Tidy
  <2> HIDE DEF z
  <2>4. GivenUp(z, u)
    BY <2>2, ReleaseLockedTidy
  <2> HIDE DEF u
  <2>5. GivenUp(r, u)
    BY <2>2, <2>4 DEF GivenUp, Moved, MovedOn
  <2> QED BY <2>3, <2>5 DEF GivenUp
<1>2. CASE ~(/\ r.pending # None
             /\ r.wstate[r.pending] = "granted"
             /\ Gone(r.pending))
  BY <1>2 DEF ReclaimDeadPending, Moved, MovedOn
<1> QED BY <1>1, <1>2

\* After the rescue nobody waits on a free lock, counted callers or not.
LEMMA RescueTidy ==
    ASSUME NEW r \in WriterStates, Coherent(r), Tidy(r)
    PROVE  LET s == RescueQueue(r)
           IN  /\ Tidy(s) /\ Moved(r, s) /\ Attended(s)
               /\ s = r \/ GivenUp(r, s)
<1>1. CASE r.waiters # <<>> /\ r.lock \notin r.locked
  <2> DEFINE z == [r EXCEPT !.locked = @ \cup {r.lock}]
             u == HandOff(z)
  <2>1. Ownerless(z)
    BY <1>1, ActorsAssumption DEF WriterStates, Coherent, Ownerless, Actors
  <2>2. /\ z.lock = r.lock /\ z.owner = r.owner /\ z.pending = r.pending
        /\ z.waiters = r.waiters /\ z.wstate = r.wstate /\ z.wlock = r.wlock
        /\ z.syncWaiting = r.syncWaiting
    BY DEF WriterStates
  <2>3. RescueQueue(r) = u
    BY <1>1 DEF RescueQueue
  <2> HIDE DEF z
  <2>4. Tidy(z) /\ Moved(r, z)
    BY <2>2 DEF Tidy, Moved, MovedOn
  <2>5. /\ Tidy(u) /\ Moved(z, u) /\ HandedOrFree(u)
        /\ u.lock \notin u.locked => u.waiters = <<>>
    BY <2>1, <2>4, HandOffTidy
  <2> HIDE DEF u
  <2>6. Moved(r, u)
    BY <2>4, <2>5 DEF Moved, MovedOn
  <2> QED BY <2>3, <2>5, <2>6 DEF GivenUp, Attended
<1>2. CASE ~(r.waiters # <<>> /\ r.lock \notin r.locked)
  BY <1>2 DEF RescueQueue, Moved, MovedOn, Attended
<1> QED BY <1>1, <1>2

\* Releasing a hold by identity gives the slot up, or does nothing when it was replaced.
LEMMA ReleaseHoldTidy ==
    ASSUME NEW r \in WriterStates, Coherent(r), Tidy(r), NEW l \in Locks,
           l = r.lock => r.owner # None
    PROVE  LET s == ReleaseHold(r, l)
           IN  /\ l = r.lock => /\ Tidy(s) /\ HandedOrFree(s) /\ Attended(s)
                                /\ s.lock = r.lock /\ s.owner = None
                                /\ s.syncWaiting = r.syncWaiting
                                /\ \A c \in Coros : MovedOn(r, s, c)
               /\ l # r.lock => s = r
<1> DEFINE z == [r EXCEPT !.owner = None, !.marked = {}]
           u == ReleaseLocked(z)
<1>1. CASE l = r.lock
  <2>1. r.lock \in r.locked /\ r.pending = None
    BY <1>1 DEF Coherent
  <2>2. ReleaseHold(r, l) = u
    BY <1>1, <2>1 DEF ReleaseHold
  <2>3. Ownerless(z)
    BY <2>1, ActorsAssumption DEF WriterStates, Coherent, Ownerless, Actors
  <2>4. /\ z.lock = r.lock /\ z.owner = None /\ z.pending = r.pending
        /\ z.waiters = r.waiters /\ z.wstate = r.wstate /\ z.wlock = r.wlock
        /\ z.syncWaiting = r.syncWaiting
    BY DEF WriterStates
  <2> HIDE DEF z
  <2>5. Tidy(z)
    BY <2>4 DEF Tidy
  <2>6. GivenUp(z, u)
    BY <2>3, <2>5, ReleaseLockedTidy
  <2> HIDE DEF u
  <2> QED BY <1>1, <2>2, <2>4, <2>6 DEF GivenUp, Moved, MovedOn
<1>2. CASE l # r.lock
  BY <1>2 DEF ReleaseHold
<1> QED BY <1>1, <1>2

-----------------------------------------------------------------------------
(* The inductive step, one lemma per kind of action.                       *)

InWait == {"blocked", "recordWaited"}
SlotPc == {"reserved", "lent", "wsRelease"}

\* A step of one caller that neither starts nor ends a counted wait.
LEMMA CountKept ==
    ASSUME Counted, \A b \in Actors : pc'[b] \in InWait <=> pc[b] \in InWait,
           w'.syncWaiting = w.syncWaiting
    PROVE  Counted'
<1>1. Waiting' = Waiting
  BY DEF Waiting, InWait
<1> QED BY <1>1 DEF Counted

\* A caller counts itself.
LEMMA CountUp ==
    ASSUME Counted, NEW a \in Actors, pc[a] \notin InWait, pc'[a] \in InWait,
           \A b \in Actors \ {a} : pc'[b] = pc[b], w'.syncWaiting = w.syncWaiting + 1
    PROVE  Counted'
<1>1. Waiting' = Waiting \cup {a} /\ a \notin Waiting
  BY DEF Waiting, InWait
<1>2. IsFiniteSet(Waiting \cup {a}) /\ Cardinality(Waiting \cup {a}) = Cardinality(Waiting) + 1
  BY <1>1, FS_AddElement DEF Counted
<1> QED BY <1>1, <1>2 DEF Counted

\* A counted caller uncounts itself.
LEMMA CountDown ==
    ASSUME Counted, NEW a \in Actors, pc[a] \in InWait, pc'[a] \notin InWait,
           \A b \in Actors \ {a} : pc'[b] = pc[b], w'.syncWaiting = w.syncWaiting - 1
    PROVE  Counted'
<1>1. Waiting' = Waiting \ {a} /\ a \in Waiting
  BY DEF Waiting, InWait
<1>2. IsFiniteSet(Waiting \ {a}) /\ Cardinality(Waiting \ {a}) = Cardinality(Waiting) - 1
  BY <1>1, FS_RemoveElement DEF Counted
<1> QED BY <1>1, <1>2 DEF Counted

\* A step that neither queues c nor makes it wait.
KeepsState(c) == /\ w.wstate[c] = "none" => w'.wstate[c] = "none"
                 /\ w'.wstate[c] = "waiting" => w.wstate[c] = "waiting"

\* The place of a coroutine fits the state of its waiter after the step.
Placed(c) == /\ w'.wstate[c] # "none" => pc'[c] \in {"await", "passon", "grant"}
             /\ w'.wstate[c] = "waiting" => pc'[c] = "await"

\* The parts of the invariant a step can disturb.
LEMMA QueuedKept ==
    ASSUME Queued, \A c \in Coros : Placed(c) \/ (KeepsState(c) /\ pc'[c] = pc[c])
    PROVE  Queued'
BY DEF Queued, Placed, KeepsState

LEMMA PlacesKept ==
    ASSUME SlotPlaces,
           \A c \in Coros : slot'[c].state = "held" =>
                pc'[c] \in SlotPc \/ (slot[c].state = "held" /\ pc'[c] = pc[c]),
           \A t \in Threads : job'[t] = job[t] \/ job'[t] = None,
           \A b \in Actors : pc'[b] = "begin" => pc[b] = "begin" /\ lk'[b] = lk[b],
           \A b \in Actors, c \in Coros : BeginsFor(b, c) /\ pc'[b] = "begin" => slot'[c] = slot[c],
           None \notin Coros
    PROVE  SlotPlaces'
<1>1. \A c \in Coros : slot'[c].state = "held" => pc'[c] \in {"reserved", "lent", "wsRelease"}
  BY DEF SlotPlaces, SlotPc
<1>2. \A t, u \in Threads : job'[t] # None /\ job'[t] = job'[u] => t = u
  BY DEF SlotPlaces
<1>3. ASSUME NEW b \in Actors, NEW c \in Coros, BeginsFor(b, c)'
      PROVE  slot'[c] = [lock |-> lk'[b], state |-> "taken"]
  <2>1. BeginsFor(b, c) /\ pc'[b] = "begin" /\ lk'[b] = lk[b]
    BY <1>3 DEF BeginsFor
  <2> QED BY <2>1 DEF SlotPlaces
<1> QED BY <1>1, <1>2, <1>3 DEF SlotPlaces

LEMMA OwnerKept ==
    ASSUME OwnerHolds, w'.lock = w.lock, w'.owner = w.owner,
           \A b \in Actors : Writes(b) => pc'[b] \in {"begin", "holding"} /\ lk'[b] = lk[b],
           \A c \in Coros : Keeps(c) => slot'[c] = slot[c]
    PROVE  OwnerHolds'
BY DEF OwnerHolds, Holders, Writes, Keeps

\* The slot stays claimed when it is given up to a waiter, or when nobody gave it up.
LEMMA ClaimKept ==
    ASSUME Claimed, w'.lock = w.lock,
           w'.lock \in w'.locked =>
                \/ w'.pending # None
                \/ w'.owner # None
                \/ /\ w.lock \in w.locked /\ w'.owner = w.owner /\ w'.pending = w.pending
                   /\ \A b \in Actors : InFlight(b) /\ lk[b] = w.lock =>
                                            InFlight(b)' /\ lk'[b] = lk[b]
    PROVE  Claimed'
BY DEF Claimed

\* A caller outside any hold moves; the record is quiet, or the slot was handed on.
LEMMA BystanderStep ==
    ASSUME SlotInv, ClaimInv, NEW a \in Actors,
           pc[a] \notin SlotPc \cup {"begin", "holding"}, pc'[a] # "begin",
           InFlight(a) => lk[a] # w.lock \/ (InFlight(a)' /\ lk'[a] = lk[a]),
           \A b \in Actors \ {a} : pc'[b] = pc[b] /\ lk'[b] = lk[b],
           slot' = slot, \A t \in Threads : job'[t] = job[t] \/ job'[t] = None,
           w'.lock = w.lock, w'.owner = w.owner, Tidy(w'), Attended(w'), Counted',
           w'.lock \in w'.locked =>
                w'.pending # None \/ (w.lock \in w.locked /\ w'.pending = w.pending),
           \A c \in Coros \ {a} : KeepsState(c),
           a \in Coros => Placed(a)
    PROVE  ClaimInv'
<1>1. None \notin Coros
  BY ActorsAssumption DEF Actors
<1>2. Queued'
  BY QueuedKept DEF ClaimInv, Actors
<1>3. SlotPlaces'
  <2>1. \A c \in Coros : slot'[c].state = "held" => slot[c].state = "held" /\ pc'[c] = pc[c]
    BY DEF ClaimInv, SlotPlaces, SlotPc, Actors
  <2> QED BY <1>1, <2>1, PlacesKept DEF ClaimInv
<1>4. OwnerHolds'
  BY OwnerKept DEF ClaimInv, Writes
<1>5. Claimed'
  <2>1. \A b \in Actors : InFlight(b) /\ lk[b] = w.lock => InFlight(b)' /\ lk'[b] = lk[b]
    BY DEF InFlight
  <2> QED BY <2>1, ClaimKept DEF ClaimInv
<1> QED BY <1>2, <1>3, <1>4, <1>5 DEF ClaimInv

\* The current record, seen by the lemmas on the guarded helpers.
LEMMA ClaimFacts ==
    ASSUME SlotInv, ClaimInv
    PROVE  /\ w \in WriterStates /\ Coherent(w) /\ Tidy(w) /\ Attended(w) /\ Counted
           /\ pc \in [Actors -> PCs] /\ lk \in [Actors -> Locks]
           /\ slot \in [Coros -> [lock : Locks, state : SlotStates]]
           /\ job \in [Threads -> Coros \cup {None}]
           /\ None \notin Coros /\ None \notin Actors /\ Coros \subseteq Actors
           /\ w.syncWaiting \in Int
BY Facts, ActorsAssumption DEF ClaimInv, Actors, WriterStates

\* Steps that move one caller and leave the record alone.
LEMMA QuietClaims ==
    ASSUME SlotInv, ClaimInv, NEW a \in Actors,
           \/ AcquireBegin(a) \/ TryBusy(a) \/ AcquireNested(a)
           \/ a \in Coros /\ (GiveUp(a, "timeout") \/ GiveUp(a, "cancel") \/ WakeUp(a) \/ LateGrant(a))
    PROVE  ClaimInv'
<1>1. /\ w' = w /\ slot' = slot
      /\ pc[a] \notin SlotPc \cup {"begin", "holding"} \cup InWait
      /\ pc'[a] \notin {"begin"} \cup InWait /\ ~InFlight(a)
      /\ \A b \in Actors \ {a} : pc'[b] = pc[b] /\ lk'[b] = lk[b]
      /\ \A t \in Threads : job'[t] = job[t] \/ job'[t] = None
      /\ a \in Coros =>
            \/ pc[a] \notin {"await", "passon", "grant"}
            \/ pc[a] = "await" /\ pc'[a] = "await"
            \/ w.wstate[a] # "waiting" /\ pc'[a] \in {"passon", "grant"}
  BY ClaimFacts, ActorsAssumption DEF AcquireBegin, TryBusy, AcquireNested, GiveUp, WakeUp, LateGrant, Goto,
     Finish, SlotPc, InWait, InFlight, Actors
<1>2. Counted'
  BY <1>1, CountKept, ClaimFacts
<1>3. /\ a \in Coros => Placed(a)
      /\ \A c \in Coros \ {a} : KeepsState(c)
  BY <1>1 DEF ClaimInv, Queued, Placed, KeepsState
<1> QED BY <1>1, <1>2, <1>3, BystanderStep, ClaimFacts

\* A caller counts itself, and a dead grant is passed on.
LEMMA CountWaitingClaims ==
    ASSUME SlotInv, ClaimInv, NEW a \in Actors, CountWaiting(a)
    PROVE  ClaimInv'
<1> DEFINE r == ReclaimDeadPending(w)
           n == r.syncWaiting + 1
<1>1. /\ r \in WriterStates /\ Tidy(r) /\ Moved(w, r)
      /\ r = w \/ GivenUp(w, r)
  BY ClaimFacts, ReclaimCoherent, ReclaimTidy
<1>2. /\ pc[a] = "count" /\ pc' = [pc EXCEPT ![a] = "blocked"]
      /\ lk' = [lk EXCEPT ![a] = w.lock]
      /\ w' = [r EXCEPT !.syncWaiting = n]
      /\ slot' = slot /\ job' = job
  BY DEF CountWaiting, Goto
<1>3. n \in Int /\ n = w.syncWaiting + 1 /\ n # 0
  BY <1>1, ClaimFacts, FS_CardinalityType DEF Moved, MovedOn, Counted
<1> HIDE DEF r, n
<1>4. /\ w'.lock = w.lock /\ w'.owner = w.owner /\ w'.syncWaiting = n
      /\ w'.pending = r.pending /\ w'.locked = r.locked /\ w'.waiters = r.waiters
      /\ w'.wstate = r.wstate /\ w'.wlock = r.wlock /\ r.lock = w.lock
  BY <1>1, <1>2 DEF WriterStates, Moved, MovedOn
<1>5. Tidy(w') /\ Attended(w')
  BY <1>1, <1>3, <1>4 DEF Tidy, Attended
<1>6. /\ \A b \in Actors \ {a} : pc'[b] = pc[b] /\ lk'[b] = lk[b]
      /\ pc'[a] = "blocked"
  BY <1>2, ClaimFacts
<1>7. Counted'
  BY <1>2, <1>3, <1>4, <1>6, CountUp, ClaimFacts DEF InWait
<1>8. \A c \in Coros : KeepsState(c)
  BY <1>1, <1>4 DEF Moved, MovedOn, KeepsState
<1>9. a \in Coros => Placed(a)
  BY <1>2, <1>8 DEF ClaimInv, Queued, Placed, KeepsState
<1>10. w'.lock \in w'.locked =>
           w'.pending # None \/ (w.lock \in w.locked /\ w'.pending = w.pending)
  BY <1>1, <1>4 DEF GivenUp, HandedOrFree
<1> QED BY <1>2, <1>4, <1>5, <1>6, <1>7, <1>8, <1>9, <1>10, BystanderStep DEF SlotPc, InFlight

\* Leaving a counted wait: whoever leaves looks after the queue.
LEMMA RescueClaims ==
    ASSUME SlotInv, ClaimInv,
           \/ w' = RescueQueue(ReclaimDeadPending(Uncount(w)))
           \/ w' = RescueQueue(Uncount(w))
    PROVE  /\ w'.lock = w.lock /\ w'.owner = w.owner /\ Tidy(w') /\ Attended(w')
           /\ w'.syncWaiting = w.syncWaiting - 1
           /\ \A c \in Coros : KeepsState(c)
           /\ w'.lock \in w'.locked =>
                w'.pending # None \/ (w.lock \in w.locked /\ w'.pending = w.pending)
<1> DEFINE n == w.syncWaiting - 1
           u == Uncount(w)
           r == ReclaimDeadPending(u)
<1>1. u = [w EXCEPT !.syncWaiting = n] /\ n \in Int
  BY ClaimFacts DEF Uncount
<1>2. u \in WriterStates /\ Coherent(u)
  BY ClaimFacts, UncountCoherent
<1> HIDE DEF n, u
<1>3. /\ u.lock = w.lock /\ u.owner = w.owner /\ u.syncWaiting = n /\ u.locked = w.locked
      /\ u.pending = w.pending /\ u.waiters = w.waiters /\ u.wstate = w.wstate
      /\ u.wlock = w.wlock
  BY <1>1, ClaimFacts DEF WriterStates
<1>4. Tidy(u)
  BY <1>3, ClaimFacts DEF Tidy
<1>5. r \in WriterStates /\ Coherent(r) /\ Tidy(r) /\ Moved(u, r) /\ (r = u \/ GivenUp(u, r))
  BY <1>2, <1>4, ReclaimCoherent, ReclaimTidy
<1> HIDE DEF r
<1>6. PICK s : /\ s \in WriterStates /\ Coherent(s) /\ Tidy(s) /\ Moved(u, s)
               /\ s = u \/ GivenUp(u, s)
               /\ w' = RescueQueue(s)
  <2>1. CASE w' = RescueQueue(r)
    BY <1>5, <2>1
  <2>2. CASE w' = RescueQueue(u)
    BY <1>2, <1>4, <2>2 DEF Moved, MovedOn
  <2> QED BY <2>1, <2>2 DEF r, u
<1>7. Tidy(w') /\ Moved(s, w') /\ Attended(w') /\ (w' = s \/ GivenUp(s, w'))
  BY <1>6, RescueTidy
<1>8. \A c \in Coros : KeepsState(c)
  BY <1>3, <1>6, <1>7 DEF Moved, MovedOn, KeepsState
<1>9. w'.lock = w.lock /\ w'.owner = w.owner /\ w'.syncWaiting = w.syncWaiting - 1
  BY <1>3, <1>6, <1>7 DEF Moved, MovedOn, n
<1>10. w'.lock \in w'.locked =>
           w'.pending # None \/ (w.lock \in w.locked /\ w'.pending = w.pending)
  BY <1>3, <1>6, <1>7 DEF GivenUp, HandedOrFree
<1> QED BY <1>7, <1>8, <1>9, <1>10

\* A blocked caller times out.
LEMMA WaitGivesUpClaims ==
    ASSUME SlotInv, ClaimInv, NEW a \in Actors, WaitGivesUp(a)
    PROVE  ClaimInv'
<1>1. /\ pc[a] = "blocked" /\ Finish(a) /\ slot' = slot
      /\ w' = RescueQueue(ReclaimDeadPending(Uncount(w)))
  BY DEF WaitGivesUp
<1>2. /\ w'.lock = w.lock /\ w'.owner = w.owner /\ Tidy(w') /\ Attended(w')
      /\ w'.syncWaiting = w.syncWaiting - 1
      /\ \A c \in Coros : KeepsState(c)
      /\ w'.lock \in w'.locked =>
           w'.pending # None \/ (w.lock \in w.locked /\ w'.pending = w.pending)
  BY <1>1, RescueClaims
<1>3. /\ \A b \in Actors \ {a} : pc'[b] = pc[b] /\ lk'[b] = lk[b]
      /\ pc'[a] = "idle" /\ \A t \in Threads : job'[t] = job[t] \/ job'[t] = None
  BY <1>1, ClaimFacts DEF Finish, Goto
<1>4. Counted'
  BY <1>1, <1>2, <1>3, CountDown, ClaimFacts DEF InWait
<1>5. a \in Coros => Placed(a)
  BY <1>1, <1>2 DEF ClaimInv, Queued, Placed, KeepsState
<1> QED BY <1>1, <1>2, <1>3, <1>4, <1>5, BystanderStep DEF SlotPc, InFlight

\* A taker finds its lock replaced.
LEMMA RecordStaleClaims ==
    ASSUME SlotInv, ClaimInv, NEW a \in Actors, RecordStale(a)
    PROVE  ClaimInv'
<1>1. /\ lk[a] # w.lock /\ lk' = lk /\ slot' = slot /\ job' = job
      /\ pc' = [pc EXCEPT ![a] = "giveback"]
      /\ \/ pc[a] = "recordWaited" /\ w' = RescueQueue(Uncount(w))
         \/ pc[a] = "record" /\ w' = w
  BY DEF RecordStale, Goto
<1>2. /\ \A b \in Actors \ {a} : pc'[b] = pc[b] /\ lk'[b] = lk[b]
      /\ pc'[a] = "giveback"
  BY <1>1, ClaimFacts
<1>3. CASE pc[a] = "recordWaited"
  <2>1. /\ w'.lock = w.lock /\ w'.owner = w.owner /\ Tidy(w') /\ Attended(w')
        /\ w'.syncWaiting = w.syncWaiting - 1
        /\ \A c \in Coros : KeepsState(c)
        /\ w'.lock \in w'.locked =>
             w'.pending # None \/ (w.lock \in w.locked /\ w'.pending = w.pending)
    BY <1>1, <1>3, RescueClaims
  <2>2. Counted'
    BY <1>2, <1>3, <2>1, CountDown, ClaimFacts DEF InWait
  <2>3. a \in Coros => Placed(a)
    BY <1>3, <2>1 DEF ClaimInv, Queued, Placed, KeepsState
  <2> QED BY <1>1, <1>2, <1>3, <2>1, <2>2, <2>3, BystanderStep DEF SlotPc
<1>4. CASE pc[a] = "record" /\ w' = w
  <2>1. Counted'
    BY <1>2, <1>4, CountKept, ClaimFacts DEF InWait
  <2>2. a \in Coros => Placed(a)
    BY <1>4 DEF ClaimInv, Queued, Placed, KeepsState
  <2> QED BY <1>1, <1>2, <1>4, <2>1, <2>2, BystanderStep, ClaimFacts DEF SlotPc, KeepsState
<1> QED BY <1>1, <1>3, <1>4

\* A replaced lock is given back.
LEMMA GiveBackClaims ==
    ASSUME SlotInv, ClaimInv, NEW a \in Actors, GiveBackStale(a)
    PROVE  ClaimInv'
<1> DEFINE k == w.locked \ {lk[a]}
<1>1. /\ pc[a] = "giveback" /\ lk[a] # w.lock /\ Finish(a) /\ slot' = slot
      /\ w' = [w EXCEPT !.locked = k]
  BY DEF GiveBackStale, SlotInv, TakersExclude
<1>2. /\ w'.lock = w.lock /\ w'.owner = w.owner /\ w'.syncWaiting = w.syncWaiting
      /\ w'.pending = w.pending /\ w'.locked = k /\ w'.waiters = w.waiters
      /\ w'.wstate = w.wstate /\ w'.wlock = w.wlock
      /\ w.lock \in k <=> w.lock \in w.locked
  BY <1>1, ClaimFacts DEF WriterStates
<1>3. /\ \A b \in Actors \ {a} : pc'[b] = pc[b] /\ lk'[b] = lk[b]
      /\ pc'[a] = "idle" /\ \A t \in Threads : job'[t] = job[t] \/ job'[t] = None
  BY <1>1, ClaimFacts DEF Finish, Goto
<1>4. Counted'
  BY <1>1, <1>2, <1>3, CountKept, ClaimFacts DEF InWait
<1> HIDE DEF k
<1>5. Tidy(w') /\ Attended(w')
  BY <1>2, ClaimFacts DEF Tidy, Attended
<1>6. a \in Coros => Placed(a)
  BY <1>1, <1>2 DEF ClaimInv, Queued, Placed, KeepsState
<1> QED BY <1>1, <1>2, <1>3, <1>4, <1>5, <1>6, BystanderStep DEF SlotPc, KeepsState

\* A reservation of a busy slot joins the queue once.
LEMMA ReserveQueueClaims ==
    ASSUME SlotInv, ClaimInv, NEW c \in Coros, ReserveQueue(c)
    PROVE  ClaimInv'
<1> DEFINE r == ReclaimDeadPending(w)
           n == Len(r.waiters)
           ws == [r.wstate EXCEPT ![c] = "waiting"]
           q  == Append(r.waiters, c)
<1>1. /\ r \in WriterStates /\ Coherent(r) /\ Tidy(r) /\ Moved(w, r)
      /\ r = w \/ GivenUp(w, r)
  BY ClaimFacts, ReclaimCoherent, ReclaimTidy
<1>2. /\ w' = [r EXCEPT !.waiters = q, !.wstate = ws]
      /\ pc' = [pc EXCEPT ![c] = "await"] /\ pc[c] = "idle" /\ c \in Actors
      /\ UNCHANGED <<lk, slot, job>> /\ ~FreeForReserve(r)
  BY <1>1 DEF ReserveQueue, MayReserve, Goto, Actors, WriterStates
<1>3. w.wstate[c] = "none" /\ r.wstate[c] = "none"
  BY <1>1, <1>2 DEF ClaimInv, Queued, Moved, MovedOn
<1>4. /\ n \in Nat /\ Len(q) = n + 1 /\ q[n + 1] = c
      /\ \A i \in 1 .. n : q[i] = r.waiters[i] /\ r.waiters[i] \in Coros
  BY <1>1, AppendProperties, ElementOfSeq, LenProperties DEF WriterStates
<1>5. ws[c] = "waiting" /\ \A d \in Coros : d # c => ws[d] = r.wstate[d]
  BY <1>1 DEF WriterStates
<1>6. /\ \A i \in 1 .. n : r.wstate[q[i]] = "waiting" /\ q[i] # c /\ q[i] \in Coros
      /\ \A i, j \in 1 .. n : q[i] = q[j] => i = j
  BY <1>1, <1>3, <1>4 DEF Tidy
<1>7. r.pending # None => ws[r.pending] = "granted" /\ r.wlock[r.pending] = r.lock
  <2>1. r.pending # None => r.pending \in Coros
    BY <1>1 DEF WriterStates
  <2> QED BY <1>1, <1>3, <1>5, <2>1 DEF Tidy
<1>8. Attended(r)
  BY <1>1, ClaimFacts DEF GivenUp
<1> HIDE DEF r, ws, q
<1>9. /\ w'.lock = r.lock /\ w'.owner = r.owner /\ w'.syncWaiting = r.syncWaiting
      /\ w'.pending = r.pending /\ w'.locked = r.locked /\ w'.waiters = q
      /\ w'.wstate = ws /\ w'.wlock = r.wlock
  BY <1>1, <1>2 DEF WriterStates
<1> HIDE DEF n
<1>10. \A i \in 1 .. Len(q) : i = n + 1 \/ i \in 1 .. n
  BY <1>4
<1>11. /\ \A i \in 1 .. Len(q) : ws[q[i]] = "waiting"
       /\ \A i, j \in 1 .. Len(q) : q[i] = q[j] => i = j
  BY <1>4, <1>5, <1>6, <1>10
<1>12. Tidy(w')
  BY <1>7, <1>9, <1>11 DEF Tidy
<1>13. Attended(w')
  BY <1>2, <1>8, <1>9 DEF Attended, FreeForReserve
<1>14. /\ w'.lock = w.lock /\ w'.owner = w.owner /\ w'.syncWaiting = w.syncWaiting
       /\ \A d \in Coros \ {c} : KeepsState(d)
  BY <1>1, <1>2, <1>5, <1>9 DEF Moved, MovedOn, KeepsState
<1>15. /\ \A b \in Actors \ {c} : pc'[b] = pc[b] /\ lk'[b] = lk[b]
       /\ pc'[c] = "await" /\ Placed(c)
  BY <1>2, ClaimFacts DEF Placed
<1>16. Counted'
  BY <1>2, <1>14, <1>15, CountKept, ClaimFacts DEF InWait
<1>17. w'.lock \in w'.locked =>
           w'.pending # None \/ (w.lock \in w.locked /\ w'.pending = w.pending)
  BY <1>1, <1>9 DEF GivenUp, HandedOrFree
<1> QED BY <1>2, <1>12, <1>13, <1>14, <1>15, <1>16, <1>17, BystanderStep DEF SlotPc, InFlight

\* Forgetting a waiter that neither waits nor was granted.
LEMMA DropTidy ==
    ASSUME NEW r \in WriterStates, Tidy(r), NEW c \in Coros,
           r.wstate[c] # "waiting", r.pending # c
    PROVE  LET s == Drop(r, c)
           IN  /\ Tidy(s) /\ s.lock = r.lock /\ s.locked = r.locked /\ s.owner = r.owner
               /\ s.pending = r.pending /\ s.waiters = r.waiters
               /\ s.syncWaiting = r.syncWaiting /\ s.wstate[c] = "none"
               /\ \A d \in Coros \ {c} : s.wstate[d] = r.wstate[d]
<1> DEFINE ws == [r.wstate EXCEPT ![c] = "none"]
           wl == [r.wlock EXCEPT ![c] = 0]
           s == Drop(r, c)
<1>1. s = [r EXCEPT !.wstate = ws, !.wlock = wl]
  BY DEF Drop, WriterStates
<1>2. /\ ws[c] = "none"
      /\ \A d \in Coros : d # c => ws[d] = r.wstate[d] /\ wl[d] = r.wlock[d]
  BY DEF WriterStates
<1>3. \A i \in 1 .. Len(r.waiters) : r.waiters[i] \in Coros /\ r.waiters[i] # c
  <2>1. \A i \in 1 .. Len(r.waiters) : r.waiters[i] \in Coros
    BY ElementOfSeq DEF WriterStates
  <2> QED BY <2>1 DEF Tidy
<1>4. r.pending # None => r.pending \in Coros /\ r.pending # c
  BY DEF WriterStates
<1> HIDE DEF ws, wl, s
<1>5. /\ s.lock = r.lock /\ s.locked = r.locked /\ s.owner = r.owner
      /\ s.pending = r.pending /\ s.waiters = r.waiters
      /\ s.syncWaiting = r.syncWaiting /\ s.wstate = ws /\ s.wlock = wl
  BY <1>1 DEF WriterStates
<1>6. Tidy(s)
  BY <1>2, <1>3, <1>4, <1>5 DEF Tidy
<1> QED BY <1>2, <1>5, <1>6 DEF s

\* Leaving the queue closes the gap: the others keep their order.
LEMMA LeaveTidy ==
    ASSUME NEW r \in WriterStates, Tidy(r), NEW c \in Coros,
           NEW i \in 1 .. Len(r.waiters), r.waiters[i] = c
    PROVE  LET s == Leave(Drop(r, c), i)
           IN  /\ Tidy(s) /\ s.lock = r.lock /\ s.locked = r.locked /\ s.owner = r.owner
               /\ s.pending = r.pending
               /\ s.syncWaiting = r.syncWaiting /\ s.wstate[c] = "none"
               /\ \A d \in Coros \ {c} : s.wstate[d] = r.wstate[d]
<1> DEFINE q == r.waiters
           n == Len(q)
           h == SubSeq(q, 1, i - 1)
           t == SubSeq(q, i + 1, n)
           rest == h \o t
           ws == [r.wstate EXCEPT ![c] = "none"]
           wl == [r.wlock EXCEPT ![c] = 0]
           s == Leave(Drop(r, c), i)
<1>1. /\ q \in Seq(Coros) /\ n \in Nat /\ \A j \in 1 .. n : q[j] \in Coros
      /\ i \in Nat /\ 1 <= i /\ i <= n
  BY ElementOfSeq, LenProperties DEF WriterStates
<1>2. /\ h \in Seq(Coros) /\ Len(h) = i - 1 /\ \A j \in 1 .. i - 1 : h[j] = q[j]
      /\ t \in Seq(Coros) /\ Len(t) = n - i /\ \A j \in 1 .. n - i : t[j] = q[i + j]
  <2>1. i - 1 \in Int /\ i + 1 \in Int /\ n \in Int /\ 1 \in Int
    BY <1>1
  <2>2. /\ \A j \in 1 .. i - 1 : q[j] \in Coros
        /\ \A j \in i + 1 .. n : q[j] \in Coros
    BY <1>1
  <2> HIDE DEF n, q
  <2>3. /\ h \in Seq(Coros)
        /\ Len(h) = IF 1 <= i - 1 THEN (i - 1) - 1 + 1 ELSE 0
        /\ \A j \in 1 .. Len(h) : h[j] = q[1 + j - 1]
    BY <2>1, <2>2, SubSeqProperties
  <2>4. /\ t \in Seq(Coros)
        /\ Len(t) = IF i + 1 <= n THEN n - (i + 1) + 1 ELSE 0
        /\ \A j \in 1 .. Len(t) : t[j] = q[(i + 1) + j - 1]
    BY <2>1, <2>2, SubSeqProperties
  <2>5. Len(h) = i - 1 /\ Len(t) = n - i
    BY <1>1, <2>3, <2>4
  <2>6. /\ \A j \in 1 .. i - 1 : 1 + j - 1 = j
        /\ \A j \in 1 .. n - i : (i + 1) + j - 1 = i + j
    BY <1>1
  <2> HIDE DEF h, t
  <2> QED BY <2>3, <2>4, <2>5, <2>6
<1> HIDE DEF q, h, t
<1>3. /\ Len(rest) = n - 1
      /\ \A j \in 1 .. n - 1 : rest[j] = IF j <= i - 1 THEN q[j] ELSE q[j + 1]
  <2> HIDE DEF n
  <2>1. h \in Seq(Coros) /\ t \in Seq(Coros)
    BY <1>2
  <2>2. /\ Len(rest) = Len(h) + Len(t)
        /\ \A j \in 1 .. Len(h) + Len(t) :
              rest[j] = IF j <= Len(h) THEN h[j] ELSE t[j - Len(h)]
    BY <2>1, ConcatProperties
  <2>3. Len(rest) = n - 1 /\ Len(h) + Len(t) = n - 1
    BY <1>1, <1>2, <2>2
  <2>4. \A j \in 1 .. n - 1 : rest[j] = IF j <= i - 1 THEN h[j] ELSE t[j - (i - 1)]
    BY <1>2, <2>2, <2>3
  <2>5. ASSUME NEW j \in 1 .. n - 1
        PROVE  rest[j] = IF j <= i - 1 THEN q[j] ELSE q[j + 1]
    <3>1. CASE j <= i - 1
      BY <1>1, <1>2, <2>4, <3>1
    <3>2. CASE ~(j <= i - 1)
      <4>1. j - (i - 1) \in 1 .. n - i /\ i + (j - (i - 1)) = j + 1
        BY <1>1, <3>2
      <4> QED BY <1>2, <2>4, <3>2, <4>1
    <3> QED BY <3>1, <3>2
  <2> QED BY <2>3, <2>5
<1>4. s = [r EXCEPT !.wstate = ws, !.wlock = wl, !.waiters = rest]
  BY DEF Leave, Drop, WriterStates, q, h, t
<1>5. /\ ws[c] = "none"
      /\ \A d \in Coros : d # c => ws[d] = r.wstate[d] /\ wl[d] = r.wlock[d]
  BY DEF WriterStates
<1>6. /\ \A j \in 1 .. n : r.wstate[q[j]] = "waiting"
      /\ \A j, k \in 1 .. n : q[j] = q[k] => j = k
      /\ q[i] = c
  BY DEF Tidy, q
<1>7. r.pending # None => r.pending \in Coros /\ r.pending # c
  BY <1>1, <1>6 DEF Tidy, WriterStates
<1> HIDE DEF n, rest, ws, wl, s
<1>8. /\ s.lock = r.lock /\ s.locked = r.locked /\ s.owner = r.owner
      /\ s.pending = r.pending /\ s.waiters = rest
      /\ s.syncWaiting = r.syncWaiting /\ s.wstate = ws /\ s.wlock = wl
  BY <1>4 DEF WriterStates
<1>9. \A j \in 1 .. n - 1 : \E k \in 1 .. n :
           /\ rest[j] = q[k] /\ k # i /\ k = IF j <= i - 1 THEN j ELSE j + 1
  <2> TAKE j \in 1 .. n - 1
  <2>1. CASE j <= i - 1
    BY <1>1, <1>3, <2>1
  <2>2. CASE ~(j <= i - 1)
    BY <1>1, <1>3, <2>2
  <2> QED BY <2>1, <2>2
<1>10. \A j \in 1 .. n - 1 : ws[rest[j]] = "waiting"
  BY <1>1, <1>5, <1>6, <1>9
<1>11. \A j, k \in 1 .. n - 1 : rest[j] = rest[k] => j = k
  <2> TAKE j, k \in 1 .. n - 1
  <2>1. PICK jj \in 1 .. n : rest[j] = q[jj] /\ jj = IF j <= i - 1 THEN j ELSE j + 1
    BY <1>9
  <2>2. PICK kk \in 1 .. n : rest[k] = q[kk] /\ kk = IF k <= i - 1 THEN k ELSE k + 1
    BY <1>9
  <2>3. rest[j] = rest[k] => jj = kk
    BY <1>6, <2>1, <2>2
  <2> QED BY <1>1, <2>1, <2>2, <2>3
<1>12. Tidy(s)
  BY <1>3, <1>5, <1>7, <1>8, <1>10, <1>11, ActorsAssumption DEF Tidy
<1> QED BY <1>5, <1>8, <1>12 DEF s

\* The end of an areserve that got nothing, whatever it did to the record first.
LEMMA FinishClaims ==
    ASSUME SlotInv, ClaimInv, NEW c \in Coros,
           pc[c] \in {"await", "passon", "grant"}, Finish(c), slot' = slot,
           w'.lock = w.lock, w'.owner = w.owner, w'.syncWaiting = w.syncWaiting,
           Tidy(w'), Attended(w'), w'.wstate[c] = "none",
           \A d \in Coros \ {c} : KeepsState(d),
           w'.lock \in w'.locked =>
                w'.pending # None \/ (w.lock \in w.locked /\ w'.pending = w.pending)
    PROVE  ClaimInv'
<1>1. /\ c \in Actors /\ pc'[c] = "idle"
      /\ \A b \in Actors \ {c} : pc'[b] = pc[b] /\ lk'[b] = lk[b]
      /\ \A t \in Threads : job'[t] = job[t] \/ job'[t] = None
  BY ClaimFacts DEF Finish, Goto
<1>2. Counted'
  BY <1>1, CountKept, ClaimFacts DEF InWait
<1>3. Placed(c)
  BY DEF Placed
<1> QED BY <1>1, <1>2, <1>3, BystanderStep DEF SlotPc, InFlight

\* A reservation that gave up before a grant leaves the queue in order.
LEMMA LeaveQueueClaims ==
    ASSUME SlotInv, ClaimInv, NEW c \in Coros, LeaveQueue(c)
    PROVE  ClaimInv'
<1>1. /\ pc[c] = "await" /\ Finish(c) /\ slot' = slot
      /\ w.wstate[c] \in {"waiting", "abandoned"}
      /\ \/ \E i \in 1 .. Len(w.waiters) : w.waiters[i] = c /\ w' = Leave(Drop(w, c), i)
         \/ w.wstate[c] = "abandoned" /\ w' = Drop(w, c)
  BY DEF LeaveQueue
<1>2. w.pending # c
  BY <1>1, ClaimFacts DEF Tidy
<1>3. /\ Tidy(w') /\ w'.lock = w.lock /\ w'.locked = w.locked /\ w'.owner = w.owner
      /\ w'.pending = w.pending /\ w'.syncWaiting = w.syncWaiting
      /\ w'.wstate[c] = "none" /\ \A d \in Coros \ {c} : w'.wstate[d] = w.wstate[d]
      /\ w'.waiters # <<>> => w.waiters # <<>>
  <2>1. CASE \E i \in 1 .. Len(w.waiters) : w.waiters[i] = c /\ w' = Leave(Drop(w, c), i)
    <3>1. PICK i \in 1 .. Len(w.waiters) : w.waiters[i] = c /\ w' = Leave(Drop(w, c), i)
      BY <2>1
    <3>2. w.waiters # <<>>
      BY <3>1, EmptySeq
    <3> QED BY <3>1, <3>2, ClaimFacts, LeaveTidy
  <2>2. CASE w.wstate[c] = "abandoned" /\ w' = Drop(w, c)
    BY <1>2, <2>2, ClaimFacts, DropTidy
  <2> QED BY <1>1, <2>1, <2>2
<1>4. Attended(w')
  BY <1>3, ClaimFacts DEF Attended
<1> QED BY <1>1, <1>3, <1>4, FinishClaims DEF KeepsState

\* A cancelled reservation passes its grant on, or had none any more.
LEMMA PassOnClaims ==
    ASSUME SlotInv, ClaimInv, NEW c \in Coros, PassOn(c)
    PROVE  ClaimInv'
<1> DEFINE z == Revoke(w, c)
           r == IF w.wstate[c] # "granted" THEN w ELSE ReleaseLocked(z)
<1>1. /\ pc[c] = "passon" /\ Finish(c) /\ slot' = slot
      /\ w.wstate[c] = "granted" => w.pending = c /\ w.wlock[c] = w.lock
      /\ w.wstate[c] # "waiting"
      /\ w.pending = c => w.wstate[c] = "granted"
  BY ClaimFacts DEF PassOn, Coherent, Tidy, ClaimInv, Queued
<1>2. w' = Drop(r, c)
  BY <1>1 DEF PassOn
<1>3. /\ r \in WriterStates /\ Tidy(r) /\ Attended(r) /\ Moved(w, r)
      /\ r.wstate[c] \notin {"waiting", "granted"}
      /\ r.lock \in r.locked => r.pending # None \/ (w.lock \in w.locked /\ r.pending = w.pending)
  <2>1. CASE w.wstate[c] # "granted"
    BY <1>1, <2>1, ClaimFacts DEF Moved, MovedOn
  <2>2. CASE w.wstate[c] = "granted"
    <3>1. /\ Ownerless(z) /\ Tidy(z) /\ Moved(w, z) /\ z.wstate[c] = "abandoned"
      BY <2>2, ClaimFacts, RevokeOwnerless, RevokeTidy
    <3>2. r = ReleaseLocked(z)
      BY <2>2
    <3> HIDE DEF z, r
    <3>3. r \in WriterStates /\ GivenUp(z, r)
      BY <3>1, <3>2, ReleaseLockedCoherent, ReleaseLockedTidy
    <3> QED BY <3>1, <3>3 DEF GivenUp, Moved, MovedOn, HandedOrFree
  <2> QED BY <2>1, <2>2
<1> HIDE DEF r
<1>4. r.pending # c
  BY <1>3, ClaimFacts DEF Tidy
<1>5. /\ Tidy(w') /\ w'.lock = r.lock /\ w'.locked = r.locked /\ w'.owner = r.owner
      /\ w'.pending = r.pending /\ w'.waiters = r.waiters
      /\ w'.syncWaiting = r.syncWaiting /\ w'.wstate[c] = "none"
      /\ \A d \in Coros \ {c} : w'.wstate[d] = r.wstate[d]
  BY <1>2, <1>3, <1>4, DropTidy
<1>6. Attended(w')
  BY <1>3, <1>5 DEF Attended
<1>7. \A d \in Coros \ {c} : KeepsState(d)
  BY <1>3, <1>5 DEF Moved, MovedOn, KeepsState
<1> QED BY <1>1, <1>3, <1>5, <1>6, <1>7, FinishClaims DEF Moved

\* A reservation that wakes to a grant taken back holds nothing.
LEMMA GrantClosedClaims ==
    ASSUME SlotInv, ClaimInv, NEW c \in Coros, GrantClosed(c)
    PROVE  ClaimInv'
<1>1. /\ pc[c] = "grant" /\ Finish(c) /\ slot' = slot /\ w' = Drop(w, c)
      /\ w.wstate[c] # "waiting" /\ w.pending # c
  BY ClaimFacts DEF GrantClosed, StillGranted, Tidy, ClaimInv, Queued
<1>2. /\ Tidy(w') /\ w'.lock = w.lock /\ w'.locked = w.locked /\ w'.owner = w.owner
      /\ w'.pending = w.pending /\ w'.waiters = w.waiters
      /\ w'.syncWaiting = w.syncWaiting /\ w'.wstate[c] = "none"
      /\ \A d \in Coros \ {c} : w'.wstate[d] = w.wstate[d]
  BY <1>1, ClaimFacts, DropTidy
<1>3. Attended(w')
  BY <1>2, ClaimFacts DEF Attended
<1> QED BY <1>1, <1>2, <1>3, FinishClaims, ClaimFacts DEF KeepsState

\* Taking a free native lock: the taker now has to record itself or give it back.
LEMMA TakeClaims ==
    ASSUME SlotInv, ClaimInv, NEW a \in Actors, TryTake(a) \/ BlockedTake(a)
    PROVE  ClaimInv'
<1> DEFINE k == w.locked \cup {lk[a]}
<1>1. /\ w' = [w EXCEPT !.locked = k] /\ lk' = lk /\ slot' = slot /\ job' = job
      /\ \A b \in Actors \ {a} : pc'[b] = pc[b]
      /\ \/ pc[a] = "try" /\ pc'[a] = "record"
         \/ pc[a] = "blocked" /\ pc'[a] = "recordWaited"
  BY ClaimFacts DEF TryTake, BlockedTake, Goto
<1>2. k \subseteq Locks
  BY ClaimFacts DEF WriterStates
<1>3. /\ w'.lock = w.lock /\ w'.owner = w.owner /\ w'.syncWaiting = w.syncWaiting
      /\ w'.pending = w.pending /\ w'.locked = k /\ w'.waiters = w.waiters
      /\ w'.wstate = w.wstate /\ w'.wlock = w.wlock
  BY <1>1, ClaimFacts DEF WriterStates
<1>4. Tidy(w') /\ Attended(w')
  BY <1>3, ClaimFacts DEF Tidy, Attended
<1> HIDE DEF k
<1>5. Counted'
  BY <1>1, <1>3, CountKept, ClaimFacts DEF InWait
<1>6. Queued'
  <2>1. \A c \in Coros : Placed(c) \/ (KeepsState(c) /\ pc'[c] = pc[c])
    BY <1>1, <1>3, ClaimFacts DEF ClaimInv, Queued, Placed, KeepsState
  <2> QED BY <2>1, QueuedKept DEF ClaimInv
<1>7. SlotPlaces'
  BY <1>1, PlacesKept, ClaimFacts DEF ClaimInv, SlotPlaces, SlotPc
<1>8. OwnerHolds'
  BY <1>1, <1>3, OwnerKept DEF ClaimInv, Writes
<1>9. Claimed'
  <2>1. \A b \in Actors : InFlight(b) => InFlight(b)'
    BY <1>1 DEF InFlight
  <2>2. InFlight(a)'
    BY <1>1 DEF InFlight
  <2>3. w'.lock \in w'.locked => w.lock \in w.locked \/ lk[a] = w.lock
    BY <1>3 DEF k
  <2> QED BY <1>1, <1>3, <2>1, <2>2, <2>3 DEF ClaimInv, Claimed
<1> QED BY <1>4, <1>5, <1>6, <1>7, <1>8, <1>9 DEF ClaimInv

\* Recording a hold: the taker's claim becomes the owner's.
LEMMA RecordHoldClaims ==
    ASSUME SlotInv, ClaimInv, NEW a \in Actors, RecordHold(a)
    PROVE  ClaimInv'
<1> DEFINE n == IF pc[a] = "recordWaited" THEN w.syncWaiting - 1 ELSE w.syncWaiting
           m == {a}
<1>1. /\ pc[a] \in {"record", "recordWaited"} /\ lk[a] = w.lock
      /\ w' = [w EXCEPT !.owner = a, !.marked = m, !.syncWaiting = n]
      /\ pc'[a] = "holding" /\ lk' = lk /\ slot' = slot /\ job' = job
      /\ \A b \in Actors \ {a} : pc'[b] = pc[b]
  BY ClaimFacts DEF RecordHold, Goto
<1>2. w.lock \in w.locked /\ a # None
  BY <1>1, ClaimFacts DEF SlotInv, TakersExclude, InFlight
<1> HIDE DEF m, n
<1>3. /\ w'.lock = w.lock /\ w'.owner = a /\ w'.syncWaiting = n
      /\ w'.pending = w.pending /\ w'.locked = w.locked /\ w'.waiters = w.waiters
      /\ w'.wstate = w.wstate /\ w'.wlock = w.wlock
  BY <1>1, ClaimFacts DEF WriterStates
<1>4. Tidy(w') /\ Attended(w')
  BY <1>2, <1>3, ClaimFacts DEF Tidy, Attended
<1>5. Counted'
  <2>1. CASE pc[a] = "recordWaited"
    BY <1>1, <1>3, <2>1, CountDown, ClaimFacts DEF InWait, n
  <2>2. CASE pc[a] = "record"
    BY <1>1, <1>3, <2>2, CountKept, ClaimFacts DEF InWait, n
  <2> QED BY <1>1, <2>1, <2>2
<1>6. Queued'
  <2>1. \A c \in Coros : Placed(c) \/ (KeepsState(c) /\ pc'[c] = pc[c])
    BY <1>1, <1>3, ClaimFacts DEF ClaimInv, Queued, Placed, KeepsState
  <2> QED BY <2>1, QueuedKept DEF ClaimInv
<1>7. SlotPlaces'
  BY <1>1, PlacesKept, ClaimFacts DEF ClaimInv, SlotPlaces, SlotPc
<1>8. OwnerHolds'
  BY <1>1, <1>3 DEF OwnerHolds, Holders, Writes
<1>9. Claimed'
  BY <1>2, <1>3 DEF Claimed
<1> QED BY <1>4, <1>5, <1>6, <1>7, <1>8, <1>9 DEF ClaimInv

\* A coroutine is given the slot.
LEMMA NewHolderClaims ==
    ASSUME SlotInv, ClaimInv, NEW c \in Coros, pc[c] \in {"idle", "grant"},
           GiveSlot(c), Goto(c, "reserved"), UNCHANGED <<lk, job>>,
           w'.lock = w.lock, w'.owner = c, w'.syncWaiting = w.syncWaiting,
           w.lock \in w'.locked, Tidy(w'), w'.wstate[c] = "none",
           \A d \in Coros \ {c} : KeepsState(d)
    PROVE  ClaimInv'
<1>1. /\ slot' = [slot EXCEPT ![c] = [lock |-> w.lock, state |-> "held"]]
      /\ pc'[c] = "reserved" /\ c \in Actors /\ c # None
      /\ \A b \in Actors \ {c} : pc'[b] = pc[b]
      /\ lk' = lk /\ job' = job
  BY ClaimFacts DEF GiveSlot, Goto
<1>2. Attended(w')
  BY DEF Attended
<1>3. Counted'
  BY <1>1, CountKept, ClaimFacts DEF InWait
<1>4. Queued'
  <2>1. \A d \in Coros : Placed(d) \/ (KeepsState(d) /\ pc'[d] = pc[d])
    BY <1>1, ClaimFacts DEF Placed
  <2> QED BY <2>1, QueuedKept DEF ClaimInv
<1>5. SlotPlaces'
  <2>1. \A d \in Coros : slot'[d].state = "held" =>
            pc'[d] \in SlotPc \/ (slot[d].state = "held" /\ pc'[d] = pc[d])
    BY <1>1, ClaimFacts DEF SlotPc
  <2>2. \A b \in Actors, d \in Coros : BeginsFor(b, d) => d # c
    BY <1>1 DEF BeginsFor, SlotInv, SlotUse
  <2>3. \A b \in Actors, d \in Coros : BeginsFor(b, d) => slot'[d] = slot[d]
    BY <1>1, <2>2, ClaimFacts
  <2>4. \A b \in Actors : pc'[b] = "begin" => pc[b] = "begin" /\ lk'[b] = lk[b]
    BY <1>1
  <2> QED BY <1>1, <2>1, <2>3, <2>4, PlacesKept, ClaimFacts DEF ClaimInv
<1>6. OwnerHolds'
  BY <1>1, ClaimFacts DEF OwnerHolds, Holders, Keeps
<1>7. Claimed'
  BY <1>1 DEF Claimed
<1> QED BY <1>2, <1>3, <1>4, <1>5, <1>6, <1>7 DEF ClaimInv

\* A free slot is taken by the coroutine that asks for it.
LEMMA ReserveFreeClaims ==
    ASSUME SlotInv, ClaimInv, NEW c \in Coros, ReserveFree(c)
    PROVE  ClaimInv'
<1> DEFINE r == ReclaimDeadPending(w)
           k == r.locked \cup {r.lock}
           m == {c}
<1>1. /\ r \in WriterStates /\ Coherent(r) /\ Tidy(r) /\ Moved(w, r)
  BY ClaimFacts, ReclaimCoherent, ReclaimTidy
<1>2. /\ w' = [r EXCEPT !.locked = k, !.owner = c, !.marked = m]
      /\ pc[c] = "idle" /\ GiveSlot(c) /\ Goto(c, "reserved") /\ UNCHANGED <<lk, job>>
  BY DEF ReserveFree, MayReserve
<1> HIDE DEF r, m
<1>3. /\ w'.lock = w.lock /\ w'.owner = c /\ w'.syncWaiting = w.syncWaiting
      /\ w'.pending = r.pending /\ w'.locked = k /\ w'.waiters = r.waiters
      /\ w'.wstate = r.wstate /\ w'.wlock = r.wlock /\ r.lock = w.lock
  BY <1>1, <1>2 DEF WriterStates, Moved
<1>4. Tidy(w') /\ w.lock \in w'.locked
  BY <1>1, <1>3 DEF Tidy
<1>5. \A d \in Coros : KeepsState(d)
  BY <1>1, <1>3 DEF Moved, MovedOn, KeepsState
<1>6. w'.wstate[c] = "none"
  BY <1>2, <1>5 DEF ClaimInv, Queued, KeepsState
<1> QED BY <1>2, <1>3, <1>4, <1>5, <1>6, NewHolderClaims

\* The granted coroutine turns the handoff into a hold.
LEMMA GrantedClaims ==
    ASSUME SlotInv, ClaimInv, NEW c \in Coros, Granted(c)
    PROVE  ClaimInv'
<1> DEFINE ws == [w.wstate EXCEPT ![c] = "none"]
           wl == [w.wlock EXCEPT ![c] = 0]
           m == {c}
<1>1. /\ pc[c] = "grant" /\ w.wstate[c] = "granted" /\ w.pending = c
      /\ w.lock \in w.locked
      /\ GiveSlot(c) /\ Goto(c, "reserved") /\ UNCHANGED <<lk, job>>
  BY ClaimFacts DEF Granted, StillGranted, Coherent
<1>2. w' = [w EXCEPT !.wstate = ws, !.wlock = wl, !.pending = None,
                     !.owner = c, !.marked = m]
  BY <1>1, ClaimFacts DEF Granted, Drop, WriterStates
<1>3. ws[c] = "none" /\ \A d \in Coros : d # c => ws[d] = w.wstate[d]
  BY ClaimFacts DEF WriterStates
<1> HIDE DEF ws, wl, m
<1>4. /\ w'.lock = w.lock /\ w'.owner = c /\ w'.syncWaiting = w.syncWaiting
      /\ w'.pending = None /\ w'.locked = w.locked /\ w'.waiters = w.waiters
      /\ w'.wstate = ws
  BY <1>2, ClaimFacts DEF WriterStates
<1>5. \A i \in 1 .. Len(w.waiters) : w.waiters[i] \in Coros /\ w.waiters[i] # c
  <2>1. \A i \in 1 .. Len(w.waiters) : w.waiters[i] \in Coros
    BY ElementOfSeq, ClaimFacts DEF WriterStates
  <2> QED BY <1>1, <2>1, ClaimFacts DEF Tidy
<1>6. Tidy(w')
  BY <1>3, <1>4, <1>5, ClaimFacts DEF Tidy
<1>7. \A d \in Coros \ {c} : KeepsState(d)
  BY <1>3, <1>4 DEF KeepsState
<1> QED BY <1>1, <1>3, <1>4, <1>6, <1>7, NewHolderClaims

\* The end of a hold: the slot is given up, or was not the current one.
LEMMA EndClaims ==
    ASSUME SlotInv, ClaimInv, NEW a \in Actors, NEW l \in Locks,
           w' = ReleaseHold(w, l), l = w.lock <=> a \in Holders,
           slot' = [c \in Coros |-> IF c = a THEN NoSlot ELSE slot[c]],
           Finish(a), pc[a] \in {"holding", "wsRelease"}
    PROVE  ClaimInv'
<1>1. /\ pc'[a] = "idle"
      /\ \A b \in Actors \ {a} : pc'[b] = pc[b] /\ lk'[b] = lk[b]
      /\ \A t \in Threads : job'[t] = job[t] \/ job'[t] = None
  BY ClaimFacts DEF Finish, Goto
<1>2. l = w.lock => w.owner = a
  BY DEF SlotInv, OneWriter
<1>3. /\ l = w.lock => /\ Tidy(w') /\ HandedOrFree(w') /\ Attended(w')
                       /\ w'.lock = w.lock /\ w'.owner = None
                       /\ w'.syncWaiting = w.syncWaiting
                       /\ \A c \in Coros : MovedOn(w, w', c)
      /\ l # w.lock => w' = w
  BY <1>2, ClaimFacts, ReleaseHoldTidy
<1>4. /\ Tidy(w') /\ Attended(w') /\ w'.lock = w.lock /\ w'.syncWaiting = w.syncWaiting
      /\ \A c \in Coros : KeepsState(c)
  BY <1>3, ClaimFacts DEF MovedOn, KeepsState
<1>5. Counted'
  BY <1>1, <1>4, CountKept, ClaimFacts DEF InWait
<1>6. Queued'
  <2>1. a \in Coros => Placed(a)
    BY <1>4 DEF ClaimInv, Queued, Placed, KeepsState
  <2>2. \A c \in Coros : Placed(c) \/ (KeepsState(c) /\ pc'[c] = pc[c])
    BY <1>1, <1>4, <2>1, ClaimFacts
  <2> QED BY <2>2, QueuedKept DEF ClaimInv
<1>7. SlotPlaces'
  <2>1. \A c \in Coros : slot'[c].state = "held" => slot[c].state = "held" /\ pc'[c] = pc[c]
    BY <1>1, ClaimFacts DEF NoSlot
  <2>2. \A b \in Actors, c \in Coros : BeginsFor(b, c) => c # a
    BY ClaimFacts DEF BeginsFor, SlotInv, SlotUse
  <2>3. \A b \in Actors, c \in Coros : BeginsFor(b, c) => slot'[c] = slot[c]
    BY <2>2
  <2>4. \A b \in Actors : pc'[b] = "begin" => pc[b] = "begin" /\ lk'[b] = lk[b]
    BY <1>1
  <2> QED BY <1>1, <2>1, <2>3, <2>4, PlacesKept, ClaimFacts DEF ClaimInv
<1>8. CASE l = w.lock
  <2>1. OwnerHolds' /\ Claimed'
    BY <1>3, <1>8 DEF OwnerHolds, Claimed, HandedOrFree
  <2> QED BY <1>4, <1>5, <1>6, <1>7, <2>1 DEF ClaimInv
<1>9. CASE l # w.lock
  <2>1. w' = w /\ a \notin Holders
    BY <1>3, <1>9
  <2>2. \A b \in Actors : Writes(b) => pc'[b] \in {"begin", "holding"} /\ lk'[b] = lk[b]
    BY <1>1, <2>1 DEF Writes, Holders
  <2>3. \A c \in Coros : Keeps(c) => slot'[c] = slot[c]
    BY <2>1 DEF Holders
  <2>4. OwnerHolds'
    BY <2>1, <2>2, <2>3, OwnerKept DEF ClaimInv
  <2>5. \A b \in Actors : InFlight(b) => InFlight(b)' /\ lk'[b] = lk[b]
    BY <1>1 DEF InFlight
  <2>6. Claimed'
    BY <2>1, <2>5, ClaimKept DEF ClaimInv
  <2> QED BY <1>4, <1>5, <1>6, <1>7, <2>4, <2>6 DEF ClaimInv
<1> QED BY <1>8, <1>9

\* The end of a transaction.
LEMMA ReleaseClaims ==
    ASSUME SlotInv, ClaimInv, NEW a \in Actors, Release(a)
    PROVE  ClaimInv'
<1>1. /\ pc[a] = "holding" /\ w' = ReleaseHold(w, lk[a]) /\ Finish(a)
      /\ slot' = [c \in Coros |-> IF c = a THEN NoSlot ELSE slot[c]]
      /\ lk[a] \in Locks
  BY ClaimFacts DEF Release
<1>2. a \in Coros => ~Keeps(a)
  BY <1>1 DEF Keeps, ClaimInv, SlotPlaces
<1>3. lk[a] = w.lock <=> a \in Holders
  BY <1>1, <1>2 DEF Holders, Writes
<1> QED BY <1>1, <1>3, EndClaims

\* A slot given back unused.
LEMMA ReleaseSlotClaims ==
    ASSUME SlotInv, ClaimInv, NEW c \in Coros, ReleaseSlot(c)
    PROVE  ClaimInv'
<1>1. /\ pc[c] = "wsRelease" /\ w' = ReleaseHold(w, slot[c].lock) /\ Finish(c)
      /\ slot' = [slot EXCEPT ![c] = NoSlot] /\ slot[c].lock \in Locks
      /\ c \in Actors
  BY ClaimFacts DEF ReleaseSlot
<1>2. slot[c].lock = w.lock <=> c \in Holders
  BY <1>1, ClaimFacts DEF Holders, Keeps, Writes, SlotInv, SlotUse
<1>3. slot' = [d \in Coros |-> IF d = c THEN NoSlot ELSE slot[d]]
  BY <1>1, ClaimFacts
<1> QED BY <1>1, <1>2, <1>3, EndClaims

\* Steps around a transaction or a job that leave the record and the locks alone.
LEMMA TaskClaims ==
    ASSUME SlotInv, ClaimInv, Config, NEW a \in Actors,
           BeginSucceeds(a) \/ (a \in Coros /\ (JobEnded(a) \/ ReleaseSlotCheck(a)))
    PROVE  ClaimInv'
<1>1. /\ w' = w /\ lk' = lk /\ job' = job
      /\ \A b \in Actors \ {a} : pc'[b] = pc[b]
      /\ \/ pc[a] = "begin" /\ pc'[a] = "holding" /\ slot' = slot
         \/ /\ a \in Coros /\ pc[a] \in {"reserved", "lent"}
            /\ pc'[a] \in {"reserved", "wsRelease", "idle"}
            /\ \A c \in Coros \ {a} : slot'[c] = slot[c]
            /\ slot'[a].state = "held" => slot'[a] = slot[a] /\ pc'[a] \in SlotPc
            /\ slot[a].state = "held" => slot'[a] = slot[a]
            /\ \A t \in Threads : job[t] # a
  <2>1. CASE BeginSucceeds(a)
    BY <2>1, ClaimFacts DEF BeginSucceeds, Goto
  <2>2. CASE a \in Coros /\ JobEnded(a)
    BY <2>2, ClaimFacts DEF JobEnded, Goto, SlotPc, NoSlot
  <2>3. CASE a \in Coros /\ ReleaseSlotCheck(a)
    BY <2>3, ClaimFacts DEF ReleaseSlotCheck, Goto, Config, SlotPc, SlotInv, SlotUse
  <2> QED BY <2>1, <2>2, <2>3
<1>2. Counted'
  BY <1>1, CountKept, ClaimFacts DEF InWait
<1>3. Queued'
  <2>1. \A c \in Coros : Placed(c) \/ (KeepsState(c) /\ pc'[c] = pc[c])
    BY <1>1, ClaimFacts DEF ClaimInv, Queued, Placed, KeepsState
  <2> QED BY <2>1, QueuedKept DEF ClaimInv
<1>4. SlotPlaces'
  <2>1. \A c \in Coros : slot'[c].state = "held" =>
            pc'[c] \in SlotPc \/ (slot[c].state = "held" /\ pc'[c] = pc[c])
    BY <1>1, ClaimFacts DEF ClaimInv, SlotPlaces
  <2>2. \A b \in Actors, c \in Coros : BeginsFor(b, c) /\ pc'[b] = "begin" => slot'[c] = slot[c]
    BY <1>1, ClaimFacts DEF BeginsFor
  <2>3. \A b \in Actors : pc'[b] = "begin" => pc[b] = "begin" /\ lk'[b] = lk[b]
    BY <1>1
  <2> QED BY <1>1, <2>1, <2>2, <2>3, PlacesKept, ClaimFacts DEF ClaimInv
<1>5. OwnerHolds'
  <2>1. \A b \in Actors : Writes(b) => pc'[b] \in {"begin", "holding"} /\ lk'[b] = lk[b]
    BY <1>1 DEF Writes
  <2>2. \A c \in Coros : Keeps(c) => slot'[c] = slot[c]
    BY <1>1 DEF Keeps
  <2> QED BY <1>1, <2>1, <2>2, OwnerKept DEF ClaimInv
<1>6. Claimed'
  <2>1. \A b \in Actors : InFlight(b) => InFlight(b)' /\ lk'[b] = lk[b]
    BY <1>1 DEF InFlight
  <2> QED BY <1>1, <2>1, ClaimKept DEF ClaimInv
<1> QED BY <1>1, <1>2, <1>3, <1>4, <1>5, <1>6, ClaimFacts DEF ClaimInv

\* A thread is started on the slot of a task that is not on any other thread.
LEMMA HandOverClaims ==
    ASSUME SlotInv, ClaimInv, NEW c \in Coros, NEW t \in Threads, HandOver(c, t)
    PROVE  ClaimInv'
<1> DEFINE m == IF c \in w.marked THEN w.marked \cup {t} ELSE w.marked
<1>1. /\ pc[c] = "reserved" /\ pc[t] = "idle" /\ c # t /\ c \in Actors /\ t \in Actors
      /\ pc'[c] = "lent" /\ pc'[t] = "job"
      /\ \A b \in Actors \ {c, t} : pc'[b] = pc[b]
      /\ job' = [job EXCEPT ![t] = c] /\ lk' = lk /\ slot' = slot
      /\ w' = [w EXCEPT !.marked = m]
  <2>1. c # t /\ c \in Actors /\ t \in Actors
    BY ActorsAssumption DEF Actors
  <2> QED BY <2>1, ClaimFacts DEF HandOver
<1> HIDE DEF m
<1>2. /\ w'.lock = w.lock /\ w'.owner = w.owner /\ w'.syncWaiting = w.syncWaiting
      /\ w'.pending = w.pending /\ w'.locked = w.locked /\ w'.waiters = w.waiters
      /\ w'.wstate = w.wstate /\ w'.wlock = w.wlock
  BY <1>1, ClaimFacts DEF WriterStates
<1>3. Tidy(w') /\ Attended(w')
  BY <1>2, ClaimFacts DEF Tidy, Attended
<1>4. Counted'
  BY <1>1, <1>2, CountKept, ClaimFacts DEF InWait
<1>5. Queued'
  <2>1. \A d \in Coros : Placed(d) \/ (KeepsState(d) /\ pc'[d] = pc[d])
    BY <1>1, <1>2, ClaimFacts, ActorsAssumption DEF ClaimInv, Queued, Placed, KeepsState
  <2> QED BY <2>1, QueuedKept DEF ClaimInv
<1>6. SlotPlaces'
  <2>1. \A u \in Threads : job[u] # c
    BY <1>1, ClaimFacts DEF SlotInv, SlotUse
  <2>2. \A u, v \in Threads : job'[u] # None /\ job'[u] = job'[v] => u = v
    BY <1>1, <2>1, ClaimFacts DEF ClaimInv, SlotPlaces
  <2>3. \A d \in Coros : slot'[d].state = "held" => pc'[d] \in {"reserved", "lent", "wsRelease"}
    BY <1>1, ClaimFacts, ActorsAssumption DEF ClaimInv, SlotPlaces
  <2>4. \A b \in Actors, d \in Coros : BeginsFor(b, d)' => BeginsFor(b, d)
    BY <1>1, ClaimFacts DEF BeginsFor
  <2>5. \A b \in Actors, d \in Coros :
            BeginsFor(b, d)' => slot'[d] = [lock |-> lk'[b], state |-> "taken"]
    BY <1>1, <2>4 DEF ClaimInv, SlotPlaces
  <2> QED BY <2>2, <2>3, <2>5 DEF SlotPlaces
<1>7. OwnerHolds'
  <2>1. \A b \in Actors : Writes(b) => pc'[b] \in {"begin", "holding"} /\ lk'[b] = lk[b]
    BY <1>1 DEF Writes
  <2> QED BY <1>1, <1>2, <2>1, OwnerKept DEF ClaimInv
<1>8. Claimed'
  <2>1. \A b \in Actors : InFlight(b) => InFlight(b)' /\ lk'[b] = lk[b]
    BY <1>1 DEF InFlight
  <2> QED BY <1>2, <2>1, ClaimKept DEF ClaimInv
<1> QED BY <1>3, <1>4, <1>5, <1>6, <1>7, <1>8 DEF ClaimInv

\* A transaction takes the slot it begins on.
LEMMA TakeSlotClaims ==
    ASSUME SlotInv, ClaimInv, NEW a \in Actors, NEW c \in Coros, TakeSlot(a, c)
    PROVE  ClaimInv'
<1> DEFINE m == IF a \in Coros THEN w.marked \cup {a} ELSE w.marked
<1>1. /\ \/ a = c /\ pc[c] = "reserved"
         \/ a \in Threads /\ a \notin Coros /\ pc[a] = "job" /\ job[a] = c
      /\ Keeps(c) /\ c \in Actors
      /\ slot'[c] = [lock |-> w.lock, state |-> "taken"]
      /\ \A d \in Coros \ {c} : slot'[d] = slot[d]
      /\ w' = [w EXCEPT !.owner = a, !.marked = m]
      /\ lk'[a] = w.lock /\ pc'[a] = "begin"
      /\ \A b \in Actors \ {a} : pc'[b] = pc[b] /\ lk'[b] = lk[b]
      /\ job' = job
  BY ClaimFacts, ActorsAssumption DEF TakeSlot, BeginsOn, Keeps, Goto
<1>2. w.lock \in w.locked
  BY <1>1 DEF SlotInv, OneWriter, Holders
<1> HIDE DEF m
<1>3. /\ w'.lock = w.lock /\ w'.owner = a /\ w'.syncWaiting = w.syncWaiting
      /\ w'.pending = w.pending /\ w'.locked = w.locked /\ w'.waiters = w.waiters
      /\ w'.wstate = w.wstate /\ w'.wlock = w.wlock
  BY <1>1, ClaimFacts DEF WriterStates
<1>4. Tidy(w') /\ Attended(w')
  BY <1>2, <1>3, ClaimFacts DEF Tidy, Attended
<1>5. Counted'
  BY <1>1, <1>3, CountKept, ClaimFacts DEF InWait
<1>6. Queued'
  <2>1. \A d \in Coros : Placed(d) \/ (KeepsState(d) /\ pc'[d] = pc[d])
    BY <1>1, <1>3, ClaimFacts DEF ClaimInv, Queued, Placed, KeepsState
  <2> QED BY <2>1, QueuedKept DEF ClaimInv
<1>7. SlotPlaces'
  <2>1. \A d \in Coros : slot'[d].state = "held" => pc'[d] \in {"reserved", "lent", "wsRelease"}
    BY <1>1, ClaimFacts DEF ClaimInv, SlotPlaces
  <2>2. \A u, v \in Threads : job'[u] # None /\ job'[u] = job'[v] => u = v
    BY <1>1 DEF ClaimInv, SlotPlaces
  <2>3. ASSUME NEW b \in Actors, NEW d \in Coros, BeginsFor(b, d)'
        PROVE  slot'[d] = [lock |-> lk'[b], state |-> "taken"]
    <3>1. CASE b = a
      <4>1. d = c
        BY <1>1, <2>3, <3>1, ActorsAssumption DEF BeginsFor
      <4> QED BY <1>1, <3>1, <4>1
    <3>2. CASE b # a
      <4>1. BeginsFor(b, d) /\ lk'[b] = lk[b]
        BY <1>1, <2>3, <3>2 DEF BeginsFor
      <4>2. slot[d] = [lock |-> lk[b], state |-> "taken"]
        BY <4>1 DEF ClaimInv, SlotPlaces
      <4>3. d # c
        BY <1>1, <4>2 DEF Keeps
      <4> QED BY <1>1, <4>1, <4>2, <4>3
    <3> QED BY <3>1, <3>2
  <2> QED BY <2>1, <2>2, <2>3 DEF SlotPlaces
<1>8. OwnerHolds'
  BY <1>1, <1>3 DEF OwnerHolds, Holders, Writes
<1>9. Claimed'
  BY <1>3, ClaimFacts DEF Claimed
<1> QED BY <1>4, <1>5, <1>6, <1>7, <1>8, <1>9 DEF ClaimInv

\* A slot already used, or from before a close or a fork, is refused.
LEMMA TakeSlotRefusedClaims ==
    ASSUME SlotInv, ClaimInv, NEW a \in Actors, NEW c \in Coros, TakeSlotRefused(a, c)
    PROVE  ClaimInv'
<1>1. /\ \/ a = c /\ pc[a] = "reserved"
         \/ a \in Threads /\ a \notin Coros /\ pc[a] = "job"
      /\ ~Keeps(c) /\ w' = w /\ Finish(a)
      /\ slot'[c].state # "held" /\ (slot[c].state # "held" => slot'[c] = slot[c])
      /\ \A d \in Coros \ {c} : slot'[d] = slot[d]
  BY ClaimFacts, ActorsAssumption DEF TakeSlotRefused, BeginsOn, Keeps, NoSlot
<1>2. /\ pc'[a] = "idle"
      /\ \A b \in Actors \ {a} : pc'[b] = pc[b] /\ lk'[b] = lk[b]
      /\ \A t \in Threads : job'[t] = job[t] \/ job'[t] = None
  BY <1>1, ClaimFacts DEF Finish, Goto
<1>3. Counted'
  BY <1>1, <1>2, CountKept, ClaimFacts DEF InWait
<1>4. Queued'
  <2>1. \A d \in Coros : Placed(d) \/ (KeepsState(d) /\ pc'[d] = pc[d])
    BY <1>1, <1>2, ClaimFacts DEF ClaimInv, Queued, Placed, KeepsState
  <2> QED BY <2>1, QueuedKept DEF ClaimInv
<1>5. SlotPlaces'
  <2>1. \A d \in Coros : slot'[d].state = "held" => slot[d].state = "held" /\ pc'[d] = pc[d]
    BY <1>1, <1>2, ClaimFacts
  <2>2. ASSUME NEW b \in Actors, NEW d \in Coros, BeginsFor(b, d)
        PROVE  slot'[d] = slot[d]
    <3>1. slot[d] = [lock |-> lk[b], state |-> "taken"]
      BY <2>2 DEF ClaimInv, SlotPlaces
    <3>2. slot[d].state # "held"
      BY <3>1
    <3> QED BY <1>1, <3>2
  <2>3. \A b \in Actors : pc'[b] = "begin" => pc[b] = "begin" /\ lk'[b] = lk[b]
    BY <1>2
  <2> QED BY <1>2, <2>1, <2>2, <2>3, PlacesKept, ClaimFacts DEF ClaimInv
<1>6. OwnerHolds'
  <2>1. \A b \in Actors : Writes(b) => pc'[b] \in {"begin", "holding"} /\ lk'[b] = lk[b]
    BY <1>1, <1>2 DEF Writes
  <2>2. \A d \in Coros : Keeps(d) => slot'[d] = slot[d]
    BY <1>1
  <2> QED BY <1>1, <2>1, <2>2, OwnerKept DEF ClaimInv
<1>7. Claimed'
  <2>1. \A b \in Actors : InFlight(b) => InFlight(b)' /\ lk'[b] = lk[b]
    BY <1>1, <1>2 DEF InFlight
  <2> QED BY <1>1, <2>1, ClaimKept DEF ClaimInv
<1> QED BY <1>1, <1>3, <1>4, <1>5, <1>6, <1>7, ClaimFacts DEF ClaimInv

\* A begin that failed gives the slot back to the task it was given to.
LEMMA BeginFailsClaims ==
    ASSUME SlotInv, ClaimInv, NEW a \in Actors, NEW c \in Coros, BeginFails(a, c)
    PROVE  ClaimInv'
<1>1. /\ BeginsFor(a, c) /\ c \in Actors /\ pc[a] = "begin"
      /\ slot[c] = [lock |-> lk[a], state |-> "taken"]
      /\ a # c => a \in Threads /\ a \notin Coros /\ job[a] = c /\ pc[c] = "lent"
      /\ \A d \in Coros \ {c} : slot'[d] = slot[d]
      /\ \A b \in Actors \ {a} : pc'[b] = pc[b] /\ lk'[b] = lk[b]
      /\ \A t \in Threads : job'[t] = job[t] \/ job'[t] = None
      /\ pc'[a] \in {"reserved", "idle"}
  <2>1. BeginsFor(a, c) /\ c \in Actors
    BY ClaimFacts DEF BeginFails, BeginsFor
  <2>2. slot[c] = [lock |-> lk[a], state |-> "taken"]
    BY <2>1 DEF ClaimInv, SlotPlaces
  <2>3. a # c => a \in Threads /\ a \notin Coros /\ job[a] = c /\ pc[c] = "lent"
    BY <2>1, ClaimFacts, ActorsAssumption DEF BeginsFor, SlotInv, SlotUse
  <2>4. \/ Goto(a, "reserved") /\ UNCHANGED <<lk, job>>
        \/ Finish(a)
    BY DEF BeginFails
  <2>5. \A d \in Coros \ {c} : slot'[d] = slot[d]
    BY ClaimFacts DEF BeginFails
  <2> QED BY <2>1, <2>2, <2>3, <2>4, <2>5, ClaimFacts DEF Goto, Finish, BeginsFor
<1>2. /\ w'.lock = w.lock /\ w'.syncWaiting = w.syncWaiting
      /\ w'.pending = w.pending /\ w'.locked = w.locked /\ w'.waiters = w.waiters
      /\ w'.wstate = w.wstate /\ w'.wlock = w.wlock
      /\ lk[a] # w.lock => w' = w
  BY ClaimFacts DEF BeginFails, WriterStates
<1>3. Tidy(w') /\ Attended(w')
  BY <1>2, ClaimFacts DEF Tidy, Attended
<1>4. Counted'
  BY <1>1, <1>2, CountKept, ClaimFacts DEF InWait
<1>5. Queued'
  <2>1. \A d \in Coros : Placed(d) \/ (KeepsState(d) /\ pc'[d] = pc[d])
    BY <1>1, <1>2, ClaimFacts DEF ClaimInv, Queued, Placed, KeepsState
  <2> QED BY <2>1, QueuedKept DEF ClaimInv
<1>6. slot'[c].state = "held" => pc'[c] \in SlotPc
  <2>1. CASE a # c
    BY <1>1, <2>1 DEF SlotPc
  <2>2. CASE a = c /\ lk[a] = w.lock
    BY <1>1, <2>2, ClaimFacts DEF BeginFails, Goto, SlotPc
  <2>3. CASE a = c /\ lk[a] # w.lock
    BY <2>3, ClaimFacts DEF BeginFails, NoSlot
  <2> QED BY <2>1, <2>2, <2>3
<1>7. SlotPlaces'
  <2>1. \A d \in Coros : slot'[d].state = "held" =>
            pc'[d] \in SlotPc \/ (slot[d].state = "held" /\ pc'[d] = pc[d])
    BY <1>1, <1>6, ClaimFacts
  <2>2. ASSUME NEW b \in Actors, NEW d \in Coros, BeginsFor(b, d), pc'[b] = "begin"
        PROVE  slot'[d] = slot[d]
    <3>1. b # a
      BY <1>1, <2>2
    <3>2. d # c
      <4>1. CASE a = c
        BY <1>1, <2>2, <3>1, <4>1, ClaimFacts DEF BeginsFor, SlotInv, SlotUse
      <4>2. CASE a # c
        BY <1>1, <2>2, <3>1, <4>2, ClaimFacts DEF BeginsFor, ClaimInv, SlotPlaces
      <4> QED BY <4>1, <4>2
    <3> QED BY <1>1, <3>2
  <2>3. \A b \in Actors : pc'[b] = "begin" => pc[b] = "begin" /\ lk'[b] = lk[b]
    BY <1>1
  <2> QED BY <1>1, <2>1, <2>2, <2>3, PlacesKept, ClaimFacts DEF ClaimInv
<1>8. \A b \in Actors : InFlight(b) => InFlight(b)' /\ lk'[b] = lk[b]
  BY <1>1 DEF InFlight
<1>9. CASE lk[a] = w.lock
  <2>1. w'.owner = c
    BY <1>9, ClaimFacts DEF BeginFails, WriterStates
  <2>2. slot'[c] = [lock |-> w.lock, state |-> "held"]
    BY <1>1, <1>9, ClaimFacts DEF BeginFails
  <2>3. OwnerHolds'
    BY <1>1, <1>2, <2>1, <2>2 DEF OwnerHolds, Holders, Keeps
  <2>4. Claimed'
    BY <2>1, ClaimFacts DEF Claimed
  <2> QED BY <1>3, <1>4, <1>5, <1>7, <2>3, <2>4 DEF ClaimInv
<1>10. CASE lk[a] # w.lock
  <2>1. \A b \in Actors : Writes(b) => pc'[b] \in {"begin", "holding"} /\ lk'[b] = lk[b]
    BY <1>1, <1>10 DEF Writes
  <2>2. slot[c].state # "held"
    BY <1>1
  <2>3. \A d \in Coros : Keeps(d) => slot'[d] = slot[d]
    BY <1>1, <2>2 DEF Keeps
  <2>4. OwnerHolds'
    BY <1>2, <1>10, <2>1, <2>3, OwnerKept DEF ClaimInv
  <2>5. Claimed'
    BY <1>2, <1>8, <1>10, ClaimKept DEF ClaimInv
  <2> QED BY <1>3, <1>4, <1>5, <1>7, <2>4, <2>5 DEF ClaimInv
<1> QED BY <1>9, <1>10

\* A fresh lock is free and nobody's.
LEMMA FreshLock ==
    ASSUME SlotInv, w'.lock = w.lock + 1, w'.locked \subseteq w.locked,
           w'.owner = None, w'.pending = None, w'.waiters = <<>>
    PROVE  Tidy(w') /\ Attended(w') /\ OwnerHolds' /\ Claimed'
<1>1. Len(w'.waiters) = 0
  BY EmptySeq
<1>2. Tidy(w')
  BY <1>1 DEF Tidy
<1>3. w'.lock \notin w'.locked
  <2>1. w.lock \in Int /\ w.locked \subseteq Int /\ \A l \in w.locked : l <= w.lock
    BY Facts, BoundAssumption DEF WriterStates, Locks, SlotInv, Bounded
  <2> QED BY <2>1
<1> QED BY <1>2, <1>3 DEF Attended, OwnerHolds, Claimed

\* close: the queue is told, the counted callers still count themselves.
LEMMA CloseClaims ==
    ASSUME SlotInv, ClaimInv, Close
    PROVE  ClaimInv'
<1> DEFINE k == IF w.owner # None \/ w.pending # None THEN w.locked \ {w.lock} ELSE w.locked
           ws == CloseWaiters(w)
           n == w.lock + 1
           e == <<>>
           m == {}
<1>1. /\ w' = [w EXCEPT !.lock = n, !.locked = k, !.owner = None, !.marked = m,
                        !.pending = None, !.waiters = e, !.wstate = ws, !.bargeNext = FALSE]
      /\ UNCHANGED <<pc, lk, slot, job>>
  BY ClaimFacts DEF Close, WriterStates
<1>2. \A c \in Coros : ws[c] = w.wstate[c] \/ (w.wstate[c] # "none" /\ ws[c] = "closed")
  BY ClaimFacts DEF CloseWaiters, Tidy
<1> HIDE DEF k, ws, n, e, m
<1>3. /\ w'.lock = n /\ w'.locked = k /\ w'.owner = None /\ w'.pending = None
      /\ w'.waiters = e /\ w'.wstate = ws /\ w'.syncWaiting = w.syncWaiting
  BY <1>1, ClaimFacts DEF WriterStates
<1>4. Tidy(w') /\ Attended(w') /\ OwnerHolds' /\ Claimed'
  BY <1>3, FreshLock DEF n, k, e
<1>5. Counted'
  BY <1>1, <1>3, CountKept, ClaimFacts
<1>6. Queued'
  <2>1. \A c \in Coros : KeepsState(c) /\ pc'[c] = pc[c]
    BY <1>1, <1>2, <1>3 DEF KeepsState
  <2> QED BY <2>1, QueuedKept DEF ClaimInv
<1>7. SlotPlaces'
  BY <1>1, PlacesKept, ClaimFacts DEF ClaimInv
<1> QED BY <1>4, <1>5, <1>6, <1>7 DEF ClaimInv

\* fork: only the caller is left, and it does not wait.
LEMMA ForkClaims ==
    ASSUME SlotInv, ClaimInv, NEW a \in Actors, Fork(a)
    PROVE  ClaimInv'
<1> DEFINE ws == [c \in Coros |-> "none"]
           wl == [c \in Coros |-> 0]
           n == w.lock + 1
           z == 0
           e == <<>>
           m == {}
<1>1. /\ w' = [w EXCEPT !.lock = n, !.owner = None, !.marked = m, !.pending = None,
                        !.waiters = e, !.wstate = ws, !.wlock = wl,
                        !.syncWaiting = z, !.bargeNext = FALSE]
      /\ pc[a] \in {"idle", "holding", "reserved"}
      /\ \A b \in Actors : pc'[b] = IF b = a THEN pc[a] ELSE "idle"
      /\ \A c \in Coros : slot'[c] = IF c = a THEN slot[c] ELSE NoSlot
      /\ \A t \in Threads : job'[t] = None
  BY ClaimFacts DEF Fork, WriterStates
<1>2. \A c \in Coros : ws[c] = "none"
  OBVIOUS
<1> HIDE DEF ws, wl, n, z, e, m
<1>3. /\ w'.lock = n /\ w'.locked = w.locked /\ w'.owner = None /\ w'.pending = None
      /\ w'.waiters = e /\ w'.wstate = ws /\ w'.syncWaiting = z
  BY <1>1, ClaimFacts DEF WriterStates
<1>4. Tidy(w') /\ Attended(w') /\ OwnerHolds' /\ Claimed'
  BY <1>3, FreshLock DEF n, e
<1>5. Counted'
  <2>1. Waiting' = {}
    BY <1>1 DEF Waiting
  <2>2. IsFiniteSet({}) /\ Cardinality({}) = 0
    BY FS_EmptySet
  <2> QED BY <1>3, <2>1, <2>2 DEF Counted, z
<1>6. Queued'
  BY <1>2, <1>3 DEF Queued
<1>7. SlotPlaces'
  <2>1. \A c \in Coros : slot'[c].state = "held" => pc'[c] \in {"reserved", "lent", "wsRelease"}
    BY <1>1, ClaimFacts DEF NoSlot, ClaimInv, SlotPlaces
  <2>2. \A b \in Actors, c \in Coros : ~BeginsFor(b, c)'
    BY <1>1 DEF BeginsFor
  <2> QED BY <1>1, <2>1, <2>2 DEF SlotPlaces
<1> QED BY <1>4, <1>5, <1>6, <1>7 DEF ClaimInv

-----------------------------------------------------------------------------

\* Nobody claims a slot that was just built.
LEMMA InitClaims == ASSUME Init PROVE ClaimInv
<1>1. Len(<<>>) = 0 /\ IsFiniteSet({}) /\ Cardinality({}) = 0
  BY EmptySeq, FS_EmptySet
<1>2. Tidy(w) /\ Attended(w)
  BY <1>1 DEF Init, Tidy, Attended
<1>3. Counted
  <2>1. Waiting = {}
    BY DEF Init, Waiting
  <2> QED BY <1>1, <2>1 DEF Init, Counted
<1>4. Queued
  BY DEF Init, Queued
<1>5. SlotPlaces
  BY ActorsAssumption DEF Init, SlotPlaces, BeginsFor, NoSlot, Actors
<1>6. OwnerHolds /\ Claimed
  BY DEF Init, OwnerHolds, Claimed
<1> QED BY <1>2, <1>3, <1>4, <1>5, <1>6 DEF ClaimInv

\* Every step of the slot keeps the claims on it.
LEMMA NextClaims ==
    ASSUME SlotInv, ClaimInv, Config, [Next]_vars
    PROVE  ClaimInv'
<1>1. ASSUME NEW a \in Actors, ActorStep(a)
      PROVE  ClaimInv'
  <2>1. CASE AcquireBegin(a) \/ TryBusy(a) \/ BeginSucceeds(a)
    BY <2>1, QuietClaims, TaskClaims
  <2>2. CASE TryTake(a) \/ BlockedTake(a)
    BY <2>2, TakeClaims
  <2>3. CASE CountWaiting(a) \/ WaitGivesUp(a)
    BY <2>3, CountWaitingClaims, WaitGivesUpClaims
  <2>4. CASE RecordHold(a) \/ RecordStale(a) \/ GiveBackStale(a)
    BY <2>4, RecordHoldClaims, RecordStaleClaims, GiveBackClaims
  <2>5. CASE Release(a) \/ Fork(a)
    BY <2>5, ReleaseClaims, ForkClaims
  <2> QED BY <1>1, <2>1, <2>2, <2>3, <2>4, <2>5 DEF ActorStep
<1>2. ASSUME NEW c \in Coros, CoroStep(c)
      PROVE  ClaimInv'
  <2>1. c \in Actors
    BY DEF Actors
  <2>2. CASE ReserveFree(c) \/ ReserveQueue(c)
    BY <2>2, ReserveFreeClaims, ReserveQueueClaims
  <2>3. CASE GiveUp(c, "timeout") \/ GiveUp(c, "cancel") \/ WakeUp(c) \/ LateGrant(c)
    BY <2>1, <2>3, QuietClaims
  <2>4. CASE LeaveQueue(c) \/ PassOn(c)
    BY <2>4, LeaveQueueClaims, PassOnClaims
  <2>5. CASE Granted(c) \/ GrantClosed(c)
    BY <2>5, GrantedClaims, GrantClosedClaims
  <2>6. CASE JobEnded(c) \/ ReleaseSlotCheck(c)
    BY <2>1, <2>6, TaskClaims
  <2>7. CASE ReleaseSlot(c)
    BY <2>7, ReleaseSlotClaims
  <2> QED BY <1>2, <2>2, <2>3, <2>4, <2>5, <2>6, <2>7 DEF CoroStep
<1>3. ASSUME NEW a \in Actors, NEW c \in Coros, SlotStep(a, c)
      PROVE  ClaimInv'
  BY <1>3, TakeSlotClaims, TakeSlotRefusedClaims, BeginFailsClaims DEF SlotStep
<1>4. ASSUME NEW t \in Threads, AcquireNested(t)
      PROVE  ClaimInv'
  <2>1. t \in Actors
    BY DEF Actors
  <2> QED BY <1>4, <2>1, QuietClaims
<1>5. CASE UNCHANGED <<w, pc, lk, slot, job>>
  <2>1. Counted' /\ Queued' /\ SlotPlaces'
    BY <1>5 DEF ClaimInv, Counted, Waiting, Queued, SlotPlaces, BeginsFor
  <2>2. OwnerHolds' /\ Claimed'
    BY <1>5 DEF ClaimInv, OwnerHolds, Holders, Writes, Keeps, Claimed, InFlight
  <2> QED BY <1>5, <2>1, <2>2, ClaimFacts DEF ClaimInv
<1>6. ASSUME NEW l \in Loops, CloseLoop(l)
      PROVE  ClaimInv'
  BY <1>5, <1>6 DEF CloseLoop
<1>7. CASE UNCHANGED vars
  BY <1>5, <1>7 DEF vars
<1> QED BY <1>1, <1>2, <1>3, <1>4, <1>6, <1>7, HandOverClaims, CloseClaims
        DEF Next, Config

\* The claims on the slot, with the invariant they stand on, hold of every behaviour
\* without the two races named by Config.
THEOREM ClaimsHold == ASSUME Config PROVE Spec => []SlotClaimInv
<1>1. Init => SlotClaimInv
  BY InitInv, InitClaims DEF SlotClaimInv
<1>2. SlotClaimInv /\ [Next]_vars => SlotClaimInv'
  BY NextInv, NextClaims DEF SlotClaimInv
<1> QED BY <1>1, <1>2, PTL DEF Spec

\* The claims add up: the current lock is locked for exactly one taker, owner or handoff.
LEMMA OneClaim ==
    ASSUME SlotClaimInv
    PROVE  NoLostSlot
<1> DEFINE takers == {a \in Actors : InFlight(a) /\ lk[a] = w.lock}
<1>1. SlotInv /\ ClaimInv
  BY DEF SlotClaimInv
<1>2. /\ w.owner # None => w.owner \in Holders
      /\ w.pending # None => w.wstate[w.pending] = "granted"
  BY <1>1 DEF ClaimInv, OwnerHolds, Tidy
<1>3. Cardinality({}) = 0 /\ \A a \in Actors : Cardinality({a}) = 1
  BY FS_EmptySet, FS_Singleton
<1>4. CASE takers = {}
  <2>1. w.lock \in w.locked <=> w.owner # None \/ w.pending # None
    BY <1>1, <1>4 DEF ClaimInv, Claimed, SlotInv, Coherent
  <2>2. ~(w.owner # None /\ w.pending # None)
    BY <1>1 DEF SlotInv, Coherent
  <2> QED BY <1>2, <1>3, <1>4, <2>1, <2>2 DEF NoLostSlot
<1>5. CASE takers # {}
  <2>1. PICK a \in Actors : InFlight(a) /\ lk[a] = w.lock
    BY <1>5
  <2>2. w.owner = None /\ w.pending = None /\ w.lock \in w.locked
    BY <1>1, <2>1 DEF SlotInv, TakersExclude
  <2>3. takers = {a}
    BY <1>1, <2>1 DEF SlotInv, TakersExclude
  <2> HIDE DEF takers
  <2>4. Cardinality(takers) = 1
    BY <1>3, <2>3
  <2> QED BY <1>2, <2>2, <2>4 DEF NoLostSlot, takers
<1> QED BY <1>4, <1>5

\* No slot is lost and none is freed twice, for any number of threads, coroutines, loops,
\* closes and forks: the current lock is locked exactly while one taker, the recorded
\* owner or a pending handoff is bound to give it up.
THEOREM NoSlotLost == ASSUME Config PROVE Spec => []NoLostSlot
<1>1. SlotClaimInv => NoLostSlot
  BY OneClaim
<1> QED BY <1>1, ClaimsHold, PTL

\* No queue is stranded: coroutines wait on a free slot only while a counted caller has
\* still to take it, or to give up and rescue them.
THEOREM NoQueueStranded == ASSUME Config PROVE Spec => []NoStrandedQueue
<1>1. SlotClaimInv => NoStrandedQueue
  <2> SUFFICES ASSUME SlotClaimInv, w.waiters # <<>>, w.lock \notin w.locked
               PROVE  \E a \in Actors : pc[a] \in {"blocked", "recordWaited"}
    BY DEF NoStrandedQueue
  <2>1. w.syncWaiting # 0 /\ w.syncWaiting = Cardinality(Waiting)
    BY DEF SlotClaimInv, ClaimInv, Attended, Counted
  <2>2. Waiting # {}
    BY <2>1, FS_EmptySet
  <2> QED BY <2>2 DEF Waiting
<1> QED BY <1>1, ClaimsHold, PTL

-------------------------------------------------------------------------------
(* Turns.                                                                  *)

\* The threads' turn is owed (_barge_next) only while the slot is a coroutine's, from
\* the grant to the release.
Owed(r) == r.bargeNext => r.owner # None \/ r.pending # None

\* The queue was passed over by a transaction that still runs; the end of it owes the
\* threads nothing, so it moves the queue.
TurnInv ==
    /\ bypass \in 0 .. 1
    /\ Owed(w)
    /\ bypass = 1 => w.owner # None /\ ~w.bargeNext

\* What a release of the slot leaves: the threads' turn is owed to a handoff only.
Served(s) == s.bargeNext => s.pending # None
Moving(s) == s.waiters = <<>> \/ s.pending # None

\* A handoff moves the queue.
LEMMA HandOffTurn ==
    ASSUME NEW r, Ownerless(r), Tidy(r)
    PROVE  Served(HandOff(r)) /\ Moving(HandOff(r))
<1> DEFINE n == Len(r.waiters)
           k == CHOOSE i \in LiveAt(r) : \A j \in LiveAt(r) : i <= j
<1>1. Moving(HandOff(r))
  BY HandOffTidy DEF HandedOrFree, Moving
<1>2. /\ n \in Nat /\ r \in WriterStates /\ LiveAt(r) \subseteq 1 .. n
      /\ \A i \in 1 .. n : r.waiters[i] \in Coros
  BY LenProperties, ElementOfSeq DEF Ownerless, WriterStates, LiveAt
<1>3. CASE LiveAt(r) = {}
  <2>1. HandOff(r) = Unlock(Skip(r, n + 1))
    BY <1>3 DEF HandOff
  <2>2. n + 1 \in 1 .. n + 1
    BY <1>2
  <2>3. Skip(r, n + 1) \in WriterStates
    BY <1>2, <2>2, SkipType
  <2> QED BY <1>1, <2>1, <2>3 DEF Unlock, WriterStates, Served
<1>4. CASE LiveAt(r) # {}
  <2>1. HandOff(r) = Grant(Skip(r, k), r.waiters[k])
    BY <1>4 DEF HandOff
  <2>2. k \in LiveAt(r)
    BY <1>2, <1>4, SmallestNat
  <2> HIDE DEF k
  <2>3. k \in 1 .. n /\ k \in 1 .. n + 1
    BY <1>2, <2>2
  <2>4. Skip(r, k) \in WriterStates /\ r.waiters[k] \in Coros /\ r.waiters[k] # None
    BY <1>2, <2>3, SkipType, ActorsAssumption DEF Actors
  <2>5. Grant(Skip(r, k), r.waiters[k]).pending = r.waiters[k]
    BY <2>4 DEF Grant, WriterStates
  <2> QED BY <1>1, <2>1, <2>4, <2>5 DEF Served
<1> QED BY <1>3, <1>4

\* A release moves the queue unless it is the threads' turn.
LEMMA ReleaseTurn ==
    ASSUME NEW r, Ownerless(r), Tidy(r)
    PROVE  /\ Served(ReleaseLocked(r))
           /\ ~r.bargeNext => Moving(ReleaseLocked(r))
<1>1. Served(Unlock(r)) /\ Unlock(r).waiters = r.waiters
  BY DEF Unlock, Ownerless, WriterStates, Served
<1> QED BY <1>1, HandOffTurn DEF ReleaseLocked, Moving

\* Passing on a dead grant owes the threads nothing but a new handoff.
LEMMA ReclaimTurn ==
    ASSUME NEW r \in WriterStates, Coherent(r), Tidy(r), Owed(r)
    PROVE  /\ Owed(ReclaimDeadPending(r))
           /\ r.owner # None => ReclaimDeadPending(r) = r
<1>1. r.owner # None => ReclaimDeadPending(r) = r
  BY ReclaimCoherent DEF Coherent
<1>2. CASE /\ r.pending # None
           /\ r.wstate[r.pending] = "granted"
           /\ Gone(r.pending)
  <2> DEFINE z == Revoke(r, r.pending)
  <2>1. r.pending \in Coros
    BY <1>2 DEF WriterStates
  <2>2. Ownerless(z) /\ Tidy(z)
    BY <1>2, <2>1, RevokeOwnerless, RevokeTidy
  <2>3. ReclaimDeadPending(r) = ReleaseLocked(z)
    BY <1>2 DEF ReclaimDeadPending, Tidy
  <2> HIDE DEF z
  <2> QED BY <1>1, <2>2, <2>3, ReleaseTurn DEF Served, Owed
<1>3. CASE ~(/\ r.pending # None
             /\ r.wstate[r.pending] = "granted"
             /\ Gone(r.pending))
  BY <1>1, <1>3 DEF ReclaimDeadPending
<1> QED BY <1>2, <1>3

\* The rescue of a queue is a handoff.
LEMMA RescueTurn ==
    ASSUME NEW r \in WriterStates, Coherent(r), Tidy(r), Owed(r)
    PROVE  /\ Owed(RescueQueue(r))
           /\ r.owner # None => RescueQueue(r) = r
<1>1. r.owner # None => RescueQueue(r) = r
  BY RescueCoherent DEF Coherent
<1>2. CASE r.waiters # <<>> /\ r.lock \notin r.locked
  <2> DEFINE z == [r EXCEPT !.locked = @ \cup {r.lock}]
  <2>1. Ownerless(z)
    BY <1>2, ActorsAssumption DEF WriterStates, Coherent, Ownerless, Actors
  <2>2. /\ z.lock = r.lock /\ z.pending = r.pending /\ z.waiters = r.waiters
        /\ z.wstate = r.wstate /\ z.wlock = r.wlock
    BY DEF WriterStates
  <2>3. RescueQueue(r) = HandOff(z)
    BY <1>2 DEF RescueQueue
  <2> HIDE DEF z
  <2>4. Tidy(z)
    BY <2>2 DEF Tidy
  <2> QED BY <1>1, <2>1, <2>3, <2>4, HandOffTurn DEF Served, Owed
<1>3. CASE ~(r.waiters # <<>> /\ r.lock \notin r.locked)
  BY <1>1, <1>3 DEF RescueQueue
<1> QED BY <1>2, <1>3

-----------------------------------------------------------------------------
(* Every step but a barging one, one lemma per kind of action: the turn    *)
(* stays owed to a claim, and a hold that owes no turn goes on or moves    *)
(* the queue.                                                              *)

KeepsTurn ==
    /\ Owed(w')
    /\ w.owner # None /\ ~w.bargeNext => QueueMoved \/ (w'.owner # None /\ ~w'.bargeNext)

\* A step that leaves the turn, the handoff and a hold alone.
LEMMA SameTurn ==
    ASSUME Owed(w), w'.bargeNext = w.bargeNext, w'.pending = w.pending,
           w.owner # None => w'.owner # None
    PROVE  KeepsTurn
BY DEF Owed, KeepsTurn

\* Only _held_by makes a caller of acquire the owner.
LEMMA NoBarge ==
    ASSUME pc \in [Actors -> PCs], NEW a \in Actors, NEW x,
           pc' = [pc EXCEPT ![a] = x],
           x = "holding" => pc[a] \notin {"record", "recordWaited"}
    PROVE  ~Barged
BY DEF Barged

\* Steps that move one caller and leave the record alone.
LEMMA QuietTurn ==
    ASSUME SlotInv, ClaimInv, Owed(w), NEW a \in Actors,
           \/ AcquireBegin(a) \/ TryBusy(a) \/ BeginSucceeds(a)
           \/ a \in Threads /\ AcquireNested(a)
           \/ \E c \in Coros : TakeSlotRefused(a, c)
           \/ a \in Coros /\ \/ GiveUp(a, "timeout") \/ GiveUp(a, "cancel")
                             \/ WakeUp(a) \/ LateGrant(a)
                             \/ JobEnded(a) \/ ReleaseSlotCheck(a)
    PROVE  KeepsTurn /\ ~Barged
<1>1. w' = w
  BY DEF AcquireBegin, TryBusy, BeginSucceeds, AcquireNested, TakeSlotRefused,
         GiveUp, WakeUp, LateGrant, JobEnded, ReleaseSlotCheck
<1>2. \/ pc' = pc
      \/ \E x : /\ pc' = [pc EXCEPT ![a] = x]
                /\ x = "holding" => pc[a] = "begin"
  BY DEF AcquireBegin, TryBusy, BeginSucceeds, AcquireNested, TakeSlotRefused,
         GiveUp, WakeUp, LateGrant, JobEnded, ReleaseSlotCheck, Goto, Finish
<1>3. ~Barged
  <2>1. CASE pc' = pc
    BY <2>1 DEF Barged
  <2>2. ASSUME NEW x, pc' = [pc EXCEPT ![a] = x], x = "holding" => pc[a] = "begin"
        PROVE  ~Barged
    BY <2>2, NoBarge, ClaimFacts
  <2> QED BY <1>2, <2>1, <2>2
<1> QED BY <1>1, <1>3, SameTurn

\* Steps that take or give a native lock, or use the slot that was given.
LEMMA HoldTurn ==
    ASSUME SlotInv, ClaimInv, Owed(w), NEW a \in Actors,
           \/ TryTake(a) \/ BlockedTake(a) \/ GiveBackStale(a)
           \/ \E c \in Coros : TakeSlot(a, c) \/ BeginFails(a, c)
    PROVE  KeepsTurn /\ ~Barged
<1>1. /\ w'.bargeNext = w.bargeNext /\ w'.pending = w.pending
      /\ w.owner # None => w'.owner # None
  <2>1. CASE TryTake(a) \/ BlockedTake(a) \/ GiveBackStale(a)
    BY <2>1, ClaimFacts DEF TryTake, BlockedTake, GiveBackStale, WriterStates
  <2>2. ASSUME NEW c \in Coros, TakeSlot(a, c)
        PROVE  w'.bargeNext = w.bargeNext /\ w'.pending = w.pending /\ w'.owner # None
    BY <2>2, ClaimFacts DEF TakeSlot, WriterStates
  <2>3. ASSUME NEW c \in Coros, BeginFails(a, c)
        PROVE  /\ w'.bargeNext = w.bargeNext /\ w'.pending = w.pending
               /\ w.owner # None => w'.owner # None
    BY <2>3, ClaimFacts DEF BeginFails, WriterStates
  <2> QED BY <2>1, <2>2, <2>3
<1>2. \E x \in {"record", "recordWaited", "idle", "begin", "reserved"} :
          pc' = [pc EXCEPT ![a] = x]
  BY DEF TryTake, BlockedTake, GiveBackStale, TakeSlot, BeginFails, Goto, Finish
<1> QED BY <1>1, <1>2, SameTurn, NoBarge, ClaimFacts

\* A task lends its slot to a job.
LEMMA HandOverTurn ==
    ASSUME SlotInv, ClaimInv, Owed(w), NEW c \in Coros, NEW t \in Threads, HandOver(c, t)
    PROVE  KeepsTurn /\ ~Barged
<1>1. /\ w'.bargeNext = w.bargeNext /\ w'.pending = w.pending /\ w'.owner = w.owner
      /\ c # t /\ pc' = [pc EXCEPT ![c] = "lent", ![t] = "job"]
  BY ClaimFacts DEF HandOver, WriterStates
<1>2. ~Barged
  BY <1>1, ClaimFacts DEF Barged
<1> QED BY <1>1, <1>2, SameTurn

\* A waiter forgets its place, or a grant that ended with its slot.
LEMMA LeaveTurn ==
    ASSUME SlotInv, ClaimInv, Owed(w), NEW c \in Coros, LeaveQueue(c) \/ GrantClosed(c)
    PROVE  KeepsTurn /\ ~Barged
<1>1. /\ w'.bargeNext = w.bargeNext /\ w'.pending = w.pending /\ w'.owner = w.owner
      /\ pc' = [pc EXCEPT ![c] = "idle"]
  BY ClaimFacts DEF LeaveQueue, GrantClosed, Leave, Drop, Finish, Goto, WriterStates
<1> QED BY <1>1, SameTurn, NoBarge, ClaimFacts

\* A caller counts itself in, or out, and looks after a dead grant or a queue.
LEMMA WaitTurn ==
    ASSUME SlotInv, ClaimInv, Owed(w), NEW a \in Actors,
           CountWaiting(a) \/ WaitGivesUp(a) \/ RecordStale(a)
    PROVE  KeepsTurn /\ ~Barged
<1> DEFINE u == Uncount(w)
           r == ReclaimDeadPending(u)
           v == ReclaimDeadPending(w)
<1>1. \E x \in {"blocked", "idle", "giveback"} : pc' = [pc EXCEPT ![a] = x]
  BY DEF CountWaiting, WaitGivesUp, RecordStale, Goto, Finish
<1>2. ~Barged
  BY <1>1, NoBarge, ClaimFacts
<1>3. CASE CountWaiting(a)
  <2>1. v \in WriterStates /\ Owed(v) /\ (w.owner # None => v = w)
    BY ReclaimCoherent, ReclaimTurn, ClaimFacts
  <2>2. w' = [v EXCEPT !.syncWaiting = @ + 1]
    BY <1>3 DEF CountWaiting
  <2> HIDE DEF v
  <2>3. w'.bargeNext = v.bargeNext /\ w'.owner = v.owner /\ w'.pending = v.pending
    BY <2>1, <2>2 DEF WriterStates
  <2> QED BY <1>2, <2>1, <2>3 DEF KeepsTurn, Owed
<1>4. CASE ~CountWaiting(a)
  <2>1. /\ u \in WriterStates /\ Coherent(u)
        /\ u.owner = w.owner /\ u.pending = w.pending /\ u.bargeNext = w.bargeNext
        /\ u.waiters = w.waiters /\ u.wstate = w.wstate /\ u.wlock = w.wlock
        /\ u.lock = w.lock
    BY UncountCoherent, ClaimFacts DEF Uncount, WriterStates
  <2> HIDE DEF u
  <2>2. Tidy(u) /\ Owed(u)
    BY <2>1, ClaimFacts DEF Tidy, Owed
  <2>3. r \in WriterStates /\ Coherent(r) /\ Tidy(r) /\ Owed(r) /\ (u.owner # None => r = u)
    BY <2>1, <2>2, ReclaimCoherent, ReclaimTidy, ReclaimTurn
  <2>4. w' \in {RescueQueue(r), RescueQueue(u), w}
    BY <1>4 DEF WaitGivesUp, RecordStale, u
  <2> HIDE DEF r
  <2>5. \/ w' = w
        \/ Owed(w') /\ (w.owner # None => w' = u)
    BY <2>1, <2>2, <2>3, <2>4, RescueTurn
  <2> QED BY <1>2, <2>1, <2>5 DEF KeepsTurn, Owed
<1> QED BY <1>3, <1>4

\* A reservation takes a free slot, or joins the queue.
LEMMA ReserveTurn ==
    ASSUME SlotInv, ClaimInv, Owed(w), NEW c \in Coros, ReserveFree(c) \/ ReserveQueue(c)
    PROVE  KeepsTurn /\ ~Barged
<1> DEFINE r == ReclaimDeadPending(w)
<1>1. r \in WriterStates /\ Coherent(r) /\ Owed(r) /\ (w.owner # None => r = w)
  BY ReclaimCoherent, ReclaimTurn, ClaimFacts
<1>2. /\ \E x \in {"reserved", "await"} : pc' = [pc EXCEPT ![c] = x]
      /\ \/ /\ r.lock \notin r.locked
            /\ w' = [r EXCEPT !.locked = @ \cup {r.lock}, !.owner = c, !.marked = {c}]
         \/ w' = [r EXCEPT !.waiters = Append(@, c), !.wstate[c] = "waiting"]
  BY DEF ReserveFree, ReserveQueue, FreeForReserve, Goto
<1> HIDE DEF r
<1>3. ~Barged
  BY <1>2, NoBarge, ClaimFacts
<1>4. CASE /\ r.lock \notin r.locked
           /\ w' = [r EXCEPT !.locked = @ \cup {r.lock}, !.owner = c, !.marked = {c}]
  <2>1. w'.owner = c /\ c # None /\ r.owner = None
    BY <1>1, <1>4, ClaimFacts DEF WriterStates, Coherent
  <2> QED BY <1>1, <1>3, <2>1 DEF KeepsTurn, Owed
<1>5. CASE w' = [r EXCEPT !.waiters = Append(@, c), !.wstate[c] = "waiting"]
  <2>1. w'.bargeNext = r.bargeNext /\ w'.owner = r.owner /\ w'.pending = r.pending
    BY <1>1, <1>5 DEF WriterStates
  <2> QED BY <1>1, <1>3, <2>1 DEF KeepsTurn, Owed
<1> QED BY <1>2, <1>4, <1>5

\* The grant becomes a hold, which owes the threads their turn.
LEMMA GrantedTurn ==
    ASSUME SlotInv, ClaimInv, Owed(w), NEW c \in Coros, Granted(c)
    PROVE  KeepsTurn /\ ~Barged
<1>1. w.owner = None
  BY ClaimFacts DEF Granted, StillGranted, Coherent
<1>2. w'.owner = c /\ c # None /\ pc' = [pc EXCEPT ![c] = "reserved"]
  BY ClaimFacts DEF Granted, Drop, Goto, WriterStates
<1> QED BY <1>1, <1>2, NoBarge, ClaimFacts DEF KeepsTurn, Owed

\* A grant that is passed on goes to the next waiter, or to the threads.
LEMMA PassOnTurn ==
    ASSUME SlotInv, ClaimInv, Owed(w), NEW c \in Coros, PassOn(c)
    PROVE  KeepsTurn /\ ~Barged
<1> DEFINE z == Revoke(w, c)
           r == IF w.wstate[c] # "granted" THEN w ELSE ReleaseLocked(z)
<1>1. w.wstate[c] = "granted" => /\ w.owner = None /\ w.wlock[c] = w.lock
                                 /\ Ownerless(z) /\ Tidy(z)
  BY RevokeOwnerless, RevokeTidy, ClaimFacts DEF Coherent, Tidy
<1>2. w' = Drop(r, c) /\ pc' = [pc EXCEPT ![c] = "idle"]
  BY <1>1 DEF PassOn, Finish, Goto
<1> HIDE DEF z
<1>3. r \in WriterStates /\ Owed(r) /\ (w.owner # None => r = w)
  BY <1>1, ReleaseTurn, ReleaseLockedCoherent, ClaimFacts DEF Served, Owed
<1> HIDE DEF r
<1>4. w'.bargeNext = r.bargeNext /\ w'.owner = r.owner /\ w'.pending = r.pending
  BY <1>2, <1>3 DEF Drop, WriterStates
<1> QED BY <1>2, <1>3, <1>4, NoBarge, ClaimFacts DEF KeepsTurn, Owed

\* The end of a hold moves the queue, or gives the threads the turn they are owed.
LEMMA EndTurn ==
    ASSUME SlotInv, ClaimInv, Owed(w), NEW l \in Locks, w' = ReleaseHold(w, l),
           l = w.lock => w.owner # None
    PROVE  KeepsTurn
<1> DEFINE z == [w EXCEPT !.owner = None, !.marked = {}]
<1>1. CASE l = w.lock
  <2>1. w.lock \in w.locked /\ w.pending = None
    BY <1>1, ClaimFacts DEF Coherent
  <2>2. w' = ReleaseLocked(z)
    BY <1>1, <2>1 DEF ReleaseHold
  <2>3. Ownerless(z)
    BY <2>1, ClaimFacts DEF WriterStates, Coherent, Ownerless
  <2>4. /\ z.lock = w.lock /\ z.pending = w.pending /\ z.waiters = w.waiters
        /\ z.wstate = w.wstate /\ z.wlock = w.wlock /\ z.bargeNext = w.bargeNext
    BY ClaimFacts DEF WriterStates
  <2> HIDE DEF z
  <2>5. Tidy(z)
    BY <2>4, ClaimFacts DEF Tidy
  <2>6. Served(w') /\ (~w.bargeNext => Moving(w'))
    BY <2>2, <2>3, <2>4, <2>5, ReleaseTurn
  <2> QED BY <2>1, <2>6 DEF KeepsTurn, Served, Moving, Owed, QueueMoved
<1>2. CASE l # w.lock
  <2>1. w' = w
    BY <1>2 DEF ReleaseHold
  <2> QED BY <2>1, SameTurn
<1> QED BY <1>1, <1>2

\* A transaction, or a reservation that nobody used, ends.
LEMMA ReleasesTurn ==
    ASSUME SlotInv, ClaimInv, Owed(w), NEW a \in Actors,
           Release(a) \/ (a \in Coros /\ ReleaseSlot(a))
    PROVE  KeepsTurn /\ ~Barged
<1>1. pc' = [pc EXCEPT ![a] = "idle"]
  BY DEF Release, ReleaseSlot, Finish, Goto
<1>2. ~Barged
  BY <1>1, NoBarge, ClaimFacts
<1>3. CASE Release(a)
  <2>1. lk[a] = w.lock => w.owner # None
    BY <1>3, ClaimFacts DEF Release, SlotInv, OneWriter, Holders, Writes
  <2>2. w' = ReleaseHold(w, lk[a]) /\ lk[a] \in Locks
    BY <1>3, ClaimFacts DEF Release
  <2> QED BY <1>2, <2>1, <2>2, EndTurn
<1>4. CASE a \in Coros /\ ReleaseSlot(a)
  <2>1. slot[a].lock \in Locks /\ slot[a].state = "held"
    BY <1>4, ClaimFacts DEF ReleaseSlot, SlotInv, SlotUse
  <2>2. slot[a].lock = w.lock => slot[a] = [lock |-> w.lock, state |-> "held"]
    BY <1>4, <2>1, ClaimFacts
  <2>3. slot[a].lock = w.lock => w.owner # None
    BY <1>4, <2>2, ClaimFacts DEF SlotInv, OneWriter, Holders, Keeps
  <2>4. w' = ReleaseHold(w, slot[a].lock)
    BY <1>4 DEF ReleaseSlot
  <2> QED BY <1>2, <2>1, <2>3, <2>4, EndTurn
<1> QED BY <1>3, <1>4

\* A close or a fork empties the queue.
LEMMA NewLockTurn ==
    ASSUME SlotInv, ClaimInv, Close \/ \E a \in Actors : Fork(a)
    PROVE  KeepsTurn /\ ~Barged
<1>1. w'.waiters = <<>> /\ w'.bargeNext = FALSE
  BY ClaimFacts DEF Close, Fork, WriterStates
<1>2. \A b \in Actors : pc'[b] \in {pc[b], "idle"}
  BY ClaimFacts DEF Close, Fork
<1> QED BY <1>1, <1>2 DEF KeepsTurn, QueueMoved, Owed, Barged

\* A caller of acquire records itself on a slot that is nobody's: no turn is owed then,
\* and the queue was not passed over yet.
LEMMA RecordTurn ==
    ASSUME SlotInv, ClaimInv, TurnInv, CountBypass, NEW a \in Actors, RecordHold(a)
    PROVE  TurnInv'
<1>1. w.owner = None /\ w.pending = None
  BY DEF RecordHold, SlotInv, TakersExclude, InFlight
<1>2. ~w.bargeNext /\ bypass = 0
  BY <1>1 DEF TurnInv, Owed
<1>3. w'.owner = a /\ a # None /\ w'.bargeNext = w.bargeNext
  BY ClaimFacts DEF RecordHold, WriterStates
<1>4. bypass' \in 0 .. 1
  BY <1>2 DEF CountBypass
<1> QED BY <1>2, <1>3, <1>4 DEF TurnInv, Owed

\* Every other step counts no transaction.
LEMMA OtherTurn ==
    ASSUME TurnInv, CountBypass, KeepsTurn, ~Barged
    PROVE  TurnInv'
<1>1. bypass' = IF QueueMoved THEN 0 ELSE bypass
  BY DEF CountBypass
<1> QED BY <1>1 DEF TurnInv, KeepsTurn

-----------------------------------------------------------------------------

\* Every step of the slot keeps the turns.
LEMMA NextTurn ==
    ASSUME SlotInv, ClaimInv, TurnInv, Config, TurnNext
    PROVE  TurnInv'
<1>1. Owed(w) /\ Next /\ CountBypass
  BY DEF TurnInv, TurnNext
<1>2. ASSUME NEW a \in Actors, ActorStep(a)
      PROVE  TurnInv'
  <2>1. CASE RecordHold(a)
    BY <1>1, <2>1, RecordTurn
  <2>2. CASE AcquireBegin(a) \/ TryBusy(a) \/ BeginSucceeds(a)
    BY <1>1, <2>2, QuietTurn, OtherTurn
  <2>3. CASE TryTake(a) \/ BlockedTake(a) \/ GiveBackStale(a)
    BY <1>1, <2>3, HoldTurn, OtherTurn
  <2>4. CASE CountWaiting(a) \/ WaitGivesUp(a) \/ RecordStale(a)
    BY <1>1, <2>4, WaitTurn, OtherTurn
  <2>5. CASE Release(a) \/ Fork(a)
    BY <1>1, <2>5, ReleasesTurn, NewLockTurn, OtherTurn
  <2> QED BY <1>2, <2>1, <2>2, <2>3, <2>4, <2>5 DEF ActorStep
<1>3. ASSUME NEW c \in Coros, CoroStep(c)
      PROVE  TurnInv'
  <2>1. c \in Actors
    BY DEF Actors
  <2>2. CASE ReserveFree(c) \/ ReserveQueue(c)
    BY <1>1, <2>2, ReserveTurn, OtherTurn
  <2>3. CASE \/ GiveUp(c, "timeout") \/ GiveUp(c, "cancel") \/ WakeUp(c) \/ LateGrant(c)
             \/ JobEnded(c) \/ ReleaseSlotCheck(c)
    BY <1>1, <2>1, <2>3, QuietTurn, OtherTurn
  <2>4. CASE LeaveQueue(c) \/ GrantClosed(c)
    BY <1>1, <2>4, LeaveTurn, OtherTurn
  <2>5. CASE PassOn(c) \/ Granted(c)
    BY <1>1, <2>5, PassOnTurn, GrantedTurn, OtherTurn
  <2>6. CASE ReleaseSlot(c)
    BY <1>1, <2>1, <2>6, ReleasesTurn, OtherTurn
  <2> QED BY <1>3, <2>2, <2>3, <2>4, <2>5, <2>6 DEF CoroStep
<1>4. ASSUME NEW a \in Actors, NEW c \in Coros, SlotStep(a, c)
      PROVE  TurnInv'
  BY <1>1, <1>4, QuietTurn, HoldTurn, OtherTurn DEF SlotStep
<1>5. ASSUME NEW c \in Coros, NEW t \in Threads, HandOver(c, t)
      PROVE  TurnInv'
  BY <1>1, <1>5, HandOverTurn, OtherTurn
<1>6. ASSUME NEW t \in Threads, AcquireNested(t)
      PROVE  TurnInv'
  <2>1. t \in Actors
    BY DEF Actors
  <2> QED BY <1>1, <1>6, <2>1, QuietTurn, OtherTurn
<1>7. CASE Close
  BY <1>1, <1>7, NewLockTurn, OtherTurn
<1>8. ASSUME NEW l \in Loops, CloseLoop(l)
      PROVE  TurnInv'
  <2>1. w' = w /\ pc' = pc
    BY <1>8 DEF CloseLoop
  <2> QED BY <1>1, <2>1, SameTurn, OtherTurn DEF Barged
<1> QED BY <1>1, <1>2, <1>3, <1>4, <1>5, <1>6, <1>7, <1>8 DEF Next, Config

\* Threads and coroutines take turns, for any number of either, of closes and of forks:
\* while coroutines are queued at most one thread transaction begins between two moves
\* of the queue.
THEOREM BypassBounded == ASSUME Config PROVE TurnSpec => []BoundedBypass
<1>1. TurnInit => TurnInv
  BY DEF TurnInit, Init, TurnInv, Owed
<1>2. SlotClaimInv /\ TurnInv /\ [TurnNext]_turnVars => TurnInv'
  <2>1. CASE TurnNext
    BY <2>1, NextTurn DEF SlotClaimInv
  <2>2. CASE UNCHANGED turnVars
    BY <2>2 DEF turnVars, vars, TurnInv, Owed
  <2> QED BY <2>1, <2>2
<1>3. TurnSpec => Spec
  <2>1. TurnInit => Init
    BY DEF TurnInit
  <2>2. [TurnNext]_turnVars => [Next]_vars
    BY DEF TurnNext, turnVars
  <2> QED BY <2>1, <2>2, PTL DEF TurnSpec, Spec
<1>4. TurnInv => BoundedBypass
  BY DEF TurnInv, BoundedBypass
<1> QED BY <1>1, <1>2, <1>3, <1>4, ClaimsHold, PTL DEF TurnSpec

===============================================================================
