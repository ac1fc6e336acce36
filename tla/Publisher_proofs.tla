--------------------------- MODULE Publisher_proofs ---------------------------
(***************************************************************************)
(* Proofs about Publisher: types, the one worker, and the accounting of    *)
(* keys.                                                                   *)
(***************************************************************************)
EXTENDS Publisher, FiniteSetTheorems, SequenceTheorems, TLAPS

USE BoundsAssumption DEF Gens

(***************************************************************************)
(* Sequences.                                                              *)
(***************************************************************************)

\* The keys of a batch are finitely many, so that they can be counted.
LEMMA RangeFinite ==
    ASSUME NEW S, NEW s \in Seq(S)
    PROVE  IsFiniteSet(Range(s)) /\ Range(s) \subseteq S
<1>1. s \in [1 .. Len(s) -> S] /\ DOMAIN s = 1 .. Len(s) /\ Len(s) \in Nat
  BY LenProperties
<1>2. s \in Surjection(1 .. Len(s), Range(s))
  BY <1>1 DEF Surjection, Range
<1>3. IsFiniteSet(1 .. Len(s))
  BY <1>1, FS_Interval
<1> QED  BY <1>1, <1>2, <1>3, FS_Surjection DEF Range

\* What append, tail and cut do to the set of elements.
LEMMA RangeAppend ==
    ASSUME NEW S, NEW s \in Seq(S), NEW x \in S
    PROVE  Append(s, x) \in Seq(S) /\ Range(Append(s, x)) = Range(s) \cup {x}
<1>1. /\ Append(s, x) \in Seq(S) /\ Len(Append(s, x)) = Len(s) + 1
      /\ \A i \in 1 .. Len(s) : Append(s, x)[i] = s[i]
      /\ Append(s, x)[Len(s) + 1] = x
  BY AppendProperties
<1>2. Range(Append(s, x)) = {Append(s, x)[i] : i \in 1 .. Len(s) + 1} /\ Len(s) \in Nat
  BY <1>1, RangeEquality, LenProperties
<1>3. Range(s) = {s[i] : i \in 1 .. Len(s)}
  BY RangeEquality
<1> QED  BY <1>1, <1>2, <1>3

LEMMA RangeTail ==
    ASSUME NEW S, NEW s \in Seq(S), s # <<>>
    PROVE  /\ Tail(s) \in Seq(S) /\ Head(s) \in S
           /\ Range(s) = {Head(s)} \cup Range(Tail(s))
           /\ Len(Tail(s)) = Len(s) - 1
<1>1. /\ Head(s) \in S /\ Tail(s) \in Seq(S) /\ Len(Tail(s)) = Len(s) - 1
      /\ \A i \in 1 .. Len(Tail(s)) : Tail(s)[i] = s[i + 1]
  BY HeadTailProperties
<1>2. Range(Tail(s)) = {Tail(s)[i] : i \in 1 .. Len(Tail(s))}
  BY <1>1, RangeEquality
<1>3. Range(s) = {s[i] : i \in 1 .. Len(s)} /\ Len(s) \in Nat /\ Len(s) > 0
  BY RangeEquality, LenProperties, EmptySeq
<1>4. Head(s) = s[1]
  OBVIOUS
<1>5. ASSUME NEW i \in 1 .. Len(s)  PROVE s[i] \in {Head(s)} \cup Range(Tail(s))
  <2>1. CASE i = 1  BY <1>4, <2>1
  <2>2. CASE i # 1
    <3>1. i - 1 \in 1 .. Len(Tail(s)) /\ Tail(s)[i - 1] = s[i]
      BY <1>1, <1>3, <2>2
    <3> QED  BY <3>1, <1>2
  <2> QED  BY <2>1, <2>2
<1>6. Range(Tail(s)) \subseteq Range(s)
  BY <1>1, <1>2, <1>3
<1> QED  BY <1>1, <1>3, <1>4, <1>5, <1>6

LEMMA RangeCut ==
    ASSUME NEW S, NEW s \in Seq(S), NEW n \in 1 .. Len(s)
    PROVE  /\ SubSeq(s, 1, n) \in Seq(S) /\ SubSeq(s, n + 1, Len(s)) \in Seq(S)
           /\ Range(s) = Range(SubSeq(s, 1, n)) \cup Range(SubSeq(s, n + 1, Len(s)))
<1> DEFINE a == SubSeq(s, 1, n)
           b == SubSeq(s, n + 1, Len(s))
<1>1. Len(s) \in Nat /\ n \in Nat /\ \A i \in 1 .. Len(s) : s[i] \in S
  BY LenProperties, ElementOfSeq
<1>2. a \in Seq(S) /\ Len(a) = n /\ \A i \in 1 .. n : a[i] = s[i]
  BY <1>1, SubSeqProperties
<1>3. /\ b \in Seq(S) /\ Len(b) = Len(s) - n
      /\ \A i \in 1 .. Len(s) - n : b[i] = s[n + i]
  <2>1. \A i \in n + 1 .. Len(s) : s[i] \in S
    BY <1>1
  <2>2. /\ b \in Seq(S) /\ Len(b) = IF n + 1 <= Len(s) THEN Len(s) - (n + 1) + 1 ELSE 0
        /\ \A i \in 1 .. Len(s) - (n + 1) + 1 : b[i] = s[n + 1 + i - 1]
    BY <1>1, <2>1, SubSeqProperties
  <2> QED  BY <1>1, <2>2
<1>4. /\ Range(s) = {s[i] : i \in 1 .. Len(s)}
      /\ Range(a) = {a[i] : i \in 1 .. n}
      /\ Range(b) = {b[i] : i \in 1 .. Len(s) - n}
  BY <1>2, <1>3, RangeEquality, ZenonT(30)
<1>5. Range(a) \subseteq Range(s) /\ Range(b) \subseteq Range(s)
  BY <1>1, <1>2, <1>3, <1>4
<1>6. ASSUME NEW i \in 1 .. Len(s)  PROVE s[i] \in Range(a) \cup Range(b)
  <2>1. CASE i <= n  BY <1>2, <1>4, <2>1
  <2>2. CASE i > n
    <3>1. i - n \in 1 .. Len(s) - n /\ b[i - n] = s[i]
      BY <1>1, <1>3, <2>2
    <3> QED  BY <3>1, <1>4
  <2> QED  BY <1>1, <2>1, <2>2
<1> HIDE DEF a, b
<1>7. Range(s) = Range(a) \cup Range(b)
  BY <1>4, <1>5, <1>6
<1> QED  BY <1>2, <1>3, <1>7 DEF a, b

\* A call's keys are keys, whichever of them are left.
LEMMA CallKeys ==
    ASSUME NEW c \in Calls
    PROVE  /\ BatchOf[c] \in Seq(Keys) /\ Len(BatchOf[c]) \in Nat \ {0}
           /\ \A j \in 1 .. Len(BatchOf[c]) : BatchOf[c][j] \in Keys
<1>1. Range(BatchOf[c]) \subseteq Keys
  BY DEF Keys
<1>2. BatchOf[c] \in Seq(Range(BatchOf[c])) /\ BatchOf[c] # <<>>
  BY CallsAssumption
<1>3. BatchOf[c] \in Seq(Keys)
  BY <1>1, <1>2, SeqMonotonic
<1> QED  BY <1>2, <1>3, EmptySeq, ElementOfSeq

(***************************************************************************)
(* Types.                                                                  *)
(***************************************************************************)

\* Counting needs finite sets: leftovers are counted one by one.
TypeInv ==
    /\ TypeOK /\ IsFiniteSet(life.left)
    /\ \A c \in Calls : call[c].i \in 1 .. Len(BatchOf[c])

\* What counting drops does to the fields.
LEMMA RecordDropType ==
    ASSUME NEW p \in Fields, NEW ks, IsFiniteSet(ks)
    PROVE  LET r == RecordDrop(p, ks) IN
           /\ r \in Fields
           /\ r.connected = p.connected /\ r.owned = p.owned
           /\ r.gen = p.gen /\ r.thread = p.thread
<1>1. Cardinality(ks) \in Nat
  BY FS_CardinalityType
<1>2. CASE ks = {}  BY <1>2 DEF RecordDrop
<1>3. CASE ks # {}
  <2>1. RecordDrop(p, ks) = [p EXCEPT !.dropped_keys = @ + Cardinality(ks), !.lastError = TRUE]
    BY <1>3 DEF RecordDrop
  <2>2. p.dropped_keys + Cardinality(ks) \in Nat
    BY <1>1 DEF Fields
  <2> QED  BY <2>1, <2>2 DEF Fields
<1> QED  BY <1>2, <1>3

LEMMA DropType ==
    ASSUME history \in Histories, NEW ks \in SUBSET Keys
    PROVE  Drop(ks) \in Histories
BY DEF Drop, Histories

LEMMA RestFinite ==
    ASSUME TypeInv, NEW c \in Calls
    PROVE  IsFiniteSet(Rest(c)) /\ Rest(c) \in SUBSET Keys
<1>1. BatchOf[c] \in Seq(Keys) /\ Range(BatchOf[c]) = {BatchOf[c][j] : j \in 1 .. Len(BatchOf[c])}
  BY CallKeys, RangeEquality
<1>2. Rest(c) \subseteq Range(BatchOf[c])
  BY <1>1 DEF Rest, TypeInv, TypeOK, CallStates
<1>3. IsFiniteSet(Range(BatchOf[c])) /\ Range(BatchOf[c]) \subseteq Keys
  BY <1>1, RangeFinite
<1> QED  BY <1>2, <1>3, FS_Subset

\* Putting an item where there is room keeps a queue within its bound.
LEMMA PutType ==
    ASSUME TypeInv, NEW g \in Gens, NEW x \in Items, ~Full(g),
           queue' = [queue EXCEPT ![g] = Append(@, x)]
    PROVE  queue' \in [Gens -> Seq(Items)] /\ \A h \in Gens : Len(queue'[h]) <= QueueMax
<1>1. queue \in [Gens -> Seq(Items)] /\ \A h \in Gens : Len(queue[h]) <= QueueMax
  BY DEF TypeInv, TypeOK
<1>2. Append(queue[g], x) \in Seq(Items) /\ Len(Append(queue[g], x)) = Len(queue[g]) + 1
  BY <1>1, AppendProperties
<1>3. Len(queue[g]) # QueueMax /\ Len(queue[g]) \in Nat
  BY <1>1, LenProperties DEF Full
<1> QED  BY <1>1, <1>2, <1>3

\* So does taking the first.
LEMMA TakeType ==
    ASSUME TypeInv, NEW g \in Gens, queue[g] # <<>>,
           queue' = [queue EXCEPT ![g] = Tail(@)]
    PROVE  /\ queue' \in [Gens -> Seq(Items)] /\ \A h \in Gens : Len(queue'[h]) <= QueueMax
           /\ Head(queue[g]) \in Items
<1>1. queue \in [Gens -> Seq(Items)] /\ \A h \in Gens : Len(queue[h]) <= QueueMax
  BY DEF TypeInv, TypeOK
<1>2. /\ Tail(queue[g]) \in Seq(Items) /\ Head(queue[g]) \in Items
      /\ Len(Tail(queue[g])) = Len(queue[g]) - 1
  BY <1>1, RangeTail
<1>3. Len(queue[g]) \in Nat
  BY <1>1, LenProperties
<1> QED  BY <1>1, <1>2, <1>3

LEMMA NotifyType ==
    ASSUME TypeInv, NEW c \in Calls, Notify(c)
    PROVE  TypeInv'
<1> DEFINE CallTypes == /\ call \in [Calls -> CallStates]
                        /\ \A d \in Calls : call[d].i \in 1 .. Len(BatchOf[d])
<1>1. CallTypes /\ \A d \in Calls : Len(BatchOf[d]) \in Nat \ {0}
  BY CallKeys DEF TypeInv, TypeOK
<1>2. pub \in Fields /\ history \in Histories
  BY DEF TypeInv, TypeOK
<1> USE DEF CallStates, CallPCs, Returned
<1>3. CASE NotifyConnected(c)
  <2>1. CallTypes'  BY <1>1, <1>3 DEF NotifyConnected
  <2> QED  BY <1>3, <2>1 DEF NotifyConnected, TypeInv, TypeOK
<1>4. CASE NotifyUnconnected(c)
  <2>1. CallTypes'  BY <1>1, <1>4 DEF NotifyUnconnected
  <2>2. pub' \in Fields /\ history' \in Histories
    BY <1>2, <1>4, RestFinite, RecordDropType, DropType DEF NotifyUnconnected
  <2> QED  BY <1>4, <2>1, <2>2 DEF NotifyUnconnected, TypeInv, TypeOK
<1>5. CASE NotifyEnsure(c)
  <2>1. CallTypes'
    <3>1. CASE pub.connected  BY <1>1, <1>5, <3>1 DEF NotifyEnsure
    <3>2. CASE ~pub.connected
      <4>1. call' = [call EXCEPT ![c] = Returned]
        BY <1>5, <3>2 DEF NotifyEnsure
      <4>2. Returned \in CallStates /\ Returned.i = 1
        OBVIOUS
      <4> HIDE DEF Returned, CallStates
      <4> QED  BY <1>1, <4>1, <4>2
    <3> QED  BY <3>1, <3>2
  <2> QED  BY <1>5, <2>1 DEF NotifyEnsure, TypeInv, TypeOK
<1>6. CASE NotifyRead(c)
  <2>1. CallTypes'  BY <1>1, <1>2, <1>6, ZenonT(30) DEF NotifyRead, Fields
  <2> QED  BY <1>6, <2>1 DEF NotifyRead, TypeInv, TypeOK
<1>7. CASE Put(c)
  <2> DEFINE k == BatchOf[c][call[c].i]
  <2>1. k \in Keys /\ k \in Items
    BY <1>1, CallKeys DEF Items
  <2>2. call[c].q \in Gens
    BY <1>1
  <2>3. queue' \in [Gens -> Seq(Items)] /\ \A g \in Gens : Len(queue'[g]) <= QueueMax
    BY <1>7, <2>1, <2>2, PutType DEF Put
  <2>4. Append(history.accepted, k) \in Seq(Keys)
    BY <1>2, <2>1, AppendProperties DEF Histories
  <2>5. history' \in Histories
    BY <1>2, <1>7, <2>4 DEF Put, Histories
  <2>6. CallTypes'
    <3>1. CASE call[c].i = Len(BatchOf[c])
      <4>1. call' = [call EXCEPT ![c] = Returned]
        BY <1>1, <1>7, <3>1 DEF Put
      <4>2. Returned \in CallStates /\ Returned.i = 1
        OBVIOUS
      <4> HIDE DEF Returned, CallStates
      <4> QED  BY <1>1, <4>1, <4>2
    <3>2. CASE call[c].i # Len(BatchOf[c])
      <4>1. call' = [call EXCEPT ![c] = [pc |-> "put", q |-> call[c].q, i |-> call[c].i + 1]]
        BY <1>1, <1>7, <3>2 DEF Put
      <4> QED  BY <1>1, <3>2, <4>1
    <3> QED  BY <3>1, <3>2
  <2> QED  BY <1>7, <2>3, <2>5, <2>6 DEF Put, TypeInv, TypeOK
<1>8. CASE PutFull(c)
  <2>1. CallTypes'  BY <1>1, <1>8, SMTT(30) DEF PutFull
  <2> QED  BY <1>8, <2>1 DEF PutFull, TypeInv, TypeOK
<1>9. CASE PutTimesOut(c)
  <2>1. CallTypes'  BY <1>1, <1>9 DEF PutTimesOut
  <2> QED  BY <1>9, <2>1 DEF PutTimesOut, TypeInv, TypeOK
<1>10. CASE DropRest(c)
  <2>1. CallTypes'
    <3>1. Returned \in CallStates /\ Returned.i = 1
      OBVIOUS
    <3> HIDE DEF Returned, CallStates
    <3> QED  BY <1>1, <1>10, <3>1 DEF DropRest
  <2>2. [pub EXCEPT !.stalled = TRUE] \in Fields
    BY <1>2 DEF Fields
  <2>3. pub' \in Fields /\ history' \in Histories
    BY <1>2, <1>10, <2>2, RestFinite, RecordDropType, DropType DEF DropRest
  <2> QED  BY <1>10, <2>1, <2>3 DEF DropRest, TypeInv, TypeOK
<1> QED  BY <1>3, <1>4, <1>5, <1>6, <1>7, <1>8, <1>9, <1>10 DEF Notify

LEMMA FlushType ==
    ASSUME TypeInv, NEW f \in Flushes, Flush(f)
    PROVE  TypeInv'
<1>1. pub \in Fields /\ history \in Histories /\ flush \in [Flushes -> FlushStates]
  BY DEF TypeInv, TypeOK
<1> USE DEF FlushStates, FlushPCs
<1>2. CASE FlushStart(f)
  <2>1. flush' \in [Flushes -> FlushStates]
    <3>1. pub.gen \in Gens
      BY <1>1 DEF Fields
    <3>2. PICK pc \in {"put", "raise"} : flush' = [flush EXCEPT ![f] = [@ EXCEPT !.pc = pc, !.q = pub.gen]]
      BY <1>2 DEF FlushStart
    <3>3. pc \in FlushPCs
      OBVIOUS
    <3> HIDE DEF FlushPCs, Gens
    <3> QED  BY <1>1, <3>1, <3>2, <3>3
  <2> QED  BY <1>2, <2>1 DEF FlushStart, TypeInv, TypeOK
<1>3. CASE FlushPut(f)
  <2>1. flush[f].q \in Gens /\ f \in Items
    BY <1>1 DEF Items
  <2>2. queue' \in [Gens -> Seq(Items)] /\ \A g \in Gens : Len(queue'[g]) <= QueueMax
    BY <1>3, <2>1, PutType DEF FlushPut
  <2>3. history.accepted \in Seq(Keys)
    BY <1>1 DEF Histories
  <2>4. Range(history.accepted) \in SUBSET Keys
    BY <2>3, RangeFinite
  <2>5. history' \in Histories
    BY <1>1, <1>3, <2>4 DEF FlushPut, Histories
  <2>6. flush' \in [Flushes -> FlushStates]
    BY <1>1, <1>3 DEF FlushPut
  <2> QED  BY <1>3, <2>2, <2>5, <2>6 DEF FlushPut, TypeInv, TypeOK
<1>4. CASE FlushWake(f)
  <2>1. flush' \in [Flushes -> FlushStates]  BY <1>1, <1>4 DEF FlushWake
  <2> QED  BY <1>4, <2>1 DEF FlushWake, TypeInv, TypeOK
<1>5. CASE FlushTimesOut(f)
  <2>1. flush' \in [Flushes -> FlushStates]  BY <1>1, <1>5 DEF FlushTimesOut
  <2> QED  BY <1>5, <2>1 DEF FlushTimesOut, TypeInv, TypeOK
<1>6. CASE FlushRaise(f)
  <2>1. flush' \in [Flushes -> FlushStates]  BY <1>1, <1>6 DEF FlushRaise
  <2>2. pub' \in Fields  BY <1>1, <1>6 DEF FlushRaise, Fields
  <2>3. history' \in Histories
    <3>1. CASE pub.lastError
      BY <1>1, <1>6, <3>1 DEF FlushRaise, Histories
    <3>2. CASE ~pub.lastError
      BY <1>1, <1>6, <3>2 DEF FlushRaise, Histories
    <3> QED  BY <3>1, <3>2
  <2> QED  BY <1>6, <2>1, <2>2, <2>3 DEF FlushRaise, TypeInv, TypeOK
<1> QED  BY <1>2, <1>3, <1>4, <1>5, <1>6 DEF Flush

\* Setting an event changes no flush but its own, and of that only who set it.
LEMMA SignalledType ==
    ASSUME flush \in [Flushes -> FlushStates], NEW x, NEW who \in {"worker", "disconnect"}
    PROVE  /\ Signalled(x, who) \in [Flushes -> FlushStates]
           /\ \A f \in Flushes : Signalled(x, who)[f].q = flush[f].q
<1>1. ASSUME NEW f \in Flushes
      PROVE  /\ [flush[f] EXCEPT !.set = who] \in FlushStates
             /\ [flush[f] EXCEPT !.set = who].q = flush[f].q
  BY DEF FlushStates
<1> QED  BY <1>1 DEF Signalled

\* A worker that took an item from its queue.
LEMMA TakenType ==
    ASSUME NEW wk \in WorkerStates, NEW x \in Items
    PROVE  /\ Taken(wk, x) \in WorkerStates
           /\ Taken(wk, x).pc = IF x \in Keys THEN "more" ELSE "publish"
           /\ Taken(wk, x).chunk = wk.chunk
           /\ Taken(wk, x).batch = IF x \in Keys THEN Append(wk.batch, x) ELSE wk.batch
           /\ Taken(wk, x).item  = IF x \in Keys THEN wk.item ELSE x
<1>1. CASE x \in Keys
  <2>1. wk.batch \in Seq(Keys)
    BY DEF WorkerStates
  <2>2. Append(wk.batch, x) \in Seq(Keys)
    BY <1>1, <2>1, AppendProperties
  <2> QED  BY <1>1, <2>2 DEF Taken, WorkerStates, WorkerPCs
<1>2. CASE x \notin Keys
  <2>1. x \in Flushes \cup {StopMarker, NoItem}
    BY <1>2 DEF Items
  <2> QED  BY <1>2, <2>1 DEF Taken, WorkerStates, WorkerPCs
<1> QED  BY <1>1, <1>2

LEMMA WorkType ==
    ASSUME TypeInv, NEW g \in Gens, Work(g)
    PROVE  TypeInv'
<1>1. /\ pub \in Fields /\ history \in Histories /\ worker \in [Gens -> WorkerStates]
      /\ queue \in [Gens -> Seq(Items)] /\ flush \in [Flushes -> FlushStates]
      /\ worker[g] \in WorkerStates /\ delivered \in Seq(Seq(Keys))
  BY DEF TypeInv, TypeOK
<1>2. /\ worker[g].batch \in Seq(Keys) /\ worker[g].chunk \in Seq(Keys)
      /\ worker[g].item \in Flushes \cup {StopMarker, NoItem} /\ <<>> \in Seq(Keys)
  BY <1>1, EmptySeq DEF WorkerStates
<1>3. Append(delivered, worker[g].chunk) \in Seq(Seq(Keys))
  BY <1>1, <1>2, AppendProperties
<1>4. CASE WorkerGet(g)
  <2> DEFINE x == Head(queue[g])
  <2>1. /\ queue' \in [Gens -> Seq(Items)] /\ \A h \in Gens : Len(queue'[h]) <= QueueMax
        /\ x \in Items
    BY <1>4, TakeType DEF WorkerGet
  <2>2. Taken(worker[g], x) \in WorkerStates
    BY <1>1, <2>1, TakenType
  <2>3. worker' = [worker EXCEPT ![g] = Taken(worker[g], x)]
    BY <1>4 DEF WorkerGet
  <2>4. worker' \in [Gens -> WorkerStates]
    BY <1>1, <2>2, <2>3
  <2> QED  BY <1>4, <2>1, <2>4 DEF WorkerGet, TypeInv, TypeOK
<1>5. CASE WorkerEmpty(g)
  <2>1. worker' \in [Gens -> WorkerStates]
    BY <1>1, <1>5 DEF WorkerEmpty, WorkerStates, WorkerPCs
  <2> QED  BY <1>5, <2>1 DEF WorkerEmpty, TypeInv, TypeOK
<1>6. CASE WorkerPoll(g)
  <2>1. worker' \in [Gens -> WorkerStates]
    BY <1>1, <1>6 DEF WorkerPoll, WorkerStates, WorkerPCs
  <2> QED  BY <1>6, <2>1 DEF WorkerPoll, TypeInv, TypeOK
<1>7. CASE WorkerDrained(g)
  <2>1. worker' \in [Gens -> WorkerStates]
    BY <1>1, <1>7 DEF WorkerDrained, WorkerStates, WorkerPCs
  <2> QED  BY <1>7, <2>1 DEF WorkerDrained, TypeInv, TypeOK
<1>8. CASE StartBatch(g)
  <2>1. worker' \in [Gens -> WorkerStates]
    BY <1>1, <1>8 DEF StartBatch, WorkerStates, WorkerPCs
  <2> QED  BY <1>8, <2>1 DEF StartBatch, TypeInv, TypeOK
<1>9. CASE EndBatch(g)
  <2>1. PICK pc \in WorkerPCs : worker' = [worker EXCEPT ![g] = [@ EXCEPT !.batch = <<>>, !.item = NoItem, !.pc = pc]]
    BY <1>9, "dead" \in WorkerPCs, "more" \in WorkerPCs, "get" \in WorkerPCs
       DEF EndBatch, WorkerPCs
  <2>2. worker' \in [Gens -> WorkerStates]
    BY <1>1, <1>2, <2>1 DEF WorkerStates
  <2>3. flush' \in [Flushes -> FlushStates]
    BY <1>1, <1>9, SignalledType DEF EndBatch
  <2> QED  BY <1>9, <2>2, <2>3 DEF EndBatch, TypeInv, TypeOK
<1>10. CASE StartChunk(g)
  <2> DEFINE b == worker[g].batch
             n == Smaller(ChunkMax, Len(b))
             s == SubSeq(b, 1, n)
             r == SubSeq(b, n + 1, Len(b))
  <2>1. n \in 1 .. Len(b)
    <3>1. Len(b) \in Nat /\ Len(b) # 0
      BY <1>2, <1>10, LenProperties, EmptySeq DEF StartChunk
    <3> QED  BY <3>1 DEF Smaller
  <2>2. s \in Seq(Keys) /\ r \in Seq(Keys)
    BY <1>2, <2>1, RangeCut
  <2>3. IsFiniteSet(Range(s)) /\ Range(s) \in SUBSET Keys
    BY <2>2, RangeFinite
  <2> HIDE DEF s, r, n
  <2>4. PICK lost \in SUBSET Range(s) : pub' = RecordDrop(pub, lost) /\ history' = Drop(lost)
    BY <1>10 DEF StartChunk, n, s
  <2>5. PICK k \in {s, <<>>}, pc \in {"send", "chunk"} :
            worker' = [worker EXCEPT ![g] = [@ EXCEPT !.batch = r, !.chunk = k, !.pc = pc]]
    BY <1>10 DEF StartChunk, n, s, r
  <2>6. IsFiniteSet(lost) /\ lost \in SUBSET Keys
    BY <2>3, <2>4, FS_Subset
  <2>7. pub' \in Fields /\ history' \in Histories
    BY <1>1, <2>4, <2>6, RecordDropType, DropType
  <2>8. worker' \in [Gens -> WorkerStates]
    BY <1>1, <1>2, <2>2, <2>5, ZenonT(30) DEF WorkerStates, WorkerPCs
  <2> QED  BY <1>10, <2>7, <2>8 DEF StartChunk, TypeInv, TypeOK
<1>11. ASSUME ChunkDone(g)  PROVE worker' \in [Gens -> WorkerStates]
  <2>1. [worker[g] EXCEPT !.chunk = <<>>, !.pc = "chunk"] \in WorkerStates
    BY <1>1, <1>2 DEF WorkerStates, WorkerPCs
  <2>2. worker' = [worker EXCEPT ![g] = [worker[g] EXCEPT !.chunk = <<>>, !.pc = "chunk"]]
    BY <1>1, <1>11 DEF ChunkDone
  <2> QED  BY <1>1, <2>1, <2>2
<1>12. CASE SendOk(g)
  <2>1. pub' \in Fields
    BY <1>1, <1>12 DEF SendOk, Fields
  <2> QED  BY <1>3, <1>11, <1>12, <2>1 DEF SendOk, TypeInv, TypeOK
<1>13. ASSUME SendRaises(g)  PROVE fails' \in 0 .. MaxFails /\ delivered' \in Seq(Seq(Keys))
  <2>1. fails \in 0 .. MaxFails
    BY DEF TypeInv, TypeOK
  <2>2. fails < MaxFails /\ fails' = fails + 1 /\ delivered' \in {delivered, Append(delivered, worker[g].chunk)}
    BY <1>13 DEF SendRaises
  <2>3. fails' \in 0 .. MaxFails
    BY <2>1, <2>2
  <2> QED  BY <1>1, <1>3, <2>2, <2>3
<1>14. CASE SendRetried(g)
  BY <1>13, <1>14 DEF SendRetried, TypeInv, TypeOK
<1>15. CASE SendDropped(g)
  <2> DEFINE lost == Range(worker[g].chunk) \ Unroutable
             p    == [pub EXCEPT !.drainFailed = @ \/ stop[g]]
  <2>1. IsFiniteSet(lost) /\ lost \in SUBSET Keys
    BY <1>2, RangeFinite, FS_Subset
  <2>2. p \in Fields
    BY <1>1 DEF Fields
  <2>3. pub' \in Fields /\ history' \in Histories
    BY <1>1, <1>15, <2>1, <2>2, RecordDropType, DropType DEF SendDropped
  <2> QED  BY <1>11, <1>13, <1>15, <2>3 DEF SendDropped, TypeInv, TypeOK
<1> QED  BY <1>4, <1>5, <1>6, <1>7, <1>8, <1>9, <1>10, <1>12, <1>14, <1>15 DEF Work

LEMMA LifeType ==
    ASSUME TypeInv, Lifecycle
    PROVE  TypeInv'
<1>1. /\ pub \in Fields /\ history \in Histories /\ worker \in [Gens -> WorkerStates]
      /\ queue \in [Gens -> Seq(Items)] /\ stop \in [Gens -> BOOLEAN]
      /\ flush \in [Flushes -> FlushStates]
      /\ life \in [pc : LifePCs, left : SUBSET Keys] /\ IsFiniteSet(life.left)
  BY DEF TypeInv, TypeOK
<1>2. pub.gen \in Gens /\ StopMarker \in Items
  BY <1>1 DEF Fields, Items
<1>3. \A pc \in LifePCs : [life EXCEPT !.pc = pc] \in [pc : LifePCs, left : SUBSET Keys]
                          /\ [life EXCEPT !.pc = pc].left = life.left
  BY <1>1
<1>4. {"idle", "connecting", "marking", "joining", "clearing", "closing"} = LifePCs
  BY DEF LifePCs
<1>5. CASE Connect
  <2>1. pub' \in Fields
    <3>1. pub.gen + 1 \in Gens
      BY <1>2, <1>5 DEF Connect
    <3> QED  BY <1>1, <1>5, <3>1 DEF Connect, Fields
  <2> QED  BY <1>3, <1>4, <1>5, <2>1 DEF Connect, TypeInv, TypeOK
<1>6. CASE Connected
  <2>1. pub' \in Fields
    BY <1>1, <1>2, <1>6 DEF Connected, Fields
  <2>2. worker' \in [Gens -> WorkerStates]
    <3>1. worker[pub.gen] \in WorkerStates
      BY <1>1, <1>2
    <3>2. [worker[pub.gen] EXCEPT !.pc = "get"] \in WorkerStates
      BY <3>1 DEF WorkerStates, WorkerPCs
    <3>3. worker' = [worker EXCEPT ![pub.gen] = [worker[pub.gen] EXCEPT !.pc = "get"]]
      BY <1>6 DEF Connected
    <3> QED  BY <1>1, <1>2, <3>2, <3>3
  <2> QED  BY <1>3, <1>4, <1>6, <2>1, <2>2 DEF Connected, TypeInv, TypeOK
<1>7. CASE ConnectFails
  BY <1>3, <1>4, <1>7 DEF ConnectFails, TypeInv, TypeOK
<1>8. CASE Disconnect
  <2>1. stop' \in [Gens -> BOOLEAN]
    BY <1>1, <1>8 DEF Disconnect
  <2> QED  BY <1>3, <1>4, <1>8, <2>1 DEF Disconnect, TypeInv, TypeOK
<1>9. CASE PutMarker
  <2>1. queue' \in [Gens -> Seq(Items)] /\ \A g \in Gens : Len(queue'[g]) <= QueueMax
    BY <1>2, <1>9, PutType DEF PutMarker
  <2> QED  BY <1>3, <1>4, <1>9, <2>1 DEF PutMarker, TypeInv, TypeOK
<1>10. CASE MarkerTimesOut
  BY <1>3, <1>4, <1>10 DEF MarkerTimesOut, TypeInv, TypeOK
<1>11. CASE Join
  <2>1. pub' \in Fields
    <3>1. 0 \in Gens
      OBVIOUS
    <3>2. pub' = [pub EXCEPT !.thread = 0]
      BY <1>11 DEF Join
    <3> HIDE DEF Gens
    <3> QED  BY <1>1, <3>1, <3>2 DEF Fields
  <2> QED  BY <1>3, <1>4, <1>11, <2>1 DEF Join, TypeInv, TypeOK
<1>12. CASE JoinTimesOut
  BY <1>3, <1>4, <1>12 DEF JoinTimesOut, TypeInv, TypeOK
<1>13. CASE DropNext
  <2> DEFINE x == Head(queue[pub.gen])
  <2>1. queue' \in [Gens -> Seq(Items)] /\ \A g \in Gens : Len(queue'[g]) <= QueueMax
    BY <1>2, <1>13, TakeType DEF DropNext
  <2>2. IsFiniteSet({x} \cap Keys)
    <3>1. IsFiniteSet({x})
      BY FS_Singleton
    <3>2. {x} \cap Keys \in SUBSET {x}
      OBVIOUS
    <3> QED  BY <3>1, <3>2, FS_Subset
  <2>3. IsFiniteSet(life.left \cup ({x} \cap Keys))
    BY <1>1, <2>2, FS_Union
  <2>4. life' \in [pc : LifePCs, left : SUBSET Keys] /\ IsFiniteSet(life'.left)
    BY <1>1, <1>13, <2>3 DEF DropNext
  <2>5. flush' \in [Flushes -> FlushStates]
    BY <1>1, <1>13, SignalledType DEF DropNext
  <2> QED  BY <1>13, <2>1, <2>4, <2>5 DEF DropNext, TypeInv, TypeOK
<1>14. CASE DropEnd
  <2>1. life.left \in SUBSET Keys
    BY <1>1
  <2>2. pub' \in Fields /\ history' \in Histories
    BY <1>1, <1>14, <2>1, RecordDropType, DropType DEF DropEnd
  <2>3. life' \in [pc : LifePCs, left : SUBSET Keys] /\ IsFiniteSet(life'.left)
    BY <1>14, FS_EmptySet DEF DropEnd, LifePCs
  <2> QED  BY <1>14, <2>2, <2>3 DEF DropEnd, TypeInv, TypeOK
<1>15. CASE Disconnected
  <2>1. pub' \in Fields
    BY <1>1, <1>15 DEF Disconnected, Fields
  <2> QED  BY <1>3, <1>4, <1>15, <2>1 DEF Disconnected, TypeInv, TypeOK
<1>16. CASE Collect
  <2>1. pub' \in Fields
    BY <1>1, <1>16 DEF Collect, Fields
  <2>2. stop' \in [Gens -> BOOLEAN]
    BY <1>1, <1>16 DEF Collect
  <2>3. queue' \in [Gens -> Seq(Items)] /\ \A g \in Gens : Len(queue'[g]) <= QueueMax
    <3>1. CASE queue' = queue  BY <1>1, <3>1 DEF TypeInv, TypeOK
    <3>2. CASE queue' # queue
      <4>1. ~Full(pub.gen) /\ queue' = [queue EXCEPT ![pub.gen] = Append(@, StopMarker)]
        BY <1>16, <3>2 DEF Collect
      <4> QED  BY <1>2, <4>1, PutType
    <3> QED  BY <3>1, <3>2
  <2> QED  BY <1>16, <2>1, <2>2, <2>3 DEF Collect, TypeInv, TypeOK
<1> QED  BY <1>5, <1>6, <1>7, <1>8, <1>9, <1>10, <1>11, <1>12, <1>13, <1>14, <1>15, <1>16
         DEF Lifecycle, Disconnecting

LEMMA InitType == Init => TypeInv
<1> SUFFICES ASSUME Init PROVE TypeInv
  OBVIOUS
<1>1. pub \in Fields
  BY DEF Init, Fields
<1>2. queue \in [Gens -> Seq(Items)] /\ \A g \in Gens : Len(queue[g]) <= QueueMax
  BY EmptySeq DEF Init
<1>3. stop \in [Gens -> BOOLEAN]
  BY DEF Init
<1>4. worker \in [Gens -> WorkerStates]
  BY EmptySeq DEF Init, WorkerStates, WorkerPCs
<1>5. life \in [pc : LifePCs, left : SUBSET Keys] /\ IsFiniteSet(life.left)
  BY FS_EmptySet DEF Init, LifePCs
<1>6. call \in [Calls -> CallStates] /\ \A c \in Calls : call[c].i \in 1 .. Len(BatchOf[c])
  BY CallKeys DEF Init, CallStates, CallPCs
<1>7. flush \in [Flushes -> FlushStates]
  BY DEF Init, FlushStates, FlushPCs
<1>8. delivered \in Seq(Seq(Keys)) /\ fails \in 0 .. MaxFails
  BY EmptySeq DEF Init
<1>9. history \in Histories
  BY EmptySeq DEF Init, Histories
<1> QED  BY <1>1, <1>2, <1>3, <1>4, <1>5, <1>6, <1>7, <1>8, <1>9 DEF TypeInv, TypeOK

LEMMA NextType == TypeInv /\ [Next]_vars => TypeInv'
<1> SUFFICES ASSUME TypeInv, [Next]_vars PROVE TypeInv'
  OBVIOUS
<1>1. CASE UNCHANGED vars  BY <1>1 DEF vars, TypeInv, TypeOK
<1>2. CASE Next  BY <1>2, NotifyType, FlushType, WorkType, LifeType DEF Next
<1> QED  BY <1>1, <1>2

\* Every step of the publisher, its workers and its callers keeps the fields, queues and
\* records of _base.py in their types, each queue within queue_maxsize.
THEOREM TypeCorrect == Spec => []TypeOK
<1>1. TypeInv => TypeOK
  BY DEF TypeInv
<1> QED  BY <1>1, InitType, NextType, PTL DEF Spec

(***************************************************************************)
(* The one worker.                                                         *)
(***************************************************************************)

\* What each kind of step leaves alone, and that the pending call drops keep the fields.
LEMMA NotifyFrame ==
    ASSUME TypeInv, NEW c \in Calls, Notify(c)
    PROVE  /\ UNCHANGED <<worker, life, stop, flush, delivered>>
           /\ pub'.connected = pub.connected /\ pub'.owned = pub.owned
           /\ pub'.gen = pub.gen /\ pub'.thread = pub.thread
<1>1. pub \in Fields
  BY DEF TypeInv, TypeOK
<1>2. CASE NotifyUnconnected(c)
  BY <1>1, <1>2, RestFinite, RecordDropType DEF NotifyUnconnected
<1>3. CASE DropRest(c)
  <2> DEFINE p == [pub EXCEPT !.stalled = TRUE]
  <2>1. /\ p \in Fields /\ p.connected = pub.connected /\ p.owned = pub.owned
        /\ p.gen = pub.gen /\ p.thread = pub.thread
    BY <1>1 DEF Fields
  <2>2. pub' = RecordDrop(p, Rest(c)) /\ UNCHANGED <<worker, life, stop, flush, delivered>>
    BY <1>3 DEF DropRest
  <2> HIDE DEF p
  <2> QED  BY <2>1, <2>2, RestFinite, RecordDropType
<1> QED
  BY <1>2, <1>3 DEF Notify, NotifyConnected, NotifyEnsure, NotifyRead, Put, PutFull, PutTimesOut

LEMMA FlushFrame ==
    ASSUME TypeInv, NEW f \in Flushes, Flush(f)
    PROVE  /\ UNCHANGED <<worker, life, stop, call, delivered>>
           /\ pub'.connected = pub.connected /\ pub'.owned = pub.owned
           /\ pub'.gen = pub.gen /\ pub'.thread = pub.thread
<1>1. pub \in Fields
  BY DEF TypeInv, TypeOK
<1>2. CASE FlushRaise(f)
  BY <1>1, <1>2 DEF FlushRaise, Fields
<1> QED  BY <1>2 DEF Flush, FlushStart, FlushPut, FlushWake, FlushTimesOut

\* A worker's step is taken alive, and may count drops.
LEMMA WorkFrame ==
    ASSUME TypeInv, NEW g \in Gens, Work(g)
    PROVE  /\ UNCHANGED <<life, stop, call>> /\ Alive(g)
           /\ pub'.connected = pub.connected /\ pub'.owned = pub.owned
           /\ pub'.gen = pub.gen /\ pub'.thread = pub.thread
           /\ \A h \in Gens : h # g => worker'[h] = worker[h]
<1>1. /\ pub \in Fields /\ worker \in [Gens -> WorkerStates] /\ worker[g] \in WorkerStates
      /\ worker[g].batch \in Seq(Keys) /\ worker[g].chunk \in Seq(Keys)
  BY DEF TypeInv, TypeOK, WorkerStates
<1>2. CASE StartChunk(g)
  <2> DEFINE b == worker[g].batch
             n == Smaller(ChunkMax, Len(b))
             s == SubSeq(b, 1, n)
             r == SubSeq(b, n + 1, Len(b))
  <2>1. n \in 1 .. Len(b)
    <3>1. Len(b) \in Nat /\ Len(b) # 0
      BY <1>1, <1>2, LenProperties, EmptySeq DEF StartChunk
    <3> QED  BY <3>1 DEF Smaller
  <2>2. IsFiniteSet(Range(s))
    <3>1. s \in Seq(Keys)
      BY <1>1, <2>1, RangeCut
    <3> QED  BY <3>1, RangeFinite
  <2> HIDE DEF s, r, n
  <2>3. PICK lost \in SUBSET Range(s) : pub' = RecordDrop(pub, lost)
    BY <1>2 DEF StartChunk, n, s
  <2>4. PICK w : worker' = [worker EXCEPT ![g] = w]
    BY <1>2 DEF StartChunk
  <2>5. UNCHANGED <<life, stop, call>> /\ Alive(g)
    BY <1>2 DEF StartChunk, Alive
  <2> QED  BY <1>1, <2>2, <2>3, <2>4, <2>5, FS_Subset, RecordDropType
<1>3. CASE SendDropped(g)
  <2> DEFINE p    == [pub EXCEPT !.drainFailed = @ \/ stop[g]]
             lost == Range(worker[g].chunk) \ Unroutable
  <2>1. /\ p \in Fields /\ p.connected = pub.connected /\ p.owned = pub.owned
        /\ p.gen = pub.gen /\ p.thread = pub.thread
    BY <1>1 DEF Fields
  <2>2. IsFiniteSet(lost)
    BY <1>1, RangeFinite, FS_Subset
  <2>3. pub' = RecordDrop(p, lost) /\ UNCHANGED <<life, stop, call>> /\ Alive(g)
    BY <1>3 DEF SendDropped, SendRaises, ChunkDone, Alive
  <2>4. \A h \in Gens : h # g => worker'[h] = worker[h]
    BY <1>1, <1>3 DEF SendDropped, ChunkDone
  <2> HIDE DEF p, lost
  <2> QED  BY <2>1, <2>2, <2>3, <2>4, RecordDropType
<1>4. CASE SendOk(g)
  BY <1>1, <1>4 DEF SendOk, ChunkDone, Fields, Alive
<1>5. CASE WorkerGet(g)
  <2>1. worker' = [worker EXCEPT ![g] = Taken(worker[g], Head(queue[g]))]
    BY <1>5 DEF WorkerGet
  <2> QED  BY <1>1, <1>5, <2>1 DEF WorkerGet, Alive
<1>6. CASE EndBatch(g)
  BY <1>1, <1>6 DEF EndBatch, Alive
<1>7. CASE WorkerEmpty(g) \/ WorkerPoll(g) \/ WorkerDrained(g) \/ StartBatch(g) \/ SendRetried(g)
  BY <1>1, <1>7
     DEF WorkerEmpty, WorkerPoll, WorkerDrained, StartBatch, SendRetried, SendRaises, Alive
<1> QED  BY <1>2, <1>3, <1>4, <1>5, <1>6, <1>7 DEF Work

\* What a worker holds fits where it is.
Holds(wk) ==
    /\ wk.pc # "send" => wk.chunk = <<>>
    /\ wk.pc \notin {"more", "publish", "chunk", "send"} => wk.batch = <<>>
    /\ wk.pc \notin {"publish", "chunk", "send"} => wk.item = NoItem

LEMMA WorkHolds ==
    ASSUME TypeInv, NEW g \in Gens, Work(g), Holds(worker[g])
    PROVE  Holds(worker'[g])
<1>1. worker \in [Gens -> WorkerStates] /\ worker[g] \in WorkerStates
  BY DEF TypeInv, TypeOK
<1> USE DEF Holds, WorkerStates
<1>2. CASE WorkerGet(g)
  <2> DEFINE x == Head(queue[g])
  <2>1. worker'[g] = Taken(worker[g], x)
    BY <1>1, <1>2 DEF WorkerGet
  <2>2. x \in Items
    BY <1>2, TakeType DEF WorkerGet
  <2>3. worker[g].chunk = <<>> /\ worker[g].item = NoItem
    BY <1>2 DEF WorkerGet
  <2> HIDE DEF x
  <2> QED  BY <1>1, <2>1, <2>2, <2>3, TakenType
<1>3. CASE WorkerEmpty(g) \/ WorkerPoll(g) \/ WorkerDrained(g) \/ StartBatch(g)
  BY <1>1, <1>3, SMTT(30) DEF WorkerEmpty, WorkerPoll, WorkerDrained, StartBatch
<1>4. CASE EndBatch(g)
  <2>1. worker'[g].batch = <<>> /\ worker'[g].item = NoItem /\ worker'[g].chunk = worker[g].chunk
    BY <1>1, <1>4 DEF EndBatch
  <2>2. worker[g].chunk = <<>>
    BY <1>4 DEF EndBatch
  <2> QED  BY <2>1, <2>2
<1>5. CASE StartChunk(g)
  BY <1>1, <1>5 DEF StartChunk
<1>6. CASE SendOk(g) \/ SendRetried(g) \/ SendDropped(g)
  BY <1>1, <1>6 DEF SendOk, SendRetried, SendDropped, ChunkDone
<1> QED  BY <1>2, <1>3, <1>4, <1>5, <1>6 DEF Work

LEMMA WorkerInvNext == TypeInv /\ WorkerInv /\ [Next]_vars => WorkerInv'
<1> SUFFICES ASSUME TypeInv, WorkerInv, [Next]_vars PROVE WorkerInv'
  OBVIOUS
<1>1. /\ \A g \in Gens : Alive(g) => g = pub.gen /\ g = pub.thread
      /\ life.pc \in {"connecting", "clearing"} => \A g \in Gens : ~Alive(g)
      /\ \A g \in Gens : Holds(worker[g])
  BY DEF WorkerInv, Holds
<1> DEFINE Kept == /\ \A g \in Gens : Alive(g)' => g = pub'.gen /\ g = pub'.thread
                   /\ life'.pc \in {"connecting", "clearing"} => \A g \in Gens : ~Alive(g)'
                   /\ \A g \in Gens : Holds(worker'[g])
<1>2. SUFFICES Kept
  BY DEF WorkerInv, Holds
<1>3. /\ pub \in Fields /\ pub.gen \in Gens /\ pub.thread \in Gens
      /\ worker \in [Gens -> WorkerStates] /\ life \in [pc : LifePCs, left : SUBSET Keys]
  BY DEF TypeInv, TypeOK, Fields
<1>4. CASE UNCHANGED <<worker, life>> /\ pub'.gen = pub.gen /\ pub'.thread = pub.thread
  BY <1>1, <1>4 DEF Alive
<1>5. CASE UNCHANGED vars  BY <1>4, <1>5 DEF vars
<1>6. CASE \E c \in Calls : Notify(c)  BY <1>4, <1>6, NotifyFrame
<1>7. CASE \E f \in Flushes : Flush(f)  BY <1>4, <1>7, FlushFrame
<1>8. ASSUME NEW g \in Gens, Work(g)  PROVE Kept
  <2>1. /\ UNCHANGED life /\ Alive(g) /\ pub'.gen = pub.gen /\ pub'.thread = pub.thread
        /\ \A h \in Gens : h # g => worker'[h] = worker[h]
    BY <1>8, WorkFrame
  <2>2. Holds(worker'[g])
    BY <1>1, <1>8, WorkHolds
  <2>3. \A h \in Gens : Alive(h)' => Alive(h)
    BY <2>1 DEF Alive
  <2> QED  BY <1>1, <2>1, <2>2, <2>3
<1>9. CASE Connect
  <2>1. life.pc = "idle" /\ ~Alive(pub.thread) /\ UNCHANGED worker
    BY <1>9 DEF Connect
  <2>2. \A g \in Gens : ~Alive(g)'
    BY <1>1, <2>1 DEF Alive
  <2> QED  BY <1>1, <2>1, <2>2
<1>10. CASE Connected
  <2>1. /\ pub'.gen = pub.gen /\ pub'.thread = pub.gen /\ life'.pc = "idle"
        /\ worker' = [worker EXCEPT ![pub.gen].pc = "get"]
    BY <1>3, <1>10 DEF Connected, Fields
  <2>2. \A g \in Gens : ~Alive(g)
    BY <1>1, <1>10 DEF Connected
  <2>3. \A g \in Gens : Alive(g)' => g = pub.gen
    BY <1>3, <2>1, <2>2 DEF Alive
  <2>4. Holds(worker'[pub.gen])
    <3>1. worker[pub.gen].pc \in {"none", "dead"}
      BY <1>3, <2>2 DEF Alive
    <3>2. Holds(worker[pub.gen])
      BY <1>1, <1>3
    <3> QED  BY <1>3, <2>1, <3>1, <3>2 DEF Holds, WorkerStates
  <2>5. \A g \in Gens : Holds(worker'[g])
    BY <1>1, <1>3, <2>1, <2>4
  <2> QED  BY <2>1, <2>3, <2>5
<1>11. CASE Join
  <2>1. pub'.gen = pub.gen /\ UNCHANGED worker /\ ~Alive(pub.thread)
    BY <1>3, <1>11 DEF Join, Fields
  <2>2. \A g \in Gens : ~Alive(g)'
    BY <1>1, <2>1 DEF Alive
  <2> QED  BY <1>1, <2>1, <2>2
<1>12. CASE DropEnd
  <2>1. pub'.gen = pub.gen /\ pub'.thread = pub.thread
    <3>1. IsFiniteSet(life.left) /\ pub' = RecordDrop(pub, life.left)
      BY <1>12 DEF DropEnd, TypeInv
    <3> QED  BY <1>3, <3>1, RecordDropType
  <2>2. life'.pc = "closing" /\ UNCHANGED worker
    BY <1>12 DEF DropEnd
  <2> QED  BY <1>1, <2>1, <2>2 DEF Alive
<1>13. CASE \/ ConnectFails \/ Disconnect \/ PutMarker \/ MarkerTimesOut \/ JoinTimesOut
            \/ DropNext \/ Disconnected \/ Collect
  <2>1. /\ pub'.gen = pub.gen /\ pub'.thread = pub.thread /\ UNCHANGED worker
        /\ life'.pc \in {"connecting", "clearing"} => life'.pc = life.pc
    BY <1>3, <1>13 DEF ConnectFails, Disconnect, PutMarker, MarkerTimesOut, JoinTimesOut,
       DropNext, Disconnected, Collect, Fields, LifePCs
  <2> QED  BY <1>1, <2>1 DEF Alive
<1> QED
  BY <1>5, <1>6, <1>7, <1>8, <1>9, <1>10, <1>11, <1>12, <1>13
     DEF Next, Lifecycle, Disconnecting

\* Exactly one worker drains: connect refuses while a worker that a disconnect gave up
\* waiting for still sends, so no second one is ever started beside it.
THEOREM OneWorkerCorrect == Spec => []OneWorker
<1>1. Init => WorkerInv
  BY DEF Init, WorkerInv, Alive
<1>2. WorkerInv => OneWorker
  BY DEF WorkerInv, OneWorker
<1> QED  BY <1>1, <1>2, InitType, NextType, WorkerInvNext, PTL DEF Spec

(***************************************************************************)
(* The accounting of keys. The parts of AccountInv hold together, so each  *)
(* kind of step is shown to keep all four.                                 *)
(***************************************************************************)

\* A key is no sentinel.
LEMMA KeyKinds ==
    /\ Keys \cap Flushes = {} /\ StopMarker \notin Keys /\ StopMarker \notin Flushes
    /\ NoItem # StopMarker
BY CallsAssumption

\* That no key is behind the marker is kept by append and tail.
LEMMA OrderedAppend ==
    ASSUME NEW s \in Seq(Items), Ordered(s), NEW x \in Items,
           x \in Keys => StopMarker \notin Range(s)
    PROVE  Ordered(Append(s, x))
<1> DEFINE r == Append(s, x)
<1>1. /\ r \in Seq(Items) /\ Len(r) = Len(s) + 1
      /\ \A i \in 1 .. Len(s) : r[i] = s[i]
      /\ r[Len(s) + 1] = x
  BY AppendProperties
<1>2. /\ DOMAIN s = 1 .. Len(s) /\ Len(s) \in Nat /\ DOMAIN r = 1 .. Len(s) + 1
  BY <1>1, LenProperties
<1>3. Range(s) = {s[i] : i \in 1 .. Len(s)}
  BY RangeEquality
<1> HIDE DEF r
<1>4. ASSUME NEW i \in DOMAIN r, NEW j \in DOMAIN r, i < j, r[i] = StopMarker
      PROVE  r[j] \notin Keys
  <2>1. i \in 1 .. Len(s) /\ s[i] = StopMarker
    BY <1>1, <1>2, <1>4
  <2>2. CASE j \in 1 .. Len(s)
    BY <1>1, <1>2, <1>4, <2>1, <2>2 DEF Ordered
  <2>3. CASE j = Len(s) + 1
    BY <1>1, <1>3, <2>1, <2>3
  <2> QED  BY <1>2, <2>2, <2>3
<1> QED  BY <1>4 DEF Ordered, r

LEMMA OrderedTail ==
    ASSUME NEW s \in Seq(Items), Ordered(s), s # <<>>
    PROVE  /\ Ordered(Tail(s))
           /\ Head(s) = StopMarker => Range(Tail(s)) \cap Keys = {}
<1> DEFINE r == Tail(s)
<1>1. /\ r \in Seq(Items) /\ Len(r) = Len(s) - 1
      /\ \A i \in 1 .. Len(r) : r[i] = s[i + 1]
  BY HeadTailProperties
<1>2. /\ DOMAIN s = 1 .. Len(s) /\ Len(s) \in Nat /\ DOMAIN r = 1 .. Len(r) /\ Len(s) > 0
  BY <1>1, LenProperties, EmptySeq
<1>3. Range(r) = {r[i] : i \in 1 .. Len(r)}
  BY <1>1, RangeEquality
<1>4. Head(s) = s[1]
  OBVIOUS
<1> HIDE DEF r
<1>5. ASSUME NEW i \in DOMAIN r, NEW j \in DOMAIN r, i < j, r[i] = StopMarker
      PROVE  r[j] \notin Keys
  <2>1. i + 1 \in DOMAIN s /\ j + 1 \in DOMAIN s /\ i + 1 < j + 1
        /\ r[i] = s[i + 1] /\ r[j] = s[j + 1]
    BY <1>1, <1>2, <1>5
  <2> QED  BY <1>5, <2>1 DEF Ordered
<1>6. ASSUME Head(s) = StopMarker, NEW i \in 1 .. Len(r)  PROVE r[i] \notin Keys
  <2>1. 1 \in DOMAIN s /\ i + 1 \in DOMAIN s /\ 1 < i + 1 /\ r[i] = s[i + 1]
    BY <1>1, <1>2
  <2> QED  BY <1>4, <1>6, <2>1 DEF Ordered
<1>7. Ordered(r)
  BY <1>5 DEF Ordered
<1>8. Head(s) = StopMarker => Range(r) \cap Keys = {}
  BY <1>3, <1>6
<1> QED  BY <1>7, <1>8 DEF r

\* What another chunk adds to the keys the transport was given.
LEMMA ReceivedAppend ==
    ASSUME delivered \in Seq(Seq(Keys)), NEW chunk \in Seq(Keys),
           delivered' = Append(delivered, chunk)
    PROVE  Received' = Received \cup (Range(chunk) \ Unroutable)
<1> DEFINE Given(d) == UNION {Range(x) : x \in Range(d)}
<1>1. Range(delivered') = Range(delivered) \cup {chunk}
  BY RangeAppend
<1>2. Received = Given(delivered) \ Unroutable /\ Received' = Given(delivered') \ Unroutable
  BY DEF Received
<1>3. \A k : k \in Given(delivered) <=> \E x \in Range(delivered) : k \in Range(x)
  OBVIOUS
<1>4. \A k : k \in Given(delivered') <=> \E x \in Range(delivered') : k \in Range(x)
  OBVIOUS
<1> HIDE DEF Given
<1>5. Given(delivered') = Given(delivered) \cup Range(chunk)
  BY <1>1, <1>3, <1>4
<1> QED  BY <1>2, <1>5

\* The state in which a step is taken, and what it must keep.
Before == /\ ~Overlap /\ pub.owned /\ TypeInv /\ WorkerInv
          /\ ConnectionInv /\ CallInv /\ QueueInv /\ KeysInv
After  == ConnectionInv /\ CallInv /\ QueueInv /\ KeysInv

\* A notify queues a key only on the connection in use.
LEMMA NotifyQueue ==
    ASSUME Before, NEW c \in Calls, Notify(c)
    PROVE  LET k == BatchOf[c][call[c].i]
               h == history
           IN \/ /\ Put(c) /\ k \in Keys /\ InUse
                 /\ queue' = [queue EXCEPT ![pub.gen] = Append(@, k)]
                 /\ Range(history'.accepted) = Range(h.accepted) \cup {k}
                 /\ history'.dropped = h.dropped
              \/ /\ ~Put(c) /\ queue' = queue /\ history'.accepted = h.accepted
                 /\ h.dropped \subseteq history'.dropped
<1> DEFINE k == BatchOf[c][call[c].i]
<1>1. history \in Histories /\ history.accepted \in Seq(Keys) /\ history.dropped \in SUBSET Keys
  BY DEF Before, TypeInv, TypeOK, Histories
<1>2. CASE Put(c)
  <2>1. k \in Keys
    BY CallKeys DEF Before, TypeInv
  <2>2. InUse /\ call[c].q = pub.gen
    BY <1>2 DEF Put, Before, CallInv
  <2>3. Range(Append(history.accepted, k)) = Range(history.accepted) \cup {k}
    BY <1>1, <2>1, RangeAppend
  <2>4. history' = [history EXCEPT !.accepted = Append(@, k)]
    BY <1>2 DEF Put
  <2>5. queue' = [queue EXCEPT ![pub.gen] = Append(@, k)]
    BY <1>2, <2>2 DEF Put
  <2>6. history'.accepted = Append(history.accepted, k) /\ history'.dropped = history.dropped
    BY <1>1, <2>4 DEF Histories
  <2> QED  BY <1>2, <2>1, <2>2, <2>3, <2>5, <2>6
<1>3. CASE ~Put(c)
  <2>1. queue' = queue
    BY <1>3 DEF Notify, NotifyConnected, NotifyUnconnected, NotifyEnsure, NotifyRead, PutFull,
       PutTimesOut, DropRest
  <2>2. history' = history \/ \E ks : history' = Drop(ks)
    BY <1>3 DEF Notify, NotifyConnected, NotifyUnconnected, NotifyEnsure, NotifyRead, PutFull,
       PutTimesOut, DropRest
  <2>3. history'.accepted = history.accepted /\ history.dropped \subseteq history'.dropped
    BY <1>1, <2>2 DEF Drop, Histories
  <2> QED  BY <1>3, <2>1, <2>3
<1> QED  BY <1>2, <1>3

LEMMA NotifyAccount ==
    ASSUME Before, NEW c \in Calls, Notify(c)
    PROVE  After'
<1>1. /\ UNCHANGED <<worker, life, stop, flush, delivered>>
      /\ pub'.connected = pub.connected /\ pub'.gen = pub.gen
  BY NotifyFrame DEF Before
<1>2. /\ InUse' = InUse /\ Finishing' = Finishing /\ \A g \in Gens : Alive(g)' = Alive(g)
      /\ InQueue' = InQueue /\ Received' = Received
  BY <1>1 DEF InUse, Finishing, Alive, InQueue, Received
<1>3. /\ queue \in [Gens -> Seq(Items)] /\ pub.gen \in Gens /\ pub.connected \in BOOLEAN
      /\ life.pc \in LifePCs /\ call \in [Calls -> CallStates]
      /\ history.dropped \in SUBSET Keys
  BY DEF Before, TypeInv, TypeOK, Fields, Histories
<1>4. CASE Put(c)
  <2> PICK k : k = BatchOf[c][call[c].i]
    OBVIOUS
  <2>1. /\ k \in Keys /\ k \in Items /\ k # StopMarker /\ InUse
        /\ queue' = [queue EXCEPT ![pub.gen] = Append(@, k)]
        /\ Range(history'.accepted) = Range(history.accepted) \cup {k}
        /\ history'.dropped = history.dropped
    BY <1>4, NotifyQueue, KeyKinds DEF Items
  <2>2. StopMarker \notin Range(queue[pub.gen]) /\ worker[pub.gen].item # StopMarker
    BY <2>1 DEF Before, ConnectionInv
  <2>3. /\ queue'[pub.gen] = Append(queue[pub.gen], k) /\ Ordered(queue'[pub.gen])
        /\ Range(queue'[pub.gen]) = Range(queue[pub.gen]) \cup {k}
        /\ \A g \in Gens : g # pub.gen => queue'[g] = queue[g]
    <3>1. queue[pub.gen] \in Seq(Items) /\ Ordered(queue[pub.gen])
      BY <1>3 DEF Before, QueueInv
    <3>2. queue'[pub.gen] = Append(queue[pub.gen], k) /\ \A g \in Gens : g # pub.gen => queue'[g] = queue[g]
      BY <1>3, <2>1
    <3> QED  BY <2>1, <2>2, <3>1, <3>2, RangeAppend, OrderedAppend
  <2>4. pub.gen \in InQueue
    BY <1>3, <2>1 DEF InUse, InQueue, Before, ConnectionInv
  <2>5. ~Finishing
    BY <2>1 DEF InUse, Finishing
  <2>6. ConnectionInv'
    <3>1. /\ life' = life /\ stop' = stop /\ worker' = worker /\ flush' = flush
          /\ pub'.connected = pub.connected /\ pub'.gen = pub.gen
      BY <1>1
    <3>2. ConnectionInv
      BY DEF Before
    <3>3. /\ life'.pc \in {"marking", "joining", "clearing", "closing"} => pub'.connected
          /\ life'.pc = "connecting" => ~pub'.connected /\ ~stop'[pub'.gen]
      BY <3>1, <3>2 DEF ConnectionInv
    <3>4. life'.pc = "idle" /\ pub'.connected => Alive(pub.gen)' /\ ~stop'[pub'.gen]
      BY <1>3, <3>1, <3>2 DEF ConnectionInv, Alive
    <3>5. StopMarker \notin Range(queue'[pub'.gen]) /\ worker'[pub'.gen].item # StopMarker
      BY <2>1, <2>2, <2>3, <3>1
    <3>6. \A g \in Gens : g > pub'.gen => queue'[g] = <<>> /\ ~stop'[g]
      <4>1. ASSUME NEW g \in Gens, g > pub.gen  PROVE  queue'[g] = <<>> /\ ~stop[g]
        <5>1. g # pub.gen
          BY <1>3, <4>1 DEF Gens
        <5> QED  BY <2>3, <3>2, <4>1, <5>1 DEF ConnectionInv
      <4> QED  BY <3>1, <4>1
    <3>7. \A f \in Flushes : flush'[f].q <= pub'.gen
      BY <3>1, <3>2 DEF ConnectionInv
    <3> QED  BY <3>3, <3>4, <3>5, <3>6, <3>7 DEF ConnectionInv
  <2>7. QueueInv'
    BY <1>1, <1>2, <1>3, <2>2, <2>3, <2>4, <2>5 DEF Before, QueueInv
  <2>8. CallInv'
    <3>1. /\ (call'[c].pc = "put" /\ call'[c].q = call[c].q) \/ call'[c].pc = "done"
          /\ \A d \in Calls : d # c => call'[d] = call[d]
      BY <1>3, <1>4 DEF Put, Returned
    <3> QED  BY <1>1, <1>2, <1>4, <2>1, <3>1 DEF Before, CallInv, Put
  <2>9. KeysInv'
    <3>1. \A x : Somewhere(x) => Somewhere(x)'
      BY <1>1, <1>2, <2>1, <2>3 DEF Somewhere
    <3>2. Somewhere(k)'
      BY <1>3, <2>3 DEF Somewhere
    <3>3. \A d \in Calls : \A j \in 1 .. Len(BatchOf[d]) : Settled(d, j) => Settled(d, j)'
      BY <2>1 DEF Settled
    <3>4. ASSUME NEW d \in Calls, NEW j \in 1 .. Len(BatchOf[d]),
                 call'[d].pc \in {"ensure", "done"} \/ j < call'[d].i
          PROVE  Settled(d, j)'
      <4>1. CASE d # c
        BY <1>3, <1>4, <3>3, <3>4, <4>1 DEF Put, Before, KeysInv
      <4>2. CASE d = c
        <5>1. call[c].i \in 1 .. Len(BatchOf[c]) /\ Len(BatchOf[c]) \in Nat
          BY CallKeys DEF Before, TypeInv
        <5>2. j <= call[c].i
          <6>1. CASE call[c].i = Len(BatchOf[c])  BY <4>2, <5>1, <6>1
          <6>2. CASE call[c].i # Len(BatchOf[c])
            <7>1. call'[c].pc = "put" /\ call'[c].i = call[c].i + 1
              BY <1>3, <1>4, <6>2 DEF Put
            <7> QED  BY <3>4, <4>2, <5>1, <7>1
          <6> QED  BY <6>1, <6>2
        <5>3. CASE j = call[c].i  BY <2>1, <4>2, <5>3 DEF Settled
        <5>4. CASE j < call[c].i  BY <3>3, <4>2, <5>4 DEF Before, KeysInv
        <5> QED  BY <5>1, <5>2, <5>3, <5>4
      <4> QED  BY <4>1, <4>2
    <3> QED  BY <1>1, <2>1, <3>1, <3>2, <3>4 DEF Before, KeysInv
  <2> QED  BY <2>6, <2>7, <2>8, <2>9 DEF After
<1>5. CASE ~Put(c)
  <2>1. /\ queue' = queue /\ history'.accepted = history.accepted
        /\ history.dropped \subseteq history'.dropped
    BY <1>5, NotifyQueue
  <2>2. ConnectionInv'
    BY <1>1, <1>2, <1>3, <2>1 DEF Before, ConnectionInv
  <2>3. QueueInv'
    BY <1>1, <1>2, <2>1 DEF Before, QueueInv
  <2>4. \A d \in Calls : d # c => call'[d] = call[d]
    BY <1>3, <1>5 DEF Notify, NotifyConnected, NotifyUnconnected, NotifyEnsure, NotifyRead, PutFull,
       PutTimesOut, DropRest
  <2>5. CallInv'
    <3>1. /\ call[c].pc \in {"read", "put", "wait", "drop"} => InUse
          /\ call[c].pc \in {"put", "wait", "drop"} => call[c].q = pub.gen
          /\ call[c].pc = "ensure" => life.pc \in {"idle", "connecting", "marking"}
      BY DEF Before, CallInv
    <3>2. /\ life.pc \in {"marking", "joining", "clearing", "closing"} => pub.connected
          /\ life.pc = "connecting" => ~pub.connected
      BY DEF Before, ConnectionInv
    <3>3. CASE NotifyConnected(c)
      <4>1. InUse
        BY <1>3, <3>2, <3>3 DEF NotifyConnected, Leaving, LifePCs, InUse, Before
      <4>2. call'[c].pc = "read"
        BY <1>3, <3>3 DEF NotifyConnected
      <4> QED  BY <1>1, <1>2, <2>4, <4>1, <4>2 DEF Before, CallInv
    <3>4. CASE NotifyUnconnected(c)
      <4>1. life.pc \in {"idle", "connecting", "marking"}
        BY <1>3, <3>2, <3>4 DEF NotifyUnconnected, LifePCs
      <4>2. call'[c].pc = "ensure"
        BY <1>3, <3>4 DEF NotifyUnconnected
      <4> QED  BY <1>1, <1>2, <2>4, <4>1, <4>2 DEF Before, CallInv
    <3>5. CASE NotifyEnsure(c)
      <4>1. call'[c].pc = IF pub.connected THEN "read" ELSE "done"
        BY <1>3, <3>5 DEF NotifyEnsure, Returned
      <4>2. pub.connected => InUse
        BY <3>1, <3>2, <3>5 DEF NotifyEnsure, InUse
      <4> QED  BY <1>1, <1>2, <2>4, <4>1, <4>2 DEF Before, CallInv
    <3>6. CASE NotifyRead(c)
      <4>1. call'[c].pc = "put" /\ call'[c].q = pub.gen /\ InUse
        BY <1>3, <3>1, <3>6 DEF NotifyRead
      <4> QED  BY <1>1, <1>2, <2>4, <4>1 DEF Before, CallInv
    <3>7. CASE PutFull(c) \/ PutTimesOut(c)
      <4>1. /\ call'[c].pc \in {"wait", "drop"} /\ call'[c].q = call[c].q
            /\ call[c].pc \in {"put", "wait"}
        <5>1. PICK pc \in {"wait", "drop"} : call' = [call EXCEPT ![c].pc = pc]
          BY <3>7 DEF PutFull, PutTimesOut
        <5> QED  BY <1>3, <3>7, <5>1 DEF PutFull, PutTimesOut, CallStates
      <4> QED  BY <1>1, <1>2, <2>4, <3>1, <4>1 DEF Before, CallInv
    <3>8. CASE DropRest(c)
      <4>1. call'[c].pc = "done"
        BY <1>3, <3>8 DEF DropRest, Returned
      <4> QED  BY <1>1, <1>2, <2>4, <4>1 DEF Before, CallInv
    <3> QED  BY <1>5, <3>3, <3>4, <3>5, <3>6, <3>7, <3>8 DEF Notify
  <2>6. KeysInv'
    <3>1. \A x : Somewhere(x) => Somewhere(x)'
      BY <1>1, <1>2, <2>1 DEF Somewhere
    <3>2. \A d \in Calls : \A j \in 1 .. Len(BatchOf[d]) : Settled(d, j) => Settled(d, j)'
      BY <2>1 DEF Settled
    <3>3. ASSUME NEW j \in 1 .. Len(BatchOf[c]),
                 call'[c].pc \in {"ensure", "done"} \/ j < call'[c].i
          PROVE  Settled(c, j)'
      <4>1. call[c].pc \in {"ensure", "done"} \/ j < call[c].i => Settled(c, j)
        BY DEF Before, KeysInv
      <4>2. call[c].i \in 1 .. Len(BatchOf[c]) /\ Len(BatchOf[c]) \in Nat
        BY CallKeys DEF Before, TypeInv
      <4>3. CASE NotifyUnconnected(c) \/ DropRest(c)
        <5>1. history'.dropped = history.dropped \cup Rest(c)
          BY <4>3, <1>3 DEF NotifyUnconnected, DropRest, Drop, Before, TypeInv, TypeOK, Histories
        <5>2. CASE j < call[c].i  BY <3>2, <4>1, <5>2
        <5>3. CASE j >= call[c].i
          <6>1. BatchOf[c][j] \in Rest(c)
            BY <4>2, <5>3 DEF Rest
          <6> QED  BY <5>1, <6>1 DEF Settled
        <5> QED  BY <4>2, <5>2, <5>3
      <4>4. CASE NotifyEnsure(c)
        BY <3>2, <4>1, <4>4 DEF NotifyEnsure
      <4>5. CASE NotifyConnected(c) \/ NotifyRead(c) \/ PutFull(c) \/ PutTimesOut(c)
        <5>1. call'[c].pc \notin {"ensure", "done"} /\ call'[c].i = call[c].i
          <6>1. CASE NotifyConnected(c)
            BY <1>3, <6>1 DEF NotifyConnected, CallStates
          <6>2. CASE NotifyRead(c)
            BY <1>3, <6>2 DEF NotifyRead, CallStates
          <6>3. CASE PutFull(c)
            BY <1>3, <6>3 DEF PutFull, CallStates
          <6>4. CASE PutTimesOut(c)
            BY <1>3, <6>4 DEF PutTimesOut, CallStates
          <6> QED BY <4>5, <6>1, <6>2, <6>3, <6>4
        <5> QED  BY <3>2, <3>3, <4>1, <5>1
      <4> QED  BY <1>5, <4>3, <4>4, <4>5 DEF Notify
    <3> QED  BY <1>1, <2>1, <2>4, <3>1, <3>2, <3>3 DEF Before, KeysInv
  <2> QED  BY <2>2, <2>3, <2>5, <2>6 DEF After
<1> QED  BY <1>4, <1>5

\* What does not move the keys, the calls or the connection keeps After.
LEMMA FlushAccount ==
    ASSUME Before, NEW f \in Flushes, Flush(f)
    PROVE  After'
<1>1. /\ UNCHANGED <<worker, life, stop, call, delivered>>
      /\ pub'.connected = pub.connected /\ pub'.gen = pub.gen
  BY FlushFrame DEF Before
<1>2. /\ InUse' = InUse /\ Finishing' = Finishing /\ \A g \in Gens : Alive(g)' = Alive(g)
      /\ InQueue' = InQueue /\ Received' = Received
  BY <1>1 DEF InUse, Finishing, Alive, InQueue, Received
<1>3. /\ queue \in [Gens -> Seq(Items)] /\ pub.gen \in Gens
      /\ flush \in [Flushes -> FlushStates] /\ history \in Histories
  BY DEF Before, TypeInv, TypeOK, Fields
<1>4. history'.accepted = history.accepted /\ history'.dropped = history.dropped
  BY <1>3 DEF Flush, FlushStart, FlushPut, FlushWake, FlushTimesOut, FlushRaise, Histories
<1>5. \A e \in Flushes : flush'[e].q <= pub.gen
  <2>1. /\ \A e \in Flushes : e # f => flush'[e] = flush[e]
        /\ flush'[f].q \in {flush[f].q, pub.gen, 0}
    <3>1. CASE FlushStart(f)
      <4>1. PICK pc : flush' = [flush EXCEPT ![f] = [@ EXCEPT !.pc = pc, !.q = pub.gen]]
        BY <3>1 DEF FlushStart
      <4> QED  BY <1>3, <4>1 DEF FlushStates
    <3>2. CASE FlushPut(f) \/ FlushWake(f) \/ FlushTimesOut(f)
      <4>1. PICK pc : flush' = [flush EXCEPT ![f].pc = pc]
        BY <3>2 DEF FlushPut, FlushWake, FlushTimesOut
      <4> QED  BY <1>3, <4>1 DEF FlushStates
    <3>3. CASE FlushRaise(f)
      BY <1>3, <3>3 DEF FlushRaise
    <3> QED  BY <3>1, <3>2, <3>3 DEF Flush
  <2>2. \A e \in Flushes : flush[e].q <= pub.gen
    BY DEF Before, ConnectionInv
  <2>3. flush[f].q \in Gens
    BY <1>3 DEF FlushStates
  <2> QED  BY <1>3, <2>1, <2>2, <2>3
<1>6. CallInv'
  BY <1>1, <1>2 DEF Before, CallInv
<1>7. CASE queue' = queue
  <2>1. ConnectionInv'
    BY <1>1, <1>2, <1>3, <1>5, <1>7 DEF Before, ConnectionInv
  <2>2. QueueInv'
    BY <1>1, <1>2, <1>7 DEF Before, QueueInv
  <2>3. KeysInv'
    BY <1>1, <1>2, <1>4, <1>7 DEF Before, KeysInv, Somewhere, Settled
  <2> QED  BY <1>6, <2>1, <2>2, <2>3 DEF After
<1>8. CASE FlushPut(f)
  <2>1. PICK q \in Gens : q = flush[f].q /\ q <= pub.gen
    BY <1>3 DEF FlushStates, Before, ConnectionInv
  <2>2. f \in Items /\ f \notin Keys /\ f # StopMarker
    BY KeyKinds DEF Items
  <2>3. queue'[q] = Append(queue[q], f) /\ \A g \in Gens : g # q => queue'[g] = queue[g]
    BY <1>3, <1>8, <2>1 DEF FlushPut
  <2>4. queue[q] \in Seq(Items) /\ Ordered(queue[q])
    BY <1>3 DEF Before, QueueInv
  <2>5. Range(queue'[q]) = Range(queue[q]) \cup {f} /\ Ordered(queue'[q])
    BY <2>2, <2>3, <2>4, RangeAppend, OrderedAppend
  <2>6. ConnectionInv'
    <3>1. \A g \in Gens : StopMarker \in Range(queue'[g]) => StopMarker \in Range(queue[g])
      BY <2>2, <2>3, <2>5
    <3>2. \A g \in Gens : g > pub.gen => queue'[g] = queue[g]
      BY <1>3, <2>1, <2>3
    <3> QED  BY <1>1, <1>2, <1>3, <1>5, <3>1, <3>2 DEF Before, ConnectionInv
  <2>7. QueueInv'
    <3>1. ASSUME NEW g \in Gens, NEW k \in Keys
          PROVE  k \in Range(queue'[g]) <=> k \in Range(queue[g])
      <4>1. CASE g = q
        <5>1. k # f
          BY <2>2
        <5> QED  BY <2>5, <4>1, <5>1
      <4>2. CASE g # q  BY <2>3, <4>2
      <4> QED  BY <4>1, <4>2
    <3>2. \A g \in Gens : Ordered(queue'[g])
      BY <2>3, <2>5 DEF Before, QueueInv
    <3> QED  BY <1>1, <1>2, <1>3, <3>1, <3>2 DEF Before, QueueInv
  <2>8. KeysInv'
    <3>1. \A x : Somewhere(x) => Somewhere(x)'
      BY <1>1, <1>2, <1>4, <2>3, <2>5 DEF Somewhere
    <3> QED  BY <1>1, <1>4, <3>1 DEF Before, KeysInv, Settled
  <2> QED  BY <1>6, <2>6, <2>7, <2>8 DEF After
<1> QED
  BY <1>7, <1>8 DEF Flush, FlushStart, FlushWake, FlushTimesOut, FlushRaise

\* A worker's step moves items out of its own queue only, and frees no key it held that
\* it did not deliver or count.
LEMMA WorkQueue ==
    ASSUME Before, NEW g \in Gens, Work(g)
    PROVE  /\ g = pub.gen /\ life.pc # "connecting"
           /\ \A h \in Gens : h # g => worker'[h] = worker[h] /\ queue'[h] = queue[h]
           /\ flush' \in [Flushes -> FlushStates] /\ \A f \in Flushes : flush'[f].q = flush[f].q
           /\ history'.accepted = history.accepted /\ history.dropped \subseteq history'.dropped
           /\ Received \subseteq Received'
<1>1. /\ flush \in [Flushes -> FlushStates] /\ history \in Histories
      /\ queue \in [Gens -> Seq(Items)] /\ delivered \in Seq(Seq(Keys))
      /\ worker[g].chunk \in Seq(Keys)
  BY DEF Before, TypeInv, TypeOK, WorkerStates
<1>2. /\ Alive(g) /\ \A h \in Gens : h # g => worker'[h] = worker[h]
  BY WorkFrame DEF Before
<1>3. g = pub.gen /\ life.pc # "connecting"
  BY <1>2 DEF Before, WorkerInv
<1>4. \A h \in Gens : h # g => queue'[h] = queue[h]
  BY <1>1 DEF Work, WorkerGet, WorkerEmpty, WorkerPoll, WorkerDrained, StartBatch, EndBatch,
     StartChunk, SendOk, SendRetried, SendDropped
<1>5. flush' \in [Flushes -> FlushStates] /\ \A f \in Flushes : flush'[f].q = flush[f].q
  <2>1. CASE EndBatch(g)
    BY <1>1, <2>1, SignalledType DEF EndBatch
  <2>2. CASE ~EndBatch(g)
    BY <1>1, <2>2 DEF Work, WorkerGet, WorkerEmpty, WorkerPoll, WorkerDrained, StartBatch,
       StartChunk, SendOk, SendRetried, SendDropped
  <2> QED  BY <2>1, <2>2
<1>6. history'.accepted = history.accepted /\ history.dropped \subseteq history'.dropped
  <2>1. history' = history \/ \E ks : history' = Drop(ks)
    BY DEF Work, WorkerGet, WorkerEmpty, WorkerPoll, WorkerDrained, StartBatch, EndBatch,
       StartChunk, SendOk, SendRetried, SendDropped
  <2> QED  BY <1>1, <2>1 DEF Drop, Histories
<1>7. Received \subseteq Received'
  <2>1. delivered' \in {delivered, Append(delivered, worker[g].chunk)}
    BY DEF Work, WorkerGet, WorkerEmpty, WorkerPoll, WorkerDrained, StartBatch, EndBatch,
       StartChunk, SendOk, SendRetried, SendDropped, SendRaises
  <2>2. CASE delivered' = delivered  BY <2>2 DEF Received
  <2>3. CASE delivered' = Append(delivered, worker[g].chunk)
    BY <1>1, <2>3, ReceivedAppend
  <2> QED  BY <2>1, <2>2, <2>3
<1> QED  BY <1>2, <1>3, <1>4, <1>5, <1>6, <1>7

LEMMA WorkAccount ==
    ASSUME Before, NEW g \in Gens, Work(g)
    PROVE  After'
<1> DEFINE Keeps ==
      /\ Ordered(queue'[g]) /\ Range(queue'[g]) \subseteq Range(queue[g])
      /\ life.pc = "idle" /\ pub.connected => worker'[g].pc \notin {"none", "dead"}
      /\ worker'[g].item \in {worker[g].item, NoItem} \/ worker'[g].item \in Range(queue[g])
      /\ worker'[g].item = StopMarker => Range(queue'[g]) \cap Keys = {}
      /\ Range(queue'[g]) \cap Keys # {} /\ worker'[g].pc \in {"none", "dead"} =>
             life.pc \in {"marking", "joining", "clearing"}
      /\ Finishing /\ worker'[g].pc = "empty" => Range(queue'[g]) \cap Keys = {}
      /\ \A k \in Keys : Somewhere(k) => Somewhere(k)'
      /\ Range(worker'[g].chunk) \cap Unroutable \subseteq history'.dropped
<1>1. /\ UNCHANGED <<life, stop, call>> /\ Alive(g)
      /\ pub'.connected = pub.connected /\ pub'.gen = pub.gen /\ pub'.owned = pub.owned
  BY WorkFrame DEF Before
<1>2. /\ g = pub.gen /\ life.pc # "connecting"
      /\ \A h \in Gens : h # g => worker'[h] = worker[h] /\ queue'[h] = queue[h]
      /\ flush' \in [Flushes -> FlushStates] /\ \A f \in Flushes : flush'[f].q = flush[f].q
      /\ history'.accepted = history.accepted /\ history.dropped \subseteq history'.dropped
      /\ Received \subseteq Received'
  BY WorkQueue
<1>3. /\ worker \in [Gens -> WorkerStates] /\ worker[g] \in WorkerStates
      /\ queue \in [Gens -> Seq(Items)] /\ queue[g] \in Seq(Items)
      /\ history \in Histories /\ delivered \in Seq(Seq(Keys))
      /\ life.pc \in LifePCs /\ pub.connected \in BOOLEAN
      /\ worker[g].batch \in Seq(Keys) /\ worker[g].chunk \in Seq(Keys)
  BY DEF Before, TypeInv, TypeOK, WorkerStates, Fields
<1>4. /\ InUse' = InUse /\ Finishing' = Finishing
  BY <1>1 DEF InUse, Finishing
<1>5. \A h \in Gens : h # g => ~Alive(h) /\ ~Alive(h)'
  BY <1>1, <1>2 DEF Before, WorkerInv, Alive
<1>6. ASSUME Keeps  PROVE After'
  <2>1. CallInv'
    BY <1>1, <1>4 DEF Before, CallInv
  <2>2. ConnectionInv'
    <3>1. InUse => StopMarker \notin Range(queue'[g]) /\ worker'[g].item # StopMarker
      BY <1>2, <1>6, KeyKinds DEF Before, ConnectionInv
    <3>2. \A h \in Gens : h > pub.gen => queue'[h] = queue[h]
      BY <1>2
    <3> QED  BY <1>1, <1>2, <1>4, <1>6, <3>1, <3>2 DEF Before, ConnectionInv, Alive
  <2>3. QueueInv'
    <3>1. ASSUME NEW h \in Gens, h # g
          PROVE  /\ Range(queue'[h]) \cap Keys = {} /\ Ordered(queue'[h])
      BY <1>2, <1>5, <3>1 DEF Before, QueueInv, InQueue
    <3>2. Range(queue'[g]) \cap Keys # {} => g \in InQueue'
      BY <1>1, <1>2, <1>6 DEF InQueue, Alive
    <3> QED  BY <1>2, <1>4, <1>6, <3>1, <3>2 DEF QueueInv
  <2>4. KeysInv'
    <3>1. \A k \in Range(history.accepted) : k \in Keys
      BY <1>3, RangeFinite DEF Histories
    <3> QED  BY <1>1, <1>2, <1>6, <3>1 DEF Before, KeysInv, Settled
  <2> QED  BY <2>1, <2>2, <2>3, <2>4 DEF After
<1>7. /\ Ordered(queue[g])
      /\ InUse => StopMarker \notin Range(queue[g]) /\ worker[g].item # StopMarker
      /\ worker[g].item = StopMarker => Range(queue[g]) \cap Keys = {}
      /\ Finishing /\ worker[g].pc = "empty" => Range(queue[g]) \cap Keys = {}
      /\ life.pc = "idle" /\ pub.connected => ~stop[g] /\ InUse
      /\ Range(worker[g].chunk) \cap Unroutable \subseteq history.dropped
      /\ Holds(worker[g]) /\ pub.owned
  BY <1>2 DEF Before, QueueInv, ConnectionInv, KeysInv, WorkerInv, Holds, InUse
<1>8. ASSUME NEW k \in Keys, Somewhere(k),
             \/ k \notin Range(queue[g]) \cup Range(worker[g].batch) \cup Range(worker[g].chunk)
             \/ k \in Range(queue'[g]) \cup Range(worker'[g].batch) \cup Range(worker'[g].chunk)
             \/ k \in Received' \cup history'.dropped
      PROVE  Somewhere(k)'
  BY <1>1, <1>2, <1>8 DEF Somewhere
<1> HIDE DEF Keeps
<1>9. CASE WorkerGet(g)
  <2> PICK x : x = Head(queue[g])
    OBVIOUS
  <2>1. /\ worker'[g] = Taken(worker[g], x) /\ queue'[g] = Tail(queue[g]) /\ queue[g] # <<>>
        /\ worker[g].pc \in {"get", "more"} /\ history' = history
    BY <1>3, <1>9 DEF WorkerGet
  <2>2. /\ Range(queue[g]) = {x} \cup Range(queue'[g]) /\ x \in Items /\ Ordered(queue'[g])
        /\ x = StopMarker => Range(queue'[g]) \cap Keys = {}
    <3>1. queue[g] \in Seq(Items) /\ queue[g] # <<>> /\ Ordered(queue[g]) /\ queue'[g] = Tail(queue[g])
      BY <1>3, <1>7, <2>1
    <3>2. Range(queue[g]) = {x} \cup Range(queue'[g]) /\ x \in Items
      BY <3>1, RangeTail
    <3>3. /\ Ordered(queue'[g])
          /\ x = StopMarker => Range(queue'[g]) \cap Keys = {}
      BY <3>1, OrderedTail
    <3> QED  BY <3>2, <3>3
  <2>3. /\ worker'[g].pc \in {"more", "publish"} /\ worker'[g].chunk = worker[g].chunk
        /\ x \in Keys => worker'[g].batch = Append(worker[g].batch, x) /\ worker'[g].item = worker[g].item
        /\ x \notin Keys => worker'[g].batch = worker[g].batch /\ worker'[g].item = x
    <3>1. PICK wk \in WorkerStates : wk = worker[g]
      BY <1>3
    <3>2. /\ Taken(wk, x).pc = IF x \in Keys THEN "more" ELSE "publish"
          /\ Taken(wk, x).chunk = wk.chunk
          /\ Taken(wk, x).batch = IF x \in Keys THEN Append(wk.batch, x) ELSE wk.batch
          /\ Taken(wk, x).item  = IF x \in Keys THEN wk.item ELSE x
      BY <2>2, TakenType
    <3> QED  BY <2>1, <3>1, <3>2
  <2>4. worker[g].item # StopMarker
    BY <1>7, <2>1, KeyKinds DEF Holds
  <2>5. \A k \in Keys : Somewhere(k) => Somewhere(k)'
    <3>1. x \in Keys => Range(worker'[g].batch) = Range(worker[g].batch) \cup {x}
      <4>1. x \in Keys => Range(Append(worker[g].batch, x)) = Range(worker[g].batch) \cup {x}
        BY <1>3, RangeAppend
      <4> QED  BY <2>3, <4>1
    <3> QED  BY <1>8, <2>2, <2>3, <3>1
  <2>6. Keeps
    BY <1>7, <2>1, <2>2, <2>3, <2>4, <2>5 DEF Keeps
  <2> QED  BY <1>6, <2>6
<1>10. CASE WorkerEmpty(g)
  <2>1. /\ queue' = queue /\ worker'[g] = [worker[g] EXCEPT !.pc = "empty"] /\ history' = history
        /\ Range(queue[g]) = {}
    BY <1>3, <1>10 DEF WorkerEmpty, Range
  <2>2. /\ worker'[g].pc = "empty" /\ worker'[g].item = worker[g].item
        /\ worker'[g].batch = worker[g].batch /\ worker'[g].chunk = worker[g].chunk
    BY <1>3, <2>1 DEF WorkerStates
  <2>3. \A k \in Keys : Somewhere(k) => Somewhere(k)'
    BY <1>8, <2>1, <2>2
  <2>4. Keeps
    BY <1>7, <2>1, <2>2, <2>3 DEF Keeps
  <2> QED  BY <1>6, <2>4
<1>11. CASE WorkerPoll(g)
  <2>1. /\ queue' = queue /\ history' = history /\ worker[g].pc = "empty"
        /\ worker'[g] = [worker[g] EXCEPT !.pc = IF stop[g] THEN "dead" ELSE "get"]
    BY <1>3, <1>7, <1>11 DEF WorkerPoll
  <2>2. /\ worker'[g].pc = (IF stop[g] THEN "dead" ELSE "get") /\ worker'[g].item = worker[g].item
        /\ worker'[g].batch = worker[g].batch /\ worker'[g].chunk = worker[g].chunk
    BY <1>3, <2>1 DEF WorkerStates
  <2>3. Range(queue[g]) \cap Keys # {} /\ stop[g] => life.pc \in {"marking", "joining", "clearing"}
    BY <1>2, <1>3, <1>7, <2>1 DEF Finishing, LifePCs
  <2>4. \A k \in Keys : Somewhere(k) => Somewhere(k)'
    BY <1>8, <2>1, <2>2, <2>3
  <2>5. Keeps
    BY <1>7, <2>1, <2>2, <2>3, <2>4 DEF Keeps
  <2> QED  BY <1>6, <2>5
<1>12. CASE WorkerDrained(g) \/ StartBatch(g)
  <2>1. PICK pc \in {"publish", "chunk"} :
            worker'[g] = [worker[g] EXCEPT !.pc = pc] /\ queue' = queue /\ history' = history
    BY <1>3, <1>12 DEF WorkerDrained, StartBatch
  <2>2. /\ worker'[g].pc = pc /\ worker'[g].item = worker[g].item
        /\ worker'[g].batch = worker[g].batch /\ worker'[g].chunk = worker[g].chunk
    BY <1>3, <2>1 DEF WorkerStates
  <2>3. \A k \in Keys : Somewhere(k) => Somewhere(k)'
    BY <1>8, <2>1, <2>2
  <2>4. Keeps
    BY <1>7, <2>1, <2>2, <2>3 DEF Keeps
  <2> QED  BY <1>6, <2>4
<1>13. CASE EndBatch(g)
  <2>1. /\ queue' = queue /\ history' = history /\ worker[g].batch = <<>>
        /\ worker'[g] = [worker[g] EXCEPT !.batch = <<>>, !.item = NoItem,
               !.pc = IF worker[g].item = StopMarker THEN "dead"
                      ELSE IF worker[g].item \in Flushes THEN "more" ELSE "get"]
    BY <1>3, <1>7, <1>13 DEF EndBatch
  <2>2. /\ worker'[g].pc = (IF worker[g].item = StopMarker THEN "dead"
                            ELSE IF worker[g].item \in Flushes THEN "more" ELSE "get")
        /\ worker'[g].item = NoItem
        /\ worker'[g].batch = worker[g].batch /\ worker'[g].chunk = worker[g].chunk
    BY <1>3, <2>1 DEF WorkerStates
  <2>3. \A k \in Keys : Somewhere(k) => Somewhere(k)'
    BY <1>8, <2>1, <2>2, KeyKinds
  <2>4. Keeps
    BY <1>7, <2>1, <2>2, <2>3, KeyKinds DEF Keeps
  <2> QED  BY <1>6, <2>4
<1>14. CASE StartChunk(g)
  <2> DEFINE b == worker[g].batch
             n == Smaller(ChunkMax, Len(b))
  <2>1. n \in 1 .. Len(b)
    <3>1. Len(b) \in Nat /\ Len(b) # 0
      BY <1>3, <1>14, LenProperties, EmptySeq DEF StartChunk
    <3> QED  BY <3>1 DEF Smaller
  <2> PICK s, r : s = SubSeq(b, 1, n) /\ r = SubSeq(b, n + 1, Len(b))
    OBVIOUS
  <2>2. Range(b) = Range(s) \cup Range(r)
    BY <1>3, <2>1, RangeCut
  <2> HIDE DEF n
  <2>3. PICK kept \in {s, <<>>}, pc \in {"send", "chunk"}, lost \in SUBSET Range(s) :
            /\ worker'[g] = [worker[g] EXCEPT !.batch = r, !.chunk = kept, !.pc = pc]
            /\ history' = Drop(lost) /\ queue' = queue
            /\ (kept = s /\ lost = Range(s) \cap Unroutable) \/ (kept = <<>> /\ lost = Range(s))
            /\ worker[g].pc = "chunk"
    BY <1>3, <1>14 DEF StartChunk, n
  <2>4. /\ worker'[g].pc = pc /\ worker'[g].item = worker[g].item
        /\ worker'[g].batch = r /\ worker'[g].chunk = kept
        /\ history'.dropped = history.dropped \cup lost
    BY <1>3, <2>3 DEF WorkerStates, Drop, Histories
  <2>5. worker[g].chunk = <<>> /\ Range(<<>>) = {}
    BY <1>7, <2>3 DEF Holds, Range
  <2>6. \A k \in Keys : Somewhere(k) => Somewhere(k)'
    BY <1>8, <2>2, <2>3, <2>4, <2>5
  <2>7. Keeps
    BY <1>7, <2>2, <2>3, <2>4, <2>5, <2>6 DEF Keeps
  <2> QED  BY <1>6, <2>7
<1>15. CASE SendRetried(g)
  <2>1. queue' = queue /\ worker' = worker /\ history' = history
    BY <1>15 DEF SendRetried
  <2>2. \A k \in Keys : Somewhere(k) => Somewhere(k)'
    BY <1>8, <2>1
  <2>3. Keeps
    BY <1>1, <1>7, <2>1, <2>2 DEF Keeps, Alive
  <2> QED  BY <1>6, <2>3
<1>16. CASE SendOk(g) \/ SendDropped(g)
  <2>1. /\ queue' = queue /\ worker[g].pc = "send"
        /\ worker'[g] = [worker[g] EXCEPT !.chunk = <<>>, !.pc = "chunk"]
    BY <1>3, <1>16 DEF SendOk, SendDropped, SendRaises, ChunkDone
  <2>2. /\ worker'[g].pc = "chunk" /\ worker'[g].item = worker[g].item
        /\ worker'[g].batch = worker[g].batch /\ worker'[g].chunk = <<>> /\ Range(<<>>) = {}
    BY <1>3, <2>1 DEF WorkerStates, Range
  <2>3. Range(worker[g].chunk) \subseteq Received' \cup history'.dropped
    <3>1. CASE SendOk(g)
      <4>1. Range(worker[g].chunk) \ Unroutable \subseteq Received'
        BY <1>3, <3>1, ReceivedAppend DEF SendOk
      <4> QED  BY <1>2, <1>7, <4>1
    <3>2. CASE SendDropped(g)
      <4>1. history'.dropped = history.dropped \cup (Range(worker[g].chunk) \ Unroutable)
        BY <1>3, <3>2 DEF SendDropped, Drop, Histories
      <4> QED  BY <1>7, <4>1
    <3> QED  BY <1>16, <3>1, <3>2
  <2>4. \A k \in Keys : Somewhere(k) => Somewhere(k)'
    BY <1>8, <2>1, <2>2, <2>3
  <2>5. Keeps
    BY <1>7, <2>1, <2>2, <2>3, <2>4 DEF Keeps
  <2> QED  BY <1>6, <2>5
<1> QED
  BY <1>9, <1>10, <1>11, <1>12, <1>13, <1>14, <1>15, <1>16 DEF Work

\* The lifecycle thread makes a connection when no worker lives, ends one when no call is
\* queueing, and counts what its queue still holds.
LEMMA LifeAccount ==
    ASSUME Before, Lifecycle, ~Collect
    PROVE  After'
<1>1. /\ pub \in Fields /\ pub.gen \in Gens /\ pub.thread \in Gens /\ pub.connected \in BOOLEAN
      /\ queue \in [Gens -> Seq(Items)] /\ stop \in [Gens -> BOOLEAN]
      /\ worker \in [Gens -> WorkerStates] /\ flush \in [Flushes -> FlushStates]
      /\ life \in [pc : LifePCs, left : SUBSET Keys] /\ IsFiniteSet(life.left)
      /\ history \in Histories /\ call \in [Calls -> CallStates]
  BY DEF Before, TypeInv, TypeOK, Fields
<1>2. ConnectionInv /\ CallInv /\ QueueInv /\ KeysInv /\ WorkerInv /\ ~Overlap
  BY DEF Before
<1>3. call' = call /\ delivered' = delivered
  BY DEF Lifecycle, Disconnecting, Connect, Connected, ConnectFails, Disconnect, PutMarker,
     MarkerTimesOut, Join, JoinTimesOut, DropNext, DropEnd, Disconnected
<1>4. ~InUse => \A c \in Calls : call[c].pc \in {"start", "ensure", "done"}
  BY <1>1, <1>2 DEF CallInv, CallStates, CallPCs
\* Steps that leave the keys where they are.
<1>5. ASSUME queue' = queue, history' = history, life'.left = life.left,
             \A g \in Gens : worker'[g].batch = worker[g].batch /\ worker'[g].chunk = worker[g].chunk
      PROVE  KeysInv'
  <2>1. Received' = Received
    BY <1>3 DEF Received
  <2>2. \A k : Somewhere(k) => Somewhere(k)'
    BY <1>5, <2>1 DEF Somewhere
  <2> QED  BY <1>2, <1>3, <1>5, <2>2 DEF KeysInv, Settled
<1>6. ASSUME \A g \in Gens : ~Alive(g), life.pc \in {"idle", "connecting"}
      PROVE  \A g \in Gens : Range(queue[g]) \cap Keys = {}
  BY <1>2, <1>6 DEF QueueInv, InQueue
<1>7. CASE Connect
  <2>1. /\ life.pc = "idle" /\ ~pub.connected /\ ~Alive(pub.thread) /\ pub.gen < MaxGen
        /\ UNCHANGED <<queue, stop, worker, flush, history>>
        /\ life'.pc = "connecting" /\ life'.left = life.left
        /\ pub'.gen = pub.gen + 1 /\ ~pub'.connected
    BY <1>1, <1>7 DEF Connect, Fields
  <2>2. \A g \in Gens : ~Alive(g)
    BY <1>2, <2>1 DEF WorkerInv
  <2>3. \A g \in Gens : Range(queue[g]) \cap Keys = {}
    BY <1>6, <2>1, <2>2
  <2>4. pub.gen + 1 \in Gens /\ pub.gen + 1 > pub.gen
    <3>1. pub.gen \in 0 .. MaxGen /\ pub.gen < MaxGen
      BY <1>1, <2>1
    <3> QED  BY <3>1
  <2>5. ~InUse
    BY <2>1 DEF InUse
  <2>6. ConnectionInv'
    <3>1. queue[pub.gen + 1] = <<>> /\ ~stop[pub.gen + 1] /\ worker[pub.gen + 1].item = NoItem
      BY <1>2, <2>2, <2>4 DEF ConnectionInv, WorkerInv, Alive
    <3>2. Range(<<>>) = {}
      BY DEF Range
    <3>3. \A f \in Flushes : flush[f].q <= pub.gen + 1
      BY <1>1, <1>2 DEF ConnectionInv, FlushStates
    <3>4. \A g \in Gens : g > pub.gen + 1 => queue[g] = <<>> /\ ~stop[g]
      BY <1>1, <1>2 DEF ConnectionInv
    <3> QED  BY <1>2, <2>1, <3>1, <3>2, <3>3, <3>4, KeyKinds DEF ConnectionInv, InUse
  <2>7. CallInv'
    BY <1>3, <1>4, <2>1, <2>5 DEF CallInv
  <2>8. QueueInv'
    BY <1>2, <2>1, <2>3 DEF QueueInv, Finishing
  <2> QED  BY <1>5, <2>1, <2>6, <2>7, <2>8 DEF After
<1>8. CASE Connected
  <2>1. /\ life.pc = "connecting" /\ UNCHANGED <<queue, stop, flush, history>>
        /\ worker' = [worker EXCEPT ![pub.gen].pc = "get"]
        /\ life'.pc = "idle" /\ life'.left = life.left
        /\ pub'.gen = pub.gen /\ pub'.connected
    BY <1>1, <1>8 DEF Connected, Fields
  <2>2. \A g \in Gens : ~Alive(g)
    BY <1>2, <2>1 DEF WorkerInv
  <2>3. \A g \in Gens : Range(queue[g]) \cap Keys = {}
    BY <1>6, <2>1, <2>2
  <2>4. /\ worker'[pub.gen].pc = "get"
        /\ \A g \in Gens : /\ worker'[g].batch = worker[g].batch /\ worker'[g].chunk = worker[g].chunk
                           /\ worker'[g].item = worker[g].item
    BY <1>1, <2>1, SMTT(30) DEF WorkerStates
  <2>5. ConnectionInv'
    BY <1>1, <1>2, <2>1, <2>4 DEF ConnectionInv, Alive, InUse
  <2>6. CallInv'
    BY <1>3, <1>4, <2>1 DEF CallInv, InUse
  <2>7. QueueInv'
    BY <1>2, <2>1, <2>3, <2>4 DEF QueueInv, Finishing
  <2> QED  BY <1>5, <2>1, <2>4, <2>5, <2>6, <2>7 DEF After
<1>9. CASE ConnectFails
  <2>1. /\ life.pc = "connecting" /\ life'.pc = "idle" /\ life'.left = life.left
        /\ UNCHANGED <<pub, queue, stop, worker, flush, history>>
    BY <1>1, <1>9 DEF ConnectFails
  <2>2. \A g \in Gens : ~Alive(g)
    BY <1>2, <2>1 DEF WorkerInv
  <2>3. \A g \in Gens : Range(queue[g]) \cap Keys = {}
    BY <1>6, <2>1, <2>2
  <2>4. ConnectionInv'
    BY <1>2, <2>1 DEF ConnectionInv, InUse
  <2>5. CallInv'
    BY <1>3, <1>4, <2>1 DEF CallInv, InUse
  <2>6. QueueInv'
    BY <1>2, <2>1, <2>3 DEF QueueInv
  <2> QED  BY <1>5, <2>1, <2>4, <2>5, <2>6 DEF After
<1>10. CASE Disconnect
  <2>1. /\ life.pc = "idle" /\ pub.connected /\ life'.pc = "marking" /\ life'.left = life.left
        /\ UNCHANGED <<pub, queue, worker, flush, history>>
        /\ \A g \in Gens : g > pub.gen => stop'[g] = stop[g]
    <3>1. \A g \in Gens : g > pub.gen => g # pub.gen
      BY <1>1
    <3>2. stop' = [stop EXCEPT ![pub.gen] = TRUE]
      BY <1>10 DEF Disconnect
    <3>3. \A g \in Gens : g > pub.gen => stop'[g] = stop[g]
      BY <1>1, <3>1, <3>2
    <3> QED  BY <1>1, <1>10, <3>3 DEF Disconnect
  <2>2. InUse /\ InUse' /\ ~Finishing'
    BY <2>1 DEF InUse, Finishing
  <2>3. ConnectionInv'
    BY <1>2, <2>1, <2>2 DEF ConnectionInv
  <2>4. CallInv'
    BY <1>2, <1>3, <2>1, <2>2 DEF CallInv
  <2>5. QueueInv'
    BY <1>2, <2>1, <2>2 DEF QueueInv, InQueue, Alive
  <2> QED  BY <1>5, <2>1, <2>3, <2>4, <2>5 DEF After
<1>11. ASSUME life.pc \in {"marking", "joining", "clearing", "closing"},
              life.pc # "marking" \/ NoNotify, ~InUse'
       PROVE  CallInv'
  <2>1. \A c \in Calls : call[c].pc \in {"start", "done"}
    BY <1>1, <1>2, <1>4, <1>11 DEF CallInv, NoNotify, CallOpen, InUse
  <2> QED  BY <1>3, <2>1 DEF CallInv
<1>12. CASE PutMarker
  <2>1. /\ life.pc = "marking" /\ life'.pc = "joining" /\ life'.left = life.left /\ NoNotify
        /\ UNCHANGED <<pub, stop, worker, flush, history>>
        /\ queue' = [queue EXCEPT ![pub.gen] = Append(@, StopMarker)]
    BY <1>1, <1>2, <1>12 DEF PutMarker
  <2>2. ~InUse' /\ ~Finishing'
    BY <2>1 DEF InUse, Finishing
  <2>3. /\ queue'[pub.gen] = Append(queue[pub.gen], StopMarker)
        /\ \A g \in Gens : g # pub.gen => queue'[g] = queue[g]
    BY <1>1, <2>1
  <2>4. /\ Range(queue'[pub.gen]) = Range(queue[pub.gen]) \cup {StopMarker}
        /\ Ordered(queue'[pub.gen])
    <3>1. queue[pub.gen] \in Seq(Items) /\ Ordered(queue[pub.gen]) /\ StopMarker \in Items
      BY <1>1, <1>2 DEF QueueInv, Items
    <3> QED  BY <2>3, <3>1, RangeAppend, OrderedAppend, KeyKinds
  <2>5. ConnectionInv'
    BY <1>1, <1>2, <2>1, <2>2, <2>3 DEF ConnectionInv
  <2>6. QueueInv'
    <3>1. ASSUME NEW g \in Gens
          PROVE  Range(queue'[g]) \cap Keys = Range(queue[g]) \cap Keys /\ Ordered(queue'[g])
      <4>1. CASE g = pub.gen  BY <2>4, <4>1, KeyKinds
      <4>2. CASE g # pub.gen  BY <1>2, <2>3, <4>2 DEF QueueInv
      <4> QED  BY <4>1, <4>2
    <3> QED  BY <1>2, <2>1, <2>2, <3>1 DEF QueueInv, InQueue, Alive
  <2>7. KeysInv'
    <3>1. Received' = Received
      BY <1>3 DEF Received
    <3>2. \A k : Somewhere(k) => Somewhere(k)'
      BY <2>1, <2>3, <2>4, <3>1 DEF Somewhere
    <3> QED  BY <1>2, <1>3, <2>1, <3>2 DEF KeysInv, Settled
  <2> QED  BY <1>11, <2>1, <2>2, <2>5, <2>6, <2>7 DEF After
<1>13. CASE MarkerTimesOut
  <2>1. /\ life.pc = "marking" /\ life'.pc = "joining" /\ life'.left = life.left /\ NoNotify
        /\ UNCHANGED <<pub, queue, stop, worker, flush, history>>
    BY <1>1, <1>2, <1>13 DEF MarkerTimesOut
  <2>2. ~InUse' /\ ~Finishing'
    BY <2>1 DEF InUse, Finishing
  <2>3. ConnectionInv'
    BY <1>2, <2>1, <2>2 DEF ConnectionInv
  <2>4. QueueInv'
    BY <1>2, <2>1, <2>2 DEF QueueInv, InQueue, Alive
  <2> QED  BY <1>5, <1>11, <2>1, <2>2, <2>3, <2>4 DEF After
<1>14. CASE Join
  <2>1. /\ life.pc = "joining" /\ life'.pc = "clearing" /\ life'.left = life.left
        /\ UNCHANGED <<queue, stop, worker, flush, history>>
        /\ pub'.connected = pub.connected /\ pub'.gen = pub.gen
    BY <1>1, <1>14 DEF Join, Fields
  <2>2. ~InUse' /\ ~Finishing'
    BY <2>1 DEF InUse, Finishing
  <2>3. ConnectionInv'
    BY <1>2, <2>1, <2>2 DEF ConnectionInv
  <2>4. QueueInv'
    BY <1>2, <2>1, <2>2 DEF QueueInv, InQueue, Alive
  <2> QED  BY <1>5, <1>11, <2>1, <2>2, <2>3, <2>4 DEF After
<1>15. CASE JoinTimesOut
  <2>1. /\ life.pc = "joining" /\ life'.pc = "closing" /\ life'.left = life.left
        /\ UNCHANGED <<pub, queue, stop, worker, flush, history>>
        /\ worker[pub.thread].pc = "send"
    BY <1>1, <1>15 DEF JoinTimesOut, Stuck
  <2>2. ~InUse'
    BY <2>1 DEF InUse
  <2>3. Alive(pub.gen) /\ worker[pub.gen].pc = "send"
    BY <1>1, <1>2, <2>1 DEF WorkerInv, Alive
  <2>4. ConnectionInv'
    BY <1>2, <2>1, <2>2 DEF ConnectionInv
  <2>5. QueueInv'
    BY <1>2, <2>1, <2>3 DEF QueueInv, InQueue, Alive
  <2> QED  BY <1>5, <1>11, <2>1, <2>2, <2>4, <2>5 DEF After
<1>16. CASE DropNext
  <2> PICK x : x = Head(queue[pub.gen])
    OBVIOUS
  <2>1. /\ life.pc = "clearing" /\ life'.pc = "clearing" /\ life'.left = life.left \cup ({x} \cap Keys)
        /\ UNCHANGED <<pub, stop, worker, history>> /\ queue[pub.gen] # <<>>
        /\ queue' = [queue EXCEPT ![pub.gen] = Tail(@)]
    BY <1>1, <1>16 DEF DropNext
  <2>2. /\ queue'[pub.gen] = Tail(queue[pub.gen])
        /\ \A g \in Gens : g # pub.gen => queue'[g] = queue[g]
    BY <1>1, <2>1
  <2>3. /\ Range(queue[pub.gen]) = {x} \cup Range(queue'[pub.gen]) /\ Ordered(queue'[pub.gen])
    <3>1. queue[pub.gen] \in Seq(Items) /\ Ordered(queue[pub.gen])
      BY <1>1, <1>2 DEF QueueInv
    <3> QED  BY <2>1, <2>2, <3>1, RangeTail, OrderedTail
  <2>4. \A f \in Flushes : flush'[f].q = flush[f].q
    BY <1>1, <1>16, SignalledType DEF DropNext
  <2>5. ~InUse' /\ ~Finishing'
    BY <2>1 DEF InUse, Finishing
  <2>6. ConnectionInv'
    <3>1. \A g \in Gens : g > pub.gen => queue'[g] = queue[g]
      BY <1>1, <2>2
    <3> QED  BY <1>2, <2>1, <2>4, <2>5, <3>1 DEF ConnectionInv
  <2>7. QueueInv'
    <3>1. ASSUME NEW g \in Gens
          PROVE  Range(queue'[g]) \subseteq Range(queue[g]) /\ Ordered(queue'[g])
      BY <1>2, <2>2, <2>3 DEF QueueInv
    <3> QED  BY <1>2, <2>1, <2>5, <3>1 DEF QueueInv, InQueue, Alive
  <2>8. KeysInv'
    <3>1. Received' = Received
      BY <1>3 DEF Received
    <3>2. \A k \in Keys : Somewhere(k) => Somewhere(k)'
      BY <2>1, <2>2, <2>3, <3>1 DEF Somewhere
    <3>3. \A k \in Range(history.accepted) : k \in Keys
      BY <1>1, RangeFinite DEF Histories
    <3> QED  BY <1>2, <1>3, <2>1, <3>2, <3>3 DEF KeysInv, Settled
  <2> QED  BY <1>11, <2>1, <2>5, <2>6, <2>7, <2>8 DEF After
<1>17. CASE DropEnd
  <2>1. /\ life.pc = "clearing" /\ life'.pc = "closing" /\ life'.left = {}
        /\ UNCHANGED <<queue, stop, worker, flush>> /\ queue[pub.gen] = <<>>
        /\ pub' = RecordDrop(pub, life.left) /\ history' = Drop(life.left)
    BY <1>1, <1>17 DEF DropEnd
  <2>2. pub'.connected = pub.connected /\ pub'.gen = pub.gen
    BY <1>1, <2>1, RecordDropType
  <2>3. history'.accepted = history.accepted /\ history'.dropped = history.dropped \cup life.left
    BY <1>1, <2>1 DEF Drop, Histories
  <2>4. ~InUse' /\ Range(<<>>) = {}
    BY <2>1 DEF InUse, Range
  <2>5. ConnectionInv'
    BY <1>2, <2>1, <2>2, <2>4 DEF ConnectionInv
  <2>6. QueueInv'
    BY <1>2, <2>1, <2>2, <2>4 DEF QueueInv, InQueue, Alive
  <2>7. KeysInv'
    <3>1. Received' = Received
      BY <1>3 DEF Received
    <3>2. \A k : Somewhere(k) => Somewhere(k)'
      BY <2>1, <2>3, <3>1 DEF Somewhere
    <3> QED  BY <1>2, <1>3, <2>1, <2>3, <3>2 DEF KeysInv, Settled
  <2> QED  BY <1>11, <2>1, <2>4, <2>5, <2>6, <2>7 DEF After
<1>18. CASE Disconnected
  <2>1. /\ life.pc = "closing" /\ life'.pc = "idle" /\ life'.left = life.left
        /\ UNCHANGED <<queue, stop, worker, flush, history>>
        /\ ~pub'.connected /\ pub'.gen = pub.gen
    BY <1>1, <1>18 DEF Disconnected, Fields
  <2>2. ~InUse' /\ Finishing
    BY <2>1 DEF InUse, Finishing
  <2>3. ConnectionInv'
    BY <1>2, <2>1, <2>2 DEF ConnectionInv
  <2>4. QueueInv'
    BY <1>2, <2>1, <2>2 DEF QueueInv, InQueue, Alive
  <2> QED  BY <1>5, <1>11, <2>1, <2>2, <2>3, <2>4 DEF After
<1> QED
  BY <1>7, <1>8, <1>9, <1>10, <1>12, <1>13, <1>14, <1>15, <1>16, <1>17, <1>18
     DEF Lifecycle, Disconnecting

LEMMA AccountNext ==
    ASSUME ~Overlap, TypeInv, WorkerInv, AccountInv, [Next]_vars
    PROVE  AccountInv'
<1> SUFFICES ASSUME pub'.owned PROVE After'
  BY DEF AccountInv, After
<1>1. pub \in Fields
  BY DEF TypeInv, TypeOK
<1>2. pub.owned
  <2>1. CASE Lifecycle
    <3>1. CASE DropEnd
      BY <1>1, <3>1, RecordDropType DEF DropEnd, TypeInv
    <3>2. CASE ~DropEnd
      BY <1>1, <2>1, <3>2 DEF Lifecycle, Disconnecting, Connect, Connected, ConnectFails, Disconnect,
         PutMarker, MarkerTimesOut, Join, JoinTimesOut, DropNext, Disconnected, Collect, Fields
    <3> QED  BY <3>1, <3>2
  <2>2. CASE UNCHANGED vars  BY <2>2 DEF vars
  <2> QED  BY <2>1, <2>2, NotifyFrame, FlushFrame, WorkFrame DEF Next
<1>3. Before
  BY <1>2 DEF Before, AccountInv
<1>4. CASE UNCHANGED vars
  BY <1>3, <1>4 DEF vars, Before, After, ConnectionInv, CallInv, QueueInv, KeysInv, InUse, Finishing,
     Alive, InQueue, Somewhere, Settled, Received
<1>5. CASE Lifecycle
  <2>1. ~Collect
    BY <1>1 DEF Collect, Fields
  <2> QED  BY <1>3, <1>5, <2>1, LifeAccount
<1> QED  BY <1>3, <1>4, <1>5, NotifyAccount, FlushAccount, WorkAccount DEF Next

LEMMA InitAccount == Init => AccountInv
<1> SUFFICES ASSUME Init PROVE ConnectionInv /\ CallInv /\ QueueInv /\ KeysInv
  BY DEF AccountInv
<1>1. Range(<<>>) = {} /\ \A i : i \notin DOMAIN <<>>
  BY DEF Range
<1>2. ConnectionInv
  BY <1>1, KeyKinds DEF Init, ConnectionInv, InUse
<1>3. CallInv
  BY DEF Init, CallInv
<1>4. QueueInv
  BY <1>1, KeyKinds DEF Init, QueueInv, Ordered
<1>5. KeysInv
  BY <1>1, CallKeys DEF Init, KeysInv
<1> QED  BY <1>2, <1>3, <1>4, <1>5

\* No silent drops: as long as no notify overlaps the end of a disconnect, a key that
\* notify took is delivered, counted, or still with a worker or a disconnect that will
\* deal with it, and a notify that returned queued or counted all its keys. For any
\* number of calls, keys, connections and failing sends, and any size of the queue.
THEOREM AccountedCorrect == ASSUME ~Overlap PROVE Spec => []Accounted
<1>1. Init => WorkerInv
  BY DEF Init, WorkerInv, Alive
<1>2. Init => AccountInv
  BY InitAccount
<1>3. TypeInv /\ WorkerInv /\ AccountInv /\ [Next]_vars => AccountInv'
  BY AccountNext
<1>4. TypeInv /\ WorkerInv /\ AccountInv => Accounted
  <2> SUFFICES ASSUME TypeInv, WorkerInv, pub.owned, ConnectionInv, CallInv, QueueInv, KeysInv
               PROVE  Accounted
    BY DEF AccountInv, Accounted
  <2>1. ASSUME NEW k \in Range(history.accepted)
        PROVE  k \in Received \cup history.dropped \cup OnTheWay
    <3>1. k \in Keys
      <4>1. history.accepted \in Seq(Keys)
        BY DEF TypeInv, TypeOK, Histories
      <4> QED  BY <4>1, RangeFinite
    <3>2. Somewhere(k)
      BY DEF KeysInv
    <3>3. ASSUME NEW g \in Gens, k \in Range(queue[g])  PROVE k \in OnTheWay
      <4>1. g \in InQueue
        BY <3>1, <3>3 DEF QueueInv
      <4> QED  BY <3>3, <4>1 DEF OnTheWay
    <3>4. ASSUME NEW g \in Gens, k \in Range(worker[g].batch) \cup Range(worker[g].chunk)
          PROVE  k \in OnTheWay
      <4>1. Range(<<>>) = {}
        BY DEF Range
      <4>2. Alive(g)
        BY <3>4, <4>1 DEF WorkerInv, Alive
      <4> QED  BY <3>4, <4>2 DEF OnTheWay
    <3>5. life.left \subseteq OnTheWay
      BY DEF OnTheWay
    <3> QED  BY <3>2, <3>3, <3>4, <3>5 DEF Somewhere
  <2>2. ASSUME NEW c \in Calls, call[c].pc = "done"
        PROVE  Range(BatchOf[c]) \subseteq Range(history.accepted) \cup history.dropped
    <3>1. Range(BatchOf[c]) = {BatchOf[c][j] : j \in 1 .. Len(BatchOf[c])}
      BY CallKeys, RangeEquality
    <3> QED  BY <2>2, <3>1 DEF KeysInv, Settled
  <2> QED  BY <2>1, <2>2 DEF Accounted
<1> QED  BY <1>1, <1>2, <1>3, <1>4, InitType, NextType, WorkerInvNext, PTL DEF Spec

(***************************************************************************)
(* The drops that surface.                                                 *)
(***************************************************************************)

SurfaceInv == DropsSurface /\ IsFiniteSet(history.dropped)

\* Every place that drops keys counts them and leaves an error for the next flush.
LEMMA Counted ==
    ASSUME TypeInv, SurfaceInv, NEW p \in Fields, NEW ks, IsFiniteSet(ks),
           p.dropped_keys = pub.dropped_keys, p.lastError = pub.lastError,
           pub' = RecordDrop(p, ks), history' = Drop(ks)
    PROVE  SurfaceInv'
<1>1. /\ history \in Histories /\ IsFiniteSet(history.dropped)
      /\ pub.dropped_keys >= Cardinality(history.dropped)
      /\ history.dropped \ history.raised # {} => pub.lastError
      /\ p.dropped_keys \in Nat
  BY DEF TypeInv, TypeOK, SurfaceInv, DropsSurface, Fields
<1>2. history'.dropped = history.dropped \cup ks /\ history'.raised = history.raised
  BY <1>1 DEF Drop, Histories
<1>3. CASE ks = {}
  <2>1. pub' = p /\ history'.dropped = history.dropped
    BY <1>2, <1>3 DEF RecordDrop
  <2> QED  BY <1>1, <1>2, <2>1 DEF SurfaceInv, DropsSurface
<1>4. CASE ks # {}
  <2>1. pub'.dropped_keys = p.dropped_keys + Cardinality(ks) /\ pub'.lastError = TRUE
    BY <1>4 DEF RecordDrop, Fields
  <2>2. /\ IsFiniteSet(history.dropped \cup ks)
        /\ Cardinality(history.dropped \cup ks)
               = Cardinality(history.dropped) + Cardinality(ks) - Cardinality(history.dropped \cap ks)
    BY <1>1, FS_Union
  <2>3. Cardinality(history.dropped \cap ks) \in Nat
    <3>1. IsFiniteSet(history.dropped \cap ks)
      BY <1>1, FS_Subset
    <3> QED  BY <3>1, FS_CardinalityType
  <2>4. /\ Cardinality(history.dropped) \in Nat /\ Cardinality(ks) \in Nat
        /\ Cardinality(history.dropped \cup ks) \in Nat
    BY <1>1, <2>2, FS_CardinalityType
  <2>5. pub'.dropped_keys >= Cardinality(history.dropped \cup ks)
    BY <1>1, <2>1, <2>2, <2>3, <2>4
  <2> QED  BY <1>2, <2>1, <2>2, <2>5 DEF SurfaceInv, DropsSurface
<1> QED  BY <1>3, <1>4

LEMMA SurfaceNext == TypeInv /\ SurfaceInv /\ [Next]_vars => SurfaceInv'
<1> SUFFICES ASSUME TypeInv, SurfaceInv, [Next]_vars PROVE SurfaceInv'
  OBVIOUS
<1>1. pub \in Fields /\ history \in Histories
  BY DEF TypeInv, TypeOK
<1>2. ASSUME /\ pub'.dropped_keys = pub.dropped_keys /\ pub'.lastError = pub.lastError
             /\ history'.dropped = history.dropped /\ history'.raised = history.raised
      PROVE  SurfaceInv'
  BY <1>2 DEF SurfaceInv, DropsSurface
<1>3. CASE UNCHANGED vars  BY <1>2, <1>3 DEF vars
<1>4. ASSUME NEW c \in Calls, Notify(c)  PROVE SurfaceInv'
  <2>1. CASE NotifyUnconnected(c)
    BY <1>1, <2>1, RestFinite, Counted DEF NotifyUnconnected
  <2>2. CASE DropRest(c)
    <3> DEFINE p == [pub EXCEPT !.stalled = TRUE]
    <3>1. p \in Fields /\ p.dropped_keys = pub.dropped_keys /\ p.lastError = pub.lastError
      BY <1>1 DEF Fields
    <3>2. pub' = RecordDrop(p, Rest(c)) /\ history' = Drop(Rest(c))
      BY <2>2 DEF DropRest
    <3> HIDE DEF p
    <3> QED  BY <3>1, <3>2, RestFinite, Counted
  <2>3. CASE Put(c)
    <3>1. pub' = pub /\ history' = [history EXCEPT !.accepted = Append(@, BatchOf[c][call[c].i])]
      BY <2>3 DEF Put
    <3> QED  BY <1>1, <1>2, <3>1 DEF Histories
  <2>4. CASE pub' = pub /\ history' = history  BY <1>2, <2>4
  <2> QED
    BY <1>4, <2>1, <2>2, <2>3, <2>4
       DEF Notify, NotifyConnected, NotifyEnsure, NotifyRead, PutFull, PutTimesOut
<1>5. ASSUME NEW f \in Flushes, Flush(f)  PROVE SurfaceInv'
  <2>1. CASE FlushRaise(f)
    <3>1. pub'.dropped_keys = pub.dropped_keys /\ history'.dropped = history.dropped
      BY <1>1, <2>1 DEF FlushRaise, Fields, Histories
    <3>2. history'.dropped \ history'.raised = {}
      <4>1. CASE pub.lastError
        BY <1>1, <2>1, <3>1, <4>1 DEF FlushRaise, Histories
      <4>2. CASE ~pub.lastError
        BY <1>1, <2>1, <3>1, <4>2 DEF FlushRaise, Histories, SurfaceInv, DropsSurface
      <4> QED  BY <4>1, <4>2
    <3> QED  BY <3>1, <3>2 DEF SurfaceInv, DropsSurface
  <2>2. CASE FlushPut(f)
    <3>1. pub' = pub /\ history'.dropped = history.dropped /\ history'.raised = history.raised
      BY <1>1, <2>2 DEF FlushPut, Histories
    <3> QED  BY <1>2, <3>1
  <2>3. CASE pub' = pub /\ history' = history  BY <1>2, <2>3
  <2> QED  BY <1>5, <2>1, <2>2, <2>3 DEF Flush, FlushStart, FlushWake, FlushTimesOut
<1>6. ASSUME NEW g \in Gens, Work(g)  PROVE SurfaceInv'
  <2>1. worker[g].batch \in Seq(Keys) /\ worker[g].chunk \in Seq(Keys)
    BY DEF TypeInv, TypeOK, WorkerStates
  <2>2. CASE StartChunk(g)
    <3> DEFINE b == worker[g].batch
               n == Smaller(ChunkMax, Len(b))
               s == SubSeq(b, 1, n)
    <3>1. Len(b) \in Nat /\ Len(b) # 0
      BY <2>1, <2>2, LenProperties, EmptySeq DEF StartChunk
    <3>2. n \in 1 .. Len(b)
      BY <3>1 DEF Smaller
    <3>3. s \in Seq(Keys)
      BY <2>1, <3>2, RangeCut
    <3> HIDE DEF s, n
    <3>4. PICK lost \in SUBSET Range(s) : pub' = RecordDrop(pub, lost) /\ history' = Drop(lost)
      BY <2>2 DEF StartChunk, s, n
    <3>5. IsFiniteSet(lost)
      BY <3>3, RangeFinite, FS_Subset
    <3> QED  BY <1>1, <3>4, <3>5, Counted
  <2>3. CASE SendDropped(g)
    <3> DEFINE p    == [pub EXCEPT !.drainFailed = @ \/ stop[g]]
               lost == Range(worker[g].chunk) \ Unroutable
    <3>1. p \in Fields /\ p.dropped_keys = pub.dropped_keys /\ p.lastError = pub.lastError
      BY <1>1 DEF Fields
    <3>2. IsFiniteSet(lost)
      BY <2>1, RangeFinite, FS_Subset
    <3>3. pub' = RecordDrop(p, lost) /\ history' = Drop(lost)
      BY <2>3 DEF SendDropped
    <3> HIDE DEF p, lost
    <3> QED  BY <3>1, <3>2, <3>3, Counted
  <2>4. CASE SendOk(g)
    BY <1>1, <1>2, <2>4 DEF SendOk, Fields
  <2>5. CASE pub' = pub /\ history' = history  BY <1>2, <2>5
  <2> QED
    BY <1>6, <2>2, <2>3, <2>4, <2>5
       DEF Work, WorkerGet, WorkerEmpty, WorkerPoll, WorkerDrained, StartBatch, EndBatch, SendRetried
<1>7. CASE Lifecycle
  <2>1. CASE DropEnd
    BY <1>1, <2>1, Counted DEF DropEnd, TypeInv
  <2>2. CASE ~DropEnd
    BY <1>1, <1>2, <1>7, <2>2 DEF Lifecycle, Disconnecting, Connect, Connected, ConnectFails,
       Disconnect, PutMarker, MarkerTimesOut, Join, JoinTimesOut, DropNext, Disconnected, Collect, Fields
  <2> QED  BY <2>1, <2>2
<1> QED  BY <1>3, <1>4, <1>5, <1>6, <1>7 DEF Next

\* A drop is never silent, whatever overlaps: each dropped key is in the counter, and until
\* a flush raised it an error waits for the next flush.
THEOREM DropsSurfaceCorrect == Spec => []DropsSurface
<1>1. Init => SurfaceInv
  BY FS_EmptySet DEF Init, SurfaceInv, DropsSurface
<1>2. SurfaceInv => DropsSurface
  BY DEF SurfaceInv
<1> QED  BY <1>1, <1>2, InitType, NextType, SurfaceNext, PTL DEF Spec
===============================================================================
