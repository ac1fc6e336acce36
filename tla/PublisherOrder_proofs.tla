------------------------ MODULE PublisherOrder_proofs ------------------------
(***************************************************************************)
(* Proofs about Publisher: keys are delivered in the order they were       *)
(* queued, and a flush that saw its event is a barrier.                    *)
(***************************************************************************)
EXTENDS Publisher_proofs

USE BoundsAssumption DEF Gens

(***************************************************************************)
(* The inductive invariant of the order. acc is the sequence of the keys   *)
(* accepted, del the chunks delivered.                                     *)
(***************************************************************************)

\* Key k was queued before key l.
Precedes(acc, k, l) == At(k, acc) < At(l, acc)

\* Sentinels have no place in the order.
Sorted(acc, s) ==
    \A a, b \in DOMAIN s : a < b /\ s[a] \in Keys /\ s[b] \in Keys => Precedes(acc, s[a], s[b])
Below(acc, S, T) == \A k \in S \cap Keys, l \in T \cap Keys : Precedes(acc, k, l)

\* Keys of the delivered chunks.
Given(del) == UNION {Range(chunk) : chunk \in Range(del)}

\* What is delivered, the chunk, the batch and the queue follow each other in the order of
\* acceptance; the chunk may have been delivered already.
Pipeline(acc, given, batch, chunk, q) ==
    /\ (Range(q) \cap Keys) \cup Range(batch) \cup Range(chunk) \cup given \subseteq Range(acc)
    /\ Sorted(acc, q) /\ Sorted(acc, batch) /\ Sorted(acc, chunk)
    /\ Below(acc, Range(batch), Range(q))
    /\ Below(acc, Range(chunk), Range(batch) \cup Range(q))
    /\ Below(acc, given, Range(batch) \cup Range(q))

\* Keys that chunk delivers after later ones were delivered before those.
Follows(acc, del, i, chunk) ==
    \A k \in Range(del[i]), l \in Range(chunk) :
        Precedes(acc, l, k) => \E h \in 1 .. i : l \in Range(del[h])
Deliverable(acc, del, chunk) == \A i \in DOMAIN del : Follows(acc, del, i, chunk)

InOrderOf(acc, del) ==
    /\ \A i \in DOMAIN del : Sorted(acc, del[i])
    /\ \A i, j \in DOMAIN del : i < j => Follows(acc, del, i, del[j])

\* A call queues each of its keys once.
OnceInv ==
    /\ IsInjective(history.accepted)
    /\ \A c \in Calls : \A j \in 1 .. Len(BatchOf[c]) :
          BatchOf[c][j] \in Range(history.accepted) => call[c].pc = "done" \/ j < call[c].i

\* Nobody knows of a connection to come.
PresentInv ==
    /\ \A c \in Calls : call[c].q <= pub.gen
    /\ \A f \in Flushes : flush[f].q <= pub.gen
    /\ \A g \in Gens : g > pub.gen => queue[g] = <<>>

PipelineInv ==
    LET wk == worker[pub.gen] IN
    /\ InOrderOf(history.accepted, delivered)
    /\ Pipeline(history.accepted, Given(delivered), wk.batch, wk.chunk, queue[pub.gen])
    /\ Deliverable(history.accepted, delivered, wk.chunk)

OrderInv == OnceInv /\ PresentInv /\ PipelineInv

(***************************************************************************)
(* Lemmas about the order alone.                                           *)
(***************************************************************************)

\* A place in a sequence without repetitions.
LEMMA AtPlace ==
    ASSUME NEW s \in Seq(Keys), IsInjective(s), NEW i \in 1 .. Len(s)
    PROVE  At(s[i], s) = i
<1>1. DOMAIN s = 1 .. Len(s)
  BY LenProperties
<1> QED  BY <1>1 DEF At, IsInjective

\* A new key comes after all others, whose places stay.
LEMMA AtAppend ==
    ASSUME NEW s \in Seq(Keys), IsInjective(s), NEW x \in Keys, x \notin Range(s)
    PROVE  LET r == Append(s, x) IN
           /\ r \in Seq(Keys) /\ IsInjective(r) /\ Range(r) = Range(s) \cup {x}
           /\ \A k, l \in Range(s) : Precedes(r, k, l) <=> Precedes(s, k, l)
           /\ \A k \in Range(s) : Precedes(r, k, x) /\ ~Precedes(r, x, k)
           /\ ~Precedes(r, x, x)
<1> DEFINE r == Append(s, x)
           n == Len(s)
<1>1. /\ r \in Seq(Keys) /\ Len(r) = n + 1 /\ n \in Nat
      /\ \A i \in 1 .. n : r[i] = s[i]
      /\ r[n + 1] = x
  BY AppendProperties, LenProperties
<1>2. Range(r) = Range(s) \cup {x} /\ Range(s) = {s[i] : i \in 1 .. n}
  BY RangeAppend, RangeEquality
<1>3. DOMAIN r = 1 .. n + 1 /\ DOMAIN s = 1 .. n
  BY <1>1, LenProperties
<1> HIDE DEF r, n
<1>4. ASSUME NEW a \in 1 .. n + 1, NEW b \in 1 .. n + 1, r[a] = r[b]  PROVE a = b
  <2>1. CASE a \in 1 .. n /\ b \in 1 .. n
    BY <1>1, <1>3, <1>4, <2>1 DEF IsInjective
  <2>2. CASE a = n + 1 /\ b \in 1 .. n
    BY <1>1, <1>2, <1>4, <2>2
  <2>3. CASE b = n + 1 /\ a \in 1 .. n
    BY <1>1, <1>2, <1>4, <2>3
  <2> QED  BY <1>1, <2>1, <2>2, <2>3
<1>5. IsInjective(r)
  BY <1>3, <1>4 DEF IsInjective
<1>6. At(x, r) = n + 1
  <2>1. n + 1 \in 1 .. Len(r)
    BY <1>1
  <2> QED  BY <1>1, <1>5, <2>1, AtPlace
<1>7. ASSUME NEW k \in Range(s)  PROVE At(k, r) = At(k, s) /\ At(k, s) \in 1 .. n
  <2>1. PICK i \in 1 .. n : k = s[i] /\ k = r[i]
    BY <1>1, <1>2
  <2>2. i \in 1 .. Len(r) /\ i \in 1 .. Len(s)
    BY <1>1, <2>1 DEF n
  <2>3. At(k, r) = i
    BY <1>1, <1>5, <2>1, <2>2, AtPlace
  <2>4. At(k, s) = i
    BY <2>1, <2>2, AtPlace
  <2> QED  BY <2>3, <2>4
<1>8. /\ \A k, l \in Range(s) : Precedes(r, k, l) <=> Precedes(s, k, l)
      /\ \A k \in Range(s) : Precedes(r, k, x) /\ ~Precedes(r, x, k)
      /\ ~Precedes(r, x, x)
  BY <1>1, <1>6, <1>7 DEF Precedes
<1> QED  BY <1>1, <1>2, <1>5, <1>8 DEF r

\* Of two keys in their places, the later one does not come first.
LEMMA PrecedesStrict ==
    ASSUME NEW s \in Seq(Keys), IsInjective(s), NEW k \in Range(s), NEW l \in Range(s),
           Precedes(s, k, l)
    PROVE  ~Precedes(s, l, k)
<1>1. PICK i \in 1 .. Len(s), j \in 1 .. Len(s) : k = s[i] /\ l = s[j]
  BY RangeEquality
<1>2. At(k, s) = i /\ At(l, s) = j
  BY <1>1, AtPlace
<1> QED  BY <1>2 DEF Precedes

\* An empty sequence is in order.
LEMMA NoneSorted == ASSUME NEW acc PROVE Sorted(acc, <<>>) /\ Range(<<>>) = {}
BY DEF Sorted, Range

\* Append, tail and cut keep a sequence in order.
LEMMA SortedAppend ==
    ASSUME NEW acc, NEW S, NEW s \in Seq(S), NEW x \in S, Sorted(acc, s),
           x \in Keys => Below(acc, Range(s), {x})
    PROVE  Sorted(acc, Append(s, x))
<1> DEFINE r == Append(s, x)
<1>1. /\ r \in Seq(S) /\ Len(r) = Len(s) + 1 /\ Len(s) \in Nat
      /\ \A i \in 1 .. Len(s) : r[i] = s[i]
      /\ r[Len(s) + 1] = x
  BY AppendProperties, LenProperties
<1>2. DOMAIN s = 1 .. Len(s) /\ DOMAIN r = 1 .. Len(s) + 1
  BY <1>1, LenProperties
<1>3. Range(s) = {s[i] : i \in 1 .. Len(s)}
  BY RangeEquality
<1> HIDE DEF r
<1>4. ASSUME NEW a \in DOMAIN r, NEW b \in DOMAIN r, a < b, r[a] \in Keys, r[b] \in Keys
      PROVE  Precedes(acc, r[a], r[b])
  <2>1. a \in 1 .. Len(s) /\ r[a] = s[a]
    BY <1>1, <1>2, <1>4
  <2>2. CASE b \in 1 .. Len(s)
    BY <1>1, <1>2, <1>4, <2>1, <2>2 DEF Sorted
  <2>3. CASE b = Len(s) + 1
    <3>1. r[b] = x /\ r[a] \in Range(s)
      BY <1>1, <1>3, <2>1, <2>3
    <3> QED  BY <1>4, <3>1 DEF Below
  <2> QED  BY <1>2, <2>2, <2>3
<1> QED  BY <1>4 DEF Sorted, r

LEMMA SortedTail ==
    ASSUME NEW acc, NEW S, NEW s \in Seq(S), Sorted(acc, s), s # <<>>
    PROVE  Sorted(acc, Tail(s)) /\ Below(acc, {Head(s)}, Range(Tail(s)))
<1> DEFINE r == Tail(s)
<1>1. /\ r \in Seq(S) /\ Len(r) = Len(s) - 1
      /\ \A i \in 1 .. Len(r) : r[i] = s[i + 1]
  BY HeadTailProperties
<1>2. /\ DOMAIN s = 1 .. Len(s) /\ Len(s) \in Nat /\ DOMAIN r = 1 .. Len(r) /\ Len(s) > 0
  BY <1>1, LenProperties, EmptySeq
<1>3. Range(r) = {r[i] : i \in 1 .. Len(r)}
  BY <1>1, RangeEquality
<1>4. Head(s) = s[1]
  OBVIOUS
<1> HIDE DEF r
<1>5. \A i \in DOMAIN r : i + 1 \in DOMAIN s /\ 1 \in DOMAIN s /\ 1 < i + 1 /\ r[i] = s[i + 1]
  BY <1>1, <1>2
<1>6. Sorted(acc, r)
  <2>1. \A a, b \in DOMAIN r : a < b => a + 1 < b + 1
    BY <1>2
  <2> QED  BY <1>5, <2>1 DEF Sorted
<1>7. Below(acc, {Head(s)}, Range(r))
  BY <1>2, <1>3, <1>5, <1>4 DEF Below, Sorted
<1> QED  BY <1>6, <1>7 DEF r

LEMMA SortedCut ==
    ASSUME NEW acc, NEW s \in Seq(Keys), Sorted(acc, s), NEW n \in 1 .. Len(s)
    PROVE  LET a == SubSeq(s, 1, n)
               b == SubSeq(s, n + 1, Len(s))
           IN  Sorted(acc, a) /\ Sorted(acc, b) /\ Below(acc, Range(a), Range(b))
<1> DEFINE a == SubSeq(s, 1, n)
           b == SubSeq(s, n + 1, Len(s))
<1>1. Len(s) \in Nat /\ n \in Nat /\ \A i \in 1 .. Len(s) : s[i] \in Keys
  BY LenProperties, ElementOfSeq
<1>2. a \in Seq(Keys) /\ Len(a) = n /\ \A i \in 1 .. n : a[i] = s[i]
  BY <1>1, SubSeqProperties
<1>3. /\ b \in Seq(Keys) /\ Len(b) = Len(s) - n
      /\ \A i \in 1 .. Len(s) - n : b[i] = s[n + i]
  <2>1. \A i \in n + 1 .. Len(s) : s[i] \in Keys
    BY <1>1
  <2>2. /\ b \in Seq(Keys) /\ Len(b) = IF n + 1 <= Len(s) THEN Len(s) - (n + 1) + 1 ELSE 0
        /\ \A i \in 1 .. Len(s) - (n + 1) + 1 : b[i] = s[n + 1 + i - 1]
    BY <1>1, <2>1, SubSeqProperties
  <2> QED  BY <1>1, <2>2
<1> HIDE DEF a, b
<1>4. DOMAIN a = 1 .. n /\ DOMAIN b = 1 .. Len(s) - n /\ DOMAIN s = 1 .. Len(s)
  BY <1>2, <1>3, LenProperties
<1>5. Range(a) = {a[i] : i \in 1 .. n} /\ Range(b) = {b[i] : i \in 1 .. Len(s) - n}
  BY <1>4 DEF Range
<1>6. /\ \A i \in 1 .. n : i \in DOMAIN s /\ a[i] = s[i]
      /\ \A i \in 1 .. Len(s) - n : n + i \in DOMAIN s /\ b[i] = s[n + i]
  BY <1>1, <1>2, <1>3, <1>4
<1>7. Sorted(acc, a)
  BY <1>4, <1>6 DEF Sorted
<1>8. Sorted(acc, b)
  <2>1. \A i, j \in 1 .. Len(s) - n : i < j => n + i < n + j
    BY <1>1
  <2> QED  BY <1>4, <1>6, <2>1 DEF Sorted
<1>9. Below(acc, Range(a), Range(b))
  <2>1. \A i \in 1 .. n, j \in 1 .. Len(s) - n : i < n + j
    BY <1>1
  <2>2. ASSUME NEW k \in Range(a) \cap Keys, NEW l \in Range(b) \cap Keys
        PROVE  Precedes(acc, k, l)
    <3>1. PICK i \in 1 .. n, j \in 1 .. Len(s) - n : k = a[i] /\ l = b[j]
      BY <1>5, <2>2
    <3>2. /\ i \in DOMAIN s /\ n + j \in DOMAIN s /\ i < n + j
          /\ s[i] = k /\ s[n + j] = l
      BY <1>6, <2>1, <3>1
    <3> QED  BY <3>2 DEF Sorted
  <2> QED  BY <2>2 DEF Below
<1> QED  BY <1>7, <1>8, <1>9 DEF a, b

(***************************************************************************)
(* Lemmas about the pipeline.                                              *)
(***************************************************************************)

\* What is empty is in order with everything.
LEMMA PipelineEmpties ==
    ASSUME NEW acc, NEW given, NEW batch, NEW chunk, NEW q,
           Pipeline(acc, given, batch, chunk, q),
           NEW b \in {batch, <<>>}, NEW c \in {chunk, <<>>}, NEW p \in {q, <<>>}
    PROVE  Pipeline(acc, given, b, c, p)
<1>1. /\ Range(b) \subseteq Range(batch) /\ Sorted(acc, b)
      /\ Range(c) \subseteq Range(chunk) /\ Sorted(acc, c)
      /\ Range(p) \subseteq Range(q) /\ Sorted(acc, p)
  BY NoneSorted DEF Pipeline
<1> QED  BY <1>1 DEF Pipeline, Below

\* A sentinel joins the queue, or leaves it, or a key that nobody took.
LEMMA PipelineSentinel ==
    ASSUME NEW acc, NEW given, NEW batch, NEW chunk, NEW q \in Seq(Items),
           Pipeline(acc, given, batch, chunk, q), NEW x \in Items \ Keys
    PROVE  Pipeline(acc, given, batch, chunk, Append(q, x))
<1>1. Range(Append(q, x)) = Range(q) \cup {x}
  BY RangeAppend
<1>2. Sorted(acc, q)
  BY DEF Pipeline
<1>3. Sorted(acc, Append(q, x))
  BY <1>2, SortedAppend
<1> QED  BY <1>1, <1>3 DEF Pipeline, Below

LEMMA PipelineTail ==
    ASSUME NEW acc, NEW given, NEW batch, NEW chunk, NEW q \in Seq(Items),
           Pipeline(acc, given, batch, chunk, q), q # <<>>
    PROVE  Pipeline(acc, given, batch, chunk, Tail(q))
<1>1. Sorted(acc, Tail(q)) /\ Range(Tail(q)) \subseteq Range(q)
  BY SortedTail, RangeTail DEF Pipeline
<1> QED  BY <1>1 DEF Pipeline, Below

\* The worker takes a key into its batch.
LEMMA PipelineTake ==
    ASSUME NEW acc, NEW given, NEW batch \in Seq(Keys), NEW chunk, NEW q \in Seq(Items),
           Pipeline(acc, given, batch, chunk, q), q # <<>>, Head(q) \in Keys
    PROVE  Pipeline(acc, given, Append(batch, Head(q)), chunk, Tail(q))
<1> DEFINE x == Head(q)
<1>1. /\ Sorted(acc, Tail(q)) /\ Below(acc, {x}, Range(Tail(q)))
      /\ Range(q) = {x} \cup Range(Tail(q))
  BY SortedTail, RangeTail DEF Pipeline
<1> HIDE DEF x
<1>2. x \in Keys
  BY DEF x
<1>3. Range(Append(batch, x)) = Range(batch) \cup {x}
  BY <1>2, RangeAppend
<1>4. Below(acc, Range(batch), {x})
  BY <1>1 DEF Pipeline, Below
<1>5. Sorted(acc, Append(batch, x))
  BY <1>2, <1>4, SortedAppend DEF Pipeline
<1>6. Pipeline(acc, given, Append(batch, x), chunk, Tail(q))
  BY <1>1, <1>2, <1>3, <1>5 DEF Pipeline, Below
<1> QED  BY <1>6 DEF x

\* The worker cuts the next chunk off its batch, to send it or to drop it.
LEMMA PipelineCut ==
    ASSUME NEW acc \in Seq(Keys), IsInjective(acc), NEW del \in Seq(Seq(Keys)),
           NEW batch \in Seq(Keys), NEW q,
           Pipeline(acc, Given(del), batch, <<>>, q), NEW n \in 1 .. Len(batch),
           NEW chunk \in {SubSeq(batch, 1, n), <<>>}
    PROVE  /\ Pipeline(acc, Given(del), SubSeq(batch, n + 1, Len(batch)), chunk, q)
           /\ Deliverable(acc, del, chunk)
<1> DEFINE a == SubSeq(batch, 1, n)
           b == SubSeq(batch, n + 1, Len(batch))
<1>1. a \in Seq(Keys) /\ b \in Seq(Keys) /\ Range(batch) = Range(a) \cup Range(b)
  BY RangeCut
<1>2. Sorted(acc, a) /\ Sorted(acc, b) /\ Below(acc, Range(a), Range(b))
  BY SortedCut DEF Pipeline
<1> HIDE DEF a, b
<1>3. Range(batch) \subseteq Keys /\ Range(a) \subseteq Keys
  BY <1>1, RangeFinite
<1>4. Pipeline(acc, Given(del), b, a, q)
  BY <1>1, <1>2 DEF Pipeline, Below
<1>5. Deliverable(acc, del, a)
  <2> SUFFICES ASSUME NEW i \in DOMAIN del, NEW k \in Range(del[i]), NEW l \in Range(a)
               PROVE  ~Precedes(acc, l, k)
    BY DEF Deliverable, Follows
  <2>1. i \in 1 .. Len(del) /\ del[i] \in Seq(Keys) /\ del[i] \in Range(del)
    BY LenProperties, ElementOfSeq DEF Range
  <2>2. k \in Keys /\ k \in Given(del)
    BY <2>1, RangeFinite DEF Given
  <2>3. l \in Keys /\ l \in Range(batch)
    BY <1>1, <1>3
  <2>4. Precedes(acc, k, l) /\ k \in Range(acc) /\ l \in Range(acc)
    BY <2>2, <2>3 DEF Pipeline, Below
  <2> QED  BY <2>4, PrecedesStrict
<1>6. Pipeline(acc, Given(del), b, chunk, q) /\ Deliverable(acc, del, chunk)
  <2>1. CASE chunk = a  BY <1>4, <1>5, <2>1
  <2>2. CASE chunk = <<>>
    BY <1>4, <2>2, PipelineEmpties, NoneSorted DEF Deliverable, Follows
  <2> QED  BY <2>1, <2>2 DEF a
<1> QED  BY <1>6 DEF b

\* A call queues a new key, on the connection's queue or on one that nobody reads.
LEMMA PipelineAccept ==
    ASSUME NEW acc \in Seq(Keys), IsInjective(acc), NEW del \in Seq(Seq(Keys)),
           NEW batch \in Seq(Keys), NEW chunk \in Seq(Keys), NEW q \in Seq(Items),
           Pipeline(acc, Given(del), batch, chunk, q), InOrderOf(acc, del),
           Deliverable(acc, del, chunk),
           NEW x \in Keys, x \notin Range(acc), NEW p \in {q, Append(q, x)}
    PROVE  LET r == Append(acc, x) IN
           /\ Pipeline(r, Given(del), batch, chunk, p) /\ InOrderOf(r, del)
           /\ Deliverable(r, del, chunk)
<1> DEFINE r == Append(acc, x)
<1>1. /\ r \in Seq(Keys) /\ IsInjective(r) /\ Range(r) = Range(acc) \cup {x}
      /\ \A k, l \in Range(acc) : Precedes(r, k, l) <=> Precedes(acc, k, l)
      /\ \A k \in Range(acc) : Precedes(r, k, x)
  BY AtAppend
<1>2. x \in Items /\ Range(Append(q, x)) = Range(q) \cup {x}
  <2>1. x \in Items
    BY DEF Items
  <2> QED  BY <2>1, RangeAppend
<1> HIDE DEF r
<1>3. /\ (Range(q) \cap Keys) \cup Range(batch) \cup Range(chunk) \cup Given(del)
             \subseteq Range(acc)
      /\ \A i \in DOMAIN q : q[i] \in Range(q)
      /\ \A i \in DOMAIN batch : batch[i] \in Range(batch)
      /\ \A i \in DOMAIN chunk : chunk[i] \in Range(chunk)
      /\ \A i \in DOMAIN del : Range(del[i]) \subseteq Given(del)
                               /\ \A a \in DOMAIN del[i] : del[i][a] \in Given(del)
  <2>1. \A i \in DOMAIN del : Range(del[i]) \subseteq Given(del)
    <3>1. \A i \in DOMAIN del : del[i] \in Range(del)
      BY DEF Range
    <3> QED  BY <3>1 DEF Given
  <2>2. \A s : \A a \in DOMAIN s : s[a] \in Range(s)
    BY DEF Range
  <2>3. (Range(q) \cap Keys) \cup Range(batch) \cup Range(chunk) \cup Given(del)
            \subseteq Range(acc)
    BY DEF Pipeline
  <2> QED  BY <2>1, <2>2, <2>3
<1>4. Pipeline(r, Given(del), batch, chunk, q)
  <2>1. Sorted(r, q) /\ Sorted(r, batch) /\ Sorted(r, chunk)
    BY <1>1, <1>3 DEF Pipeline, Sorted
  <2> QED  BY <1>1, <1>3, <2>1 DEF Pipeline, Below
<1>5. Sorted(r, Append(q, x))
  <2>1. Sorted(r, q) /\ Below(r, Range(q), {x})
    BY <1>1, <1>3, <1>4 DEF Pipeline, Below
  <2> QED  BY <1>2, <2>1, SortedAppend
<1>6. Pipeline(r, Given(del), batch, chunk, Append(q, x))
  BY <1>1, <1>2, <1>3, <1>4, <1>5 DEF Pipeline, Below
<1>7. InOrderOf(r, del)
  BY <1>1, <1>3 DEF InOrderOf, Sorted, Follows
<1>8. Deliverable(r, del, chunk)
  BY <1>1, <1>3 DEF Deliverable, Follows
<1> QED  BY <1>4, <1>6, <1>7, <1>8 DEF r

\* The chunk is given to the transport, and stays the worker's or leaves it.
LEMMA PipelineSend ==
    ASSUME NEW acc \in Seq(Keys), NEW del \in Seq(Seq(Keys)),
           NEW batch \in Seq(Keys), NEW chunk \in Seq(Keys), NEW q \in Seq(Items),
           Pipeline(acc, Given(del), batch, chunk, q), InOrderOf(acc, del),
           Deliverable(acc, del, chunk), NEW c \in {chunk, <<>>}
    PROVE  LET d == Append(del, chunk) IN
           /\ Pipeline(acc, Given(d), batch, c, q) /\ InOrderOf(acc, d)
           /\ Deliverable(acc, d, c)
<1> DEFINE d == Append(del, chunk)
           n == Len(del)
<1>1. /\ d \in Seq(Seq(Keys)) /\ Len(d) = n + 1 /\ n \in Nat
      /\ \A i \in 1 .. n : d[i] = del[i]
      /\ d[n + 1] = chunk
  BY AppendProperties, LenProperties
<1>2. Given(d) = Given(del) \cup Range(chunk)
  <2>1. Range(d) = Range(del) \cup {chunk}
    BY RangeAppend
  <2> HIDE DEF d
  <2> QED  BY <2>1 DEF Given
<1> HIDE DEF d, n
<1>3. DOMAIN d = 1 .. n + 1 /\ DOMAIN del = 1 .. n
  BY <1>1, LenProperties DEF n
<1>4. Pipeline(acc, Given(d), batch, chunk, q)
  BY <1>2 DEF Pipeline, Below
<1>5. ASSUME NEW i \in 1 .. n, NEW s, Follows(acc, del, i, s)
      PROVE  Follows(acc, d, i, s)
  <2>1. \A h \in 1 .. i : h \in 1 .. n /\ d[h] = del[h]
    BY <1>1
  <2> QED  BY <1>1, <1>5, <2>1 DEF Follows
<1>6. Follows(acc, d, n + 1, chunk)
  <2>1. n + 1 \in 1 .. n + 1 /\ d[n + 1] = chunk
    BY <1>1
  <2> QED  BY <2>1 DEF Follows
<1>7. Deliverable(acc, d, chunk)
  <2>1. ASSUME NEW i \in DOMAIN d  PROVE Follows(acc, d, i, chunk)
    <3>1. CASE i \in 1 .. n
      BY <1>3, <1>5, <3>1 DEF Deliverable
    <3>2. CASE i = n + 1
      BY <1>6, <3>2
    <3> QED  BY <1>1, <1>3, <3>1, <3>2
  <2> QED  BY <2>1 DEF Deliverable
<1>8. InOrderOf(acc, d)
  <2>1. ASSUME NEW i \in DOMAIN d  PROVE Sorted(acc, d[i])
    <3>1. CASE i \in 1 .. n
      BY <1>1, <1>3, <3>1 DEF InOrderOf
    <3>2. CASE i = n + 1
      BY <1>1, <3>2 DEF Pipeline
    <3> QED  BY <1>1, <1>3, <3>1, <3>2
  <2>2. ASSUME NEW i \in DOMAIN d, NEW j \in DOMAIN d, i < j  PROVE Follows(acc, d, i, d[j])
    <3>1. i \in 1 .. n
      BY <1>1, <1>3, <2>2
    <3>2. CASE j \in 1 .. n
      <4>1. Follows(acc, del, i, del[j]) /\ d[j] = del[j]
        BY <1>1, <1>3, <2>2, <3>1, <3>2 DEF InOrderOf
      <4> QED  BY <1>5, <3>1, <4>1
    <3>3. CASE j = n + 1
      BY <1>1, <1>7, <3>3 DEF Deliverable
    <3> QED  BY <1>1, <1>3, <3>2, <3>3
  <2> QED  BY <2>1, <2>2 DEF InOrderOf
<1>9. CASE c = chunk  BY <1>4, <1>7, <1>8, <1>9 DEF d
<1>10. CASE c = <<>>
  <2>1. Pipeline(acc, Given(d), batch, c, q)
    BY <1>4, <1>10, PipelineEmpties
  <2>2. Deliverable(acc, d, c)
    BY <1>10, NoneSorted DEF Deliverable, Follows
  <2> QED  BY <1>8, <2>1, <2>2 DEF d
<1> QED  BY <1>9, <1>10

(***************************************************************************)
(* The steps keep the order.                                               *)
(***************************************************************************)

\* The types of what the order is about.
LEMMA OrderTypes ==
    ASSUME TypeInv
    PROVE  /\ history.accepted \in Seq(Keys) /\ delivered \in Seq(Seq(Keys))
           /\ pub.gen \in Gens /\ history \in Histories
           /\ \A g \in Gens : /\ worker[g] \in WorkerStates /\ queue[g] \in Seq(Items)
                              /\ worker[g].batch \in Seq(Keys) /\ worker[g].chunk \in Seq(Keys)
BY DEF TypeInv, TypeOK, Histories, Fields, WorkerStates

\* Where the fields of the pipeline stay, or lose what they hold, so does its invariant.
LEMMA PipelineKept ==
    ASSUME TypeInv, PipelineInv, pub'.gen = pub.gen,
           history'.accepted = history.accepted, delivered' = delivered,
           worker'[pub.gen].batch \in {worker[pub.gen].batch, <<>>},
           worker'[pub.gen].chunk = worker[pub.gen].chunk,
           \/ queue'[pub.gen] = queue[pub.gen]
           \/ queue[pub.gen] # <<>> /\ queue'[pub.gen] = Tail(queue[pub.gen])
           \/ \E x \in Items \ Keys : queue'[pub.gen] = Append(queue[pub.gen], x)
    PROVE  PipelineInv'
<1> DEFINE b == worker[pub.gen].batch
           c == worker[pub.gen].chunk
           q == queue[pub.gen]
           P(p) == Pipeline(history.accepted, Given(delivered), b, c, p)
<1>1. q \in Seq(Items) /\ P(q)
  BY OrderTypes DEF PipelineInv
<1>2. P(queue'[pub.gen])
  <2>1. CASE queue'[pub.gen] = q
    BY <1>1, <2>1
  <2>2. CASE q # <<>> /\ queue'[pub.gen] = Tail(q)
    <3>1. P(Tail(q))
      BY <1>1, <2>2, PipelineTail
    <3> QED  BY <2>2, <3>1
  <2>3. CASE \E x \in Items \ Keys : queue'[pub.gen] = Append(q, x)
    <3>1. PICK x \in Items \ Keys : queue'[pub.gen] = Append(q, x)
      BY <2>3
    <3>2. P(Append(q, x))
      BY <1>1, PipelineSentinel
    <3> QED  BY <3>1, <3>2
  <2> QED  BY <2>1, <2>2, <2>3
<1>3. Pipeline(history.accepted, Given(delivered), worker'[pub.gen].batch, c, queue'[pub.gen])
  BY <1>2, PipelineEmpties
<1> QED  BY <1>3 DEF PipelineInv

\* A step that leaves the calls' places and what they queued.
LEMMA OnceKept ==
    ASSUME OnceInv, history'.accepted = history.accepted, call' = call
    PROVE  OnceInv'
BY DEF OnceInv

LEMMA NotifyOrder ==
    ASSUME TypeInv, OrderInv, NEW c \in Calls, Notify(c)
    PROVE  OrderInv'
<1>1. UNCHANGED <<worker, life, stop, flush, delivered>> /\ pub'.gen = pub.gen
  BY NotifyFrame
<1>2. /\ history.accepted \in Seq(Keys) /\ delivered \in Seq(Seq(Keys)) /\ pub.gen \in Gens
      /\ history \in Histories /\ queue \in [Gens -> Seq(Items)] /\ call \in [Calls -> CallStates]
      /\ worker[pub.gen].batch \in Seq(Keys) /\ worker[pub.gen].chunk \in Seq(Keys)
      /\ call[c].q \in Gens /\ call[c].i \in 1 .. Len(BatchOf[c]) /\ Len(BatchOf[c]) \in Nat
  BY OrderTypes, CallKeys DEF TypeInv, TypeOK, CallStates
<1>3. \A d \in Calls : call[d].q <= pub.gen
  BY DEF OrderInv, PresentInv
<1>4. CASE Put(c)
  <2> PICK k : k = BatchOf[c][call[c].i]
    OBVIOUS
  <2>1. /\ k \in Keys /\ k \in Items
        /\ history'.accepted = Append(history.accepted, k)
        /\ queue' = [queue EXCEPT ![call[c].q] = Append(@, k)]
    BY <1>2, <1>4, CallKeys DEF Put, Histories, Items
  <2>2. /\ call'[c].q \in {call[c].q, 0}
        /\ call'[c].pc = "done" \/ call'[c].i = call[c].i + 1
        /\ \A d \in Calls : d # c => call'[d] = call[d]
    BY <1>2, <1>4 DEF Put, Returned
  <2>3. k \notin Range(history.accepted)
    <3>1. k \in Range(history.accepted) => call[c].pc = "done" \/ call[c].i < call[c].i
      BY <1>2 DEF OrderInv, OnceInv
    <3>2. call[c].pc # "done"
      BY <1>4 DEF Put
    <3>3. ~(call[c].i < call[c].i)
      <4>1. call[c].i \in 1 .. Len(BatchOf[c]) /\ Len(BatchOf[c]) \in Nat
        BY <1>2
      <4> QED  BY <4>1
    <3> QED  BY <3>1, <3>2, <3>3
  <2>4. /\ IsInjective(history'.accepted)
        /\ Range(history'.accepted) = Range(history.accepted) \cup {k}
    <3> PICK acc \in Seq(Keys) : acc = history.accepted
      BY <1>2
    <3>1. IsInjective(acc) /\ k \in Keys \ Range(acc) /\ history'.accepted = Append(acc, k)
      BY <2>1, <2>3 DEF OrderInv, OnceInv
    <3> QED  BY <3>1, AtAppend
  <2>5. OnceInv'
    <3>1. ASSUME NEW d \in Calls, NEW j \in 1 .. Len(BatchOf[d]),
                 BatchOf[d][j] \in Range(history'.accepted)
          PROVE  call'[d].pc = "done" \/ j < call'[d].i
      <4>1. CASE BatchOf[d][j] = k
        <5>1. k \in Range(BatchOf[c]) /\ k \in Range(BatchOf[d])
          <6>1. \A e \in Calls : DOMAIN BatchOf[e] = 1 .. Len(BatchOf[e])
            BY CallKeys, LenProperties
          <6> QED  BY <1>2, <4>1, <6>1 DEF Range
        <5>2. d = c
          BY <5>1, CallsAssumption
        <5>3. j = call[c].i
          <6>1. DOMAIN BatchOf[c] = 1 .. Len(BatchOf[c])
            BY CallKeys, LenProperties
          <6>2. IsInjective(BatchOf[c])
            BY CallsAssumption
          <6>3. BatchOf[c][j] = BatchOf[c][call[c].i] /\ j \in 1 .. Len(BatchOf[c])
            BY <4>1, <5>2
          <6> QED  BY <1>2, <6>1, <6>2, <6>3 DEF IsInjective
        <5> QED  BY <1>2, <2>2, <5>2, <5>3
      <4>2. CASE BatchOf[d][j] # k
        <5>1. call[d].pc = "done" \/ j < call[d].i
          BY <2>4, <3>1, <4>2 DEF OrderInv, OnceInv
        <5>2. call[c].pc # "done"
          BY <1>4 DEF Put
        <5>3. CASE d # c  BY <2>2, <5>1, <5>3
        <5>4. CASE d = c
          <6>1. j < call[c].i => j < call[c].i + 1
            BY <1>2, <5>4
          <6> QED  BY <2>2, <5>1, <5>2, <5>4, <6>1
        <5> QED  BY <5>3, <5>4
      <4> QED  BY <4>1, <4>2
    <3> QED  BY <2>4, <3>1 DEF OnceInv
  <2>6. PresentInv'
    <3>1. ASSUME NEW g \in Gens, g > pub.gen  PROVE queue'[g] = <<>>
      <4>1. g # call[c].q /\ queue[g] = <<>>
        BY <1>2, <1>3, <3>1 DEF OrderInv, PresentInv
      <4> QED  BY <1>2, <2>1, <4>1
    <3>2. \A d \in Calls : call'[d].q <= pub.gen
      <4>1. 0 <= pub.gen /\ call[c].q <= pub.gen
        BY <1>2, <1>3
      <4> QED  BY <1>3, <2>2, <4>1
    <3> QED  BY <1>1, <3>1, <3>2 DEF OrderInv, PresentInv
  <2>7. PipelineInv'
    <3> DEFINE b == worker[pub.gen].batch
               u == worker[pub.gen].chunk
               q == queue[pub.gen]
               p == queue'[pub.gen]
               a == history.accepted
    <3>1. p \in {q, Append(q, k)}
      BY <1>2, <2>1
    <3>2. /\ Pipeline(a, Given(delivered), b, u, q) /\ InOrderOf(a, delivered)
          /\ Deliverable(a, delivered, u) /\ q \in Seq(Items) /\ IsInjective(a)
      BY <1>2 DEF OrderInv, PipelineInv, OnceInv
    <3>3. /\ Pipeline(Append(a, k), Given(delivered), b, u, p)
          /\ InOrderOf(Append(a, k), delivered) /\ Deliverable(Append(a, k), delivered, u)
      BY <1>2, <2>1, <2>3, <3>1, <3>2, PipelineAccept
    <3> QED  BY <1>1, <2>1, <3>3 DEF PipelineInv
  <2> QED  BY <2>5, <2>6, <2>7 DEF OrderInv
<1>5. CASE ~Put(c)
  <2>1. queue' = queue
    BY <1>5 DEF Notify, NotifyConnected, NotifyUnconnected, NotifyEnsure, NotifyRead, PutFull,
       PutTimesOut, DropRest
  <2>2. history' = history \/ \E ks : history' = Drop(ks)
    BY <1>5 DEF Notify, NotifyConnected, NotifyUnconnected, NotifyEnsure, NotifyRead, PutFull,
       PutTimesOut, DropRest
  <2>3. history'.accepted = history.accepted
    BY <1>2, <2>2 DEF Drop, Histories
  <2>4. \/ call' = [call EXCEPT ![c] = Returned]
        \/ \E pc : call' = [call EXCEPT ![c].pc = pc]
        \/ \E pc : call' = [call EXCEPT ![c] = [@ EXCEPT !.pc = pc, !.q = pub.gen]]
    <3>1. CASE NotifyEnsure(c)
      <4>1. CASE pub.connected
        BY <3>1, <4>1 DEF NotifyEnsure
      <4>2. CASE ~pub.connected
        BY <3>1, <4>2 DEF NotifyEnsure
      <4> QED  BY <4>1, <4>2
    <3>2. CASE NotifyConnected(c) \/ NotifyUnconnected(c) \/ PutFull(c) \/ PutTimesOut(c)
      BY <3>2 DEF NotifyConnected, NotifyUnconnected, PutFull, PutTimesOut
    <3>3. CASE NotifyRead(c) \/ DropRest(c)
      BY <3>3 DEF NotifyRead, DropRest
    <3> QED  BY <1>5, <3>1, <3>2, <3>3 DEF Notify
  <2>5. /\ call[c].pc # "done" /\ call'[c].q \in {call[c].q, pub.gen, 0}
        /\ call'[c].pc = "done" \/ call'[c].i = call[c].i
        /\ \A d \in Calls : d # c => call'[d] = call[d]
    <3>1. call[c].pc # "done"
      BY <1>5 DEF Notify, NotifyConnected, NotifyUnconnected, NotifyEnsure, NotifyRead, PutFull,
         PutTimesOut, DropRest
    <3>2. call \in [Calls -> CallStates]
      BY <1>2
    <3>3. \A d \in Calls : d # c => call'[d] = call[d]
      BY <2>4, <3>2
    <3>4. CASE call' = [call EXCEPT ![c] = Returned]
      BY <3>1, <3>2, <3>3, <3>4 DEF Returned
    <3>5. CASE \E pc : call' = [call EXCEPT ![c].pc = pc]
      BY <3>1, <3>2, <3>3, <3>5 DEF CallStates
    <3>6. CASE \E pc : call' = [call EXCEPT ![c] = [@ EXCEPT !.pc = pc, !.q = pub.gen]]
      BY <3>1, <3>2, <3>3, <3>6 DEF CallStates
    <3> QED  BY <2>4, <3>4, <3>5, <3>6
  <2>6. OnceInv'
    BY <2>3, <2>5 DEF OrderInv, OnceInv
  <2>7. PresentInv'
    <3>1. 0 <= pub.gen /\ call[c].q <= pub.gen /\ pub.gen <= pub.gen
      BY <1>2, <1>3
    <3>2. \A d \in Calls : call'[d].q <= pub.gen
      BY <1>3, <2>5, <3>1
    <3> QED  BY <1>1, <2>1, <3>2 DEF OrderInv, PresentInv
  <2>8. PipelineInv'
    BY <1>1, <2>1, <2>3, PipelineKept DEF OrderInv
  <2> QED  BY <2>6, <2>7, <2>8 DEF OrderInv
<1> QED  BY <1>4, <1>5

LEMMA FlushOrder ==
    ASSUME TypeInv, OrderInv, NEW f \in Flushes, Flush(f)
    PROVE  OrderInv'
<1>1. UNCHANGED <<worker, life, stop, call, delivered>> /\ pub'.gen = pub.gen
  BY FlushFrame
<1>2. /\ history.accepted \in Seq(Keys) /\ pub.gen \in Gens
      /\ history \in Histories /\ queue \in [Gens -> Seq(Items)]
      /\ flush \in [Flushes -> FlushStates] /\ flush[f].q \in Gens
  BY OrderTypes DEF TypeInv, TypeOK, FlushStates
<1>3. \A e \in Flushes : flush[e].q <= pub.gen
  BY DEF OrderInv, PresentInv
<1>4. history'.accepted = history.accepted
  BY <1>2 DEF Flush, FlushStart, FlushPut, FlushWake, FlushTimesOut, FlushRaise, Histories
<1>5. /\ \A e \in Flushes : e # f => flush'[e] = flush[e]
      /\ flush'[f].q \in {flush[f].q, pub.gen, 0}
  <2>1. CASE FlushStart(f)
    <3>1. PICK pc : flush' = [flush EXCEPT ![f] = [@ EXCEPT !.pc = pc, !.q = pub.gen]]
      BY <2>1 DEF FlushStart
    <3> QED  BY <1>2, <3>1 DEF FlushStates
  <2>2. CASE FlushPut(f) \/ FlushWake(f) \/ FlushTimesOut(f)
    <3>1. PICK pc : flush' = [flush EXCEPT ![f].pc = pc]
      BY <2>2 DEF FlushPut, FlushWake, FlushTimesOut
    <3> QED  BY <1>2, <3>1 DEF FlushStates
  <2>3. CASE FlushRaise(f)
    BY <1>2, <2>3 DEF FlushRaise
  <2> QED  BY <2>1, <2>2, <2>3 DEF Flush
<1>6. queue' = queue \/ queue' = [queue EXCEPT ![flush[f].q] = Append(@, f)]
  BY DEF Flush, FlushStart, FlushPut, FlushWake, FlushTimesOut, FlushRaise
<1>7. OnceInv'
  BY <1>1, <1>4, OnceKept DEF OrderInv
<1>8. PresentInv'
  <2>1. ASSUME NEW g \in Gens, g > pub.gen  PROVE queue'[g] = <<>>
    <3>1. g # flush[f].q /\ queue[g] = <<>>
      BY <1>2, <1>3, <2>1 DEF OrderInv, PresentInv
    <3> QED  BY <1>2, <1>6, <3>1
  <2>2. \A e \in Flushes : flush'[e].q <= pub.gen
    <3>1. 0 <= pub.gen /\ flush[f].q <= pub.gen /\ pub.gen <= pub.gen
      BY <1>2, <1>3
    <3> QED  BY <1>3, <1>5, <3>1
  <2> QED  BY <1>1, <2>1, <2>2 DEF OrderInv, PresentInv
<1>9. PipelineInv'
  <2>1. f \in Items \ Keys
    BY KeyKinds DEF Items
  <2>2. queue'[pub.gen] \in {queue[pub.gen], Append(queue[pub.gen], f)}
    BY <1>2, <1>6
  <2> QED  BY <1>1, <1>4, <2>1, <2>2, PipelineKept DEF OrderInv
<1> QED  BY <1>7, <1>8, <1>9 DEF OrderInv

\* A worker's step moves keys from its queue to its batch, its chunk and the transport.
LEMMA WorkOrder ==
    ASSUME TypeInv, WorkerInv, OrderInv, NEW g \in Gens, Work(g)
    PROVE  OrderInv'
<1>1. /\ UNCHANGED <<life, stop, call>> /\ pub'.gen = pub.gen /\ g = pub.gen
  BY WorkFrame DEF WorkerInv
<1>2. /\ history.accepted \in Seq(Keys) /\ delivered \in Seq(Seq(Keys)) /\ g \in Gens
      /\ history \in Histories /\ worker \in [Gens -> WorkerStates]
      /\ queue \in [Gens -> Seq(Items)] /\ flush \in [Flushes -> FlushStates]
      /\ worker[g] \in WorkerStates /\ queue[g] \in Seq(Items)
      /\ worker[g].batch \in Seq(Keys) /\ worker[g].chunk \in Seq(Keys)
  BY OrderTypes DEF TypeInv, TypeOK
<1> DEFINE acc == history.accepted
           b == worker[g].batch
           u == worker[g].chunk
           q == queue[g]
<1>3. /\ InOrderOf(acc, delivered) /\ Deliverable(acc, delivered, u)
      /\ Pipeline(acc, Given(delivered), b, u, q) /\ IsInjective(acc)
  BY <1>1 DEF OrderInv, PipelineInv, OnceInv
<1>4. history'.accepted = acc
  <2>1. history' = history \/ \E ks : history' = Drop(ks)
    BY DEF Work, WorkerGet, WorkerEmpty, WorkerPoll, WorkerDrained, StartBatch, EndBatch,
       StartChunk, SendOk, SendRetried, SendDropped
  <2> QED  BY <1>2, <2>1 DEF Drop, Histories
<1>5. /\ flush' \in [Flushes -> FlushStates] /\ \A f \in Flushes : flush'[f].q = flush[f].q
      /\ queue' = queue \/ (queue[g] # <<>> /\ queue' = [queue EXCEPT ![g] = Tail(@)])
  <2>1. CASE EndBatch(g)
    BY <1>2, <2>1, SignalledType DEF EndBatch
  <2>2. CASE ~EndBatch(g)
    BY <1>2, <2>2 DEF Work, WorkerGet, WorkerEmpty, WorkerPoll, WorkerDrained, StartBatch,
       StartChunk, SendOk, SendRetried, SendDropped
  <2> QED  BY <2>1, <2>2
<1>6. OnceInv'
  BY <1>1, <1>4, OnceKept DEF OrderInv
<1>7. PresentInv'
  <2>1. \A h \in Gens : h # g => queue'[h] = queue[h]
    BY <1>2, <1>5
  <2>2. \A h \in Gens : h > pub.gen => h # g
    BY <1>1, <1>2
  <2> QED  BY <1>1, <1>5, <2>1, <2>2 DEF OrderInv, PresentInv
<1> SUFFICES PipelineInv'
  BY <1>6, <1>7 DEF OrderInv
<1>8. ASSUME delivered' = delivered, worker'[g].batch \in {b, <<>>}, worker'[g].chunk = u
      PROVE  PipelineInv'
  BY <1>1, <1>2, <1>4, <1>5, <1>8, PipelineKept DEF OrderInv
<1>9. CASE WorkerGet(g)
  <2> DEFINE x == Head(q)
  <2>1. /\ worker'[g] = Taken(worker[g], x) /\ queue'[g] = Tail(q) /\ q # <<>>
        /\ delivered' = delivered /\ x \in Items
    BY <1>2, <1>9, TakeType DEF WorkerGet
  <2>2. CASE x \in Keys
    <3>1. worker'[g].batch = Append(b, x) /\ worker'[g].chunk = u
      <4>1. PICK wk \in WorkerStates : wk = worker[g]
        BY <1>2
      <4>2. Taken(wk, x).batch = Append(wk.batch, x) /\ Taken(wk, x).chunk = wk.chunk
        BY <2>1, <2>2, TakenType
      <4> QED  BY <2>1, <4>1, <4>2
    <3>2. Pipeline(acc, Given(delivered), Append(b, x), u, Tail(q))
      <4>1. b \in Seq(Keys) /\ q \in Seq(Items) /\ q # <<>> /\ Head(q) \in Keys
        BY <1>2, <2>1, <2>2
      <4>2. Pipeline(acc, Given(delivered), b, u, q)
        BY <1>3
      <4> HIDE DEF acc, b, u, q
      <4> QED  BY <4>1, <4>2, PipelineTake
    <3> QED  BY <1>1, <1>3, <1>4, <2>1, <3>1, <3>2 DEF PipelineInv
  <2>3. CASE x \notin Keys
    BY <1>2, <1>8, <2>1, <2>3, TakenType
  <2> QED  BY <2>2, <2>3
<1>10. CASE WorkerEmpty(g) \/ WorkerPoll(g) \/ WorkerDrained(g) \/ StartBatch(g)
  <2>1. delivered' = delivered /\ \E pc : worker'[g] = [worker[g] EXCEPT !.pc = pc]
    BY <1>2, <1>10 DEF WorkerEmpty, WorkerPoll, WorkerDrained, StartBatch
  <2>2. worker'[g].batch = b /\ worker'[g].chunk = u
    BY <1>2, <2>1 DEF WorkerStates
  <2> QED  BY <1>8, <2>1, <2>2
<1>11. CASE EndBatch(g)
  <2>1. delivered' = delivered /\ worker'[g].batch = <<>> /\ worker'[g].chunk = u
    BY <1>2, <1>11 DEF EndBatch, WorkerStates
  <2> QED  BY <1>8, <2>1
<1>12. CASE StartChunk(g)
  <2> DEFINE n == Smaller(ChunkMax, Len(b))
  <2>1. n \in 1 .. Len(b)
    <3>1. Len(b) \in Nat /\ Len(b) # 0
      BY <1>2, <1>12, LenProperties, EmptySeq DEF StartChunk
    <3> QED  BY <3>1 DEF Smaller
  <2> HIDE DEF n
  <2>2. PICK c \in {SubSeq(b, 1, n), <<>>}, pc \in {"send", "chunk"} :
            /\ worker'[g] = [worker[g] EXCEPT !.batch = SubSeq(b, n + 1, Len(b)),
                                              !.chunk = c, !.pc = pc]
            /\ worker[g].pc = "chunk" /\ delivered' = delivered /\ queue' = queue
    BY <1>2, <1>12 DEF StartChunk, n
  <2>3. worker'[g].batch = SubSeq(b, n + 1, Len(b)) /\ worker'[g].chunk = c /\ u = <<>>
    BY <1>2, <2>2 DEF WorkerStates, WorkerInv
  <2>4. Pipeline(acc, Given(delivered), b, <<>>, q)
    BY <1>3, <2>3
  <2>5. /\ Pipeline(acc, Given(delivered), SubSeq(b, n + 1, Len(b)), c, q)
        /\ Deliverable(acc, delivered, c)
    <3>1. b \in Seq(Keys) /\ q \in Seq(Items) /\ acc \in Seq(Keys) /\ delivered \in Seq(Seq(Keys))
      BY <1>2
    <3>2. InOrderOf(acc, delivered) /\ IsInjective(acc)
      BY <1>3
    <3> HIDE DEF b, q, acc
    <3> QED  BY <2>1, <2>4, <3>1, <3>2, PipelineCut
  <2> QED  BY <1>1, <1>3, <1>4, <2>2, <2>3, <2>5 DEF PipelineInv
<1>13. CASE SendOk(g) \/ SendRetried(g) \/ SendDropped(g)
  <2>1. /\ worker' = worker \/ worker' = [worker EXCEPT ![g] = [@ EXCEPT !.chunk = <<>>, !.pc = "chunk"]]
        /\ queue' = queue /\ delivered' \in {delivered, Append(delivered, u)}
    BY <1>13 DEF SendOk, SendRetried, SendDropped, SendRaises, ChunkDone
  <2>2. worker'[g].batch = b /\ worker'[g].chunk \in {u, <<>>}
    BY <1>2, <2>1 DEF WorkerStates
  <2>3. CASE delivered' = Append(delivered, u)
    <3> PICK c \in {u, <<>>} : c = worker'[g].chunk
      BY <2>2
    <3> DEFINE d == Append(delivered, u)
    <3>1. /\ Pipeline(acc, Given(d), b, c, q) /\ InOrderOf(acc, d)
          /\ Deliverable(acc, d, c)
      BY <1>2, <1>3, PipelineSend
    <3> QED  BY <1>1, <1>4, <2>1, <2>2, <2>3, <3>1 DEF PipelineInv
  <2>4. CASE delivered' = delivered
    <3>1. Pipeline(acc, Given(delivered), b, worker'[g].chunk, q)
      BY <1>3, <2>2, PipelineEmpties
    <3>2. Deliverable(acc, delivered, worker'[g].chunk)
      BY <1>3, <2>2, NoneSorted DEF Deliverable, Follows
    <3> QED  BY <1>1, <1>3, <1>4, <2>1, <2>2, <2>4, <3>1, <3>2 DEF PipelineInv
  <2> QED  BY <2>1, <2>3, <2>4
<1> QED  BY <1>9, <1>10, <1>11, <1>12, <1>13 DEF Work

\* The lifecycle thread puts and takes sentinels and leftovers; a new connection is empty.
LEMMA LifeOrder ==
    ASSUME TypeInv, WorkerInv, OrderInv, Lifecycle
    PROVE  OrderInv'
<1>1. /\ history.accepted \in Seq(Keys) /\ delivered \in Seq(Seq(Keys))
      /\ pub \in Fields /\ pub.gen \in Gens /\ history \in Histories
      /\ worker \in [Gens -> WorkerStates] /\ queue \in [Gens -> Seq(Items)]
      /\ flush \in [Flushes -> FlushStates] /\ life.left \in SUBSET Keys
      /\ worker[pub.gen] \in WorkerStates /\ IsFiniteSet(life.left)
  BY OrderTypes DEF TypeInv, TypeOK
<1> USE DEF Lifecycle, Disconnecting, ConnectFails, Disconnect, PutMarker, MarkerTimesOut, Join,
            JoinTimesOut, DropNext, DropEnd, Disconnected, Collect
<1>2. call' = call /\ delivered' = delivered
  BY DEF Connect, Connected
<1>3. history'.accepted = history.accepted
  <2>1. history' = history \/ \E ks : history' = Drop(ks)
    BY DEF Connect, Connected
  <2> QED  BY <1>1, <2>1 DEF Drop, Histories
<1>4. flush' \in [Flushes -> FlushStates] /\ \A f \in Flushes : flush'[f].q = flush[f].q
  <2>1. CASE DropNext
    BY <1>1, <2>1, SignalledType
  <2>2. CASE ~DropNext
    BY <1>1, <2>2 DEF Connect, Connected
  <2> QED  BY <2>1, <2>2
<1>5. OnceInv'
  BY <1>2, <1>3, OnceKept DEF OrderInv
<1>6. CASE Connect
  <2> PICK h : h = pub.gen + 1
    OBVIOUS
  <2>1. /\ pub'.gen = h /\ h \in Gens /\ h > pub.gen /\ worker' = worker /\ queue' = queue
    BY <1>1, <1>6 DEF Connect, Fields
  <2>2. queue[h] = <<>>
    BY <2>1 DEF OrderInv, PresentInv
  <2>3. worker[h].batch = <<>> /\ worker[h].chunk = <<>>
    <3>1. ~Alive(h)
      BY <1>1, <2>1 DEF WorkerInv
    <3> QED  BY <2>1, <3>1 DEF WorkerInv, Alive
  <2>4. PresentInv'
    <3>1. /\ \A c \in Calls : call[c].q <= h
          /\ \A f \in Flushes : flush[f].q <= h
          /\ \A g \in Gens : g > h => queue[g] = <<>>
      <4>1. /\ \A c \in Calls : call[c].q \in Nat
            /\ \A f \in Flushes : flush[f].q \in Nat
        BY DEF TypeInv, TypeOK, CallStates, FlushStates
      <4>2. \A n \in Nat : n <= pub.gen => n <= h
        BY <1>1, <2>1
      <4>3. \A g \in Gens : g > h => g > pub.gen
        BY <1>1, <2>1
      <4> QED  BY <4>1, <4>2, <4>3 DEF OrderInv, PresentInv
    <3> QED  BY <1>2, <1>4, <2>1, <3>1 DEF PresentInv
  <2>5. PipelineInv'
    <3>1. Pipeline(history.accepted, Given(delivered), <<>>, <<>>, <<>>)
      BY PipelineEmpties DEF OrderInv, PipelineInv
    <3>2. Deliverable(history.accepted, delivered, <<>>)
      BY NoneSorted DEF Deliverable, Follows
    <3> QED  BY <1>2, <1>3, <2>1, <2>2, <2>3, <3>1, <3>2 DEF OrderInv, PipelineInv
  <2> QED  BY <1>5, <2>4, <2>5 DEF OrderInv
<1>7. CASE ~Connect
  <2>1. pub'.gen = pub.gen
    <3>1. CASE DropEnd
      BY <1>1, <3>1, RecordDropType
    <3>2. CASE ~DropEnd
      BY <1>1, <1>7, <3>2 DEF Connected, Fields
    <3> QED  BY <3>1, <3>2
  <2>2. /\ worker'[pub.gen].batch = worker[pub.gen].batch
        /\ worker'[pub.gen].chunk = worker[pub.gen].chunk
    <3>1. worker' = worker \/ worker' = [worker EXCEPT ![pub.gen].pc = "get"]
      BY <1>7 DEF Connected
    <3>2. PICK wk \in WorkerStates : wk = worker[pub.gen]
      BY <1>1
    <3>3. \/ worker'[pub.gen] = wk
          \/ worker'[pub.gen] = [wk EXCEPT !.pc = "get"]
      BY <1>1, <3>1, <3>2
    <3>4. LET w == [wk EXCEPT !.pc = "get"]
          IN  w.batch = wk.batch /\ w.chunk = wk.chunk
      BY DEF WorkerStates
    <3> QED  BY <3>2, <3>3, <3>4
  <2>3. /\ \A g \in Gens : g # pub.gen => queue'[g] = queue[g]
        /\ \/ queue'[pub.gen] = queue[pub.gen]
           \/ queue[pub.gen] # <<>> /\ queue'[pub.gen] = Tail(queue[pub.gen])
           \/ queue'[pub.gen] = Append(queue[pub.gen], StopMarker)
    <3>1. \/ queue' = queue
          \/ queue[pub.gen] # <<>> /\ queue' = [queue EXCEPT ![pub.gen] = Tail(@)]
          \/ queue' = [queue EXCEPT ![pub.gen] = Append(@, StopMarker)]
      BY <1>7 DEF Connected
    <3> QED  BY <1>1, <3>1
  <2>4. PresentInv'
    <3>1. \A g \in Gens : g > pub.gen => g # pub.gen
      BY <1>1
    <3> QED  BY <1>2, <1>4, <2>1, <2>3, <3>1 DEF OrderInv, PresentInv
  <2>5. PipelineInv'
    <3>1. StopMarker \in Items \ Keys
      BY KeyKinds DEF Items
    <3> QED  BY <1>2, <1>3, <2>1, <2>2, <2>3, <3>1, PipelineKept DEF OrderInv
  <2> QED  BY <1>5, <2>4, <2>5 DEF OrderInv
<1> QED  BY <1>6, <1>7

LEMMA InitOrder == Init => OrderInv
<1> SUFFICES ASSUME Init PROVE OrderInv
  OBVIOUS
<1>1. /\ history.accepted = <<>> /\ delivered = <<>> /\ Range(<<>>) = {} /\ pub.gen = 0
      /\ worker[0].batch = <<>> /\ worker[0].chunk = <<>> /\ queue[0] = <<>>
  BY DEF Init, Range
<1>2. /\ \A c \in Calls : call[c].q = 0
      /\ \A f \in Flushes : flush[f].q = 0
      /\ \A g \in Gens : queue[g] = <<>>
  BY DEF Init
<1>3. OnceInv
  BY <1>1 DEF OnceInv, IsInjective
<1>4. PresentInv
  BY <1>1, <1>2 DEF PresentInv
<1>5. Given(<<>>) = {}
  BY <1>1 DEF Given
<1>6. PipelineInv
  <2>1. Pipeline(<<>>, {}, <<>>, <<>>, <<>>)
    BY <1>1, NoneSorted DEF Pipeline, Below
  <2>2. InOrderOf(<<>>, <<>>) /\ Deliverable(<<>>, <<>>, <<>>)
    BY DEF InOrderOf, Deliverable
  <2> QED  BY <1>1, <1>5, <2>1, <2>2 DEF PipelineInv
<1> QED  BY <1>3, <1>4, <1>6 DEF OrderInv

LEMMA NextOrder == TypeInv /\ WorkerInv /\ OrderInv /\ [Next]_vars => OrderInv'
<1> SUFFICES ASSUME TypeInv, WorkerInv, OrderInv, [Next]_vars PROVE OrderInv'
  OBVIOUS
<1>1. CASE UNCHANGED vars
  BY <1>1 DEF vars, OrderInv, OnceInv, PresentInv, PipelineInv
<1> QED  BY <1>1, NotifyOrder, FlushOrder, WorkOrder, LifeOrder DEF Next

\* Keys reach the transport in the order in which they were queued, whatever is retried,
\* dropped, disconnected or reconnected; a chunk whose reply was lost may come again.
THEOREM InOrderCorrect == Spec => []InOrder
<1>1. Init => WorkerInv
  BY DEF Init, WorkerInv, Alive
<1>2. ASSUME TypeInv, OrderInv  PROVE InOrder
  <2> DEFINE acc == history.accepted
  <2>1. /\ acc \in Seq(Keys) /\ delivered \in Seq(Seq(Keys)) /\ IsInjective(acc)
        /\ InOrderOf(acc, delivered) /\ Given(delivered) \subseteq Range(acc)
    BY <1>2, OrderTypes DEF OrderInv, OnceInv, PipelineInv, Pipeline
  <2>2. ASSUME NEW i \in DOMAIN delivered, NEW a \in DOMAIN delivered[i],
               NEW b \in DOMAIN delivered[i], a < b
        PROVE  ~Precedes(acc, delivered[i][b], delivered[i][a])
    <3>1. delivered[i] \in Seq(Keys) /\ delivered[i] \in Range(delivered)
      BY <2>1, LenProperties, ElementOfSeq DEF Range
    <3>2. Range(delivered[i]) \subseteq Keys /\ Range(delivered[i]) \subseteq Range(acc)
      BY <2>1, <3>1, RangeFinite DEF Given
    <3>3. delivered[i][a] \in Range(delivered[i]) /\ delivered[i][b] \in Range(delivered[i])
      BY DEF Range
    <3>4. Precedes(acc, delivered[i][a], delivered[i][b])
      BY <2>1, <2>2, <3>2, <3>3 DEF InOrderOf, Sorted
    <3> QED  BY <2>1, <3>2, <3>3, <3>4, PrecedesStrict
  <2> QED  BY <2>1, <2>2 DEF InOrder, InOrderOf, Follows, Precedes
<1> QED
  BY <1>1, <1>2, InitType, NextType, WorkerInvNext, InitOrder, NextOrder, PTL DEF Spec

(***************************************************************************)
(* The barrier. A key queued before a flush is gone when it was delivered  *)
(* or counted; until then it is in hand, or ahead of the flush in the      *)
(* queue.                                                                  *)
(***************************************************************************)

Gone == Received \cup history.dropped
Hand == Gone \cup life.left \cup Range(worker[pub.gen].batch) \cup Range(worker[pub.gen].chunk)

\* The keys K are in hand, or before place i of queue q.
Ahead(hand, K, q, i) == \A k \in K : k \in hand \/ \E j \in 1 .. i - 1 : q[j] = k

Behind(f, K, hand, item, q) ==
    /\ item = f => K \subseteq hand
    /\ \A i \in DOMAIN q : q[i] = f => Ahead(hand, K, q, i)

\* A flush that is not queued yet is nowhere.
FreshInv ==
    \A f \in Flushes : flush[f].pc \in {"start", "put"} =>
        /\ flush[f].set = "no"
        /\ \A g \in Gens : f \notin Range(queue[g]) /\ worker[g].item # f

StaysBehind(f) ==
    Behind(f, history.before[f], Hand, worker[pub.gen].item, queue[pub.gen])
WaitInv ==
    \A f \in Flushes : flush[f].pc = "wait" => StaysBehind(f)

GoneInv == \A f \in Flushes : flush[f].set = "worker" => history.before[f] \subseteq Gone

LeftInv == life.pc # "clearing" => life.left = {}

BarrierInv ==
    /\ pub.owned => LeftInv /\ FreshInv /\ GoneInv /\ WaitInv
    /\ ~pub.owned => \A f \in Flushes : ~FlushOpen(f)

Guarded == LeftInv /\ FreshInv /\ GoneInv /\ WaitInv

\* What a flush stands behind stays ahead of it as keys are taken from the queue and
\* dealt with, and as others are queued behind it.
LEMMA BehindKept ==
    ASSUME NEW f \in Flushes, NEW K \in SUBSET Keys, NEW hand, NEW hand2, NEW item, NEW item2,
           NEW q \in Seq(Items), NEW q2, Behind(f, K, hand, item, q),
           hand \cap Keys \subseteq hand2,
           item2 = f => item = f \/ (q # <<>> /\ Head(q) = f),
           \/ q2 = q
           \/ q # <<>> /\ q2 = Tail(q) /\ (Head(q) \in Keys => Head(q) \in hand2)
           \/ \E x \in Items : x # f /\ q2 = Append(q, x)
    PROVE  Behind(f, K, hand2, item2, q2)
<1>1. K \subseteq Keys
  OBVIOUS
<1>2. /\ item = f => K \subseteq hand
      /\ \A i \in DOMAIN q : q[i] = f => Ahead(hand, K, q, i)
  BY DEF Behind
<1>3. DOMAIN q = 1 .. Len(q) /\ Len(q) \in Nat
  BY LenProperties
<1>4. item2 = f => K \subseteq hand2
  <2>1. q # <<>> /\ Head(q) = f => K \subseteq hand
    <3> SUFFICES ASSUME q # <<>>, Head(q) = f PROVE K \subseteq hand
      OBVIOUS
    <3>1. Head(q) = q[1]
      OBVIOUS
    <3>2. 1 \in DOMAIN q
      BY <1>3, EmptySeq
    <3>3. Ahead(hand, K, q, 1)
      BY <1>2, <3>1, <3>2
    <3>4. \A j \in 1 .. 1 - 1 : FALSE
      OBVIOUS
    <3> QED  BY <3>3, <3>4 DEF Ahead
  <2> QED  BY <1>1, <1>2, <2>1
<1>5. ASSUME NEW i \in DOMAIN q2, q2[i] = f  PROVE Ahead(hand2, K, q2, i)
  <2>1. CASE q2 = q
    <3>1. Ahead(hand, K, q, i)
      BY <1>2, <1>5, <2>1
    <3> QED  BY <1>1, <2>1, <3>1 DEF Ahead
  <2>2. CASE q # <<>> /\ q2 = Tail(q) /\ (Head(q) \in Keys => Head(q) \in hand2)
    <3>1. /\ q2 \in Seq(Items) /\ Len(q2) = Len(q) - 1 /\ Head(q) = q[1]
          /\ \A j \in 1 .. Len(q2) : q2[j] = q[j + 1]
      BY <2>2, HeadTailProperties
    <3>2. DOMAIN q2 = 1 .. Len(q2)
      BY <3>1, LenProperties
    <3>3. i \in 1 .. Len(q2)
      BY <1>5, <3>2
    <3>4. i + 1 \in DOMAIN q /\ q[i + 1] = f /\ i \in 1 .. Len(q2)
      <4>1. i + 1 \in 1 .. Len(q)
        BY <1>3, <3>1, <3>3
      <4>2. q2[i] = q[i + 1]
        BY <3>1, <3>3
      <4> QED  BY <1>3, <1>5, <3>3, <4>1, <4>2
    <3>5. Ahead(hand, K, q, i + 1)
      BY <1>2, <3>4
    <3>6. ASSUME NEW k \in K, NEW j \in 1 .. i + 1 - 1, q[j] = k, k \notin hand2
          PROVE  \E h \in 1 .. i - 1 : q2[h] = k
      <4>1. j # 1
        BY <1>1, <2>2, <3>1, <3>6
      <4>2. j - 1 \in 1 .. i - 1 /\ j - 1 \in 1 .. Len(q2) /\ j - 1 + 1 = j
        BY <1>3, <3>1, <3>4, <4>1
      <4> QED  BY <3>1, <3>6, <4>2
    <3> QED  BY <1>1, <3>5, <3>6 DEF Ahead
  <2>3. CASE \E x \in Items : x # f /\ q2 = Append(q, x)
    <3>1. PICK x \in Items : x # f /\ q2 = Append(q, x)
      BY <2>3
    <3>2. /\ q2 \in Seq(Items) /\ Len(q2) = Len(q) + 1
          /\ \A j \in 1 .. Len(q) : q2[j] = q[j]
          /\ q2[Len(q) + 1] = x
      BY <3>1, AppendProperties
    <3>3. DOMAIN q2 = 1 .. Len(q) + 1
      BY <3>2, LenProperties
    <3>4. i \in 1 .. Len(q)
      <4>1. i \in 1 .. Len(q) + 1
        BY <1>5, <3>3
      <4>2. i # Len(q) + 1
        BY <1>5, <3>1, <3>2
      <4> QED  BY <1>3, <4>1, <4>2
    <3>5. q[i] = f /\ \A j \in 1 .. i - 1 : q2[j] = q[j]
      <4>1. \A j \in 1 .. i - 1 : j \in 1 .. Len(q)
        BY <1>3, <3>4
      <4> QED  BY <1>5, <3>2, <3>4, <4>1
    <3>6. Ahead(hand, K, q, i)
      BY <1>2, <1>3, <3>4, <3>5
    <3> QED  BY <1>1, <3>5, <3>6 DEF Ahead
  <2> QED  BY <2>1, <2>2, <2>3
<1> QED  BY <1>4, <1>5 DEF Behind

\* What the steps below need of the type invariant.
LEMMA BarrierTypes ==
    ASSUME TypeInv
    PROVE  /\ history \in Histories /\ history.accepted \in Seq(Keys)
           /\ queue \in [Gens -> Seq(Items)] /\ worker \in [Gens -> WorkerStates]
           /\ flush \in [Flushes -> FlushStates] /\ life \in [pc : LifePCs, left : SUBSET Keys]
           /\ pub \in Fields /\ pub.gen \in Gens /\ delivered \in Seq(Seq(Keys))
           /\ worker[pub.gen] \in WorkerStates /\ queue[pub.gen] \in Seq(Items)
           /\ worker[pub.gen].batch \in Seq(Keys) /\ worker[pub.gen].chunk \in Seq(Keys)
           /\ \A f \in Flushes : history.before[f] \in SUBSET Keys /\ flush[f] \in FlushStates
BY DEF TypeInv, TypeOK, Histories, Fields, WorkerStates

\* A waiting flush stays behind its keys in a step on the same connection.
LEMMA WaitKept ==
    ASSUME TypeInv, WaitInv, NEW f \in Flushes, flush[f].pc = "wait", pub'.gen = pub.gen,
           history'.before[f] = history.before[f], Hand \cap Keys \subseteq Hand',
           LET q  == queue[pub.gen]
               q2 == queue'[pub.gen]
           IN  /\ worker'[pub.gen].item = f =>
                     worker[pub.gen].item = f \/ (q # <<>> /\ Head(q) = f)
               /\ \/ q2 = q
                  \/ q # <<>> /\ q2 = Tail(q) /\ (Head(q) \in Keys => Head(q) \in Hand')
                  \/ \E x \in Items : x # f /\ q2 = Append(q, x)
    PROVE  StaysBehind(f)'
<1> DEFINE K == history.before[f]
           item  == worker[pub.gen].item
           item2 == worker'[pub.gen].item
           q  == queue[pub.gen]
           q2 == queue'[pub.gen]
           H  == Hand
           H2 == Hand'
<1>1. /\ K \in SUBSET Keys /\ Behind(f, K, H, item, q) /\ H \cap Keys \subseteq H2
      /\ q \in Seq(Items)
      /\ item2 = f => item = f \/ (q # <<>> /\ Head(q) = f)
      /\ \/ q2 = q
         \/ q # <<>> /\ q2 = Tail(q) /\ (Head(q) \in Keys => Head(q) \in H2)
         \/ \E x \in Items : x # f /\ q2 = Append(q, x)
  BY BarrierTypes DEF WaitInv, StaysBehind
<1> HIDE DEF K, item, item2, q, q2, H, H2
<1>2. Behind(f, K, H2, item2, q2)
  BY <1>1, BehindKept
<1> QED  BY <1>2 DEF K, item2, q2, H2, StaysBehind

\* Notifies queue keys, which are no flushes, and count drops.
LEMMA NotifyBarrier ==
    ASSUME Before, Guarded, NEW c \in Calls, Notify(c)
    PROVE  Guarded'
<1>1. UNCHANGED <<worker, life, stop, flush, delivered>> /\ pub'.gen = pub.gen
  BY NotifyFrame DEF Before
<1>2. TypeInv
  BY DEF Before
<1>3. /\ queue \in [Gens -> Seq(Items)] /\ pub.gen \in Gens /\ history \in Histories
      /\ queue[pub.gen] \in Seq(Items)
  BY <1>2, BarrierTypes
<1>4. history'.before = history.before /\ history.dropped \subseteq history'.dropped
  <2>1. \/ history' = history \/ \E ks : history' = Drop(ks)
        \/ \E s : history' = [history EXCEPT !.accepted = s]
    BY DEF Notify, NotifyConnected, NotifyUnconnected, NotifyEnsure, NotifyRead, Put, PutFull,
       PutTimesOut, DropRest
  <2> QED  BY <1>3, <2>1 DEF Drop, Histories
<1>5. queue' = queue \/ \E k \in Keys : queue' = [queue EXCEPT ![pub.gen] = Append(@, k)]
  BY NotifyQueue
<1>6. Keys \cap Flushes = {} /\ Keys \subseteq Items
  BY KeyKinds DEF Items
<1>7. Gone \subseteq Gone' /\ Hand \subseteq Hand'
  BY <1>1, <1>4 DEF Gone, Hand, Received
<1>8. FreshInv'
  <2>1. ASSUME NEW f \in Flushes, NEW g \in Gens, f \notin Range(queue[g])
        PROVE  f \notin Range(queue'[g])
    <3>1. CASE queue' = queue  BY <2>1, <3>1
    <3>2. CASE \E k \in Keys : queue' = [queue EXCEPT ![pub.gen] = Append(@, k)]
      <4>1. PICK k \in Keys : queue' = [queue EXCEPT ![pub.gen] = Append(@, k)]
        BY <3>2
      <4>2. Range(Append(queue[pub.gen], k)) = Range(queue[pub.gen]) \cup {k}
        BY <1>3, <1>6, RangeAppend
      <4> QED  BY <1>3, <1>6, <2>1, <4>1, <4>2
    <3> QED  BY <1>5, <3>1, <3>2
  <2> QED  BY <1>1, <2>1 DEF Guarded, FreshInv
<1>9. WaitInv'
  <2> SUFFICES ASSUME NEW f \in Flushes, flush[f].pc = "wait"
               PROVE  StaysBehind(f)'
    BY <1>1 DEF WaitInv
  <2>1. \/ queue'[pub.gen] = queue[pub.gen]
        \/ \E x \in Items : x # f /\ queue'[pub.gen] = Append(queue[pub.gen], x)
    BY <1>3, <1>5, <1>6
  <2>2. WaitInv /\ Hand \cap Keys \subseteq Hand'
    BY <1>7 DEF Guarded
  <2> QED  BY <1>1, <1>2, <1>4, <2>1, <2>2, WaitKept
<1>10. GoneInv' /\ LeftInv'
  BY <1>1, <1>4, <1>7 DEF Guarded, GoneInv, LeftInv
<1> QED  BY <1>8, <1>9, <1>10 DEF Guarded

\* A flush that is put in the queue stands behind every key that is not gone yet.
LEMMA FlushBarrier ==
    ASSUME Before, Guarded, NEW f \in Flushes, Flush(f)
    PROVE  Guarded'
<1>1. UNCHANGED <<worker, life, stop, call, delivered>> /\ pub'.gen = pub.gen
  BY FlushFrame DEF Before
<1>2. /\ TypeInv /\ history \in Histories /\ queue \in [Gens -> Seq(Items)] /\ pub.gen \in Gens
      /\ flush \in [Flushes -> FlushStates] /\ queue[pub.gen] \in Seq(Items)
      /\ worker \in [Gens -> WorkerStates] /\ flush[f].q \in Gens
      /\ history.accepted \in Seq(Keys)
  <2>1. TypeInv
    BY DEF Before
  <2> QED  BY <2>1, BarrierTypes DEF FlushStates
<1>3. history'.dropped = history.dropped
  BY <1>2 DEF Flush, FlushStart, FlushPut, FlushWake, FlushTimesOut, FlushRaise, Histories
<1>4. Gone' = Gone /\ Hand' = Hand
  BY <1>1, <1>3 DEF Gone, Hand, Received
<1>5. \A e \in Flushes : e # f => flush'[e] = flush[e] /\ history'.before[e] = history.before[e]
  <2>1. \A e \in Flushes : e # f => flush'[e] = flush[e]
    BY <1>2 DEF Flush, FlushStart, FlushPut, FlushWake, FlushTimesOut, FlushRaise
  <2>2. \/ history' = history
        \/ \E s : history' = [history EXCEPT !.before[f] = s]
        \/ \E r : history' = [history EXCEPT !.before[f] = {}, !.raised = r]
    BY DEF Flush, FlushStart, FlushPut, FlushWake, FlushTimesOut, FlushRaise
  <2>3. \A e \in Flushes : e # f => history'.before[e] = history.before[e]
    BY <1>2, <2>2 DEF Histories
  <2> QED  BY <2>1, <2>3
<1>6. queue' = queue \/ (FlushPut(f) /\ queue' = [queue EXCEPT ![flush[f].q] = Append(@, f)])
  BY DEF Flush, FlushStart, FlushPut, FlushWake, FlushTimesOut, FlushRaise
<1>7. f \in Items /\ f \notin Keys
  BY KeyKinds DEF Items
<1>8. LeftInv'
  BY <1>1 DEF Guarded, LeftInv
<1>9. /\ ~FlushPut(f) => flush'[f].pc \in {flush[f].pc, "put", "raise", "done"}
      /\ flush'[f].pc \in {"start", "put"} => FlushStart(f)
      /\ FlushPut(f) => /\ flush[f].pc = "put" /\ flush'[f].pc = "wait"
                        /\ flush'[f].set = flush[f].set
                        /\ history'.before[f] = Range(history.accepted)
      /\ ~FlushPut(f) /\ ~FlushRaise(f) =>
            flush'[f].set = flush[f].set /\ history'.before[f] = history.before[f]
      /\ FlushStart(f) => flush[f].pc = "start"
      /\ FlushRaise(f) => flush'[f].set = "no" /\ flush'[f].pc = "done"
      /\ flush'[f].pc = "wait" => FlushPut(f)
  <2>1. CASE FlushStart(f)
    <3>1. PICK pc \in {"put", "raise"} : flush' = [flush EXCEPT ![f] = [@ EXCEPT !.pc = pc, !.q = pub.gen]]
      BY <2>1 DEF FlushStart
    <3>2. flush'[f].pc = pc /\ flush'[f].set = flush[f].set
      BY <1>2, <3>1 DEF FlushStates
    <3>3. history' = history
      BY <2>1 DEF FlushStart
    <3> QED  BY <2>1, <3>2, <3>3 DEF FlushStart, FlushPut, FlushRaise
  <2>2. CASE FlushPut(f)
    BY <1>2, <2>2 DEF FlushPut, FlushStart, FlushRaise, FlushStates, Histories
  <2>3. CASE FlushWake(f) \/ FlushTimesOut(f)
    <3>1. flush' = [flush EXCEPT ![f].pc = "raise"] /\ history' = history
      BY <2>3 DEF FlushWake, FlushTimesOut
    <3>2. flush'[f].pc = "raise" /\ flush'[f].set = flush[f].set
      BY <1>2, <3>1 DEF FlushStates
    <3>3. ~FlushPut(f)
      BY <3>2, <1>2 DEF FlushPut, FlushStates
    <3> QED  BY <2>3, <3>1, <3>2, <3>3 DEF FlushWake, FlushTimesOut, FlushStart, FlushRaise
  <2>4. CASE FlushRaise(f)
    BY <1>2, <2>4 DEF FlushRaise, FlushPut, FlushStart, FlushStates
  <2> QED  BY <2>1, <2>2, <2>3, <2>4 DEF Flush
<1>10. FreshInv
  BY DEF Guarded
<1>11. GoneInv'
  <2>1. ASSUME NEW e \in Flushes, flush'[e].set = "worker"
        PROVE  history'.before[e] = history.before[e] /\ flush[e].set = "worker"
    <3>1. ~(e = f /\ FlushPut(f)) /\ ~(e = f /\ FlushRaise(f))
      BY <1>9, <1>10, <2>1 DEF FreshInv
    <3> QED  BY <1>5, <1>9, <2>1, <3>1
  <2> QED  BY <1>4, <2>1 DEF Guarded, GoneInv
<1>12. FreshInv'
  <2> SUFFICES ASSUME NEW e \in Flushes, flush'[e].pc \in {"start", "put"}
               PROVE  /\ flush'[e].set = "no"
                      /\ \A g \in Gens : e \notin Range(queue'[g]) /\ worker[g].item # e
    BY <1>1 DEF FreshInv
  <2>1. flush[e].pc \in {"start", "put"} /\ flush'[e].set = flush[e].set
    BY <1>5, <1>9 DEF FlushPut, FlushRaise, FlushStart
  <2>2. CASE queue' = queue
    BY <1>10, <2>1, <2>2 DEF FreshInv
  <2>3. CASE FlushPut(f) /\ queue' = [queue EXCEPT ![flush[f].q] = Append(@, f)]
    <3>1. e # f
      BY <1>9, <2>3
    <3>2. Range(Append(queue[flush[f].q], f)) = Range(queue[flush[f].q]) \cup {f}
      BY <1>2, <1>7, RangeAppend
    <3> QED  BY <1>2, <1>10, <2>1, <2>3, <3>1, <3>2 DEF FreshInv
  <2> QED  BY <1>6, <2>2, <2>3
<1>13. WaitInv'
  <2> SUFFICES ASSUME NEW e \in Flushes, flush'[e].pc = "wait"
               PROVE  StaysBehind(e)'
    BY DEF WaitInv
  <2>1. CASE e # f
    <3>1. /\ flush[e].pc = "wait" /\ history'.before[e] = history.before[e]
          /\ \/ queue'[pub.gen] = queue[pub.gen]
             \/ \E x \in Items : x # e /\ queue'[pub.gen] = Append(queue[pub.gen], x)
      <4>1. flush[e].pc = "wait" /\ history'.before[e] = history.before[e]
        BY <1>5, <2>1
      <4>2. queue'[pub.gen] = queue[pub.gen] \/ queue'[pub.gen] = Append(queue[pub.gen], f)
        BY <1>2, <1>6
      <4> QED  BY <1>7, <2>1, <4>1, <4>2
    <3>2. WaitInv /\ Hand \cap Keys \subseteq Hand'
      BY <1>4 DEF Guarded
    <3> QED  BY <1>1, <1>2, <3>1, <3>2, WaitKept
  <2>2. CASE e = f
    <3> PICK q, q2 : q = queue[pub.gen] /\ q2 = queue'[pub.gen]
      OBVIOUS
    <3>1. /\ FlushPut(f) /\ history'.before[f] = Range(history.accepted)
          /\ q2 = IF flush[f].q = pub.gen THEN Append(q, f) ELSE q
      BY <1>2, <1>9, <2>2 DEF FlushPut
    <3>2. f \notin Range(q) /\ worker[pub.gen].item # f
      BY <1>2, <1>9, <1>10, <3>1 DEF FreshInv
    <3>3. q \in Seq(Items) /\ DOMAIN q = 1 .. Len(q) /\ Len(q) \in Nat
      BY <1>2, LenProperties
    <3>4. \A j \in DOMAIN q : q[j] # f
      BY <3>2 DEF Range
    <3>5. ASSUME NEW i \in DOMAIN q2, q2[i] = f
          PROVE  Ahead(Hand, Range(history.accepted), q2, i)
      <4>1. q2 = Append(q, f)
        BY <3>1, <3>4, <3>5
      <4>2. /\ q2 \in Seq(Items) /\ Len(q2) = Len(q) + 1
            /\ \A j \in 1 .. Len(q) : q2[j] = q[j]
        BY <1>7, <3>3, <4>1, AppendProperties
      <4>3. DOMAIN q2 = 1 .. Len(q) + 1
        BY <4>2, LenProperties
      <4>4. i = Len(q) + 1
        BY <3>3, <3>4, <3>5, <4>2, <4>3
      <4>5. ASSUME NEW k \in Range(history.accepted), k \notin Hand
            PROVE  \E j \in 1 .. i - 1 : q2[j] = k
        <5>1. Somewhere(k) /\ k \in Keys
          BY <1>2, RangeFinite DEF Before, KeysInv
        <5>2. PICK g \in Gens :
                  k \in Range(queue[g]) \cup Range(worker[g].batch) \cup Range(worker[g].chunk)
          BY <4>5, <5>1 DEF Somewhere, Hand, Gone
        <5>3. CASE k \in Range(queue[g])
          <6>1. g \in InQueue
            BY <5>1, <5>3 DEF Before, QueueInv
          <6>2. g = pub.gen
            BY <6>1 DEF InQueue, Before, WorkerInv
          <6>3. PICK j \in DOMAIN q : q[j] = k
            BY <5>3, <6>2 DEF Range
          <6>4. j \in 1 .. i - 1 /\ q2[j] = k
            BY <3>3, <4>2, <4>4, <6>3
          <6> QED  BY <6>4
        <5>4. CASE k \in Range(worker[g].batch) \cup Range(worker[g].chunk)
          <6>1. Alive(g)
            BY <5>4, NoneSorted DEF Before, WorkerInv, Alive
          <6>2. g = pub.gen
            BY <6>1 DEF Before, WorkerInv
          <6> QED  BY <4>5, <5>4, <6>2 DEF Hand
        <5> QED  BY <5>2, <5>3, <5>4
      <4> QED  BY <4>5 DEF Ahead
    <3>6. Behind(f, Range(history.accepted), Hand, worker[pub.gen].item, q2)
      BY <3>2, <3>5 DEF Behind
    <3> QED  BY <1>1, <1>4, <2>2, <3>1, <3>6 DEF StaysBehind
  <2> QED  BY <2>1, <2>2
<1> QED  BY <1>8, <1>11, <1>12, <1>13 DEF Guarded

\* A worker's step loses no key it has in hand; a key it takes from the queue it has.
LEMMA WorkHand ==
    ASSUME Before, NEW g \in Gens, Work(g)
    PROVE  /\ Hand \cap Keys \subseteq Hand'
           /\ \/ queue'[g] = queue[g] /\ worker'[g].item \in {worker[g].item, NoItem}
              \/ LET x == Head(queue[g]) IN
                 /\ queue[g] # <<>> /\ queue'[g] = Tail(queue[g])
                 /\ worker'[g].item \in {worker[g].item, x}
                 /\ x \in Keys => x \in Hand'
<1>1. UNCHANGED <<life, stop, call>> /\ pub'.gen = pub.gen /\ g = pub.gen /\ pub.owned
  BY WorkFrame, WorkQueue DEF Before
<1>2. /\ TypeInv /\ Holds(worker[g])
      /\ Range(worker[g].chunk) \cap Unroutable \subseteq history.dropped
  BY DEF Before, WorkerInv, KeysInv, Holds
<1>3. /\ worker \in [Gens -> WorkerStates] /\ worker[g] \in WorkerStates
      /\ queue \in [Gens -> Seq(Items)] /\ queue[g] \in Seq(Items)
      /\ history \in Histories /\ delivered \in Seq(Seq(Keys))
      /\ worker[g].batch \in Seq(Keys) /\ worker[g].chunk \in Seq(Keys)
  BY <1>1, <1>2, BarrierTypes
<1>4. Gone \subseteq Gone'
  BY WorkQueue DEF Gone
<1>5. ASSUME \A k \in Range(worker[g].batch) \cup Range(worker[g].chunk) :
                 k \in Range(worker'[g].batch) \cup Range(worker'[g].chunk) \cup Gone'
      PROVE  Hand \cap Keys \subseteq Hand'
  BY <1>1, <1>4, <1>5 DEF Hand
<1>6. CASE WorkerGet(g)
  <2> PICK x : x = Head(queue[g])
    OBVIOUS
  <2>1. /\ worker'[g] = Taken(worker[g], x) /\ queue'[g] = Tail(queue[g]) /\ queue[g] # <<>>
    BY <1>3, <1>6 DEF WorkerGet
  <2>2. x \in Items
    BY <1>3, <2>1, RangeTail
  <2>3. /\ worker'[g].chunk = worker[g].chunk
        /\ x \in Keys => /\ worker'[g].batch = Append(worker[g].batch, x)
                         /\ worker'[g].item = worker[g].item
        /\ x \notin Keys => worker'[g].batch = worker[g].batch /\ worker'[g].item = x
    <3>1. PICK wk \in WorkerStates : wk = worker[g]
      BY <1>3
    <3>2. /\ Taken(wk, x).chunk = wk.chunk
          /\ Taken(wk, x).batch = IF x \in Keys THEN Append(wk.batch, x) ELSE wk.batch
          /\ Taken(wk, x).item  = IF x \in Keys THEN wk.item ELSE x
      BY <2>2, TakenType
    <3> QED  BY <2>1, <3>1, <3>2
  <2>4. x \in Keys => Range(worker'[g].batch) = Range(worker[g].batch) \cup {x}
    <3>1. x \in Keys => Range(Append(worker[g].batch, x)) = Range(worker[g].batch) \cup {x}
      BY <1>3, RangeAppend
    <3> QED  BY <2>3, <3>1
  <2>5. x \in Keys => x \in Hand'
    BY <1>1, <2>4 DEF Hand
  <2>6. Hand \cap Keys \subseteq Hand'
    BY <1>5, <2>3, <2>4
  <2> QED  BY <2>1, <2>3, <2>5, <2>6
<1>7. CASE WorkerEmpty(g) \/ WorkerPoll(g) \/ WorkerDrained(g) \/ StartBatch(g)
  <2>1. PICK pc : worker'[g] = [worker[g] EXCEPT !.pc = pc] /\ queue' = queue
    BY <1>3, <1>7 DEF WorkerEmpty, WorkerPoll, WorkerDrained, StartBatch
  <2>2. /\ worker'[g].item = worker[g].item
        /\ worker'[g].batch = worker[g].batch /\ worker'[g].chunk = worker[g].chunk
    BY <1>3, <2>1 DEF WorkerStates
  <2> QED  BY <1>5, <2>1, <2>2
<1>8. CASE EndBatch(g)
  <2>1. PICK pc : /\ queue' = queue /\ worker[g].batch = <<>>
                  /\ worker'[g] = [worker[g] EXCEPT !.batch = <<>>, !.item = NoItem, !.pc = pc]
    BY <1>1, <1>3, <1>8 DEF EndBatch
  <2>2. /\ worker'[g].item = NoItem
        /\ worker'[g].batch = worker[g].batch /\ worker'[g].chunk = worker[g].chunk
    BY <1>3, <2>1 DEF WorkerStates
  <2> QED  BY <1>5, <2>1, <2>2
<1>9. CASE StartChunk(g)
  <2> DEFINE b == worker[g].batch
             n == Smaller(ChunkMax, Len(b))
  <2>1. n \in 1 .. Len(b)
    <3>1. Len(b) \in Nat /\ Len(b) # 0
      BY <1>3, <1>9, LenProperties, EmptySeq DEF StartChunk
    <3> QED  BY <3>1 DEF Smaller
  <2> PICK s, r : s = SubSeq(b, 1, n) /\ r = SubSeq(b, n + 1, Len(b))
    OBVIOUS
  <2>2. Range(b) = Range(s) \cup Range(r)
    BY <1>3, <2>1, RangeCut
  <2> HIDE DEF n
  <2>3. PICK kept \in {s, <<>>}, pc \in {"send", "chunk"}, lost \in SUBSET Range(s) :
            /\ worker'[g] = [worker[g] EXCEPT !.batch = r, !.chunk = kept, !.pc = pc]
            /\ history' = Drop(lost) /\ queue' = queue
            /\ kept = s \/ lost = Range(s)
            /\ worker[g].pc = "chunk"
    BY <1>3, <1>9 DEF StartChunk, n
  <2>4. /\ worker'[g].item = worker[g].item
        /\ worker'[g].batch = r /\ worker'[g].chunk = kept
        /\ history'.dropped = history.dropped \cup lost
    BY <1>3, <2>3 DEF WorkerStates, Drop, Histories
  <2>5. worker[g].chunk = <<>> /\ Range(<<>>) = {}
    BY <1>2, <2>3 DEF Holds, Range
  <2>6. lost \subseteq Gone'
    BY <2>4 DEF Gone
  <2> QED  BY <1>5, <2>2, <2>3, <2>4, <2>5, <2>6
<1>10. CASE SendRetried(g)
  <2>1. queue' = queue /\ worker' = worker
    BY <1>10 DEF SendRetried
  <2> QED  BY <1>5, <2>1
<1>11. CASE SendOk(g) \/ SendDropped(g)
  <2>1. /\ queue' = queue
        /\ worker'[g] = [worker[g] EXCEPT !.chunk = <<>>, !.pc = "chunk"]
    BY <1>3, <1>11 DEF SendOk, SendDropped, SendRaises, ChunkDone
  <2>2. worker'[g].item = worker[g].item /\ worker'[g].batch = worker[g].batch
    BY <1>3, <2>1 DEF WorkerStates
  <2>3. Range(worker[g].chunk) \subseteq Gone'
    <3>1. CASE SendOk(g)
      <4>1. Range(worker[g].chunk) \ Unroutable \subseteq Received'
        BY <1>3, <3>1, ReceivedAppend DEF SendOk
      <4>2. Range(worker[g].chunk) \cap Unroutable \subseteq Gone
        BY <1>2 DEF Gone
      <4> QED  BY <1>4, <4>1, <4>2 DEF Gone
    <3>2. CASE SendDropped(g)
      <4>1. history'.dropped = history.dropped \cup (Range(worker[g].chunk) \ Unroutable)
        BY <1>3, <3>2 DEF SendDropped, Drop, Histories
      <4> QED  BY <1>2, <4>1 DEF Gone
    <3> QED  BY <1>11, <3>1, <3>2
  <2> QED  BY <1>5, <2>1, <2>2, <2>3
<1> QED  BY <1>6, <1>7, <1>8, <1>9, <1>10, <1>11 DEF Work

\* A step that takes items from queues, and may set the event of one flush: whoever waits
\* on it goes on waiting until it looks.
LEMMA SignalKept ==
    ASSUME TypeInv, FreshInv, GoneInv, Gone \subseteq Gone', history'.before = history.before,
           \/ flush' = flush
           \/ \E x : \/ flush' = Signalled(x, "disconnect")
                     \/ /\ flush' = Signalled(x, "worker")
                        /\ \A f \in Flushes : f = x /\ flush[f].pc = "wait" =>
                               history.before[f] \subseteq Gone',
           \A g \in Gens : /\ Range(queue'[g]) \subseteq Range(queue[g]) \cup {StopMarker}
                           /\ worker'[g].item \in Range(queue[g]) \cup {worker[g].item, NoItem}
    PROVE  /\ FreshInv' /\ GoneInv'
           /\ \A f \in Flushes : flush'[f].pc = flush[f].pc
<1>1. flush \in [Flushes -> FlushStates]
  BY BarrierTypes
<1>2. ASSUME NEW f \in Flushes
      PROVE  /\ flush'[f].pc = flush[f].pc
             /\ flush[f].pc # "wait" => flush'[f].set = flush[f].set
             /\ flush'[f].set = "worker" =>
                    flush[f].set = "worker" \/ history.before[f] \subseteq Gone'
  <2>1. CASE flush' = flush  BY <2>1
  <2>2. CASE \E x : flush' = Signalled(x, "disconnect")
    BY <1>1, <2>2 DEF Signalled, FlushStates
  <2>3. CASE \E x : /\ flush' = Signalled(x, "worker")
                    /\ \A e \in Flushes : e = x /\ flush[e].pc = "wait" =>
                           history.before[e] \subseteq Gone'
    BY <1>1, <2>3 DEF Signalled, FlushStates
  <2> QED  BY <2>1, <2>2, <2>3
<1>3. GoneInv'
  BY <1>2 DEF GoneInv
<1>4. FreshInv'
  <2>1. ASSUME NEW f \in Flushes, flush'[f].pc \in {"start", "put"}
        PROVE  /\ flush'[f].set = "no"
               /\ \A g \in Gens : f \notin Range(queue'[g]) /\ worker'[g].item # f
    <3>1. flush[f].pc \in {"start", "put"} /\ flush'[f].set = flush[f].set
      BY <1>2, <2>1
    <3>2. f # StopMarker /\ f # NoItem
      BY CallsAssumption
    <3>3. /\ flush[f].set = "no"
          /\ \A g \in Gens : f \notin Range(queue[g]) /\ worker[g].item # f
      BY <3>1 DEF FreshInv
    <3> QED  BY <3>1, <3>2, <3>3
  <2> QED  BY <2>1 DEF FreshInv
<1> QED  BY <1>2, <1>3, <1>4

LEMMA WorkBarrier ==
    ASSUME Before, Guarded, NEW g \in Gens, Work(g)
    PROVE  Guarded'
<1>1. UNCHANGED <<life, stop, call>> /\ pub'.gen = pub.gen /\ g = pub.gen /\ pub.owned /\ Alive(g)
  BY WorkFrame, WorkQueue DEF Before
<1>2. TypeInv /\ Holds(worker[g]) /\ life.left = {} /\ WaitInv /\ FreshInv /\ GoneInv
  BY <1>1 DEF Before, WorkerInv, Holds, Guarded, LeftInv
<1>3. /\ history \in Histories /\ queue[g] \in Seq(Items)
  BY <1>1, <1>2, BarrierTypes
<1>4. history'.before = history.before
  <2>1. history' = history \/ \E ks : history' = Drop(ks)
    BY DEF Work, WorkerGet, WorkerEmpty, WorkerPoll, WorkerDrained, StartBatch, EndBatch,
       StartChunk, SendOk, SendRetried, SendDropped
  <2> QED  BY <1>3, <2>1 DEF Drop, Histories
<1>5. Gone \subseteq Gone'
  BY WorkQueue DEF Gone
<1>6. \/ flush' = flush
      \/ /\ flush' = Signalled(worker[g].item, "worker")
         /\ worker[g].batch = <<>> /\ worker[g].chunk = <<>>
  BY <1>1, <1>2 DEF Work, WorkerGet, WorkerEmpty, WorkerPoll, WorkerDrained, StartBatch, EndBatch,
     StartChunk, SendOk, SendRetried, SendDropped, Holds
<1>7. ASSUME worker[g].batch = <<>>, worker[g].chunk = <<>>,
             NEW f \in Flushes, f = worker[g].item, flush[f].pc = "wait"
      PROVE  history.before[f] \subseteq Gone'
  <2>1. history.before[f] \subseteq Hand
    BY <1>1, <1>2, <1>7 DEF WaitInv, StaysBehind, Behind
  <2>2. Hand = Gone
    BY <1>1, <1>2, <1>7, NoneSorted DEF Hand
  <2> QED  BY <1>5, <2>1, <2>2
<1>8. /\ Hand \cap Keys \subseteq Hand'
      /\ \/ queue'[g] = queue[g] /\ worker'[g].item \in {worker[g].item, NoItem}
         \/ LET x == Head(queue[g]) IN
            /\ queue[g] # <<>> /\ queue'[g] = Tail(queue[g])
            /\ worker'[g].item \in {worker[g].item, x}
            /\ x \in Keys => x \in Hand'
  BY WorkHand
<1>9. \A h \in Gens : /\ Range(queue'[h]) \subseteq Range(queue[h]) \cup {StopMarker}
                      /\ worker'[h].item \in Range(queue[h]) \cup {worker[h].item, NoItem}
  <2>1. queue[g] # <<>> => /\ Range(queue[g]) = {Head(queue[g])} \cup Range(Tail(queue[g]))
    BY <1>3, RangeTail
  <2>2. /\ Range(queue'[g]) \subseteq Range(queue[g])
        /\ worker'[g].item \in Range(queue[g]) \cup {worker[g].item, NoItem}
    BY <1>8, <2>1
  <2> QED  BY <2>2, WorkQueue
<1>10. FreshInv' /\ GoneInv' /\ \A f \in Flushes : flush'[f].pc = flush[f].pc
  <2>1. \/ flush' = flush
        \/ \E x : /\ flush' = Signalled(x, "worker")
                  /\ \A f \in Flushes : f = x /\ flush[f].pc = "wait" =>
                         history.before[f] \subseteq Gone'
    BY <1>6, <1>7
  <2> QED  BY <1>2, <1>4, <1>5, <1>9, <2>1, SignalKept
<1>11. WaitInv'
  <2> SUFFICES ASSUME NEW f \in Flushes, flush'[f].pc = "wait"
               PROVE  StaysBehind(f)'
    BY DEF WaitInv
  <2>1. flush[f].pc = "wait" /\ f # NoItem
    BY <1>10, CallsAssumption
  <2>2. worker'[g].item = f => worker[g].item = f \/ (queue[g] # <<>> /\ Head(queue[g]) = f)
    BY <1>8, <2>1
  <2>3. \/ queue'[g] = queue[g]
        \/ /\ queue[g] # <<>> /\ queue'[g] = Tail(queue[g])
           /\ Head(queue[g]) \in Keys => Head(queue[g]) \in Hand'
    BY <1>8
  <2> QED  BY <1>1, <1>2, <1>4, <1>8, <2>1, <2>2, <2>3, WaitKept
<1>12. LeftInv'
  BY <1>1 DEF Guarded, LeftInv
<1> QED  BY <1>10, <1>11, <1>12 DEF Guarded

\* A new connection has an empty queue; a disconnect leaves what it takes in hand until
\* it counted it.
LEMMA LifeBarrier ==
    ASSUME Before, Guarded, Lifecycle, ~Collect
    PROVE  Guarded'
<1>1. /\ TypeInv /\ WorkerInv /\ ConnectionInv
      /\ LeftInv /\ WaitInv /\ FreshInv /\ GoneInv
  BY DEF Before, Guarded
<1>2. /\ history \in Histories /\ queue \in [Gens -> Seq(Items)]
      /\ worker \in [Gens -> WorkerStates]
      /\ life \in [pc : LifePCs, left : SUBSET Keys] /\ pub \in Fields /\ pub.gen \in Gens
      /\ queue[pub.gen] \in Seq(Items) /\ worker[pub.gen] \in WorkerStates /\ IsFiniteSet(life.left)
  <2>1. IsFiniteSet(life.left)
    BY <1>1 DEF TypeInv
  <2> QED  BY <1>1, <2>1, BarrierTypes
<1> USE DEF Lifecycle, Disconnecting, ConnectFails, Disconnect, PutMarker, MarkerTimesOut, Join,
            JoinTimesOut, DropNext, DropEnd, Disconnected
<1>3. delivered' = delivered
  BY DEF Connect, Connected
<1>4. history'.before = history.before /\ history.dropped \subseteq history'.dropped
  <2>1. history' = history \/ \E ks : history' = Drop(ks)
    BY DEF Connect, Connected
  <2> QED  BY <1>2, <2>1 DEF Drop, Histories
<1>5. Gone \subseteq Gone'
  BY <1>3, <1>4 DEF Gone, Received
<1>6. \A g \in Gens : /\ worker'[g].item = worker[g].item
                      /\ worker'[g].batch = worker[g].batch /\ worker'[g].chunk = worker[g].chunk
  <2>1. worker' = worker \/ worker' = [worker EXCEPT ![pub.gen].pc = "get"]
    BY DEF Connect, Connected
  <2>2. CASE worker' = worker  BY <2>2
  <2>3. CASE worker' = [worker EXCEPT ![pub.gen].pc = "get"]
    <3>1. /\ \A g \in Gens : g # pub.gen => worker'[g] = worker[g]
          /\ worker'[pub.gen] = [worker[pub.gen] EXCEPT !.pc = "get"]
      BY <1>2, <2>3
    <3>2. PICK wk \in WorkerStates : wk = worker[pub.gen]
      BY <1>2
    <3>3. LET w == [wk EXCEPT !.pc = "get"]
          IN  w.item = wk.item /\ w.batch = wk.batch /\ w.chunk = wk.chunk
      BY DEF WorkerStates
    <3> QED  BY <3>1, <3>2, <3>3
  <2> QED  BY <2>1, <2>2, <2>3
<1>7. \/ queue' = queue
      \/ DropNext /\ queue[pub.gen] # <<>> /\ queue' = [queue EXCEPT ![pub.gen] = Tail(@)]
      \/ PutMarker /\ queue' = [queue EXCEPT ![pub.gen] = Append(@, StopMarker)]
  BY DEF Connect, Connected
<1>8. StopMarker \in Items /\ Flushes \cap {StopMarker, NoItem} = {}
  BY CallsAssumption DEF Items
<1>9. \A g \in Gens : /\ Range(queue'[g]) \subseteq Range(queue[g]) \cup {StopMarker}
                      /\ worker'[g].item \in Range(queue[g]) \cup {worker[g].item, NoItem}
  <2>1. /\ queue[pub.gen] # <<>> => Range(Tail(queue[pub.gen])) \subseteq Range(queue[pub.gen])
        /\ Range(Append(queue[pub.gen], StopMarker)) = Range(queue[pub.gen]) \cup {StopMarker}
    <3>1. queue[pub.gen] # <<>> => Range(Tail(queue[pub.gen])) \subseteq Range(queue[pub.gen])
      BY <1>2, RangeTail
    <3> QED  BY <1>2, <1>8, <3>1, RangeAppend
  <2>2. \A g \in Gens : Range(queue'[g]) \subseteq Range(queue[g]) \cup {StopMarker}
    BY <1>2, <1>7, <2>1
  <2> QED  BY <1>6, <2>2
<1>10. flush' = flush \/ \E x : flush' = Signalled(x, "disconnect")
  BY DEF Connect, Connected
<1>11. FreshInv' /\ GoneInv' /\ \A f \in Flushes : flush'[f].pc = flush[f].pc
  BY <1>1, <1>4, <1>5, <1>9, <1>10, SignalKept
<1>12. LeftInv'
  <2>1. CASE DropNext \/ Join
    BY <1>2, <2>1 DEF LeftInv
  <2>2. CASE DropEnd
    BY <2>2 DEF LeftInv
  <2>3. CASE ~DropNext /\ ~Join /\ ~DropEnd
    BY <1>1, <1>2, <2>3 DEF LeftInv, Connect, Connected
  <2> QED  BY <2>1, <2>2, <2>3
<1>13. CASE Connect
  <2> PICK h : h = pub.gen + 1
    OBVIOUS
  <2>1. pub'.gen = h /\ h \in Gens /\ h > pub.gen /\ queue' = queue
    BY <1>2, <1>13 DEF Connect, Fields
  <2>2. queue[h] = <<>> /\ worker[h].item = NoItem
    <3>1. ~Alive(h)
      BY <1>1, <1>2, <2>1 DEF WorkerInv
    <3> QED  BY <1>1, <2>1, <3>1 DEF ConnectionInv, WorkerInv, Alive
  <2>3. \A f \in Flushes : StaysBehind(f)'
    BY <1>6, <1>8, <2>1, <2>2 DEF StaysBehind, Behind
  <2>4. WaitInv'
    BY <2>3 DEF WaitInv
  <2> QED  BY <1>11, <1>12, <2>4 DEF Guarded
<1>14. CASE ~Connect
  <2>1. pub'.gen = pub.gen
    <3>1. CASE DropEnd
      BY <1>2, <3>1, RecordDropType
    <3>2. CASE ~DropEnd
      BY <1>2, <1>14, <3>2 DEF Connected, Fields
    <3> QED  BY <3>1, <3>2
  <2>2. life.left \subseteq life'.left \cup Gone'
    <3>1. CASE DropEnd
      <4>1. history' = Drop(life.left) /\ history \in Histories
        BY <1>2, <3>1
      <4>2. history'.dropped = history.dropped \cup life.left
        BY ONLY <4>1 DEF Drop, Histories
      <4> QED  BY <4>2 DEF Gone
    <3>2. CASE ~DropEnd
      <4>1. \/ \E pc : life' = [life EXCEPT !.pc = pc]
            \/ \E S : life' = [life EXCEPT !.left = @ \cup S]
        BY <1>14, <3>2 DEF Connected
      <4>2. life \in [pc : LifePCs, left : SUBSET Keys]
        BY <1>2
      <4> QED  BY ONLY <4>1, <4>2
    <3> QED  BY <3>1, <3>2
  <2>3. Hand \cap Keys \subseteq Hand'
    BY <1>2, <1>5, <1>6, <2>1, <2>2 DEF Hand
  <2>4. DropNext /\ Head(queue[pub.gen]) \in Keys => Head(queue[pub.gen]) \in Hand'
    <3>1. DropNext /\ Head(queue[pub.gen]) \in Keys => Head(queue[pub.gen]) \in life'.left
      BY <1>2
    <3> QED  BY <3>1 DEF Hand
  <2>5. ASSUME NEW f \in Flushes, flush'[f].pc = "wait"
        PROVE  StaysBehind(f)'
    <3>1. flush[f].pc = "wait" /\ StopMarker # f
      BY <1>8, <1>11, <2>5
    <3>2. \/ queue'[pub.gen] = queue[pub.gen]
          \/ /\ queue[pub.gen] # <<>> /\ queue'[pub.gen] = Tail(queue[pub.gen])
             /\ Head(queue[pub.gen]) \in Keys => Head(queue[pub.gen]) \in Hand'
          \/ \E x \in Items : x # f /\ queue'[pub.gen] = Append(queue[pub.gen], x)
      BY <1>2, <1>7, <1>8, <2>4, <3>1
    <3> QED  BY <1>1, <1>2, <1>4, <1>6, <2>1, <2>3, <3>1, <3>2, WaitKept
  <2>6. WaitInv'
    BY <2>5 DEF WaitInv
  <2> QED  BY <1>11, <1>12, <2>6 DEF Guarded
<1> QED  BY <1>13, <1>14

\* A publisher that was collected has no flush in progress, and is given none.
LEMMA CollectedBarrier ==
    ASSUME TypeInv, BarrierInv, [Next]_vars, ~pub'.owned
    PROVE  \A f \in Flushes : ~FlushOpen(f)'
<1>1. flush \in [Flushes -> FlushStates] /\ pub \in Fields
  BY BarrierTypes
<1>2. \A x, who : \A f \in Flushes : Signalled(x, who)[f].pc = flush[f].pc
  BY <1>1 DEF Signalled, FlushStates
<1>3. CASE Collect
  BY <1>3 DEF Collect, FlushOpen
<1>4. CASE ~Collect
  <2>1. ~pub.owned
    <3>1. CASE Lifecycle
      <4>1. CASE DropEnd
        BY <1>1, <4>1, RecordDropType DEF DropEnd, TypeInv
      <4>2. CASE ~DropEnd
        BY <1>1, <1>4, <3>1, <4>2 DEF Lifecycle, Disconnecting, Connect, Connected, ConnectFails,
           Disconnect, PutMarker, MarkerTimesOut, Join, JoinTimesOut, DropNext, Disconnected, Fields
      <4> QED  BY <4>1, <4>2
    <3>2. CASE UNCHANGED vars  BY <3>2 DEF vars
    <3> QED  BY <3>1, <3>2, NotifyFrame, FlushFrame, WorkFrame DEF Next
  <2>2. \A f \in Flushes : ~FlushOpen(f)
    BY <2>1 DEF BarrierInv
  <2>3. ASSUME NEW f \in Flushes  PROVE ~Flush(f)
    BY <2>1, <2>2 DEF FlushOpen, Flush, FlushStart, FlushPut, FlushWake, FlushTimesOut, FlushRaise
  <2>4. flush' = flush \/ \E x, who : flush' = Signalled(x, who)
    <3>1. CASE \E c \in Calls : Notify(c)
      BY <3>1, NotifyFrame
    <3>2. CASE \E g \in Gens : Work(g)
      BY <3>2 DEF Work, WorkerGet, WorkerEmpty, WorkerPoll, WorkerDrained, StartBatch, EndBatch,
         StartChunk, SendOk, SendRetried, SendDropped
    <3>3. CASE Lifecycle
      BY <1>4, <3>3 DEF Lifecycle, Disconnecting, Connect, Connected, ConnectFails, Disconnect,
         PutMarker, MarkerTimesOut, Join, JoinTimesOut, DropNext, DropEnd, Disconnected
    <3>4. CASE UNCHANGED vars  BY <3>4 DEF vars
    <3> QED  BY <2>3, <3>1, <3>2, <3>3, <3>4 DEF Next
  <2> QED  BY <1>2, <2>2, <2>4 DEF FlushOpen
<1> QED  BY <1>3, <1>4

LEMMA NextBarrier ==
    ASSUME ~Overlap, TypeInv, WorkerInv, AccountInv, BarrierInv, [Next]_vars
    PROVE  BarrierInv'
<1>1. CASE ~pub'.owned
  BY <1>1, CollectedBarrier DEF BarrierInv
<1>2. CASE pub'.owned
  <2> SUFFICES Guarded'
    BY <1>2 DEF BarrierInv, Guarded
  <2>1. pub \in Fields
    BY BarrierTypes
  <2>2. ~Collect
    BY <1>2, <2>1 DEF Collect, Fields
  <2>3. pub.owned
    <3>1. CASE Lifecycle
      <4>1. CASE DropEnd
        BY <1>2, <2>1, <4>1, RecordDropType DEF DropEnd, TypeInv
      <4>2. CASE ~DropEnd
        BY <1>2, <2>1, <2>2, <3>1, <4>2
           DEF Lifecycle, Disconnecting, Connect, Connected, ConnectFails, Disconnect, PutMarker,
               MarkerTimesOut, Join, JoinTimesOut, DropNext, Disconnected, Fields
      <4> QED  BY <4>1, <4>2
    <3>2. CASE UNCHANGED vars  BY <1>2, <3>2 DEF vars
    <3> QED  BY <1>2, <3>1, <3>2, NotifyFrame, FlushFrame, WorkFrame DEF Next
  <2>4. Before /\ Guarded
    BY <2>3 DEF Before, AccountInv, BarrierInv, Guarded
  <2>5. CASE UNCHANGED vars
    BY <2>4, <2>5 DEF vars, Guarded, LeftInv, FreshInv, GoneInv, WaitInv, StaysBehind, Hand, Gone,
       Received
  <2> QED
    BY <2>2, <2>4, <2>5, NotifyBarrier, FlushBarrier, WorkBarrier, LifeBarrier DEF Next
<1> QED  BY <1>1, <1>2

LEMMA InitBarrier == Init => BarrierInv
<1> SUFFICES ASSUME Init PROVE LeftInv /\ FreshInv /\ GoneInv /\ WaitInv
  BY DEF BarrierInv, Init
<1>1. Range(<<>>) = {} /\ NoItem \notin Flushes
  BY CallsAssumption DEF Range
<1> QED  BY <1>1 DEF Init, LeftInv, FreshInv, GoneInv, WaitInv

\* A flush that returns after the worker set its event is a barrier: what was queued before
\* it was delivered, or dropped and raised by some flush. The guarantee is for publishers
\* whose commits end before a disconnect, with any number of flushes, connections and
\* failing sends, and also where a disconnect or a collection comes between.
THEOREM FlushIsBarrierCorrect == ASSUME ~Overlap PROVE Spec => FlushIsBarrier
<1> DEFINE Returns ==
      \A f \in Flushes :
          /\ flush[f].pc = "raise" /\ flush[f].set = "worker"
          /\ flush'[f].pc = "done" /\ ~pub.lastError
          => history.before[f] \subseteq Received \cup history.raised
<1>1. Init => WorkerInv
  BY DEF Init, WorkerInv, Alive
<1>2. Init => SurfaceInv
  BY FS_EmptySet DEF Init, SurfaceInv, DropsSurface
<1>3. TypeInv /\ WorkerInv /\ AccountInv /\ [Next]_vars => AccountInv'
  BY AccountNext
<1>4. TypeInv /\ WorkerInv /\ AccountInv /\ BarrierInv /\ [Next]_vars => BarrierInv'
  BY NextBarrier
<1>5. BarrierInv /\ SurfaceInv => Returns
  <2> SUFFICES ASSUME BarrierInv, SurfaceInv, NEW f \in Flushes, ~pub.lastError,
                      flush[f].pc = "raise", flush[f].set = "worker"
               PROVE  history.before[f] \subseteq Received \cup history.raised
    OBVIOUS
  <2>1. pub.owned
    BY DEF BarrierInv, FlushOpen
  <2>2. history.before[f] \subseteq Gone
    BY <2>1 DEF BarrierInv, GoneInv
  <2>3. history.dropped \subseteq history.raised
    BY DEF SurfaceInv, DropsSurface
  <2> QED  BY <2>2, <2>3 DEF Gone
<1>6. Spec => [][Returns]_vars
  BY <1>1, <1>2, <1>3, <1>4, <1>5, InitType, NextType, WorkerInvNext, InitAccount, InitBarrier,
     SurfaceNext, PTL DEF Spec
<1> QED  BY <1>6 DEF FlushIsBarrier

=============================================================================
