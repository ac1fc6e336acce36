----------------------- MODULE VersionedStore_proofs ------------------------
(***************************************************************************)
(* The in-memory store implements a database with copies, for any keys,    *)
(* values, finite set of readers, and any number of commits and resets.    *)
(***************************************************************************)
EXTENDS VersionedStore, FunctionTheorems, FiniteSetTheorems, SequenceTheorems, TLAPS

(* What a store is worth by itself: its indexes and its log name what it    *)
(* holds, and versions are in the order of their commits.                   *)

RecordsOf(s) ==
    UNION {{[seq |-> s.history[k][i].seq, key |-> k] : i \in 1 .. Len(s.history[k])} : k \in Keys}

AgreeIn(s) ==
    /\ s.index = {k \in Keys : s.live[k] # Absent}
    /\ s.histIndex = {k \in Keys : s.history[k] # <<>>}
    /\ s.log = RecordsOf(s)

Ordered(s) ==
    \A k \in Keys :
        /\ \A i, j \in 1 .. Len(s.history[k]) : i < j => s.history[k][i].seq < s.history[k][j].seq
        /\ \A i \in 1 .. Len(s.history[k]) : s.history[k][i].seq <= s.seq

Pasts(s) == \A q \in Pinned(s) : q <= s.seq

Sound(s) == s \in Stores /\ AgreeIn(s) /\ Ordered(s) /\ Pasts(s)

\* A version is kept for a pin.
Freed(s) == Pinned(s) = {} => s.log = {}

\* The pins of a store are those of open snapshots and of collected ones that wait to
\* be released, one each.
Holding(s, tok, q) == {r \in Readers : tok[r] = [gen |-> s.gen, seq |-> q]}
Waiting(s, q) == {i \in 1 .. Len(s.deferred) : s.deferred[i] = [gen |-> s.gen, seq |-> q]}

Exact(s, tok) ==
    \A q \in Seqs : s.pins[q] = Cardinality(Holding(s, tok, q)) + Cardinality(Waiting(s, q))

\* No token, and no transaction, is of a generation to come.
NoneFromTheFuture ==
    /\ \A r \in Readers : token[r] # None => token[r].gen <= st.gen
    /\ txn # None => txn.gen <= st.gen

IInv ==
    /\ TypeOK
    /\ Sound(st)
    /\ st.deferred = <<>> => Freed(st)
    /\ Exact(st, token)
    /\ NoneFromTheFuture

-----------------------------------------------------------------------------

\* A set of positions that holds every position before one it holds is a prefix.
LEMMA Prefix ==
    ASSUME NEW n \in Nat, NEW I \in SUBSET (1 .. n),
           \A i \in I : \A j \in 1 .. i : j \in I
    PROVE  /\ Cardinality(I) \in 0 .. n
           /\ I = 1 .. Cardinality(I)
<1> DEFINE m == Cardinality(I)
<1>1. IsFiniteSet(I) /\ m \in Nat /\ m <= n
  <2>1. IsFiniteSet(1 .. n) /\ Cardinality(1 .. n) = n
    <3>1. Cardinality(1 .. n) = IF 1 > n THEN 0 ELSE n - 1 + 1
      BY FS_Interval
    <3>2. IsFiniteSet(1 .. n)
      BY FS_Interval
    <3> QED BY <3>1, <3>2
  <2>2. IsFiniteSet(I) /\ m <= n
    <3>1. IsFiniteSet(I) /\ Cardinality(I) <= Cardinality(1 .. n)
      BY <2>1, FS_Subset
    <3>2. m <= Cardinality(1 .. n)
      BY <3>1
    <3> QED BY <3>1, <3>2, <2>1
  <2>3. m \in Nat
    BY <2>2, FS_CardinalityType
  <2> QED BY <2>2, <2>3
<1>2. \A i \in I : i <= m
  <2> TAKE i \in I
  <2>1. i \in Nat /\ i >= 1 /\ (1 .. i) \in SUBSET I
    OBVIOUS
  <2>2. Cardinality(1 .. i) = i
    BY <2>1, FS_Interval
  <2> HIDE DEF m
  <2> QED BY <1>1, <2>1, <2>2, FS_Subset DEF m
<1>3. I \in SUBSET (1 .. m)
  BY <1>1, <1>2
<1>4. IsFiniteSet(1 .. m) /\ Cardinality(1 .. m) = m
  BY <1>1, FS_Interval
<1>5. I = 1 .. m
  BY <1>3, <1>4, FS_Subset
<1> QED BY <1>1, <1>5

LEMMA StoreMade ==
    ASSUME NEW gen \in 0 .. MaxGen, NEW seq \in Seqs,
           NEW live \in [Keys -> Entries], NEW index \in SUBSET Keys,
           NEW history \in [Keys -> Seq([seq : Seqs, old : Entries])],
           NEW histIndex \in SUBSET Keys, NEW log \in SUBSET [seq : Seqs, key : Keys],
           NEW pins \in [Seqs -> Nat], NEW deferred \in Seq(Tokens)
    PROVE  [gen |-> gen, seq |-> seq, live |-> live, index |-> index,
            history |-> history, histIndex |-> histIndex, log |-> log,
            pins |-> pins, deferred |-> deferred] \in Stores
BY DEF Stores

LEMMA StoreFields ==
    ASSUME NEW s \in Stores
    PROVE  /\ s.gen \in 0 .. MaxGen /\ s.seq \in Seqs
           /\ s.live \in [Keys -> Entries] /\ s.index \in SUBSET Keys
           /\ s.history \in [Keys -> Seq([seq : Seqs, old : Entries])]
           /\ s.histIndex \in SUBSET Keys /\ s.log \in SUBSET [seq : Seqs, key : Keys]
           /\ s.pins \in [Seqs -> Nat] /\ s.deferred \in Seq(Tokens)
           /\ s.gen \in Nat /\ s.seq \in Nat
           /\ s = [gen |-> s.gen, seq |-> s.seq, live |-> s.live, index |-> s.index,
                   history |-> s.history, histIndex |-> s.histIndex, log |-> s.log,
                   pins |-> s.pins, deferred |-> s.deferred]
<1>1. /\ s.gen \in 0 .. MaxGen /\ s.seq \in Seqs
      /\ s.live \in [Keys -> Entries] /\ s.index \in SUBSET Keys
      /\ s.history \in [Keys -> Seq([seq : Seqs, old : Entries])]
      /\ s.histIndex \in SUBSET Keys /\ s.log \in SUBSET [seq : Seqs, key : Keys]
      /\ s.pins \in [Seqs -> Nat] /\ s.deferred \in Seq(Tokens)
  BY DEF Stores
<1>2. s.gen \in Nat /\ s.seq \in Nat
  BY <1>1, BoundsAssumption DEF Seqs
<1>3. s = [gen |-> s.gen, seq |-> s.seq, live |-> s.live, index |-> s.index,
           history |-> s.history, histIndex |-> s.histIndex, log |-> s.log,
           pins |-> s.pins, deferred |-> s.deferred]
  BY DEF Stores
<1> QED BY <1>1, <1>2, <1>3

LEMMA HistoryType ==
    ASSUME NEW s \in Stores, NEW k \in Keys
    PROVE  /\ s.history[k] \in Seq([seq : Seqs, old : Entries])
           /\ Len(s.history[k]) \in Nat
           /\ \A i \in 1 .. Len(s.history[k]) :
                 /\ s.history[k][i] \in [seq : Seqs, old : Entries]
                 /\ s.history[k][i].seq \in Nat
                 /\ s.history[k][i].seq \in Seqs
                 /\ s.history[k][i].old \in Entries
<1>1. s.history[k] \in Seq([seq : Seqs, old : Entries])
  BY DEF Stores
<1>2. Len(s.history[k]) \in Nat
  BY <1>1, LenProperties
<1>3. \A i \in 1 .. Len(s.history[k]) : s.history[k][i] \in [seq : Seqs, old : Entries]
  BY <1>1, ElementOfSeq
<1>4. \A i \in 1 .. Len(s.history[k]) :
        s.history[k][i].seq \in Seqs /\ s.history[k][i].old \in Entries
  BY <1>3
<1>5. \A i \in 1 .. Len(s.history[k]) : s.history[k][i].seq \in Nat
  BY <1>4, BoundsAssumption DEF Seqs
<1> QED BY <1>1, <1>2, <1>3, <1>4, <1>5

\* Versions taken with every older one of their key are a prefix of its history.
LEMMA Oldest ==
    ASSUME NEW s, s \in Stores, Ordered(s), NEW k \in Keys, NEW n, n = Len(s.history[k]),
           NEW I \in SUBSET (1 .. n),
           \A i \in I, j \in 1 .. n : s.history[k][j].seq <= s.history[k][i].seq => j \in I
    PROVE  Cardinality(I) \in 0 .. n /\ I = 1 .. Cardinality(I)
<1>1. n \in Nat /\ \A i \in 1 .. n : s.history[k][i].seq \in Int
  BY HistoryType
<1>2. \A i \in I : \A j \in 1 .. i : j \in I
  <2> SUFFICES ASSUME NEW i \in I, NEW j \in 1 .. i PROVE j \in I
    OBVIOUS
  <2>1. j \in 1 .. n /\ i \in 1 .. n /\ (j = i \/ j < i)
    OBVIOUS
  <2>2. s.history[k][j].seq <= s.history[k][i].seq
    BY <2>1, <1>1 DEF Ordered
  <2> QED BY <2>1, <2>2
<1> QED BY <1>1, <1>2, Prefix

\* What a snapshot at q reads: the first version behind those up to q, or the live value.
LEMMA ReadsFirst ==
    ASSUME NEW s, NEW k, NEW q, NEW i \in 1 .. Len(s.history[k]),
           Len(s.history[k]) \in Nat,
           s.history[k][i].seq > q,
           \A j \in 1 .. i - 1 : ~(s.history[k][j].seq > q)
    PROVE  VersionAt(s, k, q) = s.history[k][i].old
<1> DEFINE later == {j \in 1 .. Len(s.history[k]) : s.history[k][j].seq > q}
<1>1. i \in later /\ \A j \in later : i <= j
  OBVIOUS
<1>2. \A x \in later : (\A j \in later : x <= j) => x = i
  BY <1>1
<1>3. (CHOOSE x \in later : \A j \in later : x <= j) = i
  BY <1>1, <1>2
<1> QED BY <1>1, <1>3 DEF VersionAt

\* The same of a history that has a name.
LEMMA ReadsFirstOf ==
    ASSUME NEW s, NEW k, NEW q, NEW h, h = s.history[k], Len(h) \in Nat,
           NEW i \in 1 .. Len(h), h[i].seq > q,
           \A j \in 1 .. i - 1 : ~(h[j].seq > q)
    PROVE  VersionAt(s, k, q) = h[i].old
BY ReadsFirst

LEMMA ReadsLive ==
    ASSUME NEW s, NEW k, NEW q,
           \A i \in 1 .. Len(s.history[k]) : ~(s.history[k][i].seq > q)
    PROVE  VersionAt(s, k, q) = Live
BY DEF VersionAt

\* What a snapshot at q reads, by the number of versions up to q.
LEMMA ReadsAt ==
    ASSUME NEW s, s \in Stores, Ordered(s), NEW k \in Keys, NEW q \in Int
    PROVE  \E c \in 0 .. Len(s.history[k]) :
             /\ \A i \in 1 .. Len(s.history[k]) : s.history[k][i].seq <= q <=> i <= c
             /\ c = Len(s.history[k]) => VersionAt(s, k, q) = Live
             /\ c < Len(s.history[k]) => VersionAt(s, k, q) = s.history[k][c + 1].old
<1> DEFINE n == Len(s.history[k])
<1>1. n \in Nat /\ \A i \in 1 .. n : s.history[k][i].seq \in Nat
  BY HistoryType
<1> PICK I \in SUBSET (1 .. n) : \A i \in 1 .. n : i \in I <=> s.history[k][i].seq <= q
  <2> WITNESS {i \in 1 .. n : s.history[k][i].seq <= q} \in SUBSET (1 .. n)
  <2> QED OBVIOUS
<1> DEFINE c == Cardinality(I)
<1>2. c \in 0 .. n /\ I = 1 .. c
  <2>1. \A i \in I, j \in 1 .. n : s.history[k][j].seq <= s.history[k][i].seq => j \in I
    BY <1>1
  <2> QED BY <2>1, Oldest
<1>4. \A i \in 1 .. n : s.history[k][i].seq <= q <=> i <= c
  BY <1>2
<1> HIDE DEF c
<1>5. c = n => VersionAt(s, k, q) = Live
  BY <1>1, <1>2, <1>4, ReadsLive
<1>6. c < n => VersionAt(s, k, q) = s.history[k][c + 1].old
  <2> SUFFICES ASSUME c < n PROVE VersionAt(s, k, q) = s.history[k][c + 1].old
    OBVIOUS
  <2> PICK i \in 1 .. n : i = c + 1
    BY <1>1, <1>2
  <2>1. s.history[k][i].seq > q
    BY <1>1, <1>2, <1>4
  <2>2. \A j \in 1 .. i - 1 : ~(s.history[k][j].seq > q)
    BY <1>1, <1>2, <1>4
  <2> QED BY <1>1, <2>1, <2>2, ReadsFirst
<1> QED BY <1>1, <1>2, <1>4, <1>5, <1>6

-----------------------------------------------------------------------------
(* Trimming.                                                               *)

OldLog(s)       == {r \in s.log : \A q \in Pinned(s) : r.seq <= q}
OldOf(s, k)     == {r \in OldLog(s) : r.key = k}
Unneeded(s, k, i) == \A q \in Pinned(s) : s.history[k][i].seq <= q

LEMMA PinnedType ==
    ASSUME NEW s \in Stores, NEW q \in Pinned(s)
    PROVE  q \in Seqs /\ q \in Nat
BY BoundsAssumption DEF Pinned, Seqs

LEMMA LogNames ==
    ASSUME NEW s, s \in Stores, AgreeIn(s)
    PROVE  /\ \A k \in Keys : \A i \in 1 .. Len(s.history[k]) :
                [seq |-> s.history[k][i].seq, key |-> k] \in s.log
           /\ \A r \in s.log : \E k \in Keys : \E i \in 1 .. Len(s.history[k]) :
                r = [seq |-> s.history[k][i].seq, key |-> k]
BY DEF AgreeIn, RecordsOf

LEMMA RecordIn ==
    ASSUME NEW s, NEW k \in Keys, NEW i \in 1 .. Len(s.history[k])
    PROVE  [seq |-> s.history[k][i].seq, key |-> k] \in RecordsOf(s)
BY DEF RecordsOf

LEMMA TrimFields ==
    ASSUME NEW s \in Stores
    PROVE  /\ Trim(s).gen = s.gen /\ Trim(s).seq = s.seq
           /\ Trim(s).live = s.live /\ Trim(s).index = s.index
           /\ Trim(s).pins = s.pins /\ Trim(s).deferred = s.deferred
           /\ Trim(s).history = [k \in Keys |->
                 SubSeq(s.history[k], Cardinality(OldOf(s, k)) + 1, Len(s.history[k]))]
           /\ Trim(s).log = s.log \ OldLog(s)
           /\ Trim(s).histIndex =
                 s.histIndex \ {r.key : r \in {r \in OldLog(s) : Trim(s).history[r.key] = <<>>}}
           /\ Trim(s) = [gen |-> s.gen, seq |-> s.seq, live |-> s.live, index |-> s.index,
                         history |-> Trim(s).history, histIndex |-> Trim(s).histIndex,
                         log |-> Trim(s).log, pins |-> s.pins, deferred |-> s.deferred]
<1> DEFINE H == [k \in Keys |-> SubSeq(s.history[k], Cardinality(OldOf(s, k)) + 1, Len(s.history[k]))]
           X == s.histIndex \ {r.key : r \in {r \in OldLog(s) : H[r.key] = <<>>}}
<1>1. Trim(s) = [s EXCEPT !.log = s.log \ OldLog(s), !.history = H, !.histIndex = X]
  BY DEF Trim, OldLog, OldOf
<1> HIDE DEF H, X
<1>2. Trim(s) = [gen |-> s.gen, seq |-> s.seq, live |-> s.live, index |-> s.index,
                 history |-> H, histIndex |-> X,
                 log |-> s.log \ OldLog(s), pins |-> s.pins, deferred |-> s.deferred]
  BY <1>1 DEF Stores
<1>3. Trim(s).history = H /\ Trim(s).histIndex = X
  BY <1>2
<1> QED BY <1>2, <1>3 DEF H, X

\* A trim leaves alone everything but the retained versions and their indexes.
LEMMA TrimSpares ==
    ASSUME NEW s \in Stores, NEW t, t = Trim(s)
    PROVE  /\ t.gen = s.gen /\ t.seq = s.seq
           /\ t.live = s.live /\ t.index = s.index
           /\ t.pins = s.pins /\ t.deferred = s.deferred
<1>1. /\ Trim(s).gen = s.gen /\ Trim(s).seq = s.seq
      /\ Trim(s).live = s.live /\ Trim(s).index = s.index
      /\ Trim(s).pins = s.pins /\ Trim(s).deferred = s.deferred
  BY TrimFields
<1> QED BY <1>1

\* As many of a key's versions go as its records in the log, and they are its oldest.
LEMMA TrimCounts ==
    ASSUME NEW s, s \in Stores, AgreeIn(s), Ordered(s), NEW k \in Keys,
           NEW n, n = Len(s.history[k]), NEW c, c = Cardinality(OldOf(s, k))
    PROVE  c \in 0 .. n /\ \A i \in 1 .. n : Unneeded(s, k, i) <=> i <= c
<1>1. n \in Nat /\ \A i \in 1 .. n : s.history[k][i].seq \in Nat
  BY HistoryType
<1> PICK I \in SUBSET (1 .. n) : \A i \in 1 .. n : i \in I <=> Unneeded(s, k, i)
  <2> WITNESS {i \in 1 .. n : Unneeded(s, k, i)} \in SUBSET (1 .. n)
  <2> QED OBVIOUS
<1>2. Cardinality(I) \in 0 .. n /\ I = 1 .. Cardinality(I)
  <2>1. ASSUME NEW i \in I, NEW j \in 1 .. n, s.history[k][j].seq <= s.history[k][i].seq
        PROVE  j \in I
    <3>1. \A q \in Pinned(s) : s.history[k][i].seq <= q
      BY DEF Unneeded
    <3>2. \A q \in Pinned(s) : s.history[k][j].seq <= q
      BY <3>1, <2>1, <1>1, PinnedType
    <3> QED BY <3>2 DEF Unneeded
  <2> QED BY <2>1, Oldest
<1> DEFINE f == [i \in I |-> [seq |-> s.history[k][i].seq, key |-> k]]
<1>3. f \in Bijection(I, OldOf(s, k))
  <2>1. \A i \in I : f[i] \in OldOf(s, k)
    BY LogNames DEF OldOf, OldLog, Unneeded
  <2>2. \A i, j \in I : f[i] = f[j] => i = j
    BY <1>1 DEF Ordered
  <2>3. ASSUME NEW r \in OldOf(s, k) PROVE \E i \in I : f[i] = r
    <3>1. PICK i \in 1 .. n : r = [seq |-> s.history[k][i].seq, key |-> k]
      BY LogNames DEF OldOf, OldLog
    <3>2. Unneeded(s, k, i)
      BY <3>1 DEF OldOf, OldLog, Unneeded
    <3> QED BY <3>1, <3>2
  <2> HIDE DEF f
  <2>4. f \in [I -> OldOf(s, k)]
    BY <2>1 DEF f
  <2> QED BY <2>2, <2>3, <2>4 DEF Bijection, Injection, Surjection, IsInjective
<1>4. ExistsBijection(I, OldOf(s, k))
  BY <1>3 DEF ExistsBijection
<1>5. IsFiniteSet(I)
  <2>1. IsFiniteSet(1 .. n)
    BY <1>1, FS_Interval
  <2> QED BY <2>1, FS_Subset
<1>6. Cardinality(I) = c
  BY <1>4, <1>5, FS_Bijection
<1> QED BY <1>1, <1>2, <1>6

\* A trimmed history is the old one from its first needed version on.
LEMMA TrimHistory ==
    ASSUME NEW s, s \in Stores, AgreeIn(s), Ordered(s), NEW k \in Keys
    PROVE  \E c \in 0 .. Len(s.history[k]) :
             /\ \A i \in 1 .. Len(s.history[k]) : Unneeded(s, k, i) <=> i <= c
             /\ Trim(s).history[k] \in Seq([seq : Seqs, old : Entries])
             /\ Len(Trim(s).history[k]) = Len(s.history[k]) - c
             /\ \A i \in 1 .. Len(s.history[k]) - c :
                    Trim(s).history[k][i] = s.history[k][i + c]
<1> DEFINE n == Len(s.history[k])
           c == Cardinality(OldOf(s, k))
           h == SubSeq(s.history[k], c + 1, n)
<1>1. c \in 0 .. n /\ \A i \in 1 .. n : Unneeded(s, k, i) <=> i <= c
  BY TrimCounts
<1>2. Trim(s).history[k] = h
  BY TrimFields
<1>3. n \in Nat /\ \A i \in 1 .. n : s.history[k][i] \in [seq : Seqs, old : Entries]
  BY HistoryType
<1> HIDE DEF c, n
<1>4. c + 1 \in Int /\ n \in Int /\ \A i \in c + 1 .. n : s.history[k][i] \in [seq : Seqs, old : Entries]
  BY <1>1, <1>3
<1>5. /\ h \in Seq([seq : Seqs, old : Entries])
      /\ Len(h) = IF c + 1 <= n THEN n - (c + 1) + 1 ELSE 0
      /\ \A i \in 1 .. n - (c + 1) + 1 : h[i] = s.history[k][(c + 1) + i - 1]
  BY <1>4, SubSeqProperties
<1>6. Len(h) = n - c
  BY <1>5, <1>1, <1>3
<1>7. \A i \in 1 .. n - c : h[i] = s.history[k][i + c]
  <2> SUFFICES ASSUME NEW i \in 1 .. n - c PROVE h[i] = s.history[k][i + c]
    OBVIOUS
  <2>1. i \in 1 .. n - (c + 1) + 1 /\ (c + 1) + i - 1 = i + c
    BY <1>1, <1>3
  <2> QED BY <2>1, <1>5
<1> QED BY <1>1, <1>2, <1>5, <1>6, <1>7 DEF n

\* Trimming keeps the store sound, and what any pin reads.
LEMMA TrimKeeps ==
    ASSUME NEW s, Sound(s)
    PROVE  /\ Sound(Trim(s))
           /\ Freed(Trim(s))
           /\ \A q \in Pinned(s), k \in Keys : GetAt(Trim(s), k, q) = GetAt(s, k, q)
<1> DEFINE t == Trim(s)
<1>1. s \in Stores /\ AgreeIn(s) /\ Ordered(s) /\ Pasts(s)
  BY DEF Sound
<1>2. Pinned(t) = Pinned(s)
  BY <1>1, TrimFields DEF Pinned
<1>3. t \in Stores
  <2>1. \A k \in Keys : t.history[k] \in Seq([seq : Seqs, old : Entries])
    BY <1>1, TrimHistory
  <2>2. t.history \in [Keys -> Seq([seq : Seqs, old : Entries])]
    BY <1>1, <2>1, TrimFields
  <2>3. t.histIndex \in SUBSET Keys /\ t.log \in SUBSET [seq : Seqs, key : Keys]
    BY <1>1, TrimFields DEF Stores
  <2>4. t = [gen |-> s.gen, seq |-> s.seq, live |-> s.live, index |-> s.index,
             history |-> t.history, histIndex |-> t.histIndex,
             log |-> t.log, pins |-> s.pins, deferred |-> s.deferred]
    BY <1>1, TrimFields
  <2> HIDE DEF t
  <2>5. [gen |-> s.gen, seq |-> s.seq, live |-> s.live, index |-> s.index,
         history |-> t.history, histIndex |-> t.histIndex,
         log |-> t.log, pins |-> s.pins, deferred |-> s.deferred] \in Stores
    <3>1. /\ s.gen \in 0 .. MaxGen /\ s.seq \in Seqs
          /\ s.live \in [Keys -> Entries] /\ s.index \in SUBSET Keys
          /\ s.pins \in [Seqs -> Nat] /\ s.deferred \in Seq(Tokens)
      BY <1>1, StoreFields
    <3> QED BY <2>2, <2>3, <3>1, StoreMade
  <2> QED BY <2>4, <2>5
<1>4. Ordered(t)
  <2> SUFFICES ASSUME NEW k \in Keys
               PROVE  /\ \A i, j \in 1 .. Len(t.history[k]) :
                            i < j => t.history[k][i].seq < t.history[k][j].seq
                      /\ \A i \in 1 .. Len(t.history[k]) : t.history[k][i].seq <= t.seq
    BY DEF Ordered
  <2> DEFINE n == Len(s.history[k])
  <2> PICK c \in 0 .. n :
        /\ Len(t.history[k]) = n - c
        /\ \A i \in 1 .. n - c : t.history[k][i] = s.history[k][i + c]
    BY <1>1, TrimHistory
  <2>1. n \in Nat /\ t.seq = s.seq
    BY <1>1, HistoryType, TrimFields
  <2>2. \A i \in 1 .. n - c : i + c \in 1 .. n
    BY <2>1
  <2>3. \A i, j \in 1 .. n : i < j => s.history[k][i].seq < s.history[k][j].seq
    BY <1>1 DEF Ordered
  <2>4. \A i \in 1 .. n : s.history[k][i].seq <= s.seq
    BY <1>1 DEF Ordered
  <2> HIDE DEF n, t
  <2>5. ASSUME NEW i \in 1 .. n - c, NEW j \in 1 .. n - c, i < j
        PROVE  t.history[k][i].seq < t.history[k][j].seq
    <3>1. i + c < j + c
      BY <2>1, <2>5
    <3> QED BY <3>1, <2>2, <2>3
  <2> QED BY <2>1, <2>2, <2>4, <2>5
<1>5. AgreeIn(t)
  <2>1. t.index = {k \in Keys : t.live[k] # Absent}
    <3>1. s.index = {k \in Keys : s.live[k] # Absent}
      BY <1>1 DEF AgreeIn
    <3>2. t.live = s.live /\ t.index = s.index
      BY <1>1, TrimSpares
    <3> HIDE DEF t
    <3> QED BY <3>1, <3>2
  <2>2. ASSUME NEW k \in Keys PROVE k \in t.histIndex <=> t.history[k] # <<>>
    <3> DEFINE n == Len(s.history[k])
    <3> PICK c \in 0 .. n :
          /\ \A i \in 1 .. n : Unneeded(s, k, i) <=> i <= c
          /\ t.history[k] \in Seq([seq : Seqs, old : Entries])
          /\ Len(t.history[k]) = n - c
      BY <1>1, TrimHistory
    <3>1. n \in Nat
      BY <1>1, HistoryType
    <3>2. s.history[k] # <<>> <=> n # 0
      BY <1>1, HistoryType, EmptySeq
    <3>3. t.history[k] # <<>> <=> c # n
      BY <3>1, EmptySeq
    <3>4. k \in s.histIndex <=> n # 0
      BY <1>1, <3>2 DEF AgreeIn
    <3>5. k \in t.histIndex <=>
            k \in s.histIndex /\ ~ \E r \in OldLog(s) : r.key = k /\ t.history[k] = <<>>
      <4>1. t.histIndex =
              s.histIndex \ {r.key : r \in {r \in OldLog(s) : t.history[r.key] = <<>>}}
        BY <1>1, TrimFields
      <4> HIDE DEF t
      <4> QED BY <4>1
    <3>6. (\E r \in OldLog(s) : r.key = k) <=> c # 0
      <4>1. ASSUME c # 0 PROVE \E r \in OldLog(s) : r.key = k
        <5>1. 1 \in 1 .. n /\ Unneeded(s, k, 1)
          BY <3>1, <4>1
        <5>2. [seq |-> s.history[k][1].seq, key |-> k] \in OldLog(s)
          BY <5>1, <1>1, LogNames DEF OldLog, Unneeded
        <5> QED BY <5>2
      <4>2. ASSUME NEW r \in OldLog(s), r.key = k PROVE c # 0
        <5>1. PICK i \in 1 .. n : r = [seq |-> s.history[k][i].seq, key |-> k]
          BY <1>1, <4>2, LogNames DEF OldLog
        <5>2. Unneeded(s, k, i)
          BY <5>1 DEF OldLog, Unneeded
        <5> QED BY <5>1, <5>2, <3>1
      <4> QED BY <4>1, <4>2
    <3> QED BY <3>1, <3>3, <3>4, <3>5, <3>6
  <2>3. t.log = RecordsOf(t)
    <3>1. ASSUME NEW r \in t.log PROVE r \in RecordsOf(t)
      <4>1. r \in s.log /\ r \notin OldLog(s)
        BY <1>1, TrimFields
      <4>2. PICK k \in Keys : \E i \in 1 .. Len(s.history[k]) :
              r = [seq |-> s.history[k][i].seq, key |-> k]
        BY <1>1, <4>1, LogNames
      <4> DEFINE n == Len(s.history[k])
      <4>3. PICK i \in 1 .. n : r = [seq |-> s.history[k][i].seq, key |-> k]
        BY <4>2
      <4>4. ~Unneeded(s, k, i)
        BY <4>1, <4>3 DEF OldLog, Unneeded
      <4> PICK c \in 0 .. n :
            /\ \A j \in 1 .. n : Unneeded(s, k, j) <=> j <= c
            /\ Len(t.history[k]) = n - c
            /\ \A j \in 1 .. n - c : t.history[k][j] = s.history[k][j + c]
        BY <1>1, TrimHistory
      <4>5. n \in Nat
        BY <1>1, HistoryType
      <4> HIDE DEF n, t
      <4>6. i - c \in 1 .. Len(t.history[k]) /\ (i - c) + c = i
        BY <4>4, <4>5
      <4>7. r = [seq |-> t.history[k][i - c].seq, key |-> k]
        BY <4>3, <4>6
      <4> QED BY <4>6, <4>7 DEF RecordsOf
    <3>2. ASSUME NEW r \in RecordsOf(t) PROVE r \in t.log
      <4>1. PICK k \in Keys : \E i \in 1 .. Len(t.history[k]) :
              r = [seq |-> t.history[k][i].seq, key |-> k]
        BY DEF RecordsOf
      <4>2. PICK i \in 1 .. Len(t.history[k]) : r = [seq |-> t.history[k][i].seq, key |-> k]
        BY <4>1
      <4> DEFINE n == Len(s.history[k])
      <4> PICK c \in 0 .. n :
            /\ \A j \in 1 .. n : Unneeded(s, k, j) <=> j <= c
            /\ Len(t.history[k]) = n - c
            /\ \A j \in 1 .. n - c : t.history[k][j] = s.history[k][j + c]
        BY <1>1, TrimHistory
      <4>3. n \in Nat
        BY <1>1, HistoryType
      <4> HIDE DEF n, t
      <4>4. i + c \in 1 .. n /\ ~(i + c <= c)
        BY <4>3
      <4>5. r = [seq |-> s.history[k][i + c].seq, key |-> k] /\ ~Unneeded(s, k, i + c)
        BY <4>2, <4>4
      <4>6. r \in s.log
        BY <4>4, <4>5, <1>1, LogNames DEF n
      <4>7. r \notin OldLog(s)
        BY <4>5 DEF OldLog, Unneeded
      <4> QED BY <4>6, <4>7, <1>1, TrimFields DEF t
    <3> QED BY <3>1, <3>2
  <2>4. t.histIndex = {k \in Keys : t.history[k] # <<>>}
    BY <2>2, <1>3 DEF Stores
  <2> QED BY <2>1, <2>3, <2>4 DEF AgreeIn
<1>6. Pasts(t)
  BY <1>1, <1>2, TrimFields DEF Pasts
<1>7. Freed(t)
  BY <1>1, <1>2, TrimFields DEF Freed, OldLog
<1>8. ASSUME NEW q \in Pinned(s), NEW k \in Keys PROVE GetAt(t, k, q) = GetAt(s, k, q)
  <2> DEFINE n == Len(s.history[k])
  <2> PICK c \in 0 .. n :
        /\ \A j \in 1 .. n : Unneeded(s, k, j) <=> j <= c
        /\ Len(t.history[k]) = n - c
        /\ \A j \in 1 .. n - c : t.history[k][j] = s.history[k][j + c]
    BY <1>1, TrimHistory
  <2> PICK a \in 0 .. n :
        /\ \A i \in 1 .. n : s.history[k][i].seq <= q <=> i <= a
        /\ a = n => VersionAt(s, k, q) = Live
        /\ a < n => VersionAt(s, k, q) = s.history[k][a + 1].old
    <3>1. q \in Int
      BY <1>1, PinnedType
    <3> QED BY <3>1, <1>1, ReadsAt
  <2>1. n \in Nat /\ q \in Nat /\ \A i \in 1 .. n : s.history[k][i].seq \in Nat
    BY <1>1, HistoryType, PinnedType
  <2>2. c <= a
    <3> SUFFICES ASSUME c > 0 PROVE c <= a
      BY <2>1
    <3>1. c \in 1 .. n /\ Unneeded(s, k, c)
      BY <2>1
    <3> QED BY <3>1 DEF Unneeded
  <2> HIDE DEF n, t
  <2>3. \A j \in 1 .. n - c : t.history[k][j].seq > q <=> j + c > a
    <3> SUFFICES ASSUME NEW j \in 1 .. n - c PROVE t.history[k][j].seq > q <=> j + c > a
      OBVIOUS
    <3>1. j + c \in 1 .. n
      BY <2>1
    <3>2. t.history[k][j] = s.history[k][j + c]
      OBVIOUS
    <3>3. s.history[k][j + c].seq \in Nat /\ (s.history[k][j + c].seq <= q <=> j + c <= a)
      BY <3>1, <2>1
    <3>4. j + c \in Nat /\ a \in Nat
      BY <2>1
    <3>5. s.history[k][j + c].seq > q <=> j + c > a
      BY <3>3, <3>4, <2>1
    <3> QED BY <3>2, <3>5
  <2>4. VersionAt(t, k, q) = VersionAt(s, k, q)
    <3>1. CASE a = n
      <4>1. \A j \in 1 .. Len(t.history[k]) : ~(t.history[k][j].seq > q)
        BY <3>1, <2>1, <2>3
      <4> QED BY <4>1, <3>1, ReadsLive
    <3>2. CASE a < n
      <4>1. PICK i \in 1 .. Len(t.history[k]) : i + c = a + 1
        <5>1. a + 1 - c \in 1 .. Len(t.history[k]) /\ (a + 1 - c) + c = a + 1
          BY <3>2, <2>1, <2>2
        <5> QED BY <5>1
      <4>2. t.history[k][i].seq > q /\ \A j \in 1 .. i - 1 : ~(t.history[k][j].seq > q)
        BY <4>1, <2>1, <2>3
      <4>3. VersionAt(t, k, q) = t.history[k][i].old
        BY <4>2, <2>1, ReadsFirst
      <4> QED BY <4>1, <4>3, <3>2
    <3> QED BY <3>1, <3>2, <2>1
  <2>5. t.live = s.live
    BY <1>1, TrimFields DEF t
  <2> QED BY <2>4, <2>5 DEF GetAt
<1> QED BY <1>3, <1>4, <1>5, <1>6, <1>7, <1>8 DEF Sound

-----------------------------------------------------------------------------
(* Pins.                                                                   *)

Less(m, n) == IF n >= m THEN 0 ELSE m - n

LEMMA LessType ==
    ASSUME NEW m \in Nat, NEW n \in Nat
    PROVE  Less(m, n) \in Nat /\ (Less(m, n) # 0 => m # 0)
BY DEF Less

\* t is s but for its pins, all on a commit there was.
Repinned(t, s) ==
    /\ t.pins \in [Seqs -> Nat]
    /\ t.deferred \in Seq(Tokens)
    /\ \A q \in Seqs : t.pins[q] # 0 => q <= s.seq
    /\ t = [gen |-> s.gen, seq |-> s.seq, live |-> s.live, index |-> s.index,
            history |-> s.history, histIndex |-> s.histIndex, log |-> s.log,
            pins |-> t.pins, deferred |-> t.deferred]

\* Such a store is worth as much.
LEMMA RepinnedKeeps ==
    ASSUME NEW s, NEW t, Sound(s), Repinned(t, s)
    PROVE  /\ Sound(t)
           /\ t.gen = s.gen /\ t.seq = s.seq /\ t.live = s.live /\ t.index = s.index
           /\ t.history = s.history /\ t.histIndex = s.histIndex /\ t.log = s.log
           /\ \A k, q : GetAt(t, k, q) = GetAt(s, k, q)
<1>0. s \in Stores
  BY DEF Sound
<1>1. t = [gen |-> s.gen, seq |-> s.seq, live |-> s.live, index |-> s.index,
           history |-> s.history, histIndex |-> s.histIndex, log |-> s.log,
           pins |-> t.pins, deferred |-> t.deferred]
  BY DEF Repinned
<1>2. /\ t.gen = s.gen /\ t.seq = s.seq /\ t.live = s.live /\ t.index = s.index
      /\ t.history = s.history /\ t.histIndex = s.histIndex /\ t.log = s.log
  BY <1>1
<1>3. [gen |-> s.gen, seq |-> s.seq, live |-> s.live, index |-> s.index,
       history |-> s.history, histIndex |-> s.histIndex, log |-> s.log,
       pins |-> t.pins, deferred |-> t.deferred] \in Stores
  BY <1>0, StoreFields, StoreMade DEF Repinned
<1>4. t \in Stores
  BY <1>1, <1>3
<1>5. AgreeIn(t)
  BY <1>2 DEF Sound, AgreeIn, RecordsOf
<1>6. Ordered(t)
  BY <1>2 DEF Sound, Ordered
<1>7. Pasts(t)
  BY <1>2 DEF Repinned, Pasts, Pinned
<1>8. \A k, q : VersionAt(t, k, q) = VersionAt(s, k, q)
  BY <1>2 DEF VersionAt
<1>9. \A k, q : GetAt(t, k, q) = GetAt(s, k, q)
  BY <1>2, <1>8 DEF GetAt
<1> QED BY <1>2, <1>4, <1>5, <1>6, <1>7, <1>9 DEF Sound

LEMMA WaitingType ==
    ASSUME NEW s \in Stores, NEW q
    PROVE  IsFiniteSet(Waiting(s, q)) /\ Cardinality(Waiting(s, q)) \in Nat
<1>1. Len(s.deferred) \in Nat
  BY StoreFields, LenProperties
<1>2. IsFiniteSet(1 .. Len(s.deferred))
  BY <1>1, FS_Interval
<1>3. IsFiniteSet(Waiting(s, q))
  BY <1>2, FS_Subset DEF Waiting
<1> QED BY <1>3, FS_CardinalityType

LEMMA Drains ==
    ASSUME NEW s, Sound(s)
    PROVE  /\ Sound(Drain(s))
           /\ Drain(s).gen = s.gen /\ Drain(s).seq = s.seq
           /\ Drain(s).live = s.live /\ Drain(s).log = s.log
           /\ Drain(s).history = s.history
           /\ Drain(s).deferred = <<>>
           /\ \A q \in Seqs : Drain(s).pins[q] = Less(s.pins[q], Cardinality(Waiting(s, q)))
           /\ \A k, q : GetAt(Drain(s), k, q) = GetAt(s, k, q)
<1> DEFINE pins == [q \in Seqs |-> Less(s.pins[q], Cardinality(Waiting(s, q)))]
<1>0. s \in Stores /\ s.pins \in [Seqs -> Nat] /\ <<>> \in Seq(Tokens)
  BY StoreFields, EmptySeq DEF Sound
<1>1. Drain(s) = [s EXCEPT !.pins = pins, !.deferred = <<>>]
  BY <1>0 DEF Drain, ReleasePins, Waiting, Less, Stores
<1>2. \A q \in Seqs : pins[q] \in Nat /\ (pins[q] # 0 => s.pins[q] # 0)
  <2> TAKE q \in Seqs
  <2>1. s.pins[q] \in Nat /\ Cardinality(Waiting(s, q)) \in Nat
    BY <1>0, WaitingType
  <2> QED BY <2>1, LessType
<1>3. \A q \in Seqs : pins[q] # 0 => q <= s.seq
  BY <1>2 DEF Sound, Pasts, Pinned
<1>4. pins \in [Seqs -> Nat]
  BY <1>2
<1>5. \A q \in Seqs : pins[q] = Less(s.pins[q], Cardinality(Waiting(s, q)))
  OBVIOUS
<1> HIDE DEF pins
<1> PICK t : t = Drain(s)
  OBVIOUS
<1>6. t.pins = pins /\ t.deferred = <<>>
  BY <1>0, <1>1 DEF Stores
<1>7. t = [gen |-> s.gen, seq |-> s.seq, live |-> s.live, index |-> s.index,
           history |-> s.history, histIndex |-> s.histIndex, log |-> s.log,
           pins |-> t.pins, deferred |-> t.deferred]
  BY <1>0, <1>1 DEF Stores
<1>8. Repinned(t, s)
  BY <1>0, <1>3, <1>4, <1>6, <1>7 DEF Repinned
<1> QED BY <1>5, <1>6, <1>8, RepinnedKeeps

LEMMA Releases ==
    ASSUME NEW s, Sound(s), NEW t \in Tokens
    PROVE  /\ Sound(Release(s, t))
           /\ Release(s, t).gen = s.gen /\ Release(s, t).seq = s.seq
           /\ Release(s, t).live = s.live
           /\ Release(s, t).deferred = s.deferred
           /\ \A q \in Seqs : Release(s, t).pins[q] =
                 Less(s.pins[q], IF t = [gen |-> s.gen, seq |-> q] THEN 1 ELSE 0)
           /\ \A k, q : GetAt(Release(s, t), k, q) = GetAt(s, k, q)
<1> DEFINE one(q) == IF t = [gen |-> s.gen, seq |-> q] THEN 1 ELSE 0
           pins == [q \in Seqs |-> Less(s.pins[q], one(q))]
<1>0. s \in Stores /\ s.pins \in [Seqs -> Nat] /\ s.deferred \in Seq(Tokens)
  BY StoreFields DEF Sound
<1>1. t = [gen |-> t.gen, seq |-> t.seq]
  BY DEF Tokens
<1>2. \A q \in Seqs : pins[q] \in Nat /\ (pins[q] # 0 => s.pins[q] # 0)
  <2> TAKE q \in Seqs
  <2>1. s.pins[q] \in Nat /\ one(q) \in Nat
    BY <1>0
  <2> HIDE DEF one
  <2> QED BY <2>1, LessType
<1>3. Release(s, t) = [s EXCEPT !.pins = pins, !.deferred = s.deferred]
  <2>1. CASE t.gen # s.gen
    <3>1. \A q \in Seqs : one(q) = 0
      BY <1>1, <2>1
    <3>2. \A q \in Seqs : pins[q] = s.pins[q]
      BY <3>1, <1>0 DEF Less
    <3>3. pins = s.pins
      BY <3>2, <1>0
    <3> HIDE DEF pins
    <3> QED BY <2>1, <3>3, <1>0 DEF Release, Stores
  <2>2. CASE t.gen = s.gen
    <3>1. \A q \in Seqs : one(q) = IF q = t.seq THEN 1 ELSE 0
      BY <1>1, <2>2
    <3>2. Release(s, t) = [s EXCEPT !.pins = [q \in Seqs |->
              Less(s.pins[q], IF q = t.seq THEN 1 ELSE 0)]]
      BY <2>2 DEF Release, ReleasePins, Less
    <3>3. [q \in Seqs |-> Less(s.pins[q], IF q = t.seq THEN 1 ELSE 0)] = pins
      BY <3>1
    <3> HIDE DEF pins
    <3> QED BY <3>2, <3>3, <1>0 DEF Stores
  <2> QED BY <2>1, <2>2
<1>4. \A q \in Seqs : pins[q] # 0 => q <= s.seq
  BY <1>2 DEF Sound, Pasts, Pinned
<1>5. pins \in [Seqs -> Nat]
  BY <1>2
<1>6. \A q \in Seqs : pins[q] = Less(s.pins[q], one(q))
  OBVIOUS
<1> HIDE DEF pins
<1> PICK u : u = Release(s, t)
  OBVIOUS
<1>7. u.pins = pins /\ u.deferred = s.deferred
  BY <1>0, <1>3 DEF Stores
<1>8. u = [gen |-> s.gen, seq |-> s.seq, live |-> s.live, index |-> s.index,
           history |-> s.history, histIndex |-> s.histIndex, log |-> s.log,
           pins |-> u.pins, deferred |-> u.deferred]
  BY <1>0, <1>3 DEF Stores
<1>9. Repinned(u, s)
  BY <1>0, <1>4, <1>5, <1>7, <1>8 DEF Repinned
<1> QED BY <1>6, <1>7, <1>9, RepinnedKeeps

\* Deferred releases applied: what a pin that is left reads is as before.
LEMMA DrainedKeeps ==
    ASSUME NEW s, Sound(s), s.deferred = <<>> => Freed(s)
    PROVE  /\ Sound(Drained(s)) /\ Freed(Drained(s))
           /\ Drained(s).gen = s.gen /\ Drained(s).seq = s.seq
           /\ Drained(s).live = s.live
           /\ Drained(s).deferred = <<>>
           /\ \A q \in Seqs : Drained(s).pins[q] =
                 Less(s.pins[q], Cardinality(Waiting(s, q)))
           /\ \A q \in Pinned(Drained(s)), k \in Keys :
                 GetAt(Drained(s), k, q) = GetAt(s, k, q)
<1>1. CASE s.deferred = <<>>
  <2>1. \A q : Waiting(s, q) = {}
    <3>1. Len(s.deferred) = 0
      BY <1>1
    <3> QED BY <3>1 DEF Waiting
  <2>2. \A q \in Seqs : s.pins[q] = Less(s.pins[q], Cardinality(Waiting(s, q)))
    <3>1. \A q \in Seqs : s.pins[q] \in Nat
      BY StoreFields DEF Sound
    <3>2. Cardinality({}) = 0
      BY FS_EmptySet
    <3>3. \A q \in Seqs : Cardinality(Waiting(s, q)) = 0
      BY <2>1, <3>2
    <3>4. \A m \in Nat : m = Less(m, 0)
      BY DEF Less
    <3> QED BY <3>1, <3>3, <3>4
  <2> QED BY <1>1, <2>2 DEF Drained
<1>2. CASE s.deferred # <<>>
  <2>1. Drained(s) = Trim(Drain(s))
    BY <1>2 DEF Drained
  <2>2. Sound(Drain(s)) /\ Drain(s) \in Stores
    BY Drains DEF Sound
  <2>3. Sound(Trim(Drain(s))) /\ Freed(Trim(Drain(s)))
    BY <2>2, TrimKeeps
  <2>4. Pinned(Trim(Drain(s))) = Pinned(Drain(s))
    BY <2>2, TrimFields DEF Pinned
  <2>5. \A q \in Pinned(Drain(s)), k \in Keys :
          GetAt(Trim(Drain(s)), k, q) = GetAt(s, k, q)
    BY <2>2, TrimKeeps, Drains
  <2> PICK t : t = Trim(Drain(s))
    OBVIOUS
  <2>6. /\ t.gen = s.gen /\ t.seq = s.seq /\ t.live = s.live /\ t.deferred = <<>>
        /\ t.pins = Drain(s).pins
    BY <2>2, TrimFields, Drains
  <2>7. \A q \in Seqs : Drain(s).pins[q] = Less(s.pins[q], Cardinality(Waiting(s, q)))
    BY Drains
  <2> QED BY <2>1, <2>3, <2>4, <2>5, <2>6, <2>7
<1> QED BY <1>1, <1>2

-----------------------------------------------------------------------------
(* Commits.                                                                *)

NextSeq(s) == s.seq + 1

\* One more version of key k, of what commit seq overwrites.
Grown(s, k, recorded, seq) ==
    IF k \in recorded THEN Append(s.history[k], [seq |-> seq, old |-> s.live[k]])
    ELSE s.history[k]

GrowsTo(g, s, k, recorded, seq) ==
    /\ g \in Seq([seq : Seqs, old : Entries])
    /\ Len(s.history[k]) \in Nat
    /\ \A i \in 1 .. Len(s.history[k]) : g[i] = s.history[k][i]
    /\ k \in recorded => /\ Len(g) = Len(s.history[k]) + 1
                         /\ g[Len(s.history[k]) + 1].seq = seq
                         /\ g[Len(s.history[k]) + 1].old = s.live[k]
    /\ k \notin recorded => g = s.history[k]

LEMMA GrownType ==
    ASSUME NEW s \in Stores, NEW k \in Keys, NEW recorded, NEW seq \in Seqs
    PROVE  GrowsTo(Grown(s, k, recorded, seq), s, k, recorded, seq)
<1> DEFINE h == Grown(s, k, recorded, seq)
           n == Len(s.history[k])
<1>1. s.live[k] \in Entries
  BY StoreFields
<1>2. s.history[k] \in Seq([seq : Seqs, old : Entries]) /\ n \in Nat
  BY HistoryType
<1>3. CASE k \in recorded
  <2> DEFINE e == [seq |-> seq, old |-> s.live[k]]
  <2>1. h = Append(s.history[k], e)
    BY <1>3 DEF Grown
  <2>2. e \in [seq : Seqs, old : Entries]
    BY <1>1
  <2> HIDE DEF e
  <2>3. /\ h \in Seq([seq : Seqs, old : Entries])
        /\ Len(h) = n + 1
        /\ \A i \in 1 .. n : h[i] = s.history[k][i]
        /\ h[n + 1] = e
    BY <1>2, <2>1, <2>2, AppendProperties
  <2>4. e.seq = seq /\ e.old = s.live[k]
    BY DEF e
  <2> QED BY <1>2, <1>3, <2>3, <2>4 DEF GrowsTo
<1>4. CASE k \notin recorded
  BY <1>2, <1>4 DEF Grown, GrowsTo
<1> QED BY <1>3, <1>4

\* t is s with the commit's changes made.
Applies(t, s, ops, changed, recorded) ==
    /\ t.live = [k \in Keys |-> IF k \notin changed THEN s.live[k]
                                ELSE IF ops[k] = Deleted THEN Absent ELSE ops[k]]
    /\ t.index = (s.index \ {k \in changed : ops[k] = Deleted})
                     \cup {k \in changed : ops[k] # Deleted}
    /\ t.history = [k \in Keys |-> Grown(s, k, recorded, NextSeq(s))]
    /\ t.histIndex = s.histIndex \cup recorded
    /\ t.log = s.log \cup [seq : {NextSeq(s)}, key : recorded]
    /\ t = [gen |-> s.gen, seq |-> s.seq, live |-> t.live, index |-> t.index,
            history |-> t.history, histIndex |-> t.histIndex, log |-> t.log,
            pins |-> s.pins, deferred |-> s.deferred]

LEMMA ApplyFields ==
    ASSUME NEW s \in Stores, NEW ops, NEW changed, NEW recorded
    PROVE  Applies(Apply(s, ops, changed, recorded), s, ops, changed, recorded)
<1> DEFINE t == Apply(s, ops, changed, recorded)
<1> DEFINE L == [k \in Keys |-> IF k \notin changed THEN s.live[k]
                                ELSE IF ops[k] = Deleted THEN Absent ELSE ops[k]]
           X == (s.index \ {k \in changed : ops[k] = Deleted})
                     \cup {k \in changed : ops[k] # Deleted}
           H == [k \in Keys |-> Grown(s, k, recorded, NextSeq(s))]
           G == s.log \cup [seq : {NextSeq(s)}, key : recorded]
<1>1. t = [s EXCEPT !.live = L, !.index = X, !.history = H,
                    !.histIndex = s.histIndex \cup recorded, !.log = G]
  BY DEF Apply, Grown, NextSeq
<1> HIDE DEF t, L, X, H, G
<1>2. t = [gen |-> s.gen, seq |-> s.seq, live |-> L, index |-> X, history |-> H,
           histIndex |-> s.histIndex \cup recorded, log |-> G,
           pins |-> s.pins, deferred |-> s.deferred]
  BY <1>1 DEF Stores
<1>3. /\ t.gen = s.gen /\ t.seq = s.seq /\ t.pins = s.pins /\ t.deferred = s.deferred
      /\ t.live = L /\ t.index = X /\ t.history = H
      /\ t.histIndex = s.histIndex \cup recorded /\ t.log = G
  BY <1>2
<1>4. t = [gen |-> s.gen, seq |-> s.seq, live |-> t.live, index |-> t.index,
           history |-> t.history, histIndex |-> t.histIndex, log |-> t.log,
           pins |-> s.pins, deferred |-> s.deferred]
  BY <1>2, <1>3
<1> QED BY <1>3, <1>4 DEF Applies, t, L, X, H, G

RecordedIn(s, ops) == {k \in Effective(s, ops) : Records(s, k)}
AppliedTo(s, ops)  == Apply(s, ops, Effective(s, ops), RecordedIn(s, ops))
CommitOf(s, ops)   == [AppliedTo(s, ops) EXCEPT !.seq = @ + 1]

\* A commit keeps the store sound, makes every staged change, and leaves what every
\* pin reads.
LEMMA CommitKeeps ==
    ASSUME NEW s, Sound(s), Freed(s), NEW ops \in WriteSets, s.seq < MaxSeq,
           NEW t, t = CommitOf(s, ops)
    PROVE  /\ Sound(t) /\ Freed(t)
           /\ t.gen = s.gen /\ t.seq = s.seq + 1
           /\ t.pins = s.pins /\ t.deferred = s.deferred
           /\ t.live = [k \in Keys |-> IF ops[k] = None THEN s.live[k]
                                       ELSE IF ops[k] = Deleted THEN Absent ELSE ops[k]]
           /\ \A q \in Pinned(s), k \in Keys : GetAt(t, k, q) = GetAt(s, k, q)
<1> PICK seq : seq = NextSeq(s)
  OBVIOUS
<1> PICK changed : changed = Effective(s, ops)
  OBVIOUS
<1> PICK recorded : recorded = RecordedIn(s, ops)
  OBVIOUS
<1> PICK a : a = AppliedTo(s, ops)
  OBVIOUS
<1>1. s \in Stores /\ AgreeIn(s) /\ Ordered(s) /\ Pasts(s)
  BY DEF Sound
<1>0. seq = s.seq + 1
  BY DEF NextSeq
<1>2. seq \in Seqs /\ seq \in Nat /\ s.seq \in Nat
  BY <1>0, <1>1, StoreFields, BoundsAssumption DEF Seqs
<1>3. changed \in SUBSET Keys /\ recorded \in SUBSET changed
  BY DEF Effective, RecordedIn
<1>3a. Applies(a, s, ops, changed, recorded)
  BY <1>1, ApplyFields DEF AppliedTo
<1>4. t = [gen |-> s.gen, seq |-> seq, live |-> a.live, index |-> a.index,
           history |-> a.history, histIndex |-> a.histIndex, log |-> a.log,
           pins |-> s.pins, deferred |-> s.deferred]
  <2>1. a = [gen |-> s.gen, seq |-> s.seq, live |-> a.live, index |-> a.index,
             history |-> a.history, histIndex |-> a.histIndex, log |-> a.log,
             pins |-> s.pins, deferred |-> s.deferred]
    BY <1>3a DEF Applies
  <2>2. t = [a EXCEPT !.seq = a.seq + 1]
    BY DEF CommitOf
  <2>3. a.seq = s.seq
    BY <2>1
  <2>4. t = [a EXCEPT !.seq = seq]
    BY <1>0, <2>2, <2>3
  <2> QED BY <2>1, <2>4
<1>5. /\ t.gen = s.gen /\ t.seq = seq /\ t.pins = s.pins /\ t.deferred = s.deferred
      /\ t.live = [k \in Keys |-> IF k \notin changed THEN s.live[k]
                                  ELSE IF ops[k] = Deleted THEN Absent ELSE ops[k]]
      /\ t.index = (s.index \ {k \in changed : ops[k] = Deleted})
                       \cup {k \in changed : ops[k] # Deleted}
      /\ t.history = [k \in Keys |-> Grown(s, k, recorded, seq)]
      /\ t.histIndex = s.histIndex \cup recorded
      /\ t.log = s.log \cup [seq : {seq}, key : recorded]
  <2>1. /\ a.live = [k \in Keys |-> IF k \notin changed THEN s.live[k]
                                  ELSE IF ops[k] = Deleted THEN Absent ELSE ops[k]]
        /\ a.index = (s.index \ {k \in changed : ops[k] = Deleted})
                         \cup {k \in changed : ops[k] # Deleted}
        /\ a.history = [k \in Keys |-> Grown(s, k, recorded, seq)]
        /\ a.histIndex = s.histIndex \cup recorded
        /\ a.log = s.log \cup [seq : {seq}, key : recorded]
    BY <1>3a DEF Applies
  <2>2. /\ t.gen = s.gen /\ t.seq = seq /\ t.pins = s.pins /\ t.deferred = s.deferred
        /\ t.live = a.live /\ t.index = a.index /\ t.history = a.history
        /\ t.histIndex = a.histIndex /\ t.log = a.log
    BY <1>4
  <2> QED BY <2>1, <2>2
<1>6. \A k \in changed : ops[k] \in Values \cup {Deleted} /\ ops[k] # None
  BY <1>3 DEF WriteSets, Effective
<1>7. t.live = [k \in Keys |-> IF ops[k] = None THEN s.live[k]
                               ELSE IF ops[k] = Deleted THEN Absent ELSE ops[k]]
  <2>1. \A k \in Keys : k \notin changed =>
          ops[k] = None \/ (ops[k] = Deleted /\ s.live[k] = Absent)
    BY DEF Effective
  <2>2. \A k \in Keys : t.live[k] = IF ops[k] = None THEN s.live[k]
                                    ELSE IF ops[k] = Deleted THEN Absent ELSE ops[k]
    BY <1>5, <1>6, <2>1, ValuesAssumption
  <2> QED BY <1>5, <2>2
<1>8. \A k \in Keys :
        /\ t.history[k] \in Seq([seq : Seqs, old : Entries])
        /\ Len(s.history[k]) \in Nat
        /\ \A i \in 1 .. Len(s.history[k]) : t.history[k][i] = s.history[k][i]
        /\ k \in recorded => /\ Len(t.history[k]) = Len(s.history[k]) + 1
                             /\ t.history[k][Len(s.history[k]) + 1].seq = seq
                             /\ t.history[k][Len(s.history[k]) + 1].old = s.live[k]
        /\ k \notin recorded => t.history[k] = s.history[k]
  <2> SUFFICES ASSUME NEW k \in Keys
               PROVE  /\ t.history[k] \in Seq([seq : Seqs, old : Entries])
                      /\ Len(s.history[k]) \in Nat
                      /\ \A i \in 1 .. Len(s.history[k]) : t.history[k][i] = s.history[k][i]
                      /\ k \in recorded =>
                            /\ Len(t.history[k]) = Len(s.history[k]) + 1
                            /\ t.history[k][Len(s.history[k]) + 1].seq = seq
                            /\ t.history[k][Len(s.history[k]) + 1].old = s.live[k]
                      /\ k \notin recorded => t.history[k] = s.history[k]
    OBVIOUS
  <2> PICK g : g = Grown(s, k, recorded, seq)
    OBVIOUS
  <2>1. seq \in Seqs
    BY <1>2
  <2>2. GrowsTo(g, s, k, recorded, seq)
    BY <1>1, <2>1, GrownType
  <2>3. t.history[k] = g
    BY <1>5
  <2> QED BY <2>2, <2>3 DEF GrowsTo
<1>9. t \in Stores
  <2>1. t.live \in [Keys -> Entries]
    <3>1. \A k \in Keys : s.live[k] \in Entries
      BY <1>1, StoreFields
    <3>2. \A k \in Keys : t.live[k] \in Entries
      BY <1>5, <1>6, <3>1 DEF Entries
    <3> QED BY <1>5, <3>2
  <2>2. t.index \in SUBSET Keys /\ t.histIndex \in SUBSET Keys
    BY <1>1, <1>3, <1>5, StoreFields
  <2>3. t.history \in [Keys -> Seq([seq : Seqs, old : Entries])]
    BY <1>5, <1>8
  <2>4. t.log \in SUBSET [seq : Seqs, key : Keys]
    <3>1. [seq : {seq}, key : recorded] \in SUBSET [seq : Seqs, key : Keys]
      BY <1>2, <1>3
    <3> QED BY <1>1, <1>5, <3>1, StoreFields
  <2>5. /\ s.gen \in 0 .. MaxGen /\ s.pins \in [Seqs -> Nat] /\ s.deferred \in Seq(Tokens)
    BY <1>1, StoreFields
  <2>6. t = [gen |-> s.gen, seq |-> seq, live |-> t.live, index |-> t.index,
             history |-> t.history, histIndex |-> t.histIndex, log |-> t.log,
             pins |-> s.pins, deferred |-> s.deferred]
    BY <1>4
  <2>7. [gen |-> s.gen, seq |-> seq, live |-> t.live, index |-> t.index,
         history |-> t.history, histIndex |-> t.histIndex, log |-> t.log,
         pins |-> s.pins, deferred |-> s.deferred] \in Stores
    BY <1>2, <2>1, <2>2, <2>3, <2>4, <2>5, StoreMade
  <2> QED BY <2>6, <2>7
<1>10. Pinned(t) = Pinned(s)
  BY <1>5 DEF Pinned

<1>11. Ordered(t)
  <2> SUFFICES ASSUME NEW k \in Keys
               PROVE  /\ \A i, j \in 1 .. Len(t.history[k]) :
                            i < j => t.history[k][i].seq < t.history[k][j].seq
                      /\ \A i \in 1 .. Len(t.history[k]) : t.history[k][i].seq <= t.seq
    BY DEF Ordered
  <2> DEFINE n == Len(s.history[k])
             h == t.history[k]
  <2>1. n \in Nat /\ \A i \in 1 .. n : s.history[k][i].seq \in Nat
    BY <1>1, HistoryType
  <2>2. /\ \A i, j \in 1 .. n : i < j => s.history[k][i].seq < s.history[k][j].seq
        /\ \A i \in 1 .. n : s.history[k][i].seq <= s.seq
    BY <1>1 DEF Ordered
  <2>3. \A i \in 1 .. n : h[i] = s.history[k][i]
    BY <1>8
  <2>4. t.seq = s.seq + 1
    BY <1>0, <1>5
  <2>5. CASE k \in recorded
    <3>1. Len(h) = n + 1 /\ h[n + 1].seq = s.seq + 1
      BY <1>0, <1>8, <2>5
    <3> HIDE DEF n, h
    <3>2. \A i \in 1 .. n + 1 : i \in 1 .. n \/ i = n + 1
      BY <2>1
    <3>3. \A i \in 1 .. n : h[i].seq <= s.seq /\ h[i].seq \in Nat
      BY <2>1, <2>2, <2>3
    <3>4. \A i, j \in 1 .. n : i < j => h[i].seq < h[j].seq
      BY <2>2, <2>3
    <3>5. \A i \in 1 .. n : h[i].seq < s.seq + 1
      BY <3>3, <1>2
    <3>6. \A i, j \in 1 .. n + 1 : i < j => h[i].seq < h[j].seq
      BY <2>1, <3>1, <3>2, <3>4, <3>5
    <3>7. \A i \in 1 .. n + 1 : h[i].seq <= s.seq + 1
      BY <3>1, <3>2, <3>3, <1>2
    <3> QED BY <3>1, <3>6, <3>7, <2>4 DEF h
  <2>6. CASE k \notin recorded
    <3>1. h = s.history[k]
      BY <1>8, <2>6
    <3>2. \A i \in 1 .. n : s.history[k][i].seq <= t.seq
      BY <2>1, <2>2, <2>4, <1>2
    <3> QED BY <2>2, <3>1, <3>2
  <2> QED BY <2>5, <2>6
<1>12. AgreeIn(t)
  <2>1. t.index = {k \in Keys : t.live[k] # Absent}
    <3>1. s.index = {k \in Keys : s.live[k] # Absent}
      BY <1>1 DEF AgreeIn
    <3>2. \A k \in Keys : k \in t.index <=> t.live[k] # Absent
      <4> TAKE k \in Keys
      <4>1. CASE k \notin changed
        BY <4>1, <3>1, <1>5
      <4>2. CASE k \in changed
        <5>1. ops[k] = Deleted \/ ops[k] \in Values
          BY <4>2, <1>6
        <5>2. Absent \notin Values /\ Deleted \notin Values
          BY ValuesAssumption
        <5>3. t.live[k] = IF ops[k] = Deleted THEN Absent ELSE ops[k]
          BY <4>2, <1>5
        <5>4. k \in t.index <=> ops[k] # Deleted
          BY <4>2, <1>5
        <5> QED BY <5>1, <5>2, <5>3, <5>4
      <4> QED BY <4>1, <4>2
    <3>3. t.index \in SUBSET Keys
      BY <1>9, StoreFields
    <3> QED BY <3>2, <3>3
  <2>2. t.histIndex = {k \in Keys : t.history[k] # <<>>}
    <3>1. s.histIndex = {k \in Keys : s.history[k] # <<>>}
      BY <1>1 DEF AgreeIn
    <3>2. \A k \in Keys : k \in t.histIndex <=> t.history[k] # <<>>
      <4> TAKE k \in Keys
      <4>1. CASE k \notin recorded
        BY <4>1, <3>1, <1>5, <1>8
      <4>2. CASE k \in recorded
        <5>1. Len(t.history[k]) = Len(s.history[k]) + 1 /\ Len(s.history[k]) \in Nat
          BY <4>2, <1>8
        <5>2. Len(t.history[k]) # 0
          BY <5>1
        <5>3. t.history[k] # <<>>
          BY <5>2
        <5> QED BY <4>2, <5>3, <1>5
      <4> QED BY <4>1, <4>2
    <3>3. t.histIndex \in SUBSET Keys
      BY <1>9, StoreFields
    <3> QED BY <3>2, <3>3
  <2>3. t.log = RecordsOf(t)
    <3>1. ASSUME NEW r \in t.log PROVE r \in RecordsOf(t)
      <4>1. CASE r \in s.log
        <5>1. PICK k \in Keys : \E i \in 1 .. Len(s.history[k]) :
                r = [seq |-> s.history[k][i].seq, key |-> k]
          BY <4>1, <1>1, LogNames
        <5>2. PICK i \in 1 .. Len(s.history[k]) :
                r = [seq |-> s.history[k][i].seq, key |-> k]
          BY <5>1
        <5>3. Len(s.history[k]) \in Nat
          BY <1>8
        <5>4. Len(t.history[k]) = Len(s.history[k]) \/ Len(t.history[k]) = Len(s.history[k]) + 1
          BY <1>8
        <5>5. i \in 1 .. Len(t.history[k])
          BY <5>3, <5>4
        <5>6. r = [seq |-> t.history[k][i].seq, key |-> k]
          BY <5>2, <1>8
        <5> QED BY <5>5, <5>6, RecordIn
      <4>2. CASE r \in [seq : {seq}, key : recorded]
        <5>1. PICK k \in recorded : r = [seq |-> seq, key |-> k]
          BY <4>2
        <5>2. k \in Keys
          BY <1>3
        <5>3. /\ Len(t.history[k]) = Len(s.history[k]) + 1
              /\ Len(s.history[k]) \in Nat
              /\ t.history[k][Len(s.history[k]) + 1].seq = seq
          BY <5>2, <1>8
        <5>4. Len(s.history[k]) + 1 \in 1 .. Len(t.history[k])
          BY <5>3
        <5>5. [seq |-> t.history[k][Len(s.history[k]) + 1].seq, key |-> k] \in RecordsOf(t)
          BY <5>2, <5>4, RecordIn
        <5> QED BY <5>1, <5>3, <5>5
      <4> QED BY <4>1, <4>2, <1>5
    <3>2. ASSUME NEW r \in RecordsOf(t) PROVE r \in t.log
      <4>1. PICK k \in Keys : \E i \in 1 .. Len(t.history[k]) :
              r = [seq |-> t.history[k][i].seq, key |-> k]
        BY DEF RecordsOf
      <4>2. PICK i \in 1 .. Len(t.history[k]) : r = [seq |-> t.history[k][i].seq, key |-> k]
        BY <4>1
      <4>3. CASE i \in 1 .. Len(s.history[k])
        <5>1. r = [seq |-> s.history[k][i].seq, key |-> k]
          BY <4>2, <4>3, <1>8
        <5>2. r \in s.log
          BY <5>1, <4>3, <1>1, LogNames
        <5> QED BY <5>2, <1>5
      <4>4. CASE i \notin 1 .. Len(s.history[k])
        <5>1. k \in recorded
          BY <4>4, <1>8
        <5>2. /\ Len(t.history[k]) = Len(s.history[k]) + 1
              /\ Len(s.history[k]) \in Nat
              /\ t.history[k][Len(s.history[k]) + 1].seq = seq
          BY <5>1, <1>8
        <5>3. i = Len(s.history[k]) + 1
          BY <4>4, <5>2
        <5>4. r = [seq |-> seq, key |-> k]
          BY <4>2, <5>2, <5>3
        <5> QED BY <5>1, <5>4, <1>5
      <4> QED BY <4>3, <4>4
    <3> QED BY <3>1, <3>2
  <2> QED BY <2>1, <2>2, <2>3 DEF AgreeIn
<1>13. Pasts(t)
  <2>1. \A q \in Pinned(s) : q <= s.seq /\ q \in Nat
    BY <1>1, PinnedType DEF Pasts
  <2>2. t.seq = s.seq + 1
    BY <1>0, <1>5
  <2> QED BY <2>1, <2>2, <1>2, <1>10 DEF Pasts
<1>14. Freed(t)
  <2> SUFFICES ASSUME Pinned(s) = {} PROVE t.log = {}
    BY <1>10 DEF Freed
  <2>1. recorded = {}
    BY DEF Records, RecordedIn
  <2>2. s.log = {}
    BY DEF Freed
  <2>3. [seq : {seq}, key : recorded] = {}
    BY <2>1
  <2> QED BY <2>2, <2>3, <1>5
<1>15. ASSUME NEW q \in Pinned(s), NEW k \in Keys PROVE GetAt(t, k, q) = GetAt(s, k, q)
  <2> PICK n : n = Len(s.history[k])
    OBVIOUS
  <2> PICK h : h = t.history[k]
    OBVIOUS
  <2>1. /\ n \in Nat /\ q \in Nat /\ q <= s.seq
        /\ \A i \in 1 .. n : /\ s.history[k][i].seq \in Nat
                             /\ s.history[k][i].old \in Entries
    BY <1>1, HistoryType, PinnedType DEF Pasts
  <2> PICK b \in 0 .. n :
        /\ \A i \in 1 .. n : s.history[k][i].seq <= q <=> i <= b
        /\ b = n => VersionAt(s, k, q) = Live
        /\ b < n => VersionAt(s, k, q) = s.history[k][b + 1].old
    <3>1. q \in Int
      BY <2>1
    <3> QED BY <3>1, <1>1, ReadsAt
  <2>2. Live \notin Entries
    BY ValuesAssumption DEF Entries
  <2>3. /\ \A i \in 1 .. n : h[i] = s.history[k][i]
        /\ k \in recorded => Len(h) = n + 1 /\ h[n + 1].seq = s.seq + 1 /\ h[n + 1].old = s.live[k]
        /\ k \notin recorded => h = s.history[k]
    BY <1>0, <1>8
  <2>4. k \notin changed => t.live[k] = s.live[k]
    BY <1>5
  <2>5. s.live[k] \in Entries
    BY <1>1, StoreFields
  <2>6. k \in changed /\ k \notin recorded => n # 0 /\ s.history[k][n].seq > q
    <3> SUFFICES ASSUME k \in changed, k \notin recorded PROVE n # 0 /\ s.history[k][n].seq > q
      OBVIOUS
    <3>1. s.history[k] # <<>> /\ ~(s.history[k][n].seq <= q)
      BY DEF Records, RecordedIn
    <3>2. n # 0
      BY <3>1, <1>1, HistoryType, EmptySeq
    <3>3. s.history[k][n].seq \in Nat
      BY <2>1, <3>2
    <3> QED BY <3>1, <3>2, <3>3, <2>1
  <2>7. \A i \in 1 .. n : s.history[k][i].seq > q <=> ~(i <= b)
    <3> TAKE i \in 1 .. n
    <3>1. s.history[k][i].seq \in Nat /\ (s.history[k][i].seq <= q <=> i <= b)
      BY <2>1
    <3> QED BY <3>1, <2>1
  <2>11. \A i \in 1 .. n : h[i].seq > q <=> ~(i <= b)
    BY <2>3, <2>7
  <2>12. ASSUME NEW i \in 1 .. Len(h), Len(h) \in Nat, h[i].seq > q,
               \A j \in 1 .. i - 1 : ~(h[j].seq > q)
         PROVE  VersionAt(t, k, q) = h[i].old
    BY <2>12, ReadsFirstOf
  <2>8. b \in Nat
    BY <2>1
  <2>13. Len(h) \in Nat /\ n <= Len(h)
    <3>1. CASE k \in recorded
      <4>1. Len(h) = n + 1
        BY <2>3, <3>1
      <4> QED BY <4>1, <2>1
    <3>2. CASE k \notin recorded
      <4>1. h = s.history[k]
        BY <2>3, <3>2
      <4>2. Len(h) = n
        BY <4>1
      <4> QED BY <4>2, <2>1
    <3> QED BY <3>1, <3>2
  <2>9. CASE b < n
    <3>1. PICK i \in 1 .. n : i = b + 1
      BY <2>9, <2>1, <2>8
    <3>2. Len(h) \in Nat /\ i \in 1 .. Len(h)
      BY <2>1, <2>13
    <3>3. h[i].seq > q /\ \A j \in 1 .. i - 1 : ~(h[j].seq > q)
      BY <2>1, <2>11, <2>8, <3>1
    <3>4. VersionAt(t, k, q) = h[i].old
      BY <3>2, <3>3, <2>12
    <3>5. VersionAt(t, k, q) = VersionAt(s, k, q) /\ VersionAt(s, k, q) # Live
      BY <3>1, <3>4, <2>1, <2>2, <2>3, <2>9
    <3> QED BY <3>5 DEF GetAt
  <2>10. CASE b = n
    <3>1. VersionAt(s, k, q) = Live
      BY <2>10
    <3>2. CASE k \in recorded
      <4>1. PICK i \in 1 .. Len(h) : i = n + 1
        BY <2>1, <2>3, <3>2
      <4>2. Len(h) \in Nat
        BY <2>1, <2>3, <3>2
      <4>3. h[i].seq > q
        <5>1. h[i].seq = s.seq + 1
          BY <2>3, <3>2, <4>1
        <5> QED BY <5>1, <2>1, <1>2
      <4>4. \A j \in 1 .. i - 1 : ~(h[j].seq > q)
        BY <2>1, <2>11, <2>10, <4>1
      <4>5. VersionAt(t, k, q) = s.live[k]
        BY <4>1, <4>2, <4>3, <4>4, <2>3, <3>2, <2>12
      <4> QED BY <4>5, <3>1, <2>2, <2>5 DEF GetAt
    <3>3. CASE k \notin recorded
      <4>1. k \notin changed
        <5> SUFFICES ASSUME k \in changed PROVE FALSE
          OBVIOUS
        <5>1. n \in 1 .. n /\ s.history[k][n].seq > q
          BY <2>1, <2>6, <3>3
        <5> QED BY <5>1, <2>7, <2>10
      <4>2. \A i \in 1 .. Len(h) : ~(h[i].seq > q)
        BY <2>3, <2>7, <2>10, <3>3 
      <4>3. VersionAt(t, k, q) = Live
        BY <4>2, ReadsLive
      <4> QED BY <4>1, <4>3, <3>1, <2>4 DEF GetAt
    <3> QED BY <3>2, <3>3
  <2> QED BY <2>8, <2>9, <2>10, <2>1
<1>16. t.seq = s.seq + 1
  BY <1>0, <1>5
<1> QED BY <1>5, <1>7, <1>9, <1>11, <1>12, <1>13, <1>14, <1>15, <1>16 DEF Sound

\* What a commit that raised undoes is what it did.
LEMMA UndoRestores ==
    ASSUME NEW s, Sound(s), s.seq < MaxSeq, NEW ops, NEW done \in SUBSET Keys, NEW recorded \in SUBSET done,
           NEW a, Applies(a, s, ops, done, recorded)
    PROVE  Undo(a, s.live, done, recorded) = s
<1> DEFINE u == Undo(a, s.live, done, recorded)
           L == [k \in Keys |-> IF k \in done THEN s.live[k] ELSE a.live[k]]
           X == (a.index \ {k \in done : s.live[k] = Absent})
                     \cup {k \in done : s.live[k] # Absent}
           H == [k \in Keys |-> IF k \in recorded THEN SubSeq(a.history[k], 1, Len(a.history[k]) - 1)
                                ELSE a.history[k]]
           J == a.histIndex \ {k \in recorded : Len(a.history[k]) = 1}
           G == {r \in a.log : ~(r.seq = a.seq + 1 /\ r.key \in recorded)}
<1>1. s \in Stores /\ AgreeIn(s) /\ Ordered(s)
  BY DEF Sound
<1>2. a = [gen |-> s.gen, seq |-> s.seq, live |-> a.live, index |-> a.index,
           history |-> a.history, histIndex |-> a.histIndex, log |-> a.log,
           pins |-> s.pins, deferred |-> s.deferred]
  BY DEF Applies
<1>3. u = [gen |-> s.gen, seq |-> s.seq, live |-> L, index |-> X, history |-> H,
           histIndex |-> J, log |-> G, pins |-> s.pins, deferred |-> s.deferred]
  <2>1. u = [a EXCEPT !.live = L, !.index = X, !.history = H, !.histIndex = J, !.log = G]
    BY <1>2 DEF Undo
  <2> HIDE DEF u, L, X, H, J, G
  <2>2. /\ u.gen = a.gen /\ u.seq = a.seq /\ u.pins = a.pins /\ u.deferred = a.deferred
        /\ u.live = L /\ u.index = X /\ u.history = H /\ u.histIndex = J /\ u.log = G
        /\ u = [gen |-> u.gen, seq |-> u.seq, live |-> u.live, index |-> u.index,
                history |-> u.history, histIndex |-> u.histIndex, log |-> u.log,
                pins |-> u.pins, deferred |-> u.deferred]
    BY <1>2, <2>1
  <2>3. a.gen = s.gen /\ a.seq = s.seq /\ a.pins = s.pins /\ a.deferred = s.deferred
    BY <1>2
  <2> QED BY <2>2, <2>3
<1>4. L = s.live
  <2>1. a.live = [k \in Keys |-> IF k \notin done THEN s.live[k]
                                 ELSE IF ops[k] = Deleted THEN Absent ELSE ops[k]]
    BY DEF Applies
  <2>2. \A k \in Keys : L[k] = s.live[k]
    BY <2>1
  <2>3. s.live \in [Keys -> Entries]
    BY <1>1, StoreFields
  <2> QED BY <2>2, <2>3
<1>5. X = s.index
  <2>1. a.index = (s.index \ {k \in done : ops[k] = Deleted})
                      \cup {k \in done : ops[k] # Deleted}
    BY DEF Applies
  <2>2. s.index = {k \in Keys : s.live[k] # Absent}
    BY <1>1 DEF AgreeIn
  <2> QED BY <2>1, <2>2
<1>6. \A k \in Keys : GrowsTo(a.history[k], s, k, recorded, NextSeq(s))
  <2> TAKE k \in Keys
  <2>1. a.history[k] = Grown(s, k, recorded, NextSeq(s))
    BY DEF Applies
  <2>2. NextSeq(s) \in Seqs
    <3>1. s.seq \in Nat
      BY <1>1, StoreFields
    <3> QED BY <3>1, BoundsAssumption DEF NextSeq, Seqs
  <2> QED BY <1>1, <2>1, <2>2, GrownType
<1>7. H = s.history
  <2>1. ASSUME NEW k \in Keys PROVE H[k] = s.history[k]
    <3>1. CASE k \notin recorded
      BY <3>1, <1>6 DEF GrowsTo
    <3>2. CASE k \in recorded
      <4> DEFINE n == Len(s.history[k])
                 g == a.history[k]
                 h == SubSeq(g, 1, Len(g) - 1)
      <4>1. /\ g \in Seq([seq : Seqs, old : Entries])
            /\ n \in Nat
            /\ \A i \in 1 .. n : g[i] = s.history[k][i]
            /\ Len(g) = n + 1
        BY <3>2, <1>6 DEF GrowsTo
      <4>2. H[k] = h
        BY <3>2
      <4>3. s.history[k] \in Seq([seq : Seqs, old : Entries])
        BY <1>1, HistoryType
      <4> HIDE DEF g, n
      <4>4. 1 \in Int /\ Len(g) - 1 \in Int /\ Len(g) - 1 = n
        BY <4>1
      <4>5. \A i \in 1 .. Len(g) - 1 : g[i] \in [seq : Seqs, old : Entries]
        <5>1. \A i \in 1 .. Len(g) - 1 : i \in 1 .. Len(g)
          BY <4>1
        <5>2. \A i \in 1 .. Len(g) : g[i] \in [seq : Seqs, old : Entries]
          BY <4>1, ElementOfSeq
        <5> QED BY <5>1, <5>2
      <4>6. /\ h \in Seq([seq : Seqs, old : Entries])
            /\ Len(h) = IF 1 <= Len(g) - 1 THEN Len(g) - 1 - 1 + 1 ELSE 0
            /\ \A i \in 1 .. Len(g) - 1 - 1 + 1 : h[i] = g[1 + i - 1]
        BY <4>4, <4>5, SubSeqProperties
      <4>7. Len(h) = n
        BY <4>1, <4>4, <4>6
      <4>8. \A i \in 1 .. n : h[i] = g[i]
        <5> SUFFICES ASSUME NEW i \in 1 .. n PROVE h[i] = g[i]
          OBVIOUS
        <5>1. i \in 1 .. Len(g) - 1 - 1 + 1 /\ 1 + i - 1 = i
          BY <4>1, <4>4
        <5> QED BY <5>1, <4>6
      <4> HIDE DEF h
      <4>9. h = s.history[k]
        BY <4>1, <4>3, <4>6, <4>7, <4>8, SeqEqual DEF n
      <4> QED BY <4>2, <4>9
    <3> QED BY <3>1, <3>2
  <2>2. s.history \in [Keys -> Seq([seq : Seqs, old : Entries])]
    BY <1>1, StoreFields
  <2> QED BY <2>1, <2>2
<1>8. J = s.histIndex
  <2>1. a.histIndex = s.histIndex \cup recorded
    BY DEF Applies
  <2>2. \A k \in recorded : Len(a.history[k]) = 1 <=> s.history[k] = <<>>
    <3> TAKE k \in recorded
    <3>1. Len(a.history[k]) = Len(s.history[k]) + 1 /\ Len(s.history[k]) \in Nat
      BY <1>6 DEF GrowsTo
    <3>2. s.history[k] = <<>> <=> Len(s.history[k]) = 0
      BY <1>1, HistoryType, EmptySeq
    <3> QED BY <3>1, <3>2
  <2>3. s.histIndex = {k \in Keys : s.history[k] # <<>>}
    BY <1>1 DEF AgreeIn
  <2> QED BY <2>1, <2>2, <2>3
<1>9. G = s.log
  <2>1. a.log = s.log \cup [seq : {NextSeq(s)}, key : recorded] /\ a.seq = s.seq
    BY <1>2 DEF Applies
  <2>2. \A r \in s.log : r.seq # s.seq + 1
    <3> TAKE r \in s.log
    <3>1. PICK k \in Keys : \E i \in 1 .. Len(s.history[k]) :
            r = [seq |-> s.history[k][i].seq, key |-> k]
      BY <1>1, LogNames
    <3>2. PICK i \in 1 .. Len(s.history[k]) : r = [seq |-> s.history[k][i].seq, key |-> k]
      BY <3>1
    <3>3. s.history[k][i].seq <= s.seq /\ s.history[k][i].seq \in Nat /\ s.seq \in Nat
      BY <1>1, HistoryType, StoreFields DEF Ordered
    <3> QED BY <3>2, <3>3
  <2>3. \A r \in [seq : {NextSeq(s)}, key : recorded] : r.seq = s.seq + 1 /\ r.key \in recorded
    BY DEF NextSeq
  <2> QED BY <2>1, <2>2, <2>3
<1> HIDE DEF u, L, X, H, J, G
<1>10. u = s
  BY <1>1, <1>3, <1>4, <1>5, <1>7, <1>8, <1>9, StoreFields
<1> QED BY <1>10 DEF u

-----------------------------------------------------------------------------
(* The operations of a transaction and of a snapshot.                      *)

LEMMA CommittedIs ==
    ASSUME NEW s, NEW ops
    PROVE  Committed(s, ops) = CommitOf(Drained(s), ops)
BY DEF Committed, CommitOf, AppliedTo, RecordedIn

LEMMA RolledBackIs ==
    ASSUME NEW s, Sound(Drained(s)), Drained(s).seq < MaxSeq, NEW ops,
           NEW before, NEW f \in Keys, NEW entryChanged \in BOOLEAN
    PROVE  RolledBack(s, ops, before, f, entryChanged) = Drained(s)
<1> DEFINE d == Drained(s)
           changed == Effective(d, ops) \cap before
           recorded == {k \in changed : Records(d, k)}
           done == IF entryChanged THEN changed \cup {f} ELSE changed
           a == Apply(d, ops, done, recorded)
<1>1. RolledBack(s, ops, before, f, entryChanged) = Undo(a, d.live, done, recorded)
  BY DEF RolledBack
<1>2. changed \in SUBSET Keys
  BY DEF Effective
<1>3. done \in SUBSET Keys /\ recorded \in SUBSET done
  BY <1>2
<1>4. d \in Stores
  BY DEF Sound
<1> HIDE DEF d, recorded, done
<1>5. Applies(a, d, ops, done, recorded)
  BY <1>4, ApplyFields
<1> HIDE DEF a
<1>6. Undo(a, d.live, done, recorded) = d
  BY <1>3, <1>5, UndoRestores DEF d
<1> QED BY <1>1, <1>6 DEF d

LEMMA PinIs ==
    ASSUME NEW s, Sound(s), NEW t, t = Pin(s)
    PROVE  /\ Sound(t)
           /\ t.gen = s.gen /\ t.seq = s.seq /\ t.live = s.live /\ t.history = s.history
           /\ t.deferred = <<>>
           /\ \A q \in Seqs : t.pins[q] = Less(s.pins[q], Cardinality(Waiting(s, q)))
                                             + IF q = s.seq THEN 1 ELSE 0
           /\ \A k, q : GetAt(t, k, q) = GetAt(s, k, q)
<1> PICK d : d = Drain(s)
  OBVIOUS
<1>1. /\ Sound(d) /\ d \in Stores
      /\ d.gen = s.gen /\ d.seq = s.seq /\ d.live = s.live /\ d.history = s.history
      /\ d.deferred = <<>>
      /\ \A q \in Seqs : d.pins[q] = Less(s.pins[q], Cardinality(Waiting(s, q)))
      /\ \A k, q : GetAt(d, k, q) = GetAt(s, k, q)
  BY Drains DEF Sound
<1>2. t = [d EXCEPT !.pins[d.seq] = d.pins[d.seq] + 1]
  BY DEF Pin
<1>3. /\ d.seq \in Seqs /\ d.seq \in Nat /\ d.pins \in [Seqs -> Nat]
      /\ d.deferred \in Seq(Tokens)
      /\ \A q \in Seqs : d.pins[q] \in Nat
  BY <1>1, StoreFields
<1>4. /\ t.pins = [d.pins EXCEPT ![d.seq] = d.pins[d.seq] + 1]
      /\ t.deferred = d.deferred
      /\ t = [gen |-> d.gen, seq |-> d.seq, live |-> d.live, index |-> d.index,
              history |-> d.history, histIndex |-> d.histIndex, log |-> d.log,
              pins |-> t.pins, deferred |-> t.deferred]
  BY <1>1, <1>2 DEF Stores
<1>5. \A q \in Seqs : t.pins[q] = d.pins[q] + IF q = d.seq THEN 1 ELSE 0
  BY <1>3, <1>4
<1>6. t.pins \in [Seqs -> Nat]
  BY <1>3, <1>4
<1>7. \A q \in Seqs : t.pins[q] # 0 => q <= d.seq
  <2> SUFFICES ASSUME NEW q \in Seqs, t.pins[q] # 0 PROVE q <= d.seq
    OBVIOUS
  <2>1. CASE q = d.seq
    BY <2>1, <1>3
  <2>2. CASE q # d.seq
    <3>1. t.pins[q] = d.pins[q]
      BY <2>2, <1>3, <1>4
    <3> QED BY <3>1, <1>1 DEF Sound, Pasts, Pinned
  <2> QED BY <2>1, <2>2
<1>8. Repinned(t, d)
  BY <1>3, <1>4, <1>6, <1>7 DEF Repinned
<1>9. /\ Sound(t)
      /\ t.gen = d.gen /\ t.seq = d.seq /\ t.live = d.live /\ t.history = d.history
      /\ \A k, q : GetAt(t, k, q) = GetAt(d, k, q)
  BY <1>1, <1>8, RepinnedKeeps
<1>10. \A q \in Seqs : t.pins[q] = Less(s.pins[q], Cardinality(Waiting(s, q)))
                                     + IF q = s.seq THEN 1 ELSE 0
  BY <1>1, <1>5
<1> QED BY <1>1, <1>4, <1>9, <1>10

One(s, t, q) == IF t = [gen |-> s.gen, seq |-> q] THEN 1 ELSE 0

LEMMA UnpinIs ==
    ASSUME NEW s, Sound(s), NEW t \in Tokens, NEW u, u = Unpin(s, t)
    PROVE  /\ Sound(u) /\ Freed(u)
           /\ u.gen = s.gen /\ u.seq = s.seq /\ u.live = s.live
           /\ u.deferred = <<>>
           /\ \A q \in Seqs : u.pins[q] = Less(Less(s.pins[q], One(s, t, q)),
                                               Cardinality(Waiting(s, q)))
           /\ \A q \in Pinned(u), k \in Keys : GetAt(u, k, q) = GetAt(s, k, q)
<1> PICK x : x = Release(s, t)
  OBVIOUS
<1> PICK y : y = Drain(x)
  OBVIOUS
<1>1. /\ Sound(x) /\ x.gen = s.gen /\ x.seq = s.seq /\ x.live = s.live
      /\ x.deferred = s.deferred
      /\ \A q \in Seqs : x.pins[q] = Less(s.pins[q], One(s, t, q))
      /\ \A k, q : GetAt(x, k, q) = GetAt(s, k, q)
  BY Releases DEF One
<1>2. \A q : Waiting(x, q) = Waiting(s, q)
  BY <1>1 DEF Waiting
<1>3. /\ Sound(y) /\ y \in Stores /\ y.gen = x.gen /\ y.seq = x.seq /\ y.live = x.live
      /\ y.deferred = <<>>
      /\ \A q \in Seqs : y.pins[q] = Less(x.pins[q], Cardinality(Waiting(x, q)))
      /\ \A k, q : GetAt(y, k, q) = GetAt(x, k, q)
  BY <1>1, Drains DEF Sound
<1>4. u = Trim(y)
  BY DEF Unpin
<1>5. /\ Sound(u) /\ Freed(u)
      /\ \A q \in Pinned(y), k \in Keys : GetAt(u, k, q) = GetAt(y, k, q)
  BY <1>3, <1>4, TrimKeeps
<1>6. /\ u.gen = y.gen /\ u.seq = y.seq /\ u.live = y.live /\ u.deferred = y.deferred
      /\ u.pins = y.pins
  <2>1. y \in Stores
    BY <1>3
  <2> QED BY <2>1, <1>4, TrimSpares
<1>7. Pinned(u) = Pinned(y)
  BY <1>6 DEF Pinned
<1>8. \A q \in Seqs : u.pins[q] = Less(Less(s.pins[q], One(s, t, q)), Cardinality(Waiting(s, q)))
  BY <1>1, <1>2, <1>3, <1>6
<1> QED BY <1>1, <1>3, <1>5, <1>6, <1>7, <1>8

LEMMA UnpinLaterIs ==
    ASSUME NEW s, Sound(s), NEW t \in Tokens, NEW u, u = UnpinLater(s, t)
    PROVE  /\ Sound(u)
           /\ u.gen = s.gen /\ u.seq = s.seq /\ u.live = s.live /\ u.pins = s.pins
           /\ u.deferred = Append(s.deferred, t)
           /\ \A k, q : GetAt(u, k, q) = GetAt(s, k, q)
<1>1. s \in Stores /\ s.pins \in [Seqs -> Nat] /\ s.deferred \in Seq(Tokens)
  BY StoreFields DEF Sound
<1>2. Append(s.deferred, t) \in Seq(Tokens)
  BY <1>1, AppendProperties
<1>3. u = [s EXCEPT !.deferred = Append(s.deferred, t)]
  BY DEF UnpinLater
<1>4. u.pins = s.pins /\ u.deferred = Append(s.deferred, t)
      /\ u = [gen |-> s.gen, seq |-> s.seq, live |-> s.live, index |-> s.index,
              history |-> s.history, histIndex |-> s.histIndex, log |-> s.log,
              pins |-> u.pins, deferred |-> u.deferred]
  BY <1>1, <1>3 DEF Stores
<1>5. \A q \in Seqs : u.pins[q] # 0 => q <= s.seq
  BY <1>4 DEF Sound, Pasts, Pinned
<1>6. Repinned(u, s)
  BY <1>1, <1>2, <1>4, <1>5 DEF Repinned
<1> QED BY <1>4, <1>6, RepinnedKeeps

-----------------------------------------------------------------------------
(* Counting pins.                                                          *)

LEMMA HoldingType ==
    ASSUME NEW s, NEW tok, NEW q
    PROVE  IsFiniteSet(Holding(s, tok, q)) /\ Cardinality(Holding(s, tok, q)) \in Nat
<1>1. IsFiniteSet(Holding(s, tok, q))
  BY ReadersAssumption, FS_Subset DEF Holding
<1> QED BY <1>1, FS_CardinalityType

LEMMA NoneWait ==
    ASSUME NEW s, s.deferred = <<>>, NEW q
    PROVE  Cardinality(Waiting(s, q)) = 0
<1>1. Waiting(s, q) = {}
  BY DEF Waiting
<1> QED BY <1>1, FS_EmptySet

\* A snapshot of this generation has its commit pinned.
LEMMA HeldIsPinned ==
    ASSUME NEW s \in Stores, NEW tok \in [Readers -> Tokens \cup {None}], Exact(s, tok),
           NEW r \in Readers, tok[r] # None, tok[r].gen = s.gen
    PROVE  tok[r].seq \in Pinned(s)
<1> DEFINE q == tok[r].seq
           H == Holding(s, tok, q)
<1>1. tok[r] = [gen |-> s.gen, seq |-> q] /\ q \in Seqs
  BY DEF Tokens
<1>2. r \in H
  BY <1>1 DEF Holding
<1>3. IsFiniteSet(H) /\ Cardinality(H) \in Nat
  BY HoldingType
<1>4. Cardinality(H) # 0
  BY <1>2, <1>3, FS_EmptySet
<1>5. Cardinality(Waiting(s, q)) \in Nat
  BY WaitingType
<1>6. s.pins[q] = Cardinality(H) + Cardinality(Waiting(s, q))
  BY <1>1 DEF Exact
<1> HIDE DEF q, H
<1>7. s.pins[q] # 0
  BY <1>3, <1>4, <1>5, <1>6
<1> QED BY <1>1, <1>7 DEF Pinned, q

\* Without those that waited, the pins are the open snapshots'.
LEMMA ExactDrained ==
    ASSUME NEW s \in Stores, NEW tok, Exact(s, tok),
           NEW t, t.gen = s.gen, t.deferred = <<>>,
           \A q \in Seqs : t.pins[q] = Less(s.pins[q], Cardinality(Waiting(s, q)))
    PROVE  Exact(t, tok)
<1> SUFFICES ASSUME NEW q \in Seqs
             PROVE  t.pins[q] = Cardinality(Holding(t, tok, q)) + Cardinality(Waiting(t, q))
  BY DEF Exact
<1> PICK w : w = Cardinality(Waiting(s, q))
  OBVIOUS
<1> PICK h : h = Cardinality(Holding(s, tok, q))
  OBVIOUS
<1>1. w \in Nat /\ h \in Nat
  BY WaitingType, HoldingType
<1>2. s.pins[q] = h + w
  BY DEF Exact
<1>3. Cardinality(Holding(t, tok, q)) = h
  BY DEF Holding
<1>4. t.pins[q] = Less(s.pins[q], w)
  OBVIOUS
<1>5. t.pins[q] = h
  BY <1>1, <1>2, <1>4 DEF Less
<1>6. Cardinality(Waiting(t, q)) = 0
  BY NoneWait
<1> QED BY <1>1, <1>3, <1>5, <1>6

LEMMA ExactOpened ==
    ASSUME NEW s \in Stores, NEW tok \in [Readers -> Tokens \cup {None}], Exact(s, tok),
           NEW r \in Readers, tok[r] = None,
           NEW t, t.gen = s.gen, t.deferred = <<>>,
           \A q \in Seqs : t.pins[q] = Less(s.pins[q], Cardinality(Waiting(s, q)))
                                          + IF q = s.seq THEN 1 ELSE 0,
           NEW tok2, tok2 = [tok EXCEPT ![r] = [gen |-> s.gen, seq |-> s.seq]]
    PROVE  Exact(t, tok2)
<1> SUFFICES ASSUME NEW q \in Seqs
             PROVE  t.pins[q] = Cardinality(Holding(t, tok2, q)) + Cardinality(Waiting(t, q))
  BY DEF Exact
<1> DEFINE w == Cardinality(Waiting(s, q))
           h == Cardinality(Holding(s, tok, q))
           g == Cardinality(Holding(t, tok2, q))
<1>1. w \in Nat /\ h \in Nat /\ IsFiniteSet(Holding(s, tok, q))
  BY WaitingType, HoldingType
<1>2. s.pins[q] = h + w
  BY DEF Exact
<1>3. r \notin Holding(s, tok, q)
  <2>1. [gen |-> s.gen, seq |-> q] \in Tokens
    BY StoreFields DEF Tokens
  <2> QED BY <2>1, NoneAssumption DEF Holding
<1>4. g = h + IF q = s.seq THEN 1 ELSE 0
  <2> PICK H : H = Holding(s, tok, q)
    OBVIOUS
  <2>1. CASE q = s.seq
    <3>1. Holding(t, tok2, q) = H \cup {r}
      BY <2>1 DEF Holding
    <3>2. IsFiniteSet(H) /\ r \notin H /\ Cardinality(H) = h
      BY <1>1, <1>3
    <3>3. Cardinality(H \cup {r}) = h + 1
      BY <3>2, FS_AddElement
    <3> QED BY <2>1, <3>1, <3>3
  <2>2. CASE q # s.seq
    <3>1. Holding(t, tok2, q) = H
      BY <2>2, <1>3 DEF Holding
    <3> QED BY <2>2, <3>1, <1>1
  <2> QED BY <2>1, <2>2
<1>5. t.pins[q] = Less(s.pins[q], w) + IF q = s.seq THEN 1 ELSE 0
  OBVIOUS
<1>6. Cardinality(Waiting(t, q)) = 0
  BY NoneWait
<1> HIDE DEF w, h, g
<1>7. Less(s.pins[q], w) = h
  BY <1>1, <1>2 DEF Less
<1>8. t.pins[q] = g /\ g \in Nat
  BY <1>1, <1>4, <1>5, <1>7
<1> QED BY <1>6, <1>8 DEF g

\* One that closes gives up its own pin.
LEMMA HoldingClosed ==
    ASSUME NEW s \in Stores, NEW tok \in [Readers -> Tokens \cup {None}],
           NEW r \in Readers, tok[r] # None, NEW q \in Seqs,
           NEW tok2, tok2 = [tok EXCEPT ![r] = None]
    PROVE  /\ Cardinality(Holding(s, tok, q)) = Cardinality(Holding(s, tok2, q)) + One(s, tok[r], q)
           /\ Cardinality(Holding(s, tok2, q)) \in Nat
<1> DEFINE G == Holding(s, tok2, q)
<1>1. IsFiniteSet(G) /\ Cardinality(G) \in Nat
  BY HoldingType
<1>2. r \notin G
  <2>1. [gen |-> s.gen, seq |-> q] \in Tokens
    BY StoreFields DEF Tokens
  <2> QED BY <2>1, NoneAssumption DEF Holding
<1>3. CASE tok[r] = [gen |-> s.gen, seq |-> q]
  <2>1. Holding(s, tok, q) = G \cup {r}
    BY <1>2, <1>3 DEF Holding
  <2>2. Cardinality(G \cup {r}) = Cardinality(G) + 1
    BY <1>1, <1>2, FS_AddElement
  <2> QED BY <1>1, <1>3, <2>1, <2>2 DEF One
<1>4. CASE tok[r] # [gen |-> s.gen, seq |-> q]
  <2>1. Holding(s, tok, q) = G
    BY <1>2, <1>4 DEF Holding
  <2> QED BY <1>1, <1>4, <2>1 DEF One
<1> QED BY <1>3, <1>4

LEMMA ExactClosed ==
    ASSUME NEW s \in Stores, NEW tok \in [Readers -> Tokens \cup {None}], Exact(s, tok),
           NEW r \in Readers, tok[r] # None,
           NEW t, t.gen = s.gen, t.deferred = <<>>,
           \A q \in Seqs : t.pins[q] = Less(Less(s.pins[q], One(s, tok[r], q)),
                                            Cardinality(Waiting(s, q))),
           NEW tok2, tok2 = [tok EXCEPT ![r] = None]
    PROVE  Exact(t, tok2)
<1> SUFFICES ASSUME NEW q \in Seqs
             PROVE  t.pins[q] = Cardinality(Holding(t, tok2, q)) + Cardinality(Waiting(t, q))
  BY DEF Exact
<1> DEFINE w == Cardinality(Waiting(s, q))
           h == Cardinality(Holding(s, tok, q))
           g == Cardinality(Holding(s, tok2, q))
           o == One(s, tok[r], q)
<1>1. w \in Nat /\ o \in {0, 1}
  BY WaitingType DEF One
<1>2. s.pins[q] = h + w
  BY DEF Exact
<1>3. h = g + o /\ g \in Nat
  BY HoldingClosed
<1>4. t.pins[q] = Less(Less(s.pins[q], o), w)
  OBVIOUS
<1>5. Cardinality(Holding(t, tok2, q)) = g
  BY DEF Holding
<1>6. Cardinality(Waiting(t, q)) = 0
  BY NoneWait
<1> HIDE DEF w, h, g, o
<1>7. Less(s.pins[q], o) = g + w
  BY <1>1, <1>2, <1>3 DEF Less
<1>8. Less(g + w, w) = g
  BY <1>1, <1>3 DEF Less
<1> QED BY <1>3, <1>4, <1>5, <1>6, <1>7, <1>8

\* One that is collected leaves its pin to wait.
LEMMA ExactDropped ==
    ASSUME NEW s \in Stores, NEW tok \in [Readers -> Tokens \cup {None}], Exact(s, tok),
           NEW r \in Readers, tok[r] # None,
           NEW t, t.gen = s.gen, t.pins = s.pins, t.deferred = Append(s.deferred, tok[r]),
           NEW tok2, tok2 = [tok EXCEPT ![r] = None]
    PROVE  Exact(t, tok2)
<1> SUFFICES ASSUME NEW q \in Seqs
             PROVE  t.pins[q] = Cardinality(Holding(t, tok2, q)) + Cardinality(Waiting(t, q))
  BY DEF Exact
<1> DEFINE W == Waiting(s, q)
           h == Cardinality(Holding(s, tok, q))
           g == Cardinality(Holding(s, tok2, q))
           o == One(s, tok[r], q)
           n == Len(s.deferred)
<1>1. Cardinality(W) \in Nat /\ IsFiniteSet(W) /\ o \in {0, 1}
  BY WaitingType DEF One
<1>2. s.pins[q] = h + Cardinality(W)
  BY DEF Exact
<1>3. h = g + o /\ g \in Nat
  BY HoldingClosed
<1>4. Cardinality(Holding(t, tok2, q)) = g
  BY DEF Holding
<1>5. /\ n \in Nat /\ Len(t.deferred) = n + 1
      /\ \A i \in 1 .. n : t.deferred[i] = s.deferred[i]
      /\ t.deferred[n + 1] = tok[r]
  <2>1. s.deferred \in Seq(Tokens) /\ tok[r] \in Tokens
    BY StoreFields
  <2> QED BY <2>1, AppendProperties, LenProperties
<1>6. n + 1 \notin W /\ \A i \in 1 .. n + 1 : i \in 1 .. n \/ i = n + 1
  BY <1>5 DEF Waiting
<1>7. Cardinality(Waiting(t, q)) = Cardinality(W) + o
  <2>1. CASE tok[r] = [gen |-> s.gen, seq |-> q]
    <3>1. Waiting(t, q) = W \cup {n + 1}
      BY <2>1, <1>5, <1>6 DEF Waiting
    <3> HIDE DEF W
    <3>2. Cardinality(W \cup {n + 1}) = Cardinality(W) + 1
      BY <1>1, <1>6, FS_AddElement
    <3> QED BY <2>1, <3>1, <3>2 DEF One
  <2>2. CASE tok[r] # [gen |-> s.gen, seq |-> q]
    <3>1. Waiting(t, q) = W
      BY <2>2, <1>5, <1>6 DEF Waiting
    <3> QED BY <2>2, <3>1, <1>1 DEF One
  <2> QED BY <2>1, <2>2
<1> HIDE DEF W, h, g, o, n
<1> QED BY <1>1, <1>2, <1>3, <1>4, <1>7

-----------------------------------------------------------------------------
(* The invariant is inductive; a step keeps what open snapshots read.      *)

KeepsReads(t, s) ==
    /\ t.gen = s.gen
    /\ \A q \in Pinned(t), k \in Keys : GetAt(t, k, q) = GetAt(s, k, q)

LEMMA EmptyIs ==
    ASSUME NEW gen \in 0 .. MaxGen, NEW s, s = EmptyStore(gen)
    PROVE  /\ Sound(s) /\ Freed(s)
           /\ s.gen = gen /\ s.seq = 0 /\ s.live = [k \in Keys |-> Absent]
           /\ s.pins = [q \in Seqs |-> 0] /\ s.deferred = <<>>
<1>1. /\ s.gen = gen /\ s.seq = 0 /\ s.live = [k \in Keys |-> Absent] /\ s.index = {}
      /\ s.history = [k \in Keys |-> <<>>] /\ s.histIndex = {} /\ s.log = {}
      /\ s.pins = [q \in Seqs |-> 0] /\ s.deferred = <<>>
  BY DEF EmptyStore
<1>2. s \in Stores
  <2>1. 0 \in Seqs
    BY BoundsAssumption DEF Seqs
  <2>2. [k \in Keys |-> Absent] \in [Keys -> Entries]
    BY DEF Entries
  <2>3. [k \in Keys |-> <<>>] \in [Keys -> Seq([seq : Seqs, old : Entries])]
    BY EmptySeq
  <2>4. [q \in Seqs |-> 0] \in [Seqs -> Nat] /\ <<>> \in Seq(Tokens)
    BY EmptySeq
  <2> QED BY <2>1, <2>2, <2>3, <2>4, StoreMade DEF EmptyStore
<1>3. \A k \in Keys : s.history[k] = <<>> /\ Len(s.history[k]) = 0
  BY <1>1
<1>4. AgreeIn(s)
  <2>1. RecordsOf(s) = {}
    BY <1>3 DEF RecordsOf
  <2> QED BY <1>1, <1>3, <2>1 DEF AgreeIn
<1>5. Ordered(s)
  BY <1>3 DEF Ordered
<1>6. Pasts(s) /\ Freed(s)
  BY <1>1 DEF Pasts, Freed, Pinned
<1> QED BY <1>1, <1>2, <1>4, <1>5, <1>6 DEF Sound

LEMMA InitOK == Init => IInv
<1> SUFFICES ASSUME Init PROVE IInv
  OBVIOUS
<1>1. st = EmptyStore(0) /\ token = [r \in Readers |-> None] /\ txn = None
  BY DEF Init
<1>2. 0 \in 0 .. MaxGen
  BY BoundsAssumption
<1>3. /\ Sound(st) /\ Freed(st) /\ st \in Stores
      /\ st.gen = 0 /\ st.pins = [q \in Seqs |-> 0] /\ st.deferred = <<>>
  BY <1>1, <1>2, EmptyIs DEF Sound
<1>4. TypeOK
  BY <1>1, <1>3 DEF TypeOK
<1>5. Exact(st, token)
  <2> SUFFICES ASSUME NEW q \in Seqs
               PROVE  st.pins[q] = Cardinality(Holding(st, token, q))
                                      + Cardinality(Waiting(st, q))
    BY DEF Exact
  <2>1. [gen |-> st.gen, seq |-> q] \in Tokens
    BY <1>2, <1>3 DEF Tokens
  <2>2. Holding(st, token, q) = {}
    BY <1>1, <2>1, NoneAssumption DEF Holding
  <2>3. Cardinality(Holding(st, token, q)) = 0
    BY <2>2, FS_EmptySet
  <2>4. Cardinality(Waiting(st, q)) = 0
    BY <1>3, NoneWait
  <2>5. st.pins[q] = 0
    BY <1>3
  <2> QED BY <2>3, <2>4, <2>5
<1>6. NoneFromTheFuture
  BY <1>1 DEF NoneFromTheFuture
<1> QED BY <1>3, <1>4, <1>5, <1>6 DEF IInv

LEMMA IInvParts ==
    ASSUME IInv
    PROVE  /\ st \in Stores /\ Sound(st) /\ Exact(st, token)
           /\ st.deferred = <<>> => Freed(st)
           /\ token \in [Readers -> Tokens \cup {None}]
           /\ txn \in Txns \cup {None}
           /\ \A r \in Readers : token[r] # None => token[r] \in Tokens /\ token[r].gen <= st.gen
           /\ txn # None => txn \in Txns /\ txn.gen <= st.gen
           /\ st.gen \in 0 .. MaxGen /\ st.gen \in Nat
           /\ st.seq \in Seqs /\ st.seq \in Nat
<1>1. st \in Stores
  BY DEF IInv, Sound
<1> QED BY <1>1, StoreFields DEF IInv, TypeOK, NoneFromTheFuture

LEMMA OpenStep ==
    ASSUME IInv, NEW r \in Readers, OpenSnapshot(r)
    PROVE  IInv' /\ KeepsReads(st', st) /\ st'.live = st.live
<1>1. /\ token[r] = None /\ st' = Pin(st)
      /\ token' = [token EXCEPT ![r] = [gen |-> st.gen, seq |-> st.seq]] /\ txn' = txn
  BY DEF OpenSnapshot
<1>2. /\ Sound(st') /\ st' \in Stores
      /\ st'.gen = st.gen /\ st'.seq = st.seq /\ st'.live = st.live
      /\ st'.deferred = <<>>
      /\ \A q \in Seqs : st'.pins[q] = Less(st.pins[q], Cardinality(Waiting(st, q)))
                                          + IF q = st.seq THEN 1 ELSE 0
      /\ \A k, q : GetAt(st', k, q) = GetAt(st, k, q)
  BY <1>1, PinIs, IInvParts DEF Sound
<1>3. [gen |-> st.gen, seq |-> st.seq] \in Tokens
  BY IInvParts DEF Tokens
<1>4. TypeOK'
  BY <1>1, <1>2, <1>3, IInvParts DEF TypeOK
<1>5. Exact(st', token')
  BY <1>1, <1>2, IInvParts, ExactOpened
<1>6. st'.deferred = <<>> => Freed(st')
  <2>1. st.seq \in Seqs
    BY IInvParts
  <2> PICK m : m = Less(st.pins[st.seq], Cardinality(Waiting(st, st.seq)))
    OBVIOUS
  <2>2. m \in Nat
    <3>1. st.pins[st.seq] \in Nat /\ Cardinality(Waiting(st, st.seq)) \in Nat
      BY <2>1, IInvParts, StoreFields, WaitingType
    <3> QED BY <3>1, LessType
  <2>3. st'.pins[st.seq] = m + 1
    BY <1>2, <2>1
  <2>4. st.seq \in Pinned(st')
    BY <2>1, <2>2, <2>3 DEF Pinned
  <2> QED BY <2>4 DEF Freed
<1>7. NoneFromTheFuture'
  <2>1. \A x \in Readers : token'[x] # None => token'[x].gen <= st.gen
    <3> SUFFICES ASSUME NEW x \in Readers, token'[x] # None PROVE token'[x].gen <= st.gen
      OBVIOUS
    <3>1. CASE x = r
      <4>1. token'[x].gen = st.gen
        BY <1>1, <3>1, IInvParts
      <4> QED BY <4>1, IInvParts
    <3>2. CASE x # r
      BY <1>1, <3>2, IInvParts
    <3> QED BY <3>1, <3>2
  <2> QED BY <1>1, <1>2, <2>1, IInvParts DEF NoneFromTheFuture
<1>8. KeepsReads(st', st)
  BY <1>2 DEF KeepsReads
<1> QED BY <1>2, <1>4, <1>5, <1>6, <1>7, <1>8 DEF IInv

LEMMA CloseStep ==
    ASSUME IInv, NEW r \in Readers, CloseSnapshot(r)
    PROVE  IInv' /\ KeepsReads(st', st) /\ st'.live = st.live
<1>1. /\ token[r] # None /\ st' = Unpin(st, token[r])
      /\ token' = [token EXCEPT ![r] = None] /\ txn' = txn
  BY DEF CloseSnapshot
<1>2. token[r] \in Tokens
  BY <1>1, IInvParts
<1>3. /\ Sound(st') /\ st' \in Stores /\ Freed(st')
      /\ st'.gen = st.gen /\ st'.seq = st.seq /\ st'.live = st.live
      /\ st'.deferred = <<>>
      /\ \A q \in Seqs : st'.pins[q] = Less(Less(st.pins[q], One(st, token[r], q)),
                                            Cardinality(Waiting(st, q)))
      /\ \A q \in Pinned(st'), k \in Keys : GetAt(st', k, q) = GetAt(st, k, q)
  BY <1>1, <1>2, UnpinIs, IInvParts DEF Sound
<1>4. TypeOK'
  BY <1>1, <1>3, IInvParts DEF TypeOK
<1>5. Exact(st', token')
  BY <1>1, <1>3, IInvParts, ExactClosed
<1>6. NoneFromTheFuture'
  BY <1>1, <1>3, IInvParts DEF NoneFromTheFuture
<1>7. KeepsReads(st', st)
  BY <1>3 DEF KeepsReads
<1> QED BY <1>3, <1>4, <1>5, <1>6, <1>7 DEF IInv

LEMMA DropStep ==
    ASSUME IInv, NEW r \in Readers, DropSnapshot(r)
    PROVE  IInv' /\ KeepsReads(st', st) /\ st'.live = st.live
<1>1. /\ token[r] # None /\ st' = UnpinLater(st, token[r])
      /\ token' = [token EXCEPT ![r] = None] /\ txn' = txn
  BY DEF DropSnapshot
<1>2. token[r] \in Tokens
  BY <1>1, IInvParts
<1>3. /\ Sound(st') /\ st' \in Stores
      /\ st'.gen = st.gen /\ st'.seq = st.seq /\ st'.live = st.live /\ st'.pins = st.pins
      /\ st'.deferred = Append(st.deferred, token[r])
      /\ \A k, q : GetAt(st', k, q) = GetAt(st, k, q)
  BY <1>1, <1>2, UnpinLaterIs, IInvParts DEF Sound
<1>4. TypeOK'
  BY <1>1, <1>3, IInvParts DEF TypeOK
<1>5. Exact(st', token')
  BY <1>1, <1>3, IInvParts, ExactDropped
<1>6. st'.deferred # <<>>
  <2>1. st.deferred \in Seq(Tokens)
    BY IInvParts, StoreFields
  <2> QED BY <1>2, <1>3, <2>1, AppendProperties
<1>7. NoneFromTheFuture'
  BY <1>1, <1>3, IInvParts DEF NoneFromTheFuture
<1>8. KeepsReads(st', st)
  BY <1>3 DEF KeepsReads
<1> QED BY <1>3, <1>4, <1>5, <1>6, <1>7, <1>8 DEF IInv

LEMMA DrainedIs ==
    ASSUME IInv, NEW d, d = Drained(st)
    PROVE  /\ Sound(d) /\ Freed(d) /\ d \in Stores
           /\ d.gen = st.gen /\ d.seq = st.seq /\ d.live = st.live /\ d.deferred = <<>>
           /\ Exact(d, token)
           /\ KeepsReads(d, st)
<1>1. /\ Sound(d) /\ Freed(d) /\ d \in Stores
      /\ d.gen = st.gen /\ d.seq = st.seq /\ d.live = st.live /\ d.deferred = <<>>
      /\ \A q \in Seqs : d.pins[q] = Less(st.pins[q], Cardinality(Waiting(st, q)))
      /\ \A q \in Pinned(d), k \in Keys : GetAt(d, k, q) = GetAt(st, k, q)
  BY IInvParts, DrainedKeeps DEF Sound
<1>2. Exact(d, token)
  BY <1>1, IInvParts, ExactDrained
<1> QED BY <1>1, <1>2 DEF KeepsReads

\* Pins of the same snapshots, of the same generation.
LEMMA ExactSame ==
    ASSUME NEW s, NEW t, NEW tok, Exact(s, tok),
           t.gen = s.gen, t.pins = s.pins, t.deferred = s.deferred
    PROVE  Exact(t, tok)
BY DEF Exact, Holding, Waiting

LEMMA CommitStep ==
    ASSUME IInv, Commit
    PROVE  /\ IInv' /\ KeepsReads(st', st)
           /\ st'.live = [k \in Keys |->
                 IF txn.pending[k] = None THEN st.live[k]
                 ELSE IF txn.pending[k] = Deleted THEN Absent ELSE txn.pending[k]]
<1> DEFINE ops == txn.pending
<1>1. /\ txn # None /\ st.seq < MaxSeq /\ txn' = None /\ token' = token
      /\ st' = IF Staged(ops) = {} THEN st ELSE Committed(st, ops)
  BY DEF Commit, EndTxn
<1>2. ops \in WriteSets
  BY <1>1, IInvParts DEF Txns
<1>4. CASE Staged(ops) = {}
  <2>1. st' = st
    BY <1>1, <1>4
  <2>2. IInv'
    BY <1>1, <2>1 DEF IInv, TypeOK, NoneFromTheFuture
  <2>3. KeepsReads(st', st)
    BY <2>1 DEF KeepsReads
  <2>4. \A k \in Keys : ops[k] = None
    BY <1>4 DEF Staged
  <2>5. st.live \in [Keys -> Entries]
    BY IInvParts, StoreFields
  <2>6. [k \in Keys |-> IF ops[k] = None THEN st.live[k]
                        ELSE IF ops[k] = Deleted THEN Absent ELSE ops[k]] = st.live
    BY <2>4, <2>5
  <2> QED BY <2>1, <2>2, <2>3, <2>6
<1>5. CASE Staged(ops) # {}
  <2> PICK d : d = Drained(st)
    OBVIOUS
  <2>1. /\ Sound(d) /\ Freed(d) /\ d \in Stores
        /\ d.gen = st.gen /\ d.seq = st.seq /\ d.live = st.live /\ d.deferred = <<>>
        /\ Exact(d, token)
        /\ KeepsReads(d, st)
    BY DrainedIs
  <2>2. st' = CommitOf(d, ops)
    BY <1>1, <1>5, CommittedIs
  <2> HIDE DEF ops
  <2>3. /\ Sound(st') /\ Freed(st') /\ st' \in Stores
        /\ st'.gen = d.gen /\ st'.seq = d.seq + 1
        /\ st'.pins = d.pins /\ st'.deferred = d.deferred
        /\ st'.live = [k \in Keys |-> IF ops[k] = None THEN d.live[k]
                                      ELSE IF ops[k] = Deleted THEN Absent ELSE ops[k]]
        /\ \A q \in Pinned(d), k \in Keys : GetAt(st', k, q) = GetAt(d, k, q)
    BY <1>1, <1>2, <2>1, <2>2, CommitKeeps DEF Sound
  <2>4. Exact(st', token')
    BY <1>1, <2>1, <2>3, ExactSame
  <2>5. Pinned(st') = Pinned(d)
    BY <2>3 DEF Pinned
  <2>6. KeepsReads(st', st)
    BY <2>1, <2>3, <2>5 DEF KeepsReads
  <2>7. TypeOK'
    BY <1>1, <2>3, IInvParts DEF TypeOK
  <2>8. NoneFromTheFuture'
    BY <1>1, <2>1, <2>3, IInvParts DEF NoneFromTheFuture
  <2>9. IInv'
    BY <2>3, <2>4, <2>7, <2>8 DEF IInv
  <2> QED BY <2>1, <2>3, <2>6, <2>9 DEF ops
<1> QED BY <1>4, <1>5

LEMMA FailStep ==
    ASSUME IInv, NEW f \in Keys, NEW entryChanged \in BOOLEAN, CommitFails(f, entryChanged)
    PROVE  IInv' /\ KeepsReads(st', st) /\ st'.live = st.live
<1> DEFINE ops == txn.pending
<1> PICK d : d = Drained(st)
  OBVIOUS
<1>1. /\ txn # None /\ st.seq < MaxSeq /\ txn' = None /\ token' = token
      /\ \E before \in SUBSET (Staged(ops) \ {f}) :
            st' = RolledBack(st, ops, before, f, entryChanged)
  BY DEF CommitFails, EndTxn
<1>2. /\ Sound(d) /\ Freed(d) /\ d \in Stores
      /\ d.gen = st.gen /\ d.seq = st.seq /\ d.live = st.live /\ d.deferred = <<>>
      /\ Exact(d, token)
      /\ KeepsReads(d, st)
  BY DrainedIs
<1>3. st' = d
  <2>1. Sound(Drained(st)) /\ Drained(st).seq < MaxSeq
    BY <1>1, <1>2
  <2> HIDE DEF ops
  <2> QED BY <1>1, <2>1, RolledBackIs
<1>4. TypeOK'
  BY <1>1, <1>2, <1>3, IInvParts DEF TypeOK
<1>5. NoneFromTheFuture'
  BY <1>1, <1>2, <1>3, IInvParts DEF NoneFromTheFuture
<1>6. Exact(st', token')
  BY <1>1, <1>2, <1>3
<1> QED BY <1>2, <1>3, <1>4, <1>5, <1>6 DEF IInv

LEMMA ResetStep ==
    ASSUME IInv, Reset
    PROVE  /\ IInv'
           /\ st'.gen = st.gen + 1 /\ st'.live = [k \in Keys |-> Absent]
           /\ token' = token /\ txn' = txn
<1>1. /\ st.gen < MaxGen /\ st' = EmptyStore(st.gen + 1) /\ token' = token /\ txn' = txn
  BY DEF Reset
<1>2. st.gen + 1 \in 0 .. MaxGen /\ st.gen + 1 \in Nat
  BY <1>1, IInvParts, BoundsAssumption
<1>3. /\ Sound(st') /\ Freed(st') /\ st' \in Stores
      /\ st'.gen = st.gen + 1 /\ st'.live = [k \in Keys |-> Absent]
      /\ st'.pins = [q \in Seqs |-> 0] /\ st'.deferred = <<>>
  BY <1>1, <1>2, EmptyIs DEF Sound
<1>4. TypeOK'
  BY <1>1, <1>3, IInvParts DEF TypeOK
<1>5. NoneFromTheFuture'
  <2>1. \A x \in Readers : token[x] # None => token[x].gen <= st.gen + 1
    <3> TAKE x \in Readers
    <3>1. token[x] # None => token[x].gen \in 0 .. MaxGen /\ token[x].gen <= st.gen
      BY IInvParts DEF Tokens
    <3> QED BY <3>1, IInvParts, BoundsAssumption
  <2>2. txn # None => txn.gen <= st.gen + 1
    <3>1. txn # None => txn.gen \in 0 .. MaxGen /\ txn.gen <= st.gen
      BY IInvParts DEF Txns
    <3> QED BY <3>1, IInvParts, BoundsAssumption
  <2> QED BY <1>1, <1>3, <2>1, <2>2 DEF NoneFromTheFuture
<1>6. Exact(st', token')
  <2> SUFFICES ASSUME NEW q \in Seqs
               PROVE  st'.pins[q] = Cardinality(Holding(st', token', q))
                                       + Cardinality(Waiting(st', q))
    BY DEF Exact
  <2>1. Holding(st', token', q) = {}
    <3> SUFFICES ASSUME NEW x \in Readers, token[x] = [gen |-> st.gen + 1, seq |-> q]
                 PROVE  FALSE
      BY <1>1, <1>3 DEF Holding
    <3>1. [gen |-> st.gen + 1, seq |-> q] \in Tokens
      BY <1>2 DEF Tokens
    <3>2. token[x] # None /\ token[x].gen = st.gen + 1
      BY <3>1, NoneAssumption
    <3> QED BY <3>2, IInvParts
  <2>2. Cardinality(Holding(st', token', q)) = 0
    BY <2>1, FS_EmptySet
  <2>3. Cardinality(Waiting(st', q)) = 0
    BY <1>3, NoneWait
  <2>4. st'.pins[q] = 0
    BY <1>3
  <2> QED BY <2>2, <2>3, <2>4
<1> QED BY <1>1, <1>3, <1>4, <1>5, <1>6 DEF IInv

\* The steps that only touch the transaction.
LEMMA StagingStep ==
    ASSUME IInv,
           \/ BeginTxn \/ CommitStale \/ Abort
           \/ \E k \in Keys, v \in Values \cup {Deleted} : Stage(k, v)
    PROVE  IInv' /\ st' = st /\ token' = token
<1>1. st' = st /\ token' = token
  BY DEF BeginTxn, CommitStale, Abort, Stage, EndTxn
<1>2. txn' \in Txns \cup {None} /\ (txn' # None => txn'.gen <= st.gen)
  <2>1. CASE BeginTxn
    <3>1. txn' = [gen |-> st.gen, pending |-> [k \in Keys |-> None]]
      BY <2>1 DEF BeginTxn
    <3>2. [k \in Keys |-> None] \in WriteSets
      BY DEF WriteSets
    <3>3. txn' \in Txns /\ txn'.gen = st.gen
      BY <3>1, <3>2, IInvParts DEF Txns
    <3> QED BY <3>3, IInvParts
  <2>2. CASE CommitStale \/ Abort
    BY <2>2 DEF CommitStale, Abort, EndTxn
  <2>3. ASSUME NEW k \in Keys, NEW v \in Values \cup {Deleted}, Stage(k, v)
        PROVE  txn' \in Txns \cup {None} /\ (txn' # None => txn'.gen <= st.gen)
    <3>1. txn # None /\ txn' = [txn EXCEPT !.pending[k] = v]
      BY <2>3 DEF Stage
    <3>2. txn \in Txns /\ txn.gen <= st.gen /\ txn.pending \in WriteSets
      BY <3>1, IInvParts DEF Txns
    <3>3. [txn.pending EXCEPT ![k] = v] \in WriteSets
      BY <3>2 DEF WriteSets
    <3>4. txn' = [gen |-> txn.gen, pending |-> [txn.pending EXCEPT ![k] = v]]
      BY <3>1, <3>2 DEF Txns
    <3>5. txn.gen \in 0 .. MaxGen
      BY <3>2 DEF Txns
    <3>6. txn' \in Txns /\ txn'.gen = txn.gen
      BY <3>3, <3>4, <3>5 DEF Txns
    <3> QED BY <3>2, <3>6
  <2> QED BY <2>1, <2>2, <2>3
<1>3. TypeOK'
  BY <1>1, <1>2 DEF IInv, TypeOK
<1>4. NoneFromTheFuture'
  BY <1>1, <1>2 DEF IInv, NoneFromTheFuture
<1> QED BY <1>1, <1>3, <1>4 DEF IInv

LEMMA Inductive == IInv /\ [Next]_vars => IInv'
<1> SUFFICES ASSUME IInv, [Next]_vars PROVE IInv'
  OBVIOUS
<1>1. CASE UNCHANGED vars
  BY <1>1 DEF vars, IInv, TypeOK, NoneFromTheFuture
<1>2. CASE Reset
  BY <1>2, ResetStep
<1>3. CASE Commit
  BY <1>3, CommitStep
<1>4. CASE \E f \in Keys, entryChanged \in BOOLEAN : CommitFails(f, entryChanged)
  BY <1>4, FailStep
<1>5. CASE \/ BeginTxn \/ CommitStale \/ Abort
           \/ \E k \in Keys, v \in Values \cup {Deleted} : Stage(k, v)
  BY <1>5, StagingStep
<1>6. ASSUME NEW r \in Readers, SnapshotStep(r) PROVE IInv'
  BY <1>6, OpenStep, CloseStep, DropStep DEF SnapshotStep
<1> QED BY <1>1, <1>2, <1>3, <1>4, <1>5, <1>6 DEF Next, TxnStep

LEMMA Invariant == Spec => []IInv
BY InitOK, Inductive, PTL DEF Spec

\* States are of the shape the model gives them: no commit, close or late release counts
\* a pin below zero.
THEOREM TypeCorrect == Spec => []TypeOK
<1>1. IInv => TypeOK
  BY DEF IInv
<1> QED BY <1>1, Invariant, PTL

\* The indexes scans walk and the log trimming goes by name exactly what the store holds.
THEOREM IndexesExact == Spec => []IndexesAgree
<1>1. IInv => IndexesAgree
  BY DEF IInv, Sound, AgreeIn, RecordsOf, IndexesAgree
<1> QED BY <1>1, Invariant, PTL

\* With no snapshot open, and none waiting to be released, no version is kept.
THEOREM VersionsFreed == Spec => []NothingRetained
<1>1. IInv => NothingRetained
  <2> SUFFICES ASSUME IInv, Pinned(st) = {}, st.deferred = <<>>
               PROVE  st.log = {} /\ st.histIndex = {} /\ \A k \in Keys : st.history[k] = <<>>
    BY DEF NothingRetained
  <2>1. st.log = {} /\ AgreeIn(st) /\ st \in Stores
    BY DEF IInv, Freed, Sound
  <2>2. ASSUME NEW k \in Keys PROVE st.history[k] = <<>>
    <3>1. Len(st.history[k]) \in Nat /\ st.history[k] \in Seq([seq : Seqs, old : Entries])
      BY <2>1, HistoryType
    <3>2. \A i \in 1 .. Len(st.history[k]) : FALSE
      BY <2>1, LogNames
    <3>3. Len(st.history[k]) = 0
      BY <3>1, <3>2
    <3> QED BY <3>1, <3>3, EmptySeq
  <2> QED BY <2>1, <2>2 DEF AgreeIn
<1> QED BY <1>1, Invariant, PTL

-----------------------------------------------------------------------------
(* Snapshots are copies.                                                   *)

View  == [r \in Readers |-> ReadAll(r)]
Write == IF txn = None \/ txn.gen # st.gen THEN None ELSE txn.pending

\* A snapshot that stays open reads what it read.
LEMMA ReadsKept ==
    ASSUME IInv', KeepsReads(st', st), NEW r \in Readers, token'[r] = token[r]
    PROVE  ReadAll(r)' = ReadAll(r)
<1>1. st'.gen = st.gen
  BY DEF KeepsReads
<1>2. CASE token[r] = None \/ token[r].gen # st.gen
  BY <1>1, <1>2 DEF ReadAll
<1>3. CASE token[r] # None /\ token[r].gen = st.gen
  <2>1. token'[r].seq \in Pinned(st')
    <3>1. st' \in Stores /\ token' \in [Readers -> Tokens \cup {None}] /\ Exact(st', token')
      BY DEF IInv, TypeOK
    <3> QED BY <1>1, <1>3, <3>1, HeldIsPinned
  <2>2. \A k \in Keys : GetAt(st', k, token[r].seq) = GetAt(st, k, token[r].seq)
    BY <2>1 DEF KeepsReads
  <2> QED BY <1>1, <1>3, <2>2 DEF ReadAll
<1> QED BY <1>2, <1>3

LEMMA ViewsKept ==
    ASSUME IInv', KeepsReads(st', st), token' = token
    PROVE  View' = View
BY ReadsKept DEF View

\* One that opens reads what is live.
LEMMA ReadsOpened ==
    ASSUME IInv, NEW r \in Readers, OpenSnapshot(r)
    PROVE  ReadAll(r) = None /\ ReadAll(r)' = st.live
<1>1. /\ token[r] = None /\ st' = Pin(st)
      /\ token' = [token EXCEPT ![r] = [gen |-> st.gen, seq |-> st.seq]]
  BY DEF OpenSnapshot
<1>2. /\ st'.gen = st.gen /\ st'.live = st.live
      /\ \A k, q : GetAt(st', k, q) = GetAt(st, k, q)
  BY <1>1, PinIs, IInvParts
<1>3. token'[r] = [gen |-> st.gen, seq |-> st.seq]
  BY <1>1, IInvParts
<1>4. token'[r] # None
  <2>1. [gen |-> st.gen, seq |-> st.seq] \in Tokens
    BY IInvParts DEF Tokens
  <2> QED BY <1>3, <2>1, NoneAssumption
<1>5. \A k \in Keys : GetAt(st, k, st.seq) = st.live[k]
  <2> TAKE k \in Keys
  <2>1. \A i \in 1 .. Len(st.history[k]) : ~(st.history[k][i].seq > st.seq)
    <3> TAKE i \in 1 .. Len(st.history[k])
    <3>1. st.history[k][i].seq <= st.seq
      BY IInvParts DEF Sound, Ordered
    <3>2. st.history[k][i].seq \in Nat /\ st.seq \in Nat
      BY IInvParts, HistoryType
    <3> QED BY <3>1, <3>2
  <2>2. VersionAt(st, k, st.seq) = Live
    BY <2>1, ReadsLive
  <2> QED BY <2>2 DEF GetAt
<1>6. ReadAll(r)' = [k \in Keys |-> GetAt(st', k, st.seq)]
  BY <1>2, <1>3, <1>4 DEF ReadAll
<1>7. st.live \in [Keys -> Entries]
  BY IInvParts, StoreFields
<1>8. ReadAll(r)' = st.live
  BY <1>2, <1>5, <1>6, <1>7
<1> QED BY <1>1, <1>8 DEF ReadAll

LEMMA InitRefines == Init => Abstract!Init
<1> SUFFICES ASSUME Init PROVE Abstract!Init
  OBVIOUS
<1>1. st = EmptyStore(0) /\ token = [r \in Readers |-> None] /\ txn = None
  BY DEF Init
<1>2. st.live = [k \in Keys |-> Absent]
  BY <1>1 DEF EmptyStore
<1>3. View = [r \in Readers |-> None]
  BY <1>1 DEF View, ReadAll
<1>4. Write = None
  BY <1>1 DEF Write
<1> QED BY <1>2, <1>3, <1>4 DEF Abstract!Init, View, Write

LEMMA StepRefines ==
    ASSUME IInv, [Next]_vars
    PROVE  [Abstract!Next]_<<st.live, View, Write>>
<1>0. IInv'
  BY Inductive
<1>1. CASE UNCHANGED vars
  BY <1>1 DEF vars, View, Write, ReadAll
<1>2. CASE Reset
  <2>1. /\ st'.gen = st.gen + 1 /\ st'.live = [k \in Keys |-> Absent]
        /\ token' = token /\ txn' = txn
    BY <1>2, ResetStep
  <2>2. \A r \in Readers : ReadAll(r)' = None
    <3> TAKE r \in Readers
    <3>1. token[r] # None => token[r].gen # st.gen + 1
      <4>1. token[r] # None => token[r].gen \in 0 .. MaxGen /\ token[r].gen <= st.gen
        BY IInvParts DEF Tokens
      <4> QED BY <4>1, IInvParts, BoundsAssumption
    <3> QED BY <2>1, <3>1 DEF ReadAll
  <2>3. View' = [r \in Readers |-> None]
    BY <2>2 DEF View
  <2>4. Write' = None
    <3>1. txn # None => txn.gen # st.gen + 1
      <4>1. txn # None => txn.gen \in 0 .. MaxGen /\ txn.gen <= st.gen
        BY IInvParts DEF Txns
      <4> QED BY <4>1, IInvParts, BoundsAssumption
    <3> QED BY <2>1, <3>1 DEF Write
  <2>5. Abstract!Reset
    BY <2>1, <2>3, <2>4 DEF Abstract!Reset, View, Write
  <2> QED BY <2>5 DEF Abstract!Next
<1>3. CASE Commit
  <2>1. /\ KeepsReads(st', st)
        /\ st'.live = [k \in Keys |->
              IF txn.pending[k] = None THEN st.live[k]
              ELSE IF txn.pending[k] = Deleted THEN Absent ELSE txn.pending[k]]
    BY <1>3, CommitStep
  <2>2. txn # None /\ txn.gen = st.gen /\ txn' = None /\ token' = token
    BY <1>3 DEF Commit, EndTxn
  <2>3. View' = View
    BY <1>0, <2>1, <2>2, ViewsKept
  <2>4. Write = txn.pending /\ Write' = None
    BY <2>2 DEF Write
  <2>5. Write # None
    <3>1. txn.pending \in WriteSets
      BY <2>2, IInvParts DEF Txns
    <3> QED BY <2>4, <3>1, NoneAssumption
  <2>6. st'.live = [k \in Keys |-> CASE Write[k] = None -> st.live[k]
                                     [] Write[k] = Deleted -> Absent
                                     [] OTHER -> Write[k]]
    BY <2>1, <2>4, ValuesAssumption
  <2>7. Abstract!Commit
    BY <2>3, <2>4, <2>5, <2>6 DEF Abstract!Commit, View, Write
  <2> QED BY <2>7 DEF Abstract!Next
<1>4. ASSUME NEW f \in Keys, NEW entryChanged \in BOOLEAN, CommitFails(f, entryChanged)
      PROVE  [Abstract!Next]_<<st.live, View, Write>>
  <2>1. KeepsReads(st', st) /\ st'.live = st.live
    BY <1>4, FailStep
  <2>2. txn' = None /\ token' = token
    BY <1>4 DEF CommitFails, EndTxn
  <2>3. View' = View
    BY <1>0, <2>1, <2>2, ViewsKept
  <2>4. Write' = None
    BY <2>2 DEF Write
  <2>5. Abstract!Discard
    BY <2>1, <2>3, <2>4 DEF Abstract!Discard, View, Write
  <2> QED BY <2>5 DEF Abstract!Next
<1>5. ASSUME \/ BeginTxn \/ CommitStale \/ Abort
             \/ \E k \in Keys, v \in Values \cup {Deleted} : Stage(k, v)
      PROVE  [Abstract!Next]_<<st.live, View, Write>>
  <2>1. st' = st /\ token' = token
    BY <1>5, StagingStep
  <2>2. View' = View
    BY <2>1 DEF View, ReadAll
  <2>3. CASE BeginTxn
    <3>1. txn = None /\ txn' = [gen |-> st.gen, pending |-> [k \in Keys |-> None]]
      BY <2>3 DEF BeginTxn
    <3>2. txn' # None
      <4>1. [k \in Keys |-> None] \in WriteSets
        BY DEF WriteSets
      <4>2. txn' \in Txns
        BY <3>1, <4>1, IInvParts DEF Txns
      <4> QED BY <4>2, NoneAssumption
    <3>3. Write = None /\ Write' = [k \in Keys |-> None]
      BY <2>1, <3>1, <3>2 DEF Write
    <3>4. Abstract!Begin
      BY <2>1, <2>2, <3>3 DEF Abstract!Begin, View, Write
    <3> QED BY <3>4 DEF Abstract!Next
  <2>4. CASE CommitStale \/ Abort
    <3>1. Write' = None
      BY <2>4 DEF CommitStale, Abort, EndTxn, Write
    <3>2. Abstract!Discard
      BY <2>1, <2>2, <3>1 DEF Abstract!Discard, View, Write
    <3> QED BY <3>2 DEF Abstract!Next
  <2>5. ASSUME NEW k \in Keys, NEW v \in Values \cup {Deleted}, Stage(k, v)
        PROVE  [Abstract!Next]_<<st.live, View, Write>>
    <3>1. txn # None /\ txn' = [txn EXCEPT !.pending[k] = v]
      BY <2>5 DEF Stage
    <3>2. txn \in Txns /\ txn.pending \in WriteSets
      BY <3>1, IInvParts DEF Txns
    <3>3. txn' = [gen |-> txn.gen, pending |-> [txn.pending EXCEPT ![k] = v]]
      BY <3>1, <3>2 DEF Txns
    <3>4. txn' # None
      <4>1. [txn.pending EXCEPT ![k] = v] \in WriteSets
        BY <3>2 DEF WriteSets
      <4>2. txn.gen \in 0 .. MaxGen
        BY <3>2 DEF Txns
      <4>3. txn' \in Txns
        BY <3>3, <4>1, <4>2 DEF Txns
      <4> QED BY <4>3, NoneAssumption
    <3>5. txn'.gen = txn.gen /\ txn'.pending = [txn.pending EXCEPT ![k] = v]
      BY <3>3
    <3>6. CASE txn.gen # st.gen
      <4>1. Write = None /\ Write' = None
        BY <2>1, <3>5, <3>6 DEF Write
      <4> QED BY <2>1, <2>2, <4>1
    <3>7. CASE txn.gen = st.gen
      <4>1. Write = txn.pending /\ Write' = [Write EXCEPT ![k] = v]
        BY <2>1, <3>1, <3>4, <3>5, <3>7 DEF Write
      <4>2. Write # None
        BY <3>2, <4>1, NoneAssumption
      <4>3. Abstract!Stage(k, v)
        BY <2>1, <2>2, <4>1, <4>2 DEF Abstract!Stage, View, Write
      <4> QED BY <4>3 DEF Abstract!Next
    <3> QED BY <3>6, <3>7
  <2> QED BY <1>5, <2>3, <2>4, <2>5
<1>6. ASSUME NEW r \in Readers, SnapshotStep(r)
      PROVE  [Abstract!Next]_<<st.live, View, Write>>
  <2>1. txn' = txn
    BY <1>6 DEF SnapshotStep, OpenSnapshot, CloseSnapshot, DropSnapshot
  <2>2. KeepsReads(st', st) /\ st'.live = st.live
    BY <1>6, OpenStep, CloseStep, DropStep DEF SnapshotStep
  <2>3. Write' = Write
    BY <2>1, <2>2 DEF Write, KeepsReads
  <2>4. ASSUME NEW x \in Readers, x # r PROVE ReadAll(x)' = ReadAll(x)
    <3>1. token'[x] = token[x]
      BY <1>6, <2>4, IInvParts DEF SnapshotStep, OpenSnapshot, CloseSnapshot, DropSnapshot
    <3> QED BY <1>0, <2>2, <3>1, ReadsKept
  <2>5. CASE OpenSnapshot(r)
    <3>1. ReadAll(r) = None /\ ReadAll(r)' = st.live
      BY <2>5, ReadsOpened
    <3>2. View[r] = None /\ View' = [View EXCEPT ![r] = st.live]
      BY <2>4, <3>1 DEF View
    <3>3. Abstract!Open(r)
      BY <2>2, <2>3, <3>2 DEF Abstract!Open, View, Write
    <3> QED BY <3>3 DEF Abstract!Next
  <2>6. CASE CloseSnapshot(r) \/ DropSnapshot(r)
    <3>1. token'[r] = None
      BY <2>6, IInvParts DEF CloseSnapshot, DropSnapshot
    <3>2. ReadAll(r)' = None
      BY <3>1 DEF ReadAll
    <3>3. View' = [View EXCEPT ![r] = None]
      BY <2>4, <3>2 DEF View
    <3>4. Abstract!Close(r)
      BY <2>2, <2>3, <3>3 DEF Abstract!Close, View, Write
    <3> QED BY <3>4 DEF Abstract!Next
  <2> QED BY <1>6, <2>5, <2>6 DEF SnapshotStep
<1> QED BY <1>1, <1>2, <1>3, <1>4, <1>5, <1>6 DEF Next, TxnStep

\* The store implements a database whose snapshots are copies: what is trimmed, recorded,
\* undone or released late, no open snapshot can tell.
THEOREM CopiesImplemented == Spec => SnapshotsAreCopies
<1>1. [Abstract!Next]_<<st.live, View, Write>> <=>
        [Abstract!Next]_<<st.live, [r \in Readers |-> ReadAll(r)],
                         IF txn = None \/ txn.gen # st.gen THEN None ELSE txn.pending>>
  BY DEF View, Write
<1>2. IInv /\ [Next]_vars =>
        [Abstract!Next]_<<st.live, [r \in Readers |-> ReadAll(r)],
                         IF txn = None \/ txn.gen # st.gen THEN None ELSE txn.pending>>
  BY <1>1, StepRefines
<1> QED BY InitRefines, Invariant, <1>2, PTL DEF Spec, SnapshotsAreCopies, Abstract!Spec

=============================================================================
