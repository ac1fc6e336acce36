-------------------------- MODULE StoreScans_proofs --------------------------
(***************************************************************************)
(* Proofs about StoreScans: a scan over several pages yields each key once *)
(* and with its value, for any keys, page sizes and number of writes that  *)
(* come between.                                                           *)
(***************************************************************************)
EXTENDS StoreScans, VersionedStore_proofs

(***************************************************************************)
(* Ranks: the keys of a finite set, in scan order, are numbered from 0.    *)
(***************************************************************************)

Earlier(S, reverse, k) == {j \in S : Before(reverse, j, k)}
Rank(S, reverse, k)    == Cardinality(Earlier(S, reverse, k))

LEMMA Ranked ==
    ASSUME NEW S \in SUBSET Int, IsFiniteSet(S), NEW reverse \in BOOLEAN
    PROVE  LET N == Cardinality(S) IN
           /\ N \in Nat
           /\ \A k \in S : Rank(S, reverse, k) \in 0 .. N - 1
           /\ \A j, k \in S : Before(reverse, j, k) <=> Rank(S, reverse, j) < Rank(S, reverse, k)
           /\ \A m \in 0 .. N - 1 : \E k \in S : Rank(S, reverse, k) = m
<1> DEFINE N == Cardinality(S)
           E(k) == Earlier(S, reverse, k)
           r == [k \in S |-> Cardinality(E(k))]
<1>1. N \in Nat
  BY FS_CardinalityType
<1>2. ASSUME NEW k \in S
      PROVE  r[k] \in 0 .. N - 1 /\ IsFiniteSet(E(k)) /\ k \notin E(k)
  <2>1. k \notin E(k) /\ E(k) \in SUBSET (S \ {k})
    BY DEF Earlier, Before
  <2>2. IsFiniteSet(S \ {k}) /\ Cardinality(S \ {k}) = N - 1
    BY FS_RemoveElement
  <2>3. r[k] = Cardinality(E(k))
    OBVIOUS
  <2> HIDE DEF E, N, r
  <2>4. IsFiniteSet(E(k)) /\ Cardinality(E(k)) <= N - 1
    BY <2>1, <2>2, FS_Subset
  <2>5. Cardinality(E(k)) \in Nat
    BY <2>4, FS_CardinalityType
  <2> QED  BY <1>1, <2>1, <2>3, <2>4, <2>5
<1>3. ASSUME NEW j \in S, NEW k \in S, Before(reverse, j, k)
      PROVE  r[j] < r[k]
  <2>1. E(j) \cup {j} \in SUBSET E(k)
    <3> SUFFICES ASSUME NEW i \in E(j) \cup {j}
                 PROVE  i \in S /\ Before(reverse, i, k)
      BY DEF Earlier
    <3>1. i \in S /\ (i = j \/ Before(reverse, i, j)) /\ i \in Int /\ j \in Int /\ k \in Int
      BY DEF Earlier
    <3> QED  BY <1>3, <3>1 DEF Before
  <2>2. /\ IsFiniteSet(E(j)) /\ j \notin E(j) /\ IsFiniteSet(E(k))
        /\ r[j] = Cardinality(E(j)) /\ r[k] = Cardinality(E(k))
        /\ r[j] \in 0 .. N - 1 /\ r[k] \in 0 .. N - 1
    BY <1>2
  <2> HIDE DEF E, r, N
  <2>3. Cardinality(E(j) \cup {j}) = Cardinality(E(j)) + 1
    BY <2>2, FS_AddElement
  <2>4. Cardinality(E(j) \cup {j}) <= Cardinality(E(k))
    BY <2>1, <2>2, FS_Subset
  <2> QED  BY <1>1, <2>2, <2>3, <2>4
<1>4. \A j, k \in S : j = k \/ Before(reverse, j, k) \/ Before(reverse, k, j)
  BY DEF Before
<1>5. r \in Injection(S, 0 .. N - 1)
  <2>1. r \in [S -> 0 .. N - 1]
    BY <1>2
  <2>2. ASSUME NEW j \in S, NEW k \in S, r[j] = r[k]  PROVE j = k
    <3>1. r[j] \in Int /\ r[k] \in Int
      BY <1>1, <1>2
    <3> HIDE DEF r
    <3> QED  BY <1>3, <1>4, <2>2, <3>1
  <2> HIDE DEF r
  <2> QED  BY <2>1, <2>2 DEF Injection, IsInjective
<1>6. IsFiniteSet(0 .. N - 1) /\ Cardinality(0 .. N - 1) = N
  <2> HIDE DEF N
  <2>1. IsFiniteSet(0 .. N - 1) /\ Cardinality(0 .. N - 1) = IF 0 > N - 1 THEN 0 ELSE N - 1 - 0 + 1
    BY <1>1, FS_Interval
  <2> QED  BY <1>1, <2>1
<1>7. r \in Surjection(S, 0 .. N - 1)
  <2> HIDE DEF r
  <2> QED  BY <1>5, <1>6, FS_Injection
<1>8. \A m \in 0 .. N - 1 : \E k \in S : r[k] = m
  <2> HIDE DEF r, N
  <2> QED  BY <1>7 DEF Surjection
<1>9. \A j, k \in S : r[j] < r[k] => Before(reverse, j, k)
  <2>1. \A j \in S : r[j] \in Int
    BY <1>1, <1>2
  <2> HIDE DEF r
  <2> QED  BY <1>3, <1>4, <2>1
<1>10. \A k \in S : r[k] = Rank(S, reverse, k)
  BY DEF Rank
<1> HIDE DEF r
<1> QED  BY <1>1, <1>2, <1>3, <1>8, <1>9, <1>10

\* The first n of a set, in scan order: all of it, or n of them with the rest behind.
LEMMA FirstOf ==
    ASSUME NEW S \in SUBSET Int, IsFiniteSet(S), NEW reverse \in BOOLEAN, NEW n \in Nat \ {0},
           NEW P, P = {k \in S : Rank(S, reverse, k) < n}
    PROVE  /\ P \in SUBSET S /\ IsFiniteSet(P)
           /\ Cardinality(P) = n => P # {}
           /\ \A k \in S \ P : Cardinality(P) = n /\ \A j \in P : Before(reverse, j, k)
<1> DEFINE N == Cardinality(S)
           r == [k \in P |-> Rank(S, reverse, k)]
<1>1. /\ N \in Nat
      /\ \A k \in S : Rank(S, reverse, k) \in 0 .. N - 1
      /\ \A j, k \in S : Before(reverse, j, k) <=> Rank(S, reverse, j) < Rank(S, reverse, k)
      /\ \A m \in 0 .. N - 1 : \E k \in S : Rank(S, reverse, k) = m
  BY Ranked
<1>2. P \in SUBSET S /\ IsFiniteSet(P)
  BY FS_Subset
<1>3. Cardinality({}) = 0
  BY FS_EmptySet
<1>4. ASSUME NEW k \in S \ P
      PROVE  Cardinality(P) = n /\ \A j \in P : Before(reverse, j, k)
  <2>1. Rank(S, reverse, k) >= n /\ n < N
    BY <1>1
  <2>2. \A j \in P : Before(reverse, j, k)
    BY <1>1, <2>1
  <2>3. r \in Bijection(P, 0 .. n - 1)
    <3>1. \A j \in P : r[j] \in 0 .. n - 1
      BY <1>1
    <3>2. \A i, j \in P : r[i] = r[j] => i = j
      <4>1. \A i, j \in S : i = j \/ Before(reverse, i, j) \/ Before(reverse, j, i)
        BY DEF Before
      <4>2. \A i, j \in P : r[i] = r[j] => ~Before(reverse, i, j) /\ ~Before(reverse, j, i)
        BY <1>1
      <4> QED  BY <1>2, <4>1, <4>2
    <3>3. \A m \in 0 .. n - 1 : \E j \in P : r[j] = m
      <4> TAKE m \in 0 .. n - 1
      <4>1. PICK j \in S : Rank(S, reverse, j) = m
        BY <1>1, <2>1
      <4>2. j \in P
        BY <4>1
      <4> QED  BY <4>1, <4>2
    <3>4. r \in [P -> 0 .. n - 1]
      BY <3>1
    <3> HIDE DEF r
    <3> QED  BY <3>2, <3>3, <3>4 DEF Bijection, Injection, Surjection, IsInjective
  <2>4. Cardinality(0 .. n - 1) = n
    <3>1. Cardinality(0 .. n - 1) = IF 0 > n - 1 THEN 0 ELSE n - 1 - 0 + 1
      BY FS_Interval
    <3> QED  BY <3>1
  <2> HIDE DEF r
  <2>5. ExistsBijection(P, 0 .. n - 1)
    BY <2>3 DEF ExistsBijection
  <2> QED  BY <1>2, <2>2, <2>4, <2>5, FS_Bijection
<1> QED  BY <1>2, <1>3, <1>4

\* The last of a set is one of it, with none behind.
LEMMA LastIs ==
    ASSUME NEW P \in SUBSET Int, IsFiniteSet(P), P # {}, NEW reverse \in BOOLEAN
    PROVE  /\ Last(P, reverse) \in P
           /\ \A x \in P : ~Before(reverse, Last(P, reverse), x)
<1>1. /\ Cardinality(P) \in Nat
      /\ \A k \in P : Rank(P, reverse, k) \in 0 .. Cardinality(P) - 1
      /\ \A j, k \in P : Before(reverse, j, k) <=> Rank(P, reverse, j) < Rank(P, reverse, k)
      /\ \A m \in 0 .. Cardinality(P) - 1 : \E k \in P : Rank(P, reverse, k) = m
  BY Ranked
<1>2. Cardinality(P) - 1 \in 0 .. Cardinality(P) - 1
  <2>1. Cardinality(P) # 0
    BY FS_EmptySet
  <2> QED  BY <1>1, <2>1
<1>3. PICK l \in P : Rank(P, reverse, l) = Cardinality(P) - 1
  BY <1>1, <1>2
<1>4. \A x \in P : ~Before(reverse, l, x)
  BY <1>1, <1>3
<1>5. CASE reverse
  <2>1. \A x \in P : l <= x
    BY <1>4, <1>5 DEF Before
  <2>2. Smallest(P) \in P /\ \A x \in P : Smallest(P) <= x
    BY <2>1 DEF Smallest
  <2>3. Last(P, reverse) = Smallest(P)
    BY <1>5 DEF Last
  <2>4. ASSUME NEW x \in P  PROVE ~Before(reverse, Last(P, reverse), x)
    <3>1. x \in Int /\ Smallest(P) \in Int /\ Smallest(P) <= x
      BY <2>2
    <3>2. ~(Smallest(P) > x)
      BY <3>1
    <3>3. Before(reverse, Last(P, reverse), x) = (Last(P, reverse) > x)
      BY <1>5 DEF Before
    <3> QED  BY <2>3, <3>2, <3>3
  <2> QED  BY <2>2, <2>3, <2>4
<1>6. CASE ~reverse
  <2>1. \A x \in P : l >= x
    BY <1>4, <1>6 DEF Before
  <2>2. Largest(P) \in P /\ \A x \in P : Largest(P) >= x
    BY <2>1 DEF Largest
  <2>3. Last(P, reverse) = Largest(P)
    BY <1>6 DEF Last
  <2>4. ASSUME NEW x \in P  PROVE ~Before(reverse, Last(P, reverse), x)
    <3>1. x \in Int /\ Largest(P) \in Int /\ Largest(P) >= x
      BY <2>2
    <3> QED  BY <1>6, <2>3, <3>1 DEF Before
  <2> QED  BY <2>2, <2>3, <2>4
<1> QED  BY <1>5, <1>6

-----------------------------------------------------------------------------
(***************************************************************************)
(* Pages. IsPage(P, S, sc): P is keys of S that are ahead of the scan, and *)
(* when some of those are not on it, it is full and they are behind it.    *)
(***************************************************************************)

Skips(P, last, S, sc) == \A k \in Ahead(S, sc) \ P : Before(sc.reverse, last, k)

IsPage(P, S, sc) ==
    /\ P \in SUBSET Ahead(S, sc)
    /\ Full(P, sc) => Last(P, sc.reverse) \in P /\ Skips(P, Last(P, sc.reverse), S, sc)
    /\ Full(P, sc) => \A k \in P : ~Before(sc.reverse, Last(P, sc.reverse), k)
    /\ ~Full(P, sc) => P = Ahead(S, sc)

LEMMA PageIs ==
    ASSUME NEW S \in SUBSET Int, IsFiniteSet(S), NEW sc, sc.reverse \in BOOLEAN,
           sc.n \in Nat \ {0}
    PROVE  IsPage(Page(S, sc), S, sc)
<1> DEFINE A == Ahead(S, sc)
           P == Page(S, sc)
           reverse == sc.reverse
           n == sc.n
<1>1. A \in SUBSET Int /\ IsFiniteSet(A)
  BY FS_Subset DEF Ahead
<1>2. P = {k \in A : Rank(A, reverse, k) < n}
  BY DEF Page, Rank, Earlier
<1>3. Full(P, sc) <=> Cardinality(P) = n
  BY DEF Full
<1>4. reverse \in BOOLEAN /\ n \in Nat \ {0}
  OBVIOUS
<1> SUFFICES /\ P \in SUBSET A
             /\ Cardinality(P) = n =>
                   Last(P, reverse) \in P /\ \A k \in A \ P : Before(reverse, Last(P, reverse), k)
             /\ Cardinality(P) = n => \A k \in P : ~Before(reverse, Last(P, reverse), k)
             /\ Cardinality(P) # n => P = A
  BY <1>3 DEF IsPage, Skips
<1> HIDE DEF A, P, reverse, n
<1>5. /\ P \in SUBSET A /\ IsFiniteSet(P)
      /\ Cardinality(P) = n => P # {}
      /\ \A k \in A \ P : Cardinality(P) = n /\ \A j \in P : Before(reverse, j, k)
  BY <1>1, <1>2, <1>4, FirstOf
<1>6. ASSUME Cardinality(P) = n
      PROVE  /\ Last(P, reverse) \in P
             /\ \A k \in P : ~Before(reverse, Last(P, reverse), k)
  <2>1. P \in SUBSET Int /\ P # {}
    BY <1>1, <1>5, <1>6
  <2> QED  BY <1>4, <1>5, <2>1, LastIs
<1> QED  BY <1>5, <1>6

\* The cover is the nearer of the ends of the full pages: none of them skipped a key
\* before it.
IsCover(cover, base, overlay, I, O, sc) ==
    /\ cover # None => cover \in base \cup overlay
    /\ \A k \in Ahead(I, sc) \ base : cover # None /\ Before(sc.reverse, cover, k)
    /\ \A k \in Ahead(O, sc) \ overlay : cover # None /\ Before(sc.reverse, cover, k)

LEMMA CoverIs ==
    ASSUME NEW I \in SUBSET Keys, NEW O \in SUBSET Keys, NEW sc, sc.reverse \in BOOLEAN,
           NEW base, IsPage(base, I, sc), NEW overlay, IsPage(overlay, O, sc)
    PROVE  IsCover(Cover(base, overlay, sc), base, overlay, I, O, sc)
<1> DEFINE reverse == sc.reverse
           ends == Ends(base, overlay, sc)
           c == Cover(base, overlay, sc)
<1>1. base \in SUBSET Keys /\ overlay \in SUBSET Keys
  BY DEF IsPage, Ahead
<1>2. ends \in SUBSET {Last(base, reverse), Last(overlay, reverse)}
  BY DEF Ends
<1>3. ends \in SUBSET (base \cup overlay)
  BY DEF Ends, IsPage
<1>4. /\ Full(base, sc) => Last(base, reverse) \in ends
      /\ Full(overlay, sc) => Last(overlay, reverse) \in ends
  BY DEF Ends
<1>5. IsFiniteSet(ends)
  <2>1. IsFiniteSet({Last(base, reverse), Last(overlay, reverse)})
    <3>1. IsFiniteSet({Last(base, reverse)})
      BY FS_Singleton
    <3>2. IsFiniteSet({Last(base, reverse)} \cup {Last(overlay, reverse)})
      BY <3>1, FS_AddElement
    <3> QED  BY <3>2
  <2> HIDE DEF ends
  <2> QED  BY <1>2, <2>1, FS_Subset
<1>6. c = IF ends = {} THEN None ELSE Last(ends, ~reverse)
  BY DEF Cover
<1>7. reverse \in BOOLEAN /\ (~reverse) \in BOOLEAN
  OBVIOUS
<1>8. /\ base \in SUBSET Ahead(I, sc) /\ overlay \in SUBSET Ahead(O, sc)
      /\ Full(base, sc) => \A k \in Ahead(I, sc) \ base : Before(reverse, Last(base, reverse), k)
      /\ Full(overlay, sc) =>
            \A k \in Ahead(O, sc) \ overlay : Before(reverse, Last(overlay, reverse), k)
      /\ ~Full(base, sc) => base = Ahead(I, sc)
      /\ ~Full(overlay, sc) => overlay = Ahead(O, sc)
  BY DEF IsPage, Skips
<1>9. Ahead(I, sc) \in SUBSET Int /\ Ahead(O, sc) \in SUBSET Int
  BY KeysAssumption DEF Ahead
<1> SUFFICES /\ c # None => c \in base \cup overlay
             /\ \A k \in Ahead(I, sc) \ base : c # None /\ Before(reverse, c, k)
             /\ \A k \in Ahead(O, sc) \ overlay : c # None /\ Before(reverse, c, k)
  BY DEF IsCover
<1> HIDE DEF ends, c, reverse
<1>10. ASSUME ends # {}
       PROVE  c \in ends /\ c # None /\ \A x \in ends : ~Before(~reverse, c, x)
  <2>1. ends \in SUBSET Int
    BY <1>1, <1>3, KeysAssumption
  <2>2. Last(ends, ~reverse) \in ends /\ \A x \in ends : ~Before(~reverse, Last(ends, ~reverse), x)
    BY <1>5, <1>7, <1>10, <2>1, LastIs
  <2> QED  BY <1>1, <1>3, <1>6, <1>10, <2>2, KeysAssumption
\* A key behind an end is behind the cover.
<1>11. ASSUME NEW x \in ends, NEW k \in Int, Before(reverse, x, k)
       PROVE  c # None /\ Before(reverse, c, k)
  <2>1. c \in Int /\ x \in Int /\ c # None /\ ~Before(~reverse, c, x)
    BY <1>1, <1>3, <1>10, KeysAssumption
  <2> QED  BY <1>7, <1>11, <2>1 DEF Before
<1>12. c # None => c \in base \cup overlay
  BY <1>3, <1>6, <1>10
<1>13. \A k \in Ahead(I, sc) \ base : c # None /\ Before(reverse, c, k)
  BY <1>4, <1>8, <1>9, <1>11
<1>14. \A k \in Ahead(O, sc) \ overlay : c # None /\ Before(reverse, c, k)
  BY <1>4, <1>8, <1>9, <1>11
<1> QED  BY <1>12, <1>13, <1>14

-----------------------------------------------------------------------------
(***************************************************************************)
(* What a page yields. V[k] is what the scanning context reads at key k.   *)
(***************************************************************************)

\* The keys a page with this cover is exact about.
Covered(cover, sc) ==
    {k \in Ahead(Keys, sc) : cover # None => ~Before(sc.reverse, cover, k)}

Rows(V, K) == {<<k, V[k]>> : k \in {k \in K : V[k] # Absent}}

Yields(p, V, sc) ==
    /\ p.rows = Rows(V, Covered(p.cover, sc))
    /\ p.cover # None => p.cover \in Ahead(Keys, sc)

LEMMA AheadOf ==
    ASSUME NEW S \in SUBSET Keys, NEW sc
    PROVE  Ahead(S, sc) = Ahead(Keys, sc) \cap S
BY DEF Ahead

\* An overlay replaces rows of the index, hides them, or keeps them.
Overlaid(V, live, I, O, entry) ==
    \A k \in Keys : V[k] = IF k \in O /\ entry[k] # Live THEN entry[k]
                           ELSE IF k \in I THEN live[k] ELSE Absent

LEMMA MergeYields ==
    ASSUME NEW I \in SUBSET Keys, IsFiniteSet(I), NEW O \in SUBSET Keys, IsFiniteSet(O),
           NEW sc, sc.reverse \in BOOLEAN, sc.n \in Nat \ {0},
           NEW live, NEW entry, NEW V, Overlaid(V, live, I, O, entry)
    PROVE  Yields(MergePages(live, Page(I, sc), Page(O, sc), entry, sc), V, sc)
<1> DEFINE base == Page(I, sc)
           overlay == Page(O, sc)
           cover == Cover(base, overlay, sc)
           value(k) == IF k \in overlay /\ entry[k] # Live THEN entry[k]
                       ELSE IF k \in base THEN live[k] ELSE Absent
           p == MergePages(live, base, overlay, entry, sc)
           keys == {k \in base \cup overlay :
                      value(k) # Absent /\ (cover # None => ~Before(sc.reverse, cover, k))}
<1>1. p.cover = cover /\ p.rows = {<<k, value(k)>> : k \in keys}
  BY DEF MergePages
<1>2. I \in SUBSET Int /\ O \in SUBSET Int
  BY KeysAssumption
<1>3. IsPage(base, I, sc) /\ IsPage(overlay, O, sc)
  BY <1>2, PageIs
<1> HIDE DEF base, overlay
<1>4. IsCover(cover, base, overlay, I, O, sc)
  BY <1>3, CoverIs
<1> HIDE DEF cover, p
<1>5. /\ base \in SUBSET Ahead(I, sc) /\ overlay \in SUBSET Ahead(O, sc)
      /\ Ahead(I, sc) = Ahead(Keys, sc) \cap I /\ Ahead(O, sc) = Ahead(Keys, sc) \cap O
  BY <1>3, AheadOf DEF IsPage
<1>6. cover # None => cover \in Ahead(Keys, sc)
  BY <1>4, <1>5 DEF IsCover
\* Up to the cover a page has every key of its source.
<1>7. ASSUME NEW k \in Covered(cover, sc)
      PROVE  /\ k \in Keys /\ k \in Ahead(Keys, sc)
             /\ cover # None => ~Before(sc.reverse, cover, k)
             /\ (k \in I <=> k \in base) /\ (k \in O <=> k \in overlay)
  <2>1. k \in Ahead(Keys, sc) /\ (cover # None => ~Before(sc.reverse, cover, k))
    BY DEF Covered
  <2>2. k \in Keys
    BY <2>1 DEF Ahead
  <2> QED  BY <1>4, <1>5, <2>1, <2>2 DEF IsCover
<1>8. \A k \in Covered(cover, sc) : V[k] = value(k)
  BY <1>7 DEF Overlaid
<1>9. keys = {k \in Covered(cover, sc) : V[k] # Absent}
  <2>1. ASSUME NEW k \in keys  PROVE k \in Covered(cover, sc) /\ V[k] # Absent
    <3>1. k \in Ahead(Keys, sc) /\ (cover # None => ~Before(sc.reverse, cover, k))
      BY <1>5
    <3>2. k \in Covered(cover, sc)
      BY <3>1 DEF Covered
    <3> QED  BY <1>8, <3>2
  <2>2. ASSUME NEW k \in Covered(cover, sc), V[k] # Absent  PROVE k \in keys
    <3>1. value(k) # Absent
      BY <1>8, <2>2
    <3> QED  BY <1>7, <3>1
  <2> HIDE DEF keys
  <2> QED  BY <2>1, <2>2
<1>10. p.rows = Rows(V, Covered(cover, sc))
  <2>1. {<<k, value(k)>> : k \in keys} = {<<k, V[k]>> : k \in keys}
    <3>1. \A k \in keys : value(k) = V[k]
      BY <1>8, <1>9
    <3> HIDE DEF keys, value
    <3> QED  BY <3>1
  <2> HIDE DEF keys, value
  <2> QED  BY <1>1, <1>9, <2>1 DEF Rows
<1> HIDE DEF value, keys
<1>11. Yields(p, V, sc)
  BY <1>1, <1>6, <1>10 DEF Yields
<1> QED  BY <1>11 DEF p, base, overlay

LEMMA BaseYields ==
    ASSUME NEW I \in SUBSET Keys, IsFiniteSet(I),
           NEW sc, sc.reverse \in BOOLEAN, sc.n \in Nat \ {0},
           NEW V, I = {k \in Keys : V[k] # Absent}
    PROVE  Yields(BasePage(V, Page(I, sc), sc), V, sc)
<1> DEFINE base == Page(I, sc)
           reverse == sc.reverse
           cover == IF Full(base, sc) THEN Last(base, reverse) ELSE None
           p == BasePage(V, base, sc)
<1>1. p.cover = cover /\ p.rows = {<<k, V[k]>> : k \in base}
  BY DEF BasePage
<1>2. IsPage(base, I, sc)
  <2>1. I \in SUBSET Int
    BY KeysAssumption
  <2> QED  BY <2>1, PageIs
<1>3. Ahead(I, sc) = Ahead(Keys, sc) \cap I
  BY AheadOf
<1> HIDE DEF base
<1>4. /\ base \in SUBSET Ahead(I, sc)
      /\ Full(base, sc) => /\ cover \in base /\ cover # None
                           /\ \A k \in Ahead(I, sc) \ base : Before(reverse, cover, k)
                           /\ \A k \in base : ~Before(reverse, cover, k)
      /\ ~Full(base, sc) => base = Ahead(I, sc) /\ cover = None
  <2>1. base \in SUBSET Keys
    BY <1>2, <1>3 DEF IsPage
  <2> QED  BY <1>2, <2>1, KeysAssumption DEF IsPage, Skips
<1> HIDE DEF cover, p, reverse
<1>5. base = {k \in Covered(cover, sc) : V[k] # Absent}
  <2>1. ASSUME NEW k \in base  PROVE k \in Covered(cover, sc) /\ V[k] # Absent
    BY <1>3, <1>4 DEF Covered, reverse
  <2>2. ASSUME NEW k \in Covered(cover, sc), V[k] # Absent  PROVE k \in base
    <3>1. k \in Ahead(Keys, sc) /\ (cover # None => ~Before(reverse, cover, k))
      BY DEF Covered, reverse
    <3>2. k \in Keys
      BY <3>1 DEF Ahead
    <3> QED  BY <1>3, <1>4, <2>2, <3>1, <3>2
  <2> QED  BY <2>1, <2>2
<1>6. cover # None => cover \in Ahead(Keys, sc)
  BY <1>3, <1>4
<1>7. p.rows = Rows(V, Covered(cover, sc))
  BY <1>1, <1>5 DEF Rows
<1>8. Yields(p, V, sc)
  BY <1>1, <1>6, <1>7 DEF Yields
<1> QED  BY <1>8 DEF p, base

\* What a snapshot at seq, and a transaction with a write set, read.
SnapshotReads(s, seq) == [k \in Keys |-> GetAt(s, k, seq)]

TxnReads(live, pending) ==
    [k \in Keys |-> IF pending[k] = None THEN live[k]
                    ELSE IF pending[k] = Deleted THEN Absent ELSE pending[k]]

LEMMA SnapshotYields ==
    ASSUME NEW s \in Stores, AgreeIn(s), IsFiniteSet(s.index), IsFiniteSet(s.histIndex),
           NEW seq, NEW sc, sc.reverse \in BOOLEAN, sc.n \in Nat \ {0}
    PROVE  Yields(SnapshotPage(s, seq, sc), SnapshotReads(s, seq), sc)
<1> DEFINE V == SnapshotReads(s, seq)
           entry == [k \in Keys |-> VersionAt(s, k, seq)]
<1>1. /\ s.index = {k \in Keys : s.live[k] # Absent}
      /\ s.histIndex = {k \in Keys : s.history[k] # <<>>}
      /\ s.live \in [Keys -> Entries]
  BY StoreFields DEF AgreeIn
<1>2. ASSUME NEW k \in Keys, k \notin s.histIndex  PROVE VersionAt(s, k, seq) = Live
  <2>1. Len(s.history[k]) = 0
    BY <1>1, <1>2
  <2> QED  BY <2>1, ReadsLive
<1>3. ASSUME NEW k \in Keys
      PROVE  V[k] = IF VersionAt(s, k, seq) = Live THEN s.live[k] ELSE VersionAt(s, k, seq)
  BY DEF SnapshotReads, GetAt
<1>4. CASE s.histIndex = {}
  <2>1. V = s.live
    <3>1. \A k \in Keys : V[k] = s.live[k]
      BY <1>2, <1>3, <1>4
    <3> QED  BY <1>1, <3>1 DEF SnapshotReads
  <2>2. SnapshotPage(s, seq, sc) = BasePage(s.live, Page(s.index, sc), sc)
    BY <1>4 DEF SnapshotPage
  <2> HIDE DEF V
  <2> QED  BY <1>1, <2>1, <2>2, BaseYields DEF V
<1>5. CASE s.histIndex # {}
  <2>1. SnapshotPage(s, seq, sc) =
          MergePages(s.live, Page(s.index, sc), Page(s.histIndex, sc), entry, sc)
    BY <1>5 DEF SnapshotPage
  <2>2. Overlaid(V, s.live, s.index, s.histIndex, entry)
    <3> SUFFICES ASSUME NEW k \in Keys
                 PROVE  V[k] = IF k \in s.histIndex /\ entry[k] # Live THEN entry[k]
                               ELSE IF k \in s.index THEN s.live[k] ELSE Absent
      BY DEF Overlaid
    <3>1. entry[k] = VersionAt(s, k, seq)
      OBVIOUS
    <3> HIDE DEF V, entry
    <3> QED  BY <1>1, <1>2, <1>3, <3>1
  <2> HIDE DEF V, entry
  <2>3. s.index \in SUBSET Keys /\ s.histIndex \in SUBSET Keys
    BY <1>1
  <2> QED  BY <2>1, <2>2, <2>3, MergeYields DEF V
<1> QED  BY <1>4, <1>5

LEMMA TxnYields ==
    ASSUME NEW s \in Stores, AgreeIn(s), IsFiniteSet(s.index),
           NEW pending \in WriteSets, IsFiniteSet(Staged(pending)),
           NEW sc, sc.reverse \in BOOLEAN, sc.n \in Nat \ {0}
    PROVE  Yields(TxnPage(s, pending, sc), TxnReads(s.live, pending), sc)
<1> DEFINE V == TxnReads(s.live, pending)
           entry == [k \in Keys |-> IF pending[k] = Deleted THEN Absent ELSE pending[k]]
           O == Staged(pending)
<1>1. /\ s.index = {k \in Keys : s.live[k] # Absent}
      /\ s.live \in [Keys -> Entries]
  BY StoreFields DEF AgreeIn
<1>2. O \in SUBSET Keys /\ \A k \in Keys : k \in O <=> pending[k] # None
  BY DEF Staged
<1>3. CASE O = {}
  <2>1. V = s.live
    <3>1. \A k \in Keys : V[k] = s.live[k]
      BY <1>2, <1>3 DEF TxnReads
    <3> QED  BY <1>1, <3>1 DEF TxnReads
  <2>2. TxnPage(s, pending, sc) = BasePage(s.live, Page(s.index, sc), sc)
    BY <1>3 DEF TxnPage
  <2> HIDE DEF V, O
  <2> QED  BY <1>1, <2>1, <2>2, BaseYields DEF V
<1>4. CASE O # {}
  <2>1. TxnPage(s, pending, sc) = MergePages(s.live, Page(s.index, sc), Page(O, sc), entry, sc)
    BY <1>4 DEF TxnPage
  <2>2. Overlaid(V, s.live, s.index, O, entry)
    <3> SUFFICES ASSUME NEW k \in Keys
                 PROVE  V[k] = IF k \in O /\ entry[k] # Live THEN entry[k]
                               ELSE IF k \in s.index THEN s.live[k] ELSE Absent
      BY DEF Overlaid
    <3>1. entry[k] = IF pending[k] = Deleted THEN Absent ELSE pending[k]
      OBVIOUS
    <3>2. pending[k] \in Values \cup {Deleted, None}
      BY DEF WriteSets
    <3>3. V[k] = IF pending[k] = None THEN s.live[k]
                 ELSE IF pending[k] = Deleted THEN Absent ELSE pending[k]
      BY DEF TxnReads
    <3>4. pending[k] # None => entry[k] # Live
      BY <3>1, <3>2, ValuesAssumption
    <3> HIDE DEF V, entry, O
    <3> QED  BY <1>1, <1>2, <3>1, <3>3, <3>4
  <2>3. s.index \in SUBSET Keys /\ IsFiniteSet(O)
    BY <1>1
  <2> HIDE DEF V, entry, O
  <2> QED  BY <1>2, <2>1, <2>2, <2>3, MergeYields DEF V
<1> QED  BY <1>3, <1>4

-----------------------------------------------------------------------------
(***************************************************************************)
(* Scans: what was yielded is what there is, as far as the scan has come.  *)
(***************************************************************************)

Whole(sc) == Ahead(Keys, [sc EXCEPT !.bound = sc.start, !.inclusive = TRUE])

Passed(sc) ==
    IF sc.done THEN Whole(sc)
    ELSE IF sc.inclusive THEN {}
    ELSE {k \in Whole(sc) : ~Before(sc.reverse, sc.bound, k)}

Exactly(sc, V) ==
    /\ \A k \in Passed(sc) \ sc.rewritten :
          {row \in sc.rows : row[1] = k} = IF V[k] = Absent THEN {} ELSE {<<k, V[k]>>}
    /\ \A row \in sc.rows : row[1] \in Passed(sc)
    /\ \A row, other \in sc.rows : row[1] = other[1] => row = other

\* A scan is past its start once it has fetched a page.
Placed(sc) ==
    /\ sc.inclusive => sc.bound = sc.start /\ ~sc.done
    /\ ~sc.inclusive /\ ~sc.done => sc.bound \in Whole(sc)

WithPage(sc, p) ==
    [sc EXCEPT !.rows = @ \cup p.rows,
               !.done = p.cover = None,
               !.bound = IF p.cover = None THEN @ ELSE p.cover,
               !.inclusive = FALSE,
               !.n = NextSize(@)]

LEMMA PassedKeys ==
    ASSUME NEW sc \in Scans
    PROVE  /\ Whole(sc) \in SUBSET Keys /\ Passed(sc) \in SUBSET Whole(sc)
           /\ \A k \in Keys : k \in Whole(sc) <=>
                 /\ sc.start # None => Before(sc.reverse, sc.start, k) \/ k = sc.start
                 /\ sc.stop # None => IF sc.reverse THEN k >= sc.stop ELSE k < sc.stop
<1> DEFINE from == [sc EXCEPT !.bound = sc.start, !.inclusive = TRUE]
<1>1. /\ from.bound = sc.start /\ from.inclusive = TRUE
      /\ from.stop = sc.stop /\ from.reverse = sc.reverse
  BY DEF Scans
<1> HIDE DEF from
<1>2. Whole(sc) = Ahead(Keys, from)
  BY DEF Whole, from
<1> QED  BY <1>1, <1>2 DEF Ahead, Passed

\* What is still ahead is what was not passed.
LEMMA AheadIs ==
    ASSUME NEW sc \in Scans, Placed(sc), ~sc.done
    PROVE  Ahead(Keys, sc) = Whole(sc) \ Passed(sc)
<1> SUFFICES ASSUME NEW k \in Keys
             PROVE  k \in Ahead(Keys, sc) <=> k \in Whole(sc) /\ k \notin Passed(sc)
  BY PassedKeys DEF Ahead
<1>1. /\ k \in Whole(sc) <=>
            /\ sc.start # None => Before(sc.reverse, sc.start, k) \/ k = sc.start
            /\ sc.stop # None => IF sc.reverse THEN k >= sc.stop ELSE k < sc.stop
  BY PassedKeys
<1>2. k \in Ahead(Keys, sc) <=>
            /\ sc.bound # None =>
                  Before(sc.reverse, sc.bound, k) \/ (sc.inclusive /\ k = sc.bound)
            /\ sc.stop # None => IF sc.reverse THEN k >= sc.stop ELSE k < sc.stop
  BY DEF Ahead
<1>3. /\ k \in Int /\ sc.reverse \in BOOLEAN
      /\ sc.start # None => sc.start \in Int
      /\ sc.bound # None => sc.bound \in Int
  BY KeysAssumption DEF Scans
<1>4. CASE sc.inclusive
  <2>1. Passed(sc) = {} /\ sc.bound = sc.start
    BY <1>4 DEF Passed, Placed
  <2> QED  BY <1>1, <1>2, <1>4, <2>1
<1>5. CASE ~sc.inclusive
  <2>1. k \in Passed(sc) <=> k \in Whole(sc) /\ ~Before(sc.reverse, sc.bound, k)
    BY <1>5 DEF Passed
  <2>2. sc.bound \in Whole(sc) /\ sc.bound \in Keys /\ sc.bound # None
    BY <1>5, PassedKeys, KeysAssumption DEF Placed
  <2>3. sc.start # None => Before(sc.reverse, sc.start, sc.bound) \/ sc.bound = sc.start
    BY <2>2, PassedKeys
  <2>4. Before(sc.reverse, sc.bound, k) /\ sc.start # None => Before(sc.reverse, sc.start, k)
    BY <1>3, <2>2, <2>3 DEF Before
  <2> QED  BY <1>1, <1>2, <1>5, <2>1, <2>2, <2>4
<1> QED  BY <1>4, <1>5

\* A page adds the keys up to its cover.
LEMMA PageAdds ==
    ASSUME NEW sc \in Scans, Placed(sc), ~sc.done, NEW V, Exactly(sc, V),
           NEW p, Yields(p, V, sc), p.rows \in SUBSET (Keys \X Values),
           NEW new, new = WithPage(sc, p)
    PROVE  new \in Scans /\ Placed(new) /\ Exactly(new, V)
<1> DEFINE reverse == sc.reverse
           cover == p.cover
           N == Covered(cover, sc)
           A == Ahead(Keys, sc)
<1>1. /\ new.by = sc.by /\ new.reverse = reverse /\ new.stop = sc.stop
      /\ new.start = sc.start /\ new.rewritten = sc.rewritten
      /\ new.rows = sc.rows \cup p.rows /\ new.done = (cover = None)
      /\ new.bound = (IF cover = None THEN sc.bound ELSE cover)
      /\ new.inclusive = FALSE /\ new.n = NextSize(sc.n)
      /\ new = [by |-> new.by, reverse |-> new.reverse, stop |-> new.stop, bound |-> new.bound,
                inclusive |-> new.inclusive, n |-> new.n, rows |-> new.rows, done |-> new.done,
                start |-> new.start, rewritten |-> new.rewritten]
  BY DEF WithPage, Scans
<1>2. cover # None => cover \in A /\ cover \in Keys /\ cover \in Int
  BY KeysAssumption DEF Yields, Ahead
<1>3. new \in Scans
  <2>1. NextSize(sc.n) \in 1 .. MaxPage
    BY ScansAssumption DEF NextSize, Scans
  <2>2. /\ sc.by \in Contexts /\ sc.reverse \in BOOLEAN /\ sc.stop \in Keys \cup {None}
        /\ sc.bound \in Keys \cup {None} /\ sc.rows \in SUBSET (Keys \X Values)
        /\ sc.start \in Keys \cup {None} /\ sc.rewritten \in SUBSET Keys
    BY DEF Scans
  <2>3. /\ new.bound \in Keys \cup {None} /\ new.rows \in SUBSET (Keys \X Values)
        /\ new.done \in BOOLEAN /\ new.inclusive \in BOOLEAN /\ new.n \in 1 .. MaxPage
    BY <1>1, <1>2, <2>1, <2>2
  <2> QED  BY <1>1, <2>2, <2>3 DEF Scans
<1>4. Whole(new) = Whole(sc)
  <2>1. \A k \in Keys : k \in Whole(new) <=> k \in Whole(sc)
    BY <1>1, <1>3, PassedKeys
  <2>2. Whole(new) \in SUBSET Keys /\ Whole(sc) \in SUBSET Keys
    BY DEF Whole, Ahead
  <2> QED  BY <2>1, <2>2
<1>5. A = Whole(sc) \ Passed(sc) /\ A \in SUBSET Keys /\ A \in SUBSET Int
  BY AheadIs, KeysAssumption DEF Ahead
<1>6. N = {k \in A : cover # None => ~Before(reverse, cover, k)}
  BY DEF Covered
<1>7. p.rows = Rows(V, N)
  BY DEF Yields
<1>8. sc.reverse \in BOOLEAN /\ reverse \in BOOLEAN
  BY DEF Scans
<1>9. Passed(sc) \in SUBSET Whole(sc) /\ Whole(sc) \in SUBSET Int
  BY PassedKeys, KeysAssumption
<1> HIDE DEF cover, N, A, reverse
<1>10. Passed(new) = Passed(sc) \cup N
  <2>1. CASE cover = None
    <3>1. N = A
      BY <1>6, <2>1
    <3>2. Passed(new) = Whole(sc)
      BY <1>1, <1>4, <2>1 DEF Passed
    <3> QED  BY <1>5, <1>9, <3>1, <3>2
  <2>2. CASE cover # None
    <3>1. Passed(new) = {k \in Whole(sc) : ~Before(reverse, cover, k)}
      BY <1>1, <1>4, <2>2 DEF Passed
    <3>2. ASSUME NEW k \in Passed(sc)  PROVE ~Before(reverse, cover, k)
      <4>1. ~sc.inclusive /\ ~Before(reverse, sc.bound, k) /\ k \in Int
        BY <1>9, <3>2 DEF Passed, reverse
      <4>2. sc.bound \in Int /\ sc.bound # None /\ cover \in Int
        BY <1>2, <1>9, <2>2, <4>1, PassedKeys, KeysAssumption DEF Placed
      <4>3. Before(reverse, sc.bound, cover)
        BY <1>2, <2>2, <4>1, <4>2 DEF Ahead, A, reverse
      <4> QED  BY <1>8, <4>1, <4>2, <4>3 DEF Before
    <3> QED  BY <1>5, <1>6, <1>9, <2>2, <3>1, <3>2
  <2> QED  BY <2>1, <2>2
<1>11. Placed(new)
  BY <1>1, <1>2, <1>4, <1>5 DEF Placed
<1>12. \A row \in p.rows : row[1] \in N /\ row = <<row[1], V[row[1]]>> /\ V[row[1]] # Absent
  BY <1>7 DEF Rows
<1>13. \A row \in sc.rows : row[1] \in Passed(sc)
  BY DEF Exactly
<1>14. N \cap Passed(sc) = {}
  BY <1>5, <1>6
<1>15. ASSUME NEW k \in Passed(new) \ new.rewritten
       PROVE  {row \in new.rows : row[1] = k} = IF V[k] = Absent THEN {} ELSE {<<k, V[k]>>}
  <2>1. CASE k \in N
    <3>1. {row \in new.rows : row[1] = k} = {row \in p.rows : row[1] = k}
      BY <1>1, <1>13, <1>14, <2>1
    <3>2. V[k] # Absent => <<k, V[k]>> \in p.rows
      BY <1>7, <2>1 DEF Rows
    <3>3. V[k] # Absent => {row \in p.rows : row[1] = k} = {<<k, V[k]>>}
      BY <1>12, <3>2
    <3>4. V[k] = Absent => {row \in p.rows : row[1] = k} = {}
      BY <1>12
    <3> QED  BY <3>1, <3>3, <3>4
  <2>2. CASE k \notin N
    <3>1. k \in Passed(sc) \ sc.rewritten
      BY <1>1, <1>10, <2>2
    <3>2. {row \in new.rows : row[1] = k} = {row \in sc.rows : row[1] = k}
      BY <1>1, <1>12, <2>2
    <3> QED  BY <3>1, <3>2 DEF Exactly
  <2> QED  BY <2>1, <2>2
<1>16. \A row \in new.rows : row[1] \in Passed(new)
  BY <1>1, <1>10, <1>12, <1>13
<1>17. ASSUME NEW row \in new.rows, NEW other \in new.rows, row[1] = other[1]
       PROVE  row = other
  <2>1. CASE row \in p.rows /\ other \in p.rows
    BY <1>12, <1>17, <2>1
  <2>2. CASE row \in sc.rows /\ other \in sc.rows
    BY <1>17, <2>2 DEF Exactly
  <2> QED  BY <1>1, <1>12, <1>13, <1>14, <1>17, <2>1, <2>2
<1>18. Exactly(new, V)
  BY <1>15, <1>16, <1>17 DEF Exactly
<1> QED  BY <1>3, <1>11, <1>18

\* A key that was staged behind the scan is left out of what must be exact.
LEMMA RewriteKeeps ==
    ASSUME NEW sc \in Scans, Placed(sc), NEW V, Exactly(sc, V), NEW key \in Keys, NEW W,
           \A k \in Keys \ {key} : W[k] = V[k],
           NEW new, new = IF sc.done \/ key \notin Ahead(Keys, sc)
                          THEN [sc EXCEPT !.rewritten = @ \cup {key}] ELSE sc
    PROVE  new \in Scans /\ Placed(new) /\ Exactly(new, W) /\ new.by = sc.by
<1>1. CASE sc.done \/ key \notin Ahead(Keys, sc)
  <2>1. /\ new.by = sc.by /\ new.reverse = sc.reverse /\ new.stop = sc.stop
        /\ new.bound = sc.bound /\ new.inclusive = sc.inclusive /\ new.n = sc.n
        /\ new.rows = sc.rows /\ new.done = sc.done /\ new.start = sc.start
        /\ new.rewritten = sc.rewritten \cup {key}
        /\ new \in Scans
    BY <1>1 DEF Scans
  <2>2. Whole(new) = Whole(sc)
    <3>1. \A k \in Keys : k \in Whole(new) <=> k \in Whole(sc)
      BY <2>1, PassedKeys, ZenonT(30)
    <3>2. Whole(new) \in SUBSET Keys /\ Whole(sc) \in SUBSET Keys
      BY DEF Whole, Ahead
    <3> QED  BY <3>1, <3>2
  <2>3. Passed(new) = Passed(sc)
    BY <2>1, <2>2 DEF Passed
  <2>4. Placed(new)
    BY <2>1, <2>2 DEF Placed
  <2>5. \A k \in Passed(new) \ new.rewritten : W[k] = V[k] /\ k \in Passed(sc) \ sc.rewritten
    BY <2>1, <2>3, PassedKeys
  <2>6. ASSUME NEW k \in Passed(new) \ new.rewritten
        PROVE  {row \in new.rows : row[1] = k} = IF W[k] = Absent THEN {} ELSE {<<k, W[k]>>}
    <3>1. W[k] = V[k] /\ k \in Passed(sc) \ sc.rewritten
      BY <2>5
    <3>2. {row \in sc.rows : row[1] = k} = IF V[k] = Absent THEN {} ELSE {<<k, V[k]>>}
      BY <3>1 DEF Exactly
    <3> QED  BY <2>1, <3>1, <3>2
  <2>7. /\ \A row \in new.rows : row[1] \in Passed(new)
        /\ \A row, other \in new.rows : row[1] = other[1] => row = other
    BY <2>1, <2>3 DEF Exactly
  <2>8. Exactly(new, W)
    BY <2>6, <2>7 DEF Exactly
  <2> QED  BY <2>1, <2>4, <2>8
<1>2. CASE ~(sc.done \/ key \notin Ahead(Keys, sc))
  <2>1. new = sc /\ key \notin Passed(sc)
    BY <1>2, AheadIs
  <2>2. \A k \in Passed(sc) : W[k] = V[k]
    BY <2>1, PassedKeys
  <2>3. Exactly(sc, W)
    BY <2>2 DEF Exactly
  <2> QED  BY <2>1, <2>3
<1> QED  BY <1>1, <1>2

-----------------------------------------------------------------------------
(***************************************************************************)
(* The invariant. What the scanning context reads does not change, save    *)
(* for what the transaction itself stages; sets that are paged are finite. *)
(***************************************************************************)

Reads(s, tok, t, by) ==
    IF by = "txn" THEN TxnReads(s.live, t.pending) ELSE SnapshotReads(s, tok[by].seq)

Finite(s) == IsFiniteSet(s.index) /\ IsFiniteSet(s.histIndex)

\* Scans are over one generation.
Small ==
    /\ Finite(st) /\ st.gen = 0
    /\ txn # None => IsFiniteSet(Staged(txn.pending))

ScanInv ==
    scan # None =>
        /\ scan \in Scans /\ Active(scan.by) /\ Placed(scan)
        /\ Exactly(scan, Reads(st, token, txn, scan.by))

SInv == IInv /\ Small /\ ScanInv

LEMMA SInvParts ==
    ASSUME SInv
    PROVE  /\ st \in Stores /\ Sound(st) /\ AgreeIn(st) /\ Finite(st) /\ st.gen = 0
           /\ txn \in Txns \cup {None} /\ token \in [Readers -> Tokens \cup {None}]
           /\ txn # None => txn.pending \in WriteSets /\ IsFiniteSet(Staged(txn.pending))
           /\ \A r \in Readers : token[r] # None => token[r] \in Tokens /\ token[r].gen = 0
<1>1. /\ txn # None => txn.pending \in WriteSets
      /\ \A r \in Readers : token[r] # None =>
            token[r] \in Tokens /\ token[r].gen \in Nat /\ token[r].gen <= st.gen
  BY IInvParts, BoundsAssumption DEF SInv, Txns, Tokens
<1>2. st.gen = 0
  BY DEF SInv, Small
<1>3. \A r \in Readers : token[r] # None => token[r] \in Tokens /\ token[r].gen = 0
  BY <1>1, <1>2
<1> QED  BY <1>1, <1>2, <1>3, IInvParts DEF SInv, Small, Sound

\* Trimming and draining forget versions; only a commit records any.
LEMMA HistDrained ==
    ASSUME NEW s \in Stores, Sound(s)
    PROVE  /\ Drain(s).histIndex = s.histIndex /\ Drain(s) \in Stores
           /\ Drained(s).histIndex \in SUBSET s.histIndex
<1>1. Drain(s).histIndex = s.histIndex
  BY DEF Drain, ReleasePins, Stores
<1>2. Drain(s) \in Stores
  BY Drains DEF Sound
<1>3. Trim(Drain(s)).histIndex \in SUBSET Drain(s).histIndex
  BY <1>2, TrimFields
<1> QED  BY <1>1, <1>2, <1>3 DEF Drained

\* The index of a sound store that has the live keys of another is that other's.
LEMMA IndexSame ==
    ASSUME NEW s, Sound(s), Finite(s), NEW t, Sound(t), t.live = s.live,
           t.histIndex \in SUBSET s.histIndex
    PROVE  Finite(t)
<1>1. t.index = s.index
  BY DEF Sound, AgreeIn
<1> QED  BY <1>1, FS_Subset DEF Finite

LEMMA PinFinite ==
    ASSUME SInv, NEW r \in Readers, SnapshotStep(r)
    PROVE  Finite(st')
<1>1. Sound(st') /\ st'.live = st.live
  BY OpenStep, CloseStep, DropStep DEF SnapshotStep, SInv, IInv
<1>2. st \in Stores /\ Sound(st) /\ Finite(st)
  BY SInvParts
<1>3. st'.histIndex \in SUBSET st.histIndex
  <2>1. CASE OpenSnapshot(r)
    <3>1. st' = Pin(st)
      BY <2>1 DEF OpenSnapshot
    <3>2. Pin(st).histIndex = Drain(st).histIndex
      <4> PICK d : d = Drain(st)
        OBVIOUS
      <4>1. d \in Stores
        BY <1>2, HistDrained
      <4>2. [d EXCEPT !.pins[d.seq] = @ + 1].histIndex = d.histIndex
        BY <4>1 DEF Stores
      <4> QED  BY <4>2 DEF Pin
    <3> QED  BY <1>2, <3>1, <3>2, HistDrained
  <2>2. CASE CloseSnapshot(r)
    <3>1. st' = Trim(Drain(Release(st, token[r]))) /\ token[r] \in Tokens
      BY <2>2, SInvParts DEF CloseSnapshot, Unpin
    <3> PICK x : x = Release(st, token[r])
      OBVIOUS
    <3>2. Sound(x) /\ x \in Stores
      BY <1>2, <3>1, Releases DEF Sound
    <3>3. x.histIndex = st.histIndex
      BY <1>2 DEF Release, ReleasePins, Stores
    <3>4. Drain(x).histIndex = x.histIndex /\ Drain(x) \in Stores
      BY <3>2, HistDrained
    <3>5. Trim(Drain(x)).histIndex \in SUBSET Drain(x).histIndex
      BY <3>4, TrimFields
    <3> QED  BY <3>1, <3>3, <3>4, <3>5
  <2>3. CASE DropSnapshot(r)
    <3>1. st' = UnpinLater(st, token[r])
      BY <2>3 DEF DropSnapshot
    <3>2. UnpinLater(st, token[r]).histIndex = st.histIndex
      BY <1>2 DEF UnpinLater, Stores
    <3> QED  BY <3>1, <3>2
  <2> QED  BY <2>1, <2>2, <2>3 DEF SnapshotStep
<1> QED  BY <1>1, <1>2, <1>3, IndexSame

LEMMA CommitFinite ==
    ASSUME SInv, Commit
    PROVE  Finite(st')
<1> DEFINE ops == txn.pending
           d == Drained(st)
<1>1. /\ txn # None
      /\ st' = IF Staged(ops) = {} THEN st ELSE Committed(st, ops)
  BY DEF Commit
<1>2. /\ st \in Stores /\ Sound(st) /\ AgreeIn(st) /\ Finite(st)
      /\ ops \in WriteSets /\ IsFiniteSet(Staged(ops))
  BY <1>1, SInvParts
<1>3. IInv' /\ st'.live = TxnReads(st.live, ops)
  BY CommitStep DEF TxnReads, SInv
<1>4. AgreeIn(st')
  BY <1>3 DEF IInv, Sound
<1>5. st.live \in [Keys -> Entries]
  BY <1>2, StoreFields
<1>6. st'.index \in SUBSET (st.index \cup Staged(ops))
  <2> SUFFICES ASSUME NEW k \in Keys, TxnReads(st.live, ops)[k] # Absent
               PROVE  st.live[k] # Absent \/ ops[k] # None
    BY <1>2, <1>3, <1>4 DEF AgreeIn, Staged
  <2> QED  BY DEF TxnReads
<1>7. st'.histIndex \in SUBSET (st.histIndex \cup Staged(ops))
  <2>1. CASE Staged(ops) = {}
    BY <1>1, <2>1
  <2>2. CASE Staged(ops) # {}
    <3>1. st' = CommitOf(d, ops)
      BY <1>1, <2>2, CommittedIs
    <3>2. d \in Stores /\ d.histIndex \in SUBSET st.histIndex
      <4>1. IInv
        BY DEF SInv
      <4> QED  BY <1>2, <4>1, DrainedIs, HistDrained
    <3> HIDE DEF d, ops
    <3> PICK a : a = AppliedTo(d, ops)
      OBVIOUS
    <3>3. Applies(a, d, ops, Effective(d, ops), RecordedIn(d, ops))
      BY <3>2, ApplyFields DEF AppliedTo
    <3>4. /\ a.histIndex = d.histIndex \cup RecordedIn(d, ops)
          /\ a = [gen |-> d.gen, seq |-> d.seq, live |-> a.live, index |-> a.index,
                  history |-> a.history, histIndex |-> a.histIndex, log |-> a.log,
                  pins |-> d.pins, deferred |-> d.deferred]
      BY <3>3 DEF Applies
    <3>5. [a EXCEPT !.seq = @ + 1].histIndex = a.histIndex
      BY <3>4
    <3>6. RecordedIn(d, ops) \in SUBSET Staged(ops)
      BY DEF RecordedIn, Effective, Staged
    <3> QED  BY <3>1, <3>2, <3>4, <3>5, <3>6 DEF CommitOf
  <2> QED  BY <2>1, <2>2
<1>8. IsFiniteSet(st.index \cup Staged(ops)) /\ IsFiniteSet(st.histIndex \cup Staged(ops))
  BY <1>2, FS_Union DEF Finite
<1> HIDE DEF ops
<1> QED  BY <1>6, <1>7, <1>8, FS_Subset DEF Finite

LEMMA FailFinite ==
    ASSUME SInv, NEW f \in Keys, NEW entryChanged \in BOOLEAN, CommitFails(f, entryChanged)
    PROVE  Finite(st')
<1> PICK d : d = Drained(st)
  OBVIOUS
<1>1. st \in Stores /\ Sound(st) /\ Finite(st) /\ IInv
  BY SInvParts DEF SInv
<1>2. Sound(d) /\ d.seq = st.seq /\ d.live = st.live /\ d.histIndex \in SUBSET st.histIndex
  BY <1>1, DrainedIs, HistDrained
<1>3. st' = d
  <2>1. /\ st.seq < MaxSeq
        /\ \E before \in SUBSET (Staged(txn.pending) \ {f}) :
              st' = RolledBack(st, txn.pending, before, f, entryChanged)
    BY DEF CommitFails
  <2>2. Sound(Drained(st)) /\ Drained(st).seq < MaxSeq
    BY <1>2, <2>1
  <2> QED  BY <2>1, <2>2, RolledBackIs
<1> QED  BY <1>1, <1>2, <1>3, IndexSame

\* A snapshot that stays open reads what it read.
LEMMA SnapshotKept ==
    ASSUME IInv', KeepsReads(st', st), st.gen = 0, NEW r \in Readers,
           token'[r] = token[r], token[r] # None, token[r].gen = 0
    PROVE  SnapshotReads(st', token'[r].seq) = SnapshotReads(st, token[r].seq)
<1>1. token'[r].seq \in Pinned(st')
  <2>1. /\ st' \in Stores /\ token' \in [Readers -> Tokens \cup {None}] /\ Exact(st', token')
        /\ st'.gen = st.gen
    BY DEF IInv, TypeOK, KeepsReads
  <2> QED  BY <2>1, HeldIsPinned
<1>2. \A k \in Keys : GetAt(st', k, token[r].seq) = GetAt(st, k, token[r].seq)
  BY <1>1 DEF KeepsReads
<1> QED  BY <1>2 DEF SnapshotReads

\* The scan goes on and reads what it read.
Undisturbed ==
    scan' # None =>
        /\ scan' = scan /\ Active(scan.by)'
        /\ Reads(st', token', txn', scan.by) = Reads(st, token, txn, scan.by)

LEMMA UndisturbedKeeps ==
    ASSUME SInv, Undisturbed
    PROVE  ScanInv'
BY DEF SInv, ScanInv, Undisturbed

LEMMA BesideSnapshot ==
    ASSUME SInv, NEW r \in Readers,
           \/ OpenSnapshot(r) /\ UNCHANGED scan
           \/ CloseSnapshot(r) /\ EndScan(r)
           \/ ~ScannedBy(r) /\ DropSnapshot(r) /\ UNCHANGED scan
    PROVE  Small' /\ Undisturbed
<1>1. SnapshotStep(r) /\ IInv
  BY DEF SnapshotStep, SInv
<1>2. IInv' /\ KeepsReads(st', st) /\ st'.live = st.live
  BY <1>1, OpenStep, CloseStep, DropStep DEF SnapshotStep
<1>3. st.gen = 0 /\ st'.gen = 0 /\ txn' = txn
  BY <1>1, <1>2, SInvParts
     DEF KeepsReads, SnapshotStep, OpenSnapshot, CloseSnapshot, DropSnapshot
<1>4. Small'
  BY <1>1, <1>3, PinFinite, SInvParts DEF Small
<1>5. ASSUME scan' # None
      PROVE  /\ scan' = scan /\ Active(scan.by)'
             /\ Reads(st', token', txn', scan.by) = Reads(st, token, txn, scan.by)
  <2>1. scan' = scan
    BY <1>5 DEF EndScan
  <2>2. scan.by \in Contexts /\ Active(scan.by)
    BY <1>5, <2>1 DEF SInv, ScanInv, Scans
  <2>3. CASE scan.by = "txn"
    BY <1>2, <1>3, <2>1, <2>2, <2>3 DEF Reads, Active
  <2>4. CASE scan.by # "txn"
    <3>1. scan.by \in Readers /\ token[scan.by] # None
      BY <2>2, <2>4 DEF Contexts, Active
    <3>2. scan.by # r
      <4>1. OpenSnapshot(r) => token[r] = None
        BY DEF OpenSnapshot
      <4>2. scan # None
        BY <1>5, <2>1
      <4>3. ~(CloseSnapshot(r) /\ EndScan(r) /\ scan.by = r)
        BY <1>5, <4>2 DEF EndScan
      <4> QED  BY <3>1, <4>1, <4>2, <4>3 DEF ScannedBy
    <3>3. token'[scan.by] = token[scan.by]
      BY <1>1, <3>1, <3>2, SInvParts DEF SnapshotStep, OpenSnapshot, CloseSnapshot, DropSnapshot
    <3>4. token[scan.by].gen = 0
      BY <3>1, SInvParts
    <3>5. SnapshotReads(st', token'[scan.by].seq) = SnapshotReads(st, token[scan.by].seq)
      BY <1>2, <1>3, <3>1, <3>3, <3>4, SnapshotKept
    <3> QED  BY <2>1, <2>4, <3>1, <3>3, <3>5 DEF Reads, Active
  <2> QED  BY <2>3, <2>4
<1> QED  BY <1>4, <1>5 DEF Undisturbed

LEMMA BesideBegin ==
    ASSUME SInv, BeginTxn, UNCHANGED scan
    PROVE  Small' /\ Undisturbed
<1>1. txn = None /\ txn' = [gen |-> st.gen, pending |-> [k \in Keys |-> None]]
      /\ st' = st /\ token' = token /\ scan' = scan
  BY DEF BeginTxn
<1>2. Small'
  <2>1. Staged(txn'.pending) = {}
    BY <1>1 DEF Staged
  <2> QED  BY <1>1, <2>1, SInvParts, FS_EmptySet DEF Small
<1>3. ASSUME scan' # None
      PROVE  /\ scan' = scan /\ Active(scan.by)'
             /\ Reads(st', token', txn', scan.by) = Reads(st, token, txn, scan.by)
  <2>1. Active(scan.by)
    BY <1>1, <1>3 DEF SInv, ScanInv
  <2> QED  BY <1>1, <2>1 DEF Active, Reads
<1> QED  BY <1>2, <1>3 DEF Undisturbed

LEMMA BesideEnd ==
    ASSUME SInv, \/ Commit \/ Abort \/ \E f \in Keys, entryChanged \in BOOLEAN :
                                          CommitFails(f, entryChanged),
           EndScan("txn")
    PROVE  Small' /\ Undisturbed
<1>1. IInv /\ st.gen = 0 /\ Finite(st)
  BY SInvParts DEF SInv
<1>2. IInv' /\ KeepsReads(st', st) /\ Finite(st')
  <2>1. CASE Commit
    BY <1>1, <2>1, CommitStep, CommitFinite
  <2>2. CASE Abort
    <3>1. st' = st
      BY <2>2 DEF Abort
    <3> QED  BY <1>1, <2>2, <3>1, StagingStep DEF KeepsReads
  <2>3. CASE \E f \in Keys, entryChanged \in BOOLEAN : CommitFails(f, entryChanged)
    BY <1>1, <2>3, FailStep, FailFinite
  <2> QED  BY <2>1, <2>2, <2>3
<1>3. txn' = None /\ token' = token
  BY DEF Commit, Abort, CommitFails, EndTxn
<1>4. Small'
  BY <1>1, <1>2, <1>3 DEF Small, KeepsReads
<1>5. ASSUME scan' # None
      PROVE  /\ scan' = scan /\ Active(scan.by)'
             /\ Reads(st', token', txn', scan.by) = Reads(st, token, txn, scan.by)
  <2>1. scan' = scan /\ scan.by # "txn"
    BY <1>5 DEF EndScan
  <2>2. scan.by \in Readers /\ token[scan.by] # None
    BY <1>5, <2>1 DEF SInv, ScanInv, Active, Scans, Contexts
  <2>3. token[scan.by].gen = 0
    BY <2>2, SInvParts
  <2>4. SnapshotReads(st', token'[scan.by].seq) = SnapshotReads(st, token[scan.by].seq)
    BY <1>1, <1>2, <1>3, <2>2, <2>3, SnapshotKept
  <2> QED  BY <1>3, <2>1, <2>2, <2>4 DEF Reads, Active
<1> QED  BY <1>4, <1>5 DEF Undisturbed

LEMMA StageKeeps ==
    ASSUME SInv, NEW key \in Keys, NEW v \in Values \cup {Deleted}, StageBeside(key, v)
    PROVE  Small' /\ ScanInv'
<1>1. /\ txn # None /\ txn' = [txn EXCEPT !.pending[key] = v] /\ st' = st /\ token' = token
      /\ scan' = IF ScannedBy("txn") /\ (scan.done \/ key \notin Ahead(Keys, scan))
                 THEN [scan EXCEPT !.rewritten = @ \cup {key}] ELSE scan
  BY DEF StageBeside, Stage
<1>2. /\ txn \in Txns /\ txn.pending \in WriteSets /\ IsFiniteSet(Staged(txn.pending))
      /\ Finite(st) /\ st.gen = 0
  BY <1>1, SInvParts
<1>3. txn'.pending = [txn.pending EXCEPT ![key] = v]
  BY <1>1, <1>2 DEF Txns
<1>4. txn' # None
  <2>1. [txn.pending EXCEPT ![key] = v] \in WriteSets
    BY <1>2 DEF WriteSets
  <2>2. txn' \in Txns
    BY <1>1, <1>2, <2>1 DEF Txns
  <2> QED  BY <2>2, NoneAssumption
<1>5. Small'
  <2>1. Staged(txn'.pending) \in SUBSET (Staged(txn.pending) \cup {key})
    BY <1>2, <1>3 DEF Staged, WriteSets
  <2>2. IsFiniteSet(Staged(txn.pending) \cup {key})
    BY <1>2, FS_AddElement
  <2>3. IsFiniteSet(Staged(txn'.pending))
    BY <2>1, <2>2, FS_Subset
  <2> QED  BY <1>1, <1>2, <2>3 DEF Small
<1>6. CASE ScannedBy("txn")
  <2> DEFINE V == TxnReads(st.live, txn.pending)
             W == TxnReads(st.live, txn'.pending)
  <2>1. /\ scan # None /\ scan.by = "txn"
        /\ scan \in Scans /\ Placed(scan) /\ Exactly(scan, V)
    BY <1>6 DEF ScannedBy, SInv, ScanInv, Reads
  <2>2. \A k \in Keys \ {key} : W[k] = V[k]
    BY <1>2, <1>3 DEF TxnReads, WriteSets
  <2>3. scan' = IF scan.done \/ key \notin Ahead(Keys, scan)
                THEN [scan EXCEPT !.rewritten = @ \cup {key}] ELSE scan
    BY <1>1, <1>6
  <2> HIDE DEF V, W
  <2>4. scan' \in Scans /\ Placed(scan') /\ Exactly(scan', W) /\ scan'.by = "txn"
    BY <2>1, <2>2, <2>3, RewriteKeeps
  <2>5. Reads(st', token', txn', "txn") = W
    BY <1>1 DEF Reads, W
  <2> QED  BY <1>4, <1>5, <2>4, <2>5 DEF ScanInv, Active
<1>7. CASE ~ScannedBy("txn")
  <2>1. scan' = scan /\ (scan # None => scan.by # "txn")
    BY <1>1, <1>7 DEF ScannedBy
  <2>2. Undisturbed
    BY <1>1, <2>1 DEF Undisturbed, Reads, Active, SInv, ScanInv
  <2> QED  BY <1>5, <2>2, UndisturbedKeeps
<1> QED  BY <1>6, <1>7

LEMMA StartKeeps ==
    ASSUME SInv, NEW x \in Contexts, NEW reverse \in BOOLEAN, NEW range \in Ranges,
           ScanStart(x, reverse, range[1], range[2])
    PROVE  scan' \in Scans /\ Placed(scan') /\ Active(scan'.by)
           /\ \A V : Exactly(scan', V)
<1>1. /\ Active(x)
      /\ scan' = [by |-> x, reverse |-> reverse, stop |-> range[2],
                  bound |-> range[1], inclusive |-> TRUE, n |-> FirstPage,
                  rows |-> {}, done |-> FALSE, start |-> range[1], rewritten |-> {}]
  BY DEF ScanStart
<1>2. range[1] \in Keys \cup {None} /\ range[2] \in Keys \cup {None}
  BY ScansAssumption
<1>3. FirstPage \in 1 .. MaxPage
  BY ScansAssumption
<1>4. scan' \in Scans
  BY <1>1, <1>2, <1>3 DEF Scans
<1>5. Placed(scan')
  BY <1>1 DEF Placed
<1>6. Passed(scan') = {}
  BY <1>1 DEF Passed
<1>7. \A V : Exactly(scan', V)
  BY <1>1, <1>6 DEF Exactly
<1> QED  BY <1>1, <1>4, <1>5, <1>7


LEMMA SnapshotReadsType ==
    ASSUME NEW s \in Stores, Ordered(s), NEW q \in Int, NEW k \in Keys
    PROVE  SnapshotReads(s, q)[k] \in Entries
<1>1. /\ Len(s.history[k]) \in Nat
      /\ \A i \in 1 .. Len(s.history[k]) : s.history[k][i].old \in Entries
  BY HistoryType
<1>2. s.live[k] \in Entries
  BY StoreFields
<1>3. PICK c \in 0 .. Len(s.history[k]) :
             /\ c = Len(s.history[k]) => VersionAt(s, k, q) = Live
             /\ c < Len(s.history[k]) => VersionAt(s, k, q) = s.history[k][c + 1].old
  BY ReadsAt
<1>4. VersionAt(s, k, q) \in Entries \cup {Live}
  BY <1>1, <1>3
<1>5. SnapshotReads(s, q)[k] = IF VersionAt(s, k, q) = Live THEN s.live[k] ELSE VersionAt(s, k, q)
  BY DEF SnapshotReads, GetAt
<1> QED  BY <1>2, <1>4, <1>5

LEMMA PageKeeps ==
    ASSUME SInv, ScanPage
    PROVE  scan' \in Scans /\ Placed(scan') /\ scan'.by = scan.by
           /\ Exactly(scan', Reads(st, token, txn, scan.by))
<1> DEFINE V == Reads(st, token, txn, scan.by)
<1> PICK p : p = IF scan.by = "txn" THEN TxnPage(st, txn.pending, scan)
                 ELSE SnapshotPage(st, token[scan.by].seq, scan)
  OBVIOUS
<1>1. scan # None /\ ~scan.done /\ scan' = WithPage(scan, p)
  BY DEF ScanPage, WithPage
<1>2. scan \in Scans /\ Active(scan.by) /\ Placed(scan) /\ Exactly(scan, V)
  BY <1>1 DEF SInv, ScanInv
<1>3. /\ scan.reverse \in BOOLEAN /\ scan.n \in Nat \ {0} /\ scan.by \in Contexts
      /\ WithPage(scan, p).by = scan.by
  BY <1>2, ScansAssumption DEF Scans, WithPage
<1>4. /\ st \in Stores /\ AgreeIn(st) /\ Ordered(st)
      /\ IsFiniteSet(st.index) /\ IsFiniteSet(st.histIndex)
      /\ st.live \in [Keys -> Entries]
  BY SInvParts, StoreFields DEF Finite, Sound
<1>5. Yields(p, V, scan) /\ \A k \in Keys : V[k] \in Entries
  <2>1. CASE scan.by = "txn"
    <3>1. txn.pending \in WriteSets /\ IsFiniteSet(Staged(txn.pending))
      BY <1>2, <2>1, SInvParts DEF Active
    <3>2. V = TxnReads(st.live, txn.pending) /\ p = TxnPage(st, txn.pending, scan)
      BY <2>1 DEF Reads
    <3>3. \A k \in Keys : V[k] \in Entries
      BY <1>4, <3>1, <3>2 DEF TxnReads, WriteSets, Entries
    <3> HIDE DEF V
    <3> QED  BY <1>3, <1>4, <3>1, <3>2, <3>3, TxnYields
  <2>2. CASE scan.by # "txn"
    <3>1. token[scan.by] \in Tokens
      BY <1>2, <1>3, <2>2, SInvParts DEF Active, Contexts
    <3>2. token[scan.by].seq \in Int
      BY <3>1, BoundsAssumption DEF Tokens, Seqs
    <3>3. V = SnapshotReads(st, token[scan.by].seq)
          /\ p = SnapshotPage(st, token[scan.by].seq, scan)
      BY <2>2 DEF Reads
    <3>4. \A k \in Keys : V[k] \in Entries
      BY <1>4, <3>2, <3>3, SnapshotReadsType
    <3> HIDE DEF V
    <3> QED  BY <1>3, <1>4, <3>3, <3>4, SnapshotYields
  <2> QED  BY <2>1, <2>2
<1> HIDE DEF V
<1>6. p.rows \in SUBSET (Keys \X Values)
  <2> SUFFICES ASSUME NEW k \in Covered(p.cover, scan), V[k] # Absent
               PROVE  k \in Keys /\ V[k] \in Values
    BY <1>5 DEF Yields, Rows
  <2>1. k \in Keys
    BY DEF Covered, Ahead
  <2> QED  BY <1>5, <2>1 DEF Entries
<1>7. scan' \in Scans /\ Placed(scan') /\ Exactly(scan', V)
  BY <1>1, <1>2, <1>5, <1>6, PageAdds
<1> QED  BY <1>1, <1>3, <1>7 DEF V

LEMMA ScanInitOK == ScanInit => SInv
<1> SUFFICES ASSUME ScanInit PROVE SInv
  OBVIOUS
<1>1. Init /\ scan = None
  BY DEF ScanInit
<1>2. IInv
  BY <1>1, InitOK
<1>3. st.gen = 0 /\ st.index = {} /\ st.histIndex = {} /\ txn = None
  BY <1>1 DEF Init, EmptyStore
<1>4. Small
  BY <1>3, FS_EmptySet DEF Small, Finite
<1> QED  BY <1>1, <1>2, <1>4 DEF SInv, ScanInv

LEMMA ScanInductive == SInv /\ [ScanNext]_scanVars => SInv'
<1> SUFFICES ASSUME SInv, [ScanNext]_scanVars PROVE SInv'
  OBVIOUS
<1>1. IInv'
  <2>1. [Next]_vars
    BY DEF ScanNext, ScanStep, ScanStart, ScanPage, ScanEnd, Beside, StageBeside, scanVars, vars,
           Next, TxnStep, SnapshotStep
  <2> QED  BY <2>1, Inductive DEF SInv
<1>2. ASSUME UNCHANGED vars
      PROVE  /\ Small' /\ (Active(scan'.by) => Active(scan.by)')
             /\ \A by : Reads(st', token', txn', by) = Reads(st, token, txn, by)
  BY <1>2 DEF vars, SInv, Small, Active, Reads
<1>3. CASE UNCHANGED scanVars
  <2>1. st' = st /\ token' = token /\ txn' = txn /\ scan' = scan
    BY <1>3 DEF scanVars
  <2>2. Undisturbed
    BY <2>1 DEF Undisturbed, Active, SInv, ScanInv
  <2>3. Small'
    BY <2>1 DEF SInv, Small
  <2> QED  BY <1>1, <2>2, <2>3, UndisturbedKeeps DEF SInv
<1>4. ASSUME NEW x \in Contexts, NEW reverse \in BOOLEAN, NEW range \in Ranges,
             ScanStart(x, reverse, range[1], range[2])
      PROVE  SInv'
  <2>1. scan' \in Scans /\ Placed(scan') /\ Active(scan'.by) /\ \A V : Exactly(scan', V)
    BY <1>4, StartKeeps
  <2>2. UNCHANGED vars
    BY <1>4 DEF ScanStart
  <2>3. Small' /\ Active(scan.by)'
    BY <1>2, <2>1, <2>2
  <2>4. ScanInv'
    BY <2>1, <2>3 DEF ScanInv
  <2> QED  BY <1>1, <2>3, <2>4 DEF SInv
<1>5. CASE ScanPage
  <2>1. scan' \in Scans /\ Placed(scan') /\ scan'.by = scan.by
        /\ Exactly(scan', Reads(st, token, txn, scan.by))
    BY <1>5, PageKeeps
  <2>2. UNCHANGED vars /\ scan # None
    BY <1>5 DEF ScanPage
  <2>3. Active(scan'.by)
    BY <2>1, <2>2 DEF SInv, ScanInv
  <2>4. Small' /\ Active(scan.by)'
        /\ Reads(st', token', txn', scan'.by) = Reads(st, token, txn, scan.by)
    BY <1>2, <2>1, <2>2, <2>3
  <2>5. ScanInv'
    BY <2>1, <2>4 DEF ScanInv
  <2> QED  BY <1>1, <2>4, <2>5 DEF SInv
<1>6. CASE ScanEnd
  <2>1. UNCHANGED vars /\ scan' = None
    BY <1>6 DEF ScanEnd
  <2> QED  BY <1>1, <1>2, <2>1 DEF SInv, ScanInv
<1>7. CASE Beside
  <2>1. Small' /\ Undisturbed
    BY <1>7, BesideSnapshot, BesideBegin, BesideEnd DEF Beside
  <2> QED  BY <1>1, <2>1, UndisturbedKeeps DEF SInv
<1>8. ASSUME NEW k \in Keys, NEW v \in Values \cup {Deleted}, StageBeside(k, v)
      PROVE  SInv'
  <2>1. Small' /\ ScanInv'
    BY <1>8, StageKeeps
  <2> QED  BY <1>1, <2>1 DEF SInv
<1> QED  BY <1>3, <1>4, <1>5, <1>6, <1>7, <1>8 DEF ScanNext, ScanStep

LEMMA ScanInvariant == ScanSpec => []SInv
BY ScanInitOK, ScanInductive, PTL DEF ScanSpec

\* Scans, and the store they walk, are of the shape the model gives them: pages never
\* grow past the largest, and a scan resumes from a key or from its start.
THEOREM ScansTypeCorrect == ScanSpec => []ScansTypeOK
<1>1. SInv => ScansTypeOK
  BY DEF SInv, IInv, ScanInv, ScansTypeOK
<1> QED  BY <1>1, ScanInvariant, PTL

\* Whatever is committed, rolled back, trimmed or staged between its pages, a scan has
\* yielded exactly what its context reads, once each, as far as it has come.
THEOREM ScanExactCorrect == ScanSpec => []ScanExact
<1>1. SInv => ScanExact
  <2> SUFFICES ASSUME SInv, scan # None PROVE ScanExact
    BY DEF ScanExact
  <2> DEFINE V == Reads(st, token, txn, scan.by)
             value(k) == IF scan.by # "txn" THEN GetAt(st, k, token[scan.by].seq)
                         ELSE IF txn.pending[k] = None THEN st.live[k]
                         ELSE IF txn.pending[k] = Deleted THEN Absent ELSE txn.pending[k]
  <2>1. scan \in Scans /\ Exactly(scan, V)
    BY DEF SInv, ScanInv
  <2>2. \A k \in Passed(scan) : value(k) = V[k]
    <3>1. \A k \in Keys : value(k) = V[k]
      BY DEF Reads, SnapshotReads, TxnReads
    <3> QED  BY <2>1, <3>1, PassedKeys
  <2> HIDE DEF V, value
  <2>3. /\ \A k \in Passed(scan) \ scan.rewritten :
              {row \in scan.rows : row[1] = k} =
                 IF value(k) = Absent THEN {} ELSE {<<k, value(k)>>}
        /\ \A row \in scan.rows : row[1] \in Passed(scan)
        /\ \A row, other \in scan.rows : row[1] = other[1] => row = other
    BY <2>1, <2>2 DEF Exactly
  <2> QED  BY <2>3 DEF ScanExact, Passed, Whole, value
<1> QED  BY <1>1, ScanInvariant, PTL

=============================================================================
