----------------------------- MODULE StoreScans -----------------------------
(***************************************************************************)
(* Paged scans over the in-memory store (_backends/storages/mem/scan.py),  *)
(* beside commits, closes and the scanning transaction's own writes. A     *)
(* scan fetches one page per step, each under VersionedStore.lock, and     *)
(* seeks again from the last key it covered.                               *)
(***************************************************************************)
EXTENDS VersionedStore

CONSTANTS
    FirstPage, MaxPage,   \* rows of the first page of a scan, and of the largest
    Ranges,               \* <<start, stop>> of the scans, each a key or None
    MaxWrites             \* bound: keys of a write set

ASSUME ScansAssumption ==
    /\ FirstPage \in Nat \ {0} /\ MaxPage \in Nat /\ FirstPage <= MaxPage
    /\ Ranges \subseteq (Keys \cup {None}) \X (Keys \cup {None})
    /\ MaxWrites \in Nat

VARIABLE scan    \* the scan in progress, or None

scanVars == <<st, token, txn, scan>>

Contexts == Readers \cup {"txn"}

Scans ==
    [by : Contexts, reverse : BOOLEAN, stop : Keys \cup {None},
     bound : Keys \cup {None}, inclusive : BOOLEAN, n : 1 .. MaxPage,
     rows : SUBSET (Keys \X Values), done : BOOLEAN,
     start : Keys \cup {None}, rewritten : SUBSET Keys]   \* these two only for ScanExact

ScanInit == Init /\ scan = None

-----------------------------------------------------------------------------
(* Pages. A page is the set of its keys; the scan yields it in scan order. *)

Before(reverse, a, b) == IF reverse THEN a > b ELSE a < b

\* Keys of S that a scan still has to look at.
Ahead(S, sc) ==
    {k \in S : /\ sc.bound # None =>
                    Before(sc.reverse, sc.bound, k) \/ (sc.inclusive /\ k = sc.bound)
               /\ sc.stop # None => IF sc.reverse THEN k >= sc.stop ELSE k < sc.stop}

\* SortedKeys.page: the first n of them.
Page(S, sc) ==
    {k \in Ahead(S, sc) :
        Cardinality({j \in Ahead(S, sc) : Before(sc.reverse, j, k)}) < sc.n}

Smallest(S) == CHOOSE x \in S : \A y \in S : x <= y
Largest(S)  == CHOOSE x \in S : \A y \in S : x >= y

Last(S, reverse) == IF reverse THEN Smallest(S) ELSE Largest(S)

Full(page, sc) == Cardinality(page) = sc.n

\* The ends of the pages that may not be the last of their source.
Ends(base, overlay, sc) == {Last(p, sc.reverse) : p \in {q \in {base, overlay} : Full(q, sc)}}

\* Mutants of Cover: the farther end, where the nearer source may have skipped keys.
CoverFar(base, overlay, sc) ==
    LET ends == Ends(base, overlay, sc) IN IF ends = {} THEN None ELSE Last(ends, sc.reverse)

\* The last key both sources agree on.
Cover(base, overlay, sc) ==
    LET ends == Ends(base, overlay, sc) IN IF ends = {} THEN None ELSE Last(ends, ~sc.reverse)

\* merge_pages: rows up to cover. entry[k], for a key of the overlay, replaces its base
\* row, hides it (Absent) or keeps it (Live).
MergePages(live, base, overlay, entry, sc) ==
    LET cover == Cover(base, overlay, sc)
        value(k) == IF k \in overlay /\ entry[k] # Live THEN entry[k]
                    ELSE IF k \in base THEN live[k] ELSE Absent
        keys  == {k \in base \cup overlay :
                    /\ value(k) # Absent
                    /\ cover # None => ~Before(sc.reverse, cover, k)}
    IN  [rows |-> {<<k, value(k)>> : k \in keys}, cover |-> cover]

\* Nothing is overlaid: page_at without versions, _page without pending writes.
BasePage(live, base, sc) ==
    [rows  |-> {<<k, live[k]>> : k \in base},
     cover |-> IF Full(base, sc) THEN Last(base, sc.reverse) ELSE None]

SnapshotPage(s, seq, sc) ==
    LET base == Page(s.index, sc)
    IN  IF s.histIndex = {} THEN BasePage(s.live, base, sc)
        ELSE MergePages(s.live, base, Page(s.histIndex, sc),
                        [k \in Keys |-> VersionAt(s, k, seq)], sc)

TxnPage(s, pending, sc) ==
    LET base == Page(s.index, sc)
    IN  IF Staged(pending) = {} THEN BasePage(s.live, base, sc)
        ELSE MergePages(s.live, base, Page(Staged(pending), sc),
                        [k \in Keys |-> IF pending[k] = Deleted THEN Absent ELSE pending[k]], sc)

-----------------------------------------------------------------------------
(* Scans. A step of the store that ends a context ends its scan: the next   *)
(* row raises StorageClosedError. A reset ends them all and is left out.    *)

EndScan(x) == scan' = IF scan # None /\ scan.by = x THEN None ELSE scan

ScannedBy(x) == scan # None /\ scan.by = x

Beside ==
    \/ \E r \in Readers : \/ OpenSnapshot(r) /\ UNCHANGED scan
                          \/ CloseSnapshot(r) /\ EndScan(r)
                          \/ ~ScannedBy(r) /\ DropSnapshot(r) /\ UNCHANGED scan  \* it is referenced
    \/ BeginTxn /\ UNCHANGED scan
    \/ /\ Commit \/ Abort \/ \E f \in Keys, entryChanged \in BOOLEAN : CommitFails(f, entryChanged)
       /\ EndScan("txn")

\* A key that is staged behind the scan is past it.
StageBeside(k, v) ==
    /\ Stage(k, v)
    /\ Cardinality(Staged(txn'.pending)) <= MaxWrites
    /\ scan' = IF ScannedBy("txn") /\ (scan.done \/ k \notin Ahead(Keys, scan))
               THEN [scan EXCEPT !.rewritten = @ \cup {k}] ELSE scan

Active(x) == IF x = "txn" THEN txn # None ELSE token[x] # None

ScanStart(x, reverse, start, stop) ==
    /\ scan = None
    /\ Active(x)
    /\ scan' = [by |-> x, reverse |-> reverse, stop |-> stop,
                bound |-> start, inclusive |-> TRUE, n |-> FirstPage,
                rows |-> {}, done |-> FALSE, start |-> start, rewritten |-> {}]
    /\ UNCHANGED vars

NextSize(n) == IF 2 * n > MaxPage THEN MaxPage ELSE 2 * n

ScanPage ==
    /\ scan # None /\ ~scan.done
    /\ LET p == IF scan.by = "txn" THEN TxnPage(st, txn.pending, scan)
                ELSE SnapshotPage(st, token[scan.by].seq, scan)
       IN  scan' = [scan EXCEPT !.rows = @ \cup p.rows,
                                !.done = p.cover = None,
                                !.bound = IF p.cover = None THEN @ ELSE p.cover,
                                !.inclusive = FALSE,
                                !.n = NextSize(@)]
    /\ UNCHANGED vars

ScanEnd == scan # None /\ scan' = None /\ UNCHANGED vars

ScanStep ==
    \/ \E x \in Contexts, reverse \in BOOLEAN, range \in Ranges :
          ScanStart(x, reverse, range[1], range[2])
    \/ ScanPage \/ ScanEnd

ScanNext == ScanStep \/ Beside \/ \E k \in Keys, v \in Values \cup {Deleted} : StageBeside(k, v)

ScanSpec == ScanInit /\ [][ScanNext]_scanVars

-----------------------------------------------------------------------------
ScansTypeOK == TypeOK /\ scan \in Scans \cup {None}

\* A scan over several pages, with commits, closes and the transaction's own writes
\* between them, yields each visible key exactly once with its value, as far as it
\* has come; only keys the transaction staged again behind the scan go either way.
ScanExact ==
    scan # None =>
        LET whole  == Ahead(Keys, [scan EXCEPT !.bound = scan.start, !.inclusive = TRUE])
            passed == IF scan.done THEN whole
                      ELSE IF scan.inclusive THEN {}
                      ELSE {k \in whole : ~Before(scan.reverse, scan.bound, k)}
            value(k) == IF scan.by # "txn" THEN GetAt(st, k, token[scan.by].seq)
                        ELSE IF txn.pending[k] = None THEN st.live[k]
                        ELSE IF txn.pending[k] = Deleted THEN Absent ELSE txn.pending[k]
        IN  /\ \A k \in passed \ scan.rewritten :
                  {row \in scan.rows : row[1] = k} =
                     IF value(k) = Absent THEN {} ELSE {<<k, value(k)>>}
            /\ \A row \in scan.rows : row[1] \in passed
            /\ \A row, other \in scan.rows : row[1] = other[1] => row = other
=============================================================================
