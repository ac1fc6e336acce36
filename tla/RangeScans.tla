----------------------------- MODULE RangeScans -----------------------------
(***************************************************************************)
(* Scans of the four storages over encoded keys (_backends/storages/mem,   *)
(* sqlite, rocksdb and lmdb/scan.py), and the requests that containers     *)
(* make of them (container/container_ops.py). The owner resumes a scan row *)
(* by row and may write between rows; another thread may end the context   *)
(* between any two steps. In memory and SQLite fetch pages, RocksDB keeps  *)
(* a cursor and fetches batches, LMDB moves a cursor row by row.           *)
(* A bound is a place in the order of encoded keys, see OrderOf.             *)
(***************************************************************************)
EXTENDS KeyCodecs, FiniteSets

LOCAL INSTANCE SequencesExt    \* IsPrefix, Last

CONSTANTS
    KeySpace,     \* codec -> the keys that may be stored
    Contents,       \* codec -> the sets of keys that a context finds
    Requests,     \* codec -> the requests that are made
    Sizes,        \* the pages: [first, max, seek], and RocksDB's batches [first, max]
    MaxWritten,   \* bound: keys that are written while a scan is suspended
    Nil           \* no key, bound, limit or depth

VARIABLES
    db,      \* the storage and the context that scans
    cursor   \* the scan, or Nil

rangeVars == <<db, cursor>>

Engines == {"mem", "sqlite", "rocksdb", "lmdb"}

-----------------------------------------------------------------------------
(* Requests: StorageScanOptions. The filters are the prefix and the length  *)
(* that containers use; breakAt ends the scan, prefix and length skip rows. *)

\* A scan of a site's direct children.
ChildScan(site, reverse) ==
    [start |-> site, upper |-> reverse, reverse |-> reverse, breakAt |-> site,
     length |-> Len(site) + 1, limit |-> Nil, depth |-> Len(site) + 1, children |-> Nil]

\* _strict_child_scan keeps the site's own row, one more than the children it wants.
StrictChildScan(site, reverse, wanted) ==
    [ChildScan(site, reverse) EXCEPT !.length = Nil, !.children = wanted,
                                     !.limit = IF wanted = Nil THEN Nil ELSE wanted + 1]

FirstChildScan(site) == [ChildScan(site, FALSE) EXCEPT !.limit = 1]

\* iter_descendants, walk_descendants, move_child_subtree and clear: the whole subtree, or
\* the rows at a depth of it.
SubtreeScan(site, depth) ==
    [ChildScan(site, FALSE) EXCEPT !.depth = Nil,
                                   !.length = IF depth = Nil THEN Nil ELSE Len(site) + depth]

Breaks(r, k) == r.breakAt # Nil /\ ~IsPrefix(r.breakAt, k)
Deep(r, k)   == r.depth # Nil /\ Len(k) > r.depth
Kept(r, k)   == r.length # Nil => Len(k) = r.length
AtLimit(r, n) == r.limit # Nil /\ n >= r.limit

-----------------------------------------------------------------------------
(* The order of the encoded keys and bounds of an instance, worked out once  *)
(* and kept in db.order: they are counted from the smallest.                *)

Known(codec) ==
    LET named == KeySpace[codec] \cup {r.start : r \in {q \in Requests[codec] : q.start # Nil}}
    IN  UNION {{SubSeq(k, 1, n) : n \in 1 .. Len(k)} : k \in named}

Points(codec, keys) == {EncodeKey(codec, k) : k \in keys}
                          \cup {UpperBoundOfPrefix(codec, k) : k \in keys}

Rank(point, points) == Cardinality({p \in points : BytesLess(p, point)})

\* Where each key is, where its upper bound is, what decode_key makes of it.
OrderOf(codec, keys, points) ==
    [at      |-> [k \in keys |-> Rank(EncodeKey(codec, k), points)],
     above   |-> [k \in keys |-> Rank(UpperBoundOfPrefix(codec, k), points)],
     decoded |-> [k \in keys |-> DecodeKey(codec, EncodeKey(codec, k))]]

At(k)    == db.order.at[k]
Above(k) == db.order.above[k]

StartBound(r) ==
    CASE r.start = Nil -> Nil [] r.start # Nil /\ r.upper -> Above(r.start) [] OTHER -> At(r.start)

\* The prefix bound of the break filter: exclusive forward, inclusive in reverse.
StopBound(r) ==
    IF r.breakAt = Nil THEN Nil ELSE IF r.reverse THEN At(r.breakAt) ELSE Above(r.breakAt)

SkipBound(r, k) ==
    LET ancestor == SubSeq(k, 1, r.depth)
    IN  IF r.reverse THEN At(ancestor) ELSE Above(ancestor)

\* Whether k is at or past a bound in the order of the scan.
Past(r, k, bound, inclusive) ==
    IF bound = Nil \/ At(k) = bound THEN bound = Nil \/ inclusive
    ELSE IF r.reverse THEN At(k) < bound ELSE At(k) > bound

RowsAhead(bound, inclusive) == {k \in db.rows : Past(cursor.req, k, bound, inclusive)}

\* Without the rows past the prefix: what a page's SELECT or the page of the store sees.
AheadToStop ==
    LET r == cursor.req
    IN  {k \in RowsAhead(cursor.bound, cursor.inclusive) :
            StopBound(r) # Nil => IF r.reverse THEN At(k) >= StopBound(r) ELSE At(k) < StopBound(r)}

\* S as a sequence, each element behind those before it.
Sorted(S, before(_, _)) ==
    [i \in 1 .. Cardinality(S) |-> CHOOSE k \in S : Cardinality({j \in S : before(j, k)}) = i - 1]

InOrder(S) ==
    Sorted(S, LAMBDA j, k : IF cursor.req.reverse THEN At(j) > At(k) ELSE At(j) < At(k))

FirstOf(S, n) == LET s == InOrder(S) IN SubSeq(s, 1, IF Len(s) < n THEN Len(s) ELSE n)

\* The keys of S that a request asks for, in the order of tuple keys.
Wanted(r, S) ==
    LET before(j, k) == IF r.reverse THEN KeyLess(k, j) ELSE KeyLess(j, k)
        from(k) == \/ r.start = Nil \/ k = r.start
                   \/ before(r.start, k)
                   \/ r.upper /\ IsPrefix(r.start, k)
        inRange == {k \in S : from(k) /\ \A j \in S : from(j) /\ Breaks(r, j) => before(k, j)}
    IN  Sorted({k \in inRange : ~Deep(r, k) /\ Kept(r, k)}, before)

-----------------------------------------------------------------------------
RangeInit ==
    /\ \E engine \in Engines, codec \in Codecs, secondary \in BOOLEAN :
          /\ codec = "string" => engine = "mem"        \* the others compare bytes
          /\ secondary => engine = "rocksdb"
          /\ \E keys \in {Known(codec)}, rows \in Contents[codec] :
                db = [engine |-> engine, codec |-> codec, secondary |-> secondary, rows |-> rows,
                      order |-> OrderOf(codec, keys, Points(codec, keys)),
                      ctx |-> "open", fresh |-> TRUE, scanned |-> FALSE,
                      written |-> {}, wanted |-> <<>>, cut |-> Nil]   \* history
    /\ cursor = Nil

Is(engine, at) == cursor # Nil /\ db.engine = engine /\ cursor.at = at

Closed   == db.ctx \in {"closed", "over"}
Inactive == Closed \/ ~db.fresh
Running  == cursor # Nil /\ cursor.at \notin {"done", "raised"}

\* The scan ends, or raises; RocksDB's frees its iterator on the way out.
Finish(at) ==
    cursor' = [cursor EXCEPT !.at = at, !.buffer = <<>>, !.index = 1,
                             !.handle = IF @ = "none" THEN @ ELSE "closed"]

Unfiltered(r) == r.breakAt = Nil /\ r.length = Nil

FirstSize(r) ==
    LET first == IF db.engine = "rocksdb" THEN Sizes.firstBatch ELSE Sizes.firstPage
        asked == r.limit # Nil /\ (db.engine = "rocksdb" \/ Unfiltered(r))
    IN  IF ~asked \/ r.limit >= first THEN first ELSE IF r.limit < 1 THEN 1 ELSE r.limit

Grown(n) ==
    IF db.engine = "rocksdb"
    THEN IF 4 * n > Sizes.maxBatch THEN Sizes.maxBatch ELSE 4 * n
    ELSE IF 2 * n > Sizes.maxPage THEN Sizes.maxPage ELSE 2 * n

\* context.scan(options): nothing is read yet. Bound: a context scans once.
BeginScan(r) ==
    /\ cursor = Nil /\ ~Inactive /\ ~db.scanned
    /\ cursor' = [req |-> r, at |-> "new", bound |-> Nil, inclusive |-> TRUE, n |-> 0,
                  buffer |-> <<>>, index |-> 1, walked |-> 0, cover |-> Nil,
                  handle |-> "none", out |-> <<>>]
    /\ db' = [db EXCEPT !.scanned = TRUE, !.wanted = Wanted(r, db.rows)]

Enter ==
    /\ Running /\ cursor.at = "new"
    /\ IF Inactive THEN Finish("raised")
       ELSE IF db.engine = "mem" /\ AtLimit(cursor.req, 0) THEN Finish("done")
       ELSE cursor' = [cursor EXCEPT !.at = IF db.engine = "rocksdb" THEN "made" ELSE "page",
                                     !.handle = IF db.engine = "rocksdb" THEN "made" ELSE @,
                                     !.bound = StartBound(cursor.req),
                                     !.n = FirstSize(cursor.req)]
    /\ UNCHANGED db

-----------------------------------------------------------------------------
(* In memory: a page of the store, or, over the transaction's own writes,   *)
(* what StoreScans says of a page: the rows up to its cover, at most n from *)
(* each of the two sources, and no cover when neither was full.             *)

Covers ==
    LET page == FirstOf(AheadToStop, cursor.n)
    IN  IF db.written # {}
        THEN {Nil} \cup {k \in KeySpace[db.codec] :
                            Past(cursor.req, k, cursor.bound, cursor.inclusive)}
        ELSE IF Len(page) = cursor.n THEN {Last(page)} ELSE {Nil}

MemFetch ==
    /\ Is("mem", "page")
    /\ UNCHANGED db
    /\ IF Inactive THEN Finish("raised")
       ELSE \E cover \in Covers :
              LET upTo == IF cover = Nil THEN AheadToStop
                          ELSE {k \in AheadToStop : ~Past(cursor.req, k, At(cover), FALSE)}
              IN  /\ Cardinality(upTo) <= 2 * cursor.n
                  /\ cursor' = [cursor EXCEPT !.at = "rows", !.index = 1,
                                              !.buffer = InOrder(upTo), !.cover = cover]

-----------------------------------------------------------------------------
(* SQLite: one SELECT per page, under the context's lock.                   *)

SqliteFetch ==
    /\ Is("sqlite", "page")
    /\ UNCHANGED db
    /\ LET page == FirstOf(AheadToStop, cursor.n)
       IN  IF Inactive THEN Finish("raised")
           ELSE IF page = <<>> THEN Finish("done")
           ELSE cursor' = [cursor EXCEPT !.at = "rows", !.buffer = page, !.index = 1, !.walked = 0]

\* Mutants: the inclusive bound of a reverse scan, the ancestor's own row, jumped over.
FirstPast_Beyond(bound) ==
    LET past == {i \in cursor.index + 1 .. Len(cursor.buffer) :
                    Past(cursor.req, cursor.buffer[i], bound, FALSE)}
    IN  IF past = {} THEN Nil ELSE CHOOSE i \in past : \A j \in past : i <= j

\* _first_past: the first row of the page, after this one, at or past the bound.
FirstPast(bound) ==
    LET past == {i \in cursor.index + 1 .. Len(cursor.buffer) :
                    Past(cursor.req, cursor.buffer[i], bound, TRUE)}
    IN  IF past = {} THEN Nil ELSE CHOOSE i \in past : \A j \in past : i <= j

-----------------------------------------------------------------------------
(* RocksDB: an iterator that the context closes, registered after it is     *)
(* made. A native call on the iterator of an ended context may raise. On a  *)
(* secondary it may find that the primary dropped a file: the storage       *)
(* catches up, and the view is lost.                                        *)

Register ==
    /\ Is("rocksdb", "made")
    /\ cursor' = [cursor EXCEPT !.at = "page", !.handle = "registered"]
    /\ UNCHANGED db

RocksFetch ==
    /\ Is("rocksdb", "page")
    /\ UNCHANGED db
    /\ LET batch == FirstOf(RowsAhead(cursor.bound, cursor.inclusive), cursor.n)
       IN  \/ (cursor.handle = "closed" \/ Closed) /\ Finish("raised")
           \/ /\ cursor.handle # "closed"
              /\ IF batch = <<>> THEN Finish("done")
                 ELSE cursor' = [cursor EXCEPT !.at = "rows", !.buffer = batch, !.index = 1,
                                               !.bound = At(Last(batch)), !.inclusive = FALSE,
                                               !.n = Grown(@)]

Cut == IF db.cut = Nil /\ cursor # Nil THEN Len(cursor.out) ELSE db.cut

LoseView ==
    /\ Is("rocksdb", "page") /\ db.secondary /\ cursor.handle # "closed"
    /\ Finish("raised")
    /\ db' = [db EXCEPT !.fresh = FALSE, !.cut = Cut]

\* force_catch_up_with_primary, for another reader. An iterator keeps the view it was
\* made on; what the primary wrote shows in a new context only.
CatchUp ==
    /\ db.secondary /\ db.fresh
    /\ db' = [db EXCEPT !.fresh = FALSE, !.cut = Cut]
    /\ UNCHANGED cursor

-----------------------------------------------------------------------------
(* LMDB: from the cursor's row to the next one to yield, under the call     *)
(* lock. Deeper rows are skipped with one seek over their subtree.          *)

RECURSIVE NextRow(_, _)
NextRow(bound, inclusive) ==
    LET r  == cursor.req
        at == FirstOf(RowsAhead(bound, inclusive), 1)
    IN  IF at = <<>> \/ Breaks(r, at[1]) THEN Nil
        ELSE IF Deep(r, at[1]) THEN NextRow(SkipBound(r, at[1]), TRUE)
        ELSE IF ~Kept(r, at[1]) THEN NextRow(At(at[1]), FALSE)
        ELSE at[1]

Yield(k) == [cursor EXCEPT !.at = "suspended", !.out = Append(@, db.order.decoded[k])]

LmdbRow ==
    /\ Is("lmdb", "page")
    /\ UNCHANGED db
    /\ LET k == NextRow(cursor.bound, cursor.inclusive)
       IN  IF AtLimit(cursor.req, Len(cursor.out)) THEN Finish("done")
           ELSE IF Inactive THEN Finish("raised")
           ELSE IF k = Nil THEN Finish("done")
           ELSE cursor' = [Yield(k) EXCEPT !.bound = At(k), !.inclusive = FALSE]

-----------------------------------------------------------------------------
(* The rows of a page or batch, one per step: another thread may end the    *)
(* context between two of them.                                             *)

Doubled == [cursor EXCEPT !.at = "page", !.inclusive = FALSE, !.n = Grown(@), !.buffer = <<>>]

EndOfRows ==
    /\ Running /\ cursor.at = "rows" /\ cursor.index > Len(cursor.buffer)
    /\ UNCHANGED db
    /\ CASE db.engine = "mem" /\ cursor.cover = Nil -> Finish("done")
         [] db.engine = "mem" /\ cursor.cover # Nil -> cursor' = [Doubled EXCEPT !.bound = At(cursor.cover)]
         [] db.engine = "sqlite" /\ Len(cursor.buffer) < cursor.n -> Finish("done")
         [] db.engine = "sqlite" /\ Len(cursor.buffer) >= cursor.n ->
              cursor' = [Doubled EXCEPT !.bound = At(Last(cursor.buffer))]
         [] db.engine = "rocksdb" -> cursor' = [cursor EXCEPT !.at = "page", !.buffer = <<>>]

\* A row below the depth: jump past its subtree, within the page when it ends there.
Skip(k) ==
    LET bound == SkipBound(cursor.req, k)
        seek  == [cursor EXCEPT !.at = "page", !.bound = bound, !.inclusive = TRUE, !.buffer = <<>>]
        next  == FirstPast(bound)
    IN  CASE db.engine = "mem" -> cursor' = seek
          [] db.engine = "rocksdb" -> cursor' = [seek EXCEPT !.n = FirstSize(cursor.req)]
          [] db.engine = "sqlite" /\ next # Nil -> cursor' = [cursor EXCEPT !.index = next]
          [] db.engine = "sqlite" /\ next = Nil /\ Len(cursor.buffer) < cursor.n -> Finish("done")
          [] OTHER -> cursor' = [seek EXCEPT !.n = IF cursor.walked <= 1 THEN Sizes.seekPage
                                                   ELSE Grown(@)]

\* In memory and RocksDB look at the context before each row, SQLite before it yields one.
\* Mutants: the check only when the page is fetched.
InactiveBefore_AtFetch(engines) == FALSE

InactiveBefore(engines) == db.engine \in engines /\ Inactive

Row ==
    /\ Running /\ cursor.at = "rows" /\ cursor.index <= Len(cursor.buffer)
    /\ UNCHANGED db
    /\ LET r    == cursor.req
           k    == cursor.buffer[cursor.index]
           over == [cursor EXCEPT !.index = @ + 1, !.walked = @ + 1]
       IN  IF InactiveBefore({"mem", "rocksdb"}) THEN Finish("raised")
           ELSE IF Breaks(r, k) THEN Finish("done")
           ELSE IF Deep(r, k) THEN Skip(k)
           ELSE IF ~Kept(r, k) THEN cursor' = over
           ELSE IF db.engine # "mem" /\ AtLimit(r, Len(cursor.out)) THEN Finish("done")
           ELSE IF InactiveBefore({"sqlite"}) THEN Finish("raised")
           ELSE cursor' = [Yield(k) EXCEPT !.index = @ + 1, !.walked = @ + 1]

\* The owner asks for the next row: LMDB moves its cursor, in memory counts the last.
Resume ==
    /\ Running /\ cursor.at = "suspended"
    /\ UNCHANGED db
    /\ CASE db.engine = "mem" /\ AtLimit(cursor.req, Len(cursor.out)) -> Finish("done")
         [] db.engine = "lmdb" /\ Inactive -> Finish("raised")
         [] OTHER -> cursor' = [cursor EXCEPT !.at = IF db.engine = "lmdb" THEN "page" ELSE "rows"]

\* The generator is closed, or was exhausted, and the owner lets it go.
DropScan ==
    /\ cursor # Nil /\ cursor.at \in {"suspended", "done", "raised"}
    /\ cursor' = Nil
    /\ db' = [db EXCEPT !.rows = {}, !.wanted = <<>>, !.written = {}, !.cut = Nil]  \* of no use now

-----------------------------------------------------------------------------
(* Beside the scan.                                                         *)

\* The owner's writes between two rows. A row it already got is deleted safely.
Write(k) ==
    /\ Running /\ cursor.at = "suspended" /\ ~Inactive /\ ~db.secondary
    /\ LET yielded == \E i \in DOMAIN cursor.out : cursor.out[i] = k
           there   == k \in db.rows
       IN  db' = [db EXCEPT !.rows = IF there THEN @ \ {k} ELSE @ \cup {k},
                            !.written = IF there /\ yielded THEN @ ELSE @ \cup {k}]
    /\ Cardinality(db'.written) <= MaxWritten
    /\ UNCHANGED cursor

CloseHandle ==
    cursor' = IF Running /\ cursor.handle = "registered"
              THEN [cursor EXCEPT !.handle = "closed"] ELSE cursor

\* The context ends, on any thread. RocksDB closes the iterators, marks the context
\* closed, and closes those registered since.
EndContext ==
    \/ /\ db.engine # "rocksdb" /\ db.ctx = "open"
       /\ db' = [db EXCEPT !.ctx = "over", !.cut = Cut]
       /\ UNCHANGED cursor
    \/ /\ db.engine = "rocksdb" /\ db.ctx = "open"
       /\ db' = [db EXCEPT !.ctx = "closing"] /\ CloseHandle
    \/ /\ db.ctx = "closing"
       /\ db' = [db EXCEPT !.ctx = "closed", !.cut = Cut] /\ UNCHANGED cursor
    \/ /\ db.ctx = "closed"
       /\ db' = [db EXCEPT !.ctx = "over"] /\ CloseHandle

\* A new context, on whatever was committed meanwhile.
OpenContext ==
    /\ cursor = Nil /\ db.ctx = "over"
    /\ \E rows \in Contents[db.codec] :
          db' = [db EXCEPT !.ctx = "open", !.fresh = TRUE, !.scanned = FALSE, !.rows = rows,
                           !.cut = Nil]
    /\ UNCHANGED cursor

RangeNext ==
    \/ \E r \in Requests[db.codec] : BeginScan(r)
    \/ Enter \/ MemFetch \/ SqliteFetch \/ Register \/ RocksFetch \/ LoseView \/ LmdbRow
    \/ Row \/ EndOfRows \/ Resume \/ DropScan
    \/ \E k \in KeySpace[db.codec] : Write(k)
    \/ CatchUp \/ EndContext \/ OpenContext

RangeSpec == RangeInit /\ [][RangeNext]_rangeVars

-----------------------------------------------------------------------------
Without(s, keys) == SelectSeq(s, LAMBDA k : k \notin keys)

\* A scan yields exactly the keys that its request asks for, in key order and once,
\* whatever pages, batches, seeks over subtrees and limits it goes through, and whatever
\* its owner writes between rows: only keys written ahead of it go either way, and a row
\* it already yielded may be deleted.
RangeExact ==
    cursor # Nil =>
        LET r       == cursor.req
            wanted  == Without(db.wanted, db.written)
            got     == Without(cursor.out, db.written)
            ordered == \A i \in 2 .. Len(cursor.out) :
                          IF r.reverse THEN KeyLess(cursor.out[i], cursor.out[i - 1])
                          ELSE KeyLess(cursor.out[i - 1], cursor.out[i])
        IN  /\ IsPrefix(got, wanted)
            /\ ordered
            /\ r.limit # Nil => Len(cursor.out) <= r.limit
            /\ cursor.at = "done" => got = wanted \/ AtLimit(r, Len(cursor.out))
            /\ cursor.at = "done" /\ r.children # Nil /\ db.written = {} =>
                  LET children(s) == SelectSeq(s, LAMBDA k : Len(k) = Len(r.start) + 1)
                  IN  \/ Len(children(cursor.out)) >= r.children
                      \/ children(cursor.out) = children(db.wanted)

\* No row comes from a context that ended, or from a view that a catch-up retired, and a
\* suspended scan of an ended RocksDB context pins no file: its iterator is closed.
NothingAfterEnd ==
    /\ db.cut # Nil => cursor # Nil /\ Len(cursor.out) <= db.cut
    /\ db.ctx = "over" /\ cursor # Nil /\ cursor.at = "suspended" => cursor.handle # "registered"
=============================================================================
