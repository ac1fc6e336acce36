---------------------------- MODULE FractionalView ----------------------------
(***************************************************************************)
(* FractionalIndexedDictView: a collection of ids in an order that inserts *)
(* and moves never rewrite (_views/fractional_indexed_dict_view.py).  Every *)
(* backend admits one writing transaction at a time, so the operations of  *)
(* the view follow one another; what makes them hard is that each one is a *)
(* run of row writes over three child containers, that one of them may     *)
(* raise half way, and that the caller may keep what was written.          *)
(*                                                                         *)
(* An operation is a function from the rows to the set of rows it may      *)
(* leave: the random tails and the failure of a value write are the only   *)
(* choices.                                                                *)
(***************************************************************************)
EXTENDS FractionalIndex, FiniteSets, Functions

CONSTANTS
    Ids,            \* the addresses of the collection
    MaxKeyLength,   \* a fresh key longer than this respaces a window
    RespaceTarget,  \* the longest key a window respace may produce
    Window,         \* rows rewritten on each side of the gap
    MaxSteps        \* bound on the number of operations of a behaviour

VARIABLES
    rows,     \* data: id -> value, order: key -> id, pos: id -> key
    exists,   \* whether the view's containers have been created
    bypassed, \* ids whose data was written or dropped behind the view's back
    list,     \* what a Python list of the ids would hold after the same calls
    steps     \* how many operations ran

vars == <<rows, exists, bypassed, list, steps>>

\* A primitive, a container written whole, a container whose store raised.
Values == {"plain", "box", "torn"}
Written == {"plain", "box"}

LOCAL Without(f, S) == [x \in DOMAIN f \ S |-> f[x]]
LOCAL Put(f, k, v) == [x \in DOMAIN f \cup {k} |-> IF x = k THEN v ELSE f[x]]
LOCAL IsBox(v) == v # "plain"

NoRows == [data |-> <<>>, order |-> <<>>, pos |-> <<>>]

-----------------------------------------------------------------------------
(* Scans of the order rows.                                                *)

\* The keys of a scan, nearest first: all, or those past a bound.
RECURSIVE Ascending(_)
Ascending(S) ==
    IF S = {} THEN <<>>
    ELSE LET k == CHOOSE k \in S : \A j \in S : j = k \/ Before(k, j)
         IN  <<k>> \o Ascending(S \ {k})

Backwards(s) == [i \in 1 .. Len(s) |-> s[Len(s) + 1 - i]]
FirstOr(s) == IF s = <<>> THEN NoKey ELSE s[1]

KeysIn(r) == DOMAIN r.order
Iteration(r) == LET ks == Ascending(KeysIn(r)) IN [i \in 1 .. Len(ks) |-> r.order[ks[i]]]

FirstKey(r) == FirstOr(Ascending(KeysIn(r)))
LastKey(r) == FirstOr(Backwards(Ascending(KeysIn(r))))
KeyBeforeThis(r, k) == FirstOr(Backwards(Ascending({j \in KeysIn(r) : Before(j, k)})))
KeyAfterThis(r, k) == FirstOr(Ascending({j \in KeysIn(r) : Before(k, j)}))

\* At most so many rows from a bound on, the bound's row included.
Below(r, prev) ==
    IF prev = NoKey THEN <<>>
    ELSE Backwards(Ascending({j \in KeysIn(r) : j = prev \/ Before(j, prev)}))
Above(r, nxt) ==
    IF nxt = NoKey THEN <<>>
    ELSE Ascending({j \in KeysIn(r) : j = nxt \/ Before(nxt, j)})

-----------------------------------------------------------------------------
(* Placing an id between two neighbours.                                   *)

Index(r, id, k) == [r EXCEPT !.pos = Put(r.pos, id, k), !.order = Put(r.order, k, id)]

\* Put ids on keys, one row after the other.
RECURSIVE IndexAll(_, _, _)
IndexAll(r, ids, ks) ==
    IF ids = <<>> THEN r
    ELSE IndexAll(Index(r, Head(ids), Head(ks)), Tail(ids), Tail(ks))

\* The rows a window of n on each side takes, the keys that bound it and the
\* runs of fresh keys that fit it; n = 0 is the whole collection.
WindowOf(r, prev, nxt, n) ==
    LET below == Below(r, prev)
        above == Above(r, nxt)
        cut(s) == IF n = 0 \/ Len(s) <= n THEN s ELSE SubSeq(s, 1, n)
        bound(s) == IF n = 0 \/ Len(s) <= n THEN NoKey ELSE s[n + 1]
    IN  [below |-> Backwards(cut(below)), above |-> cut(above),
         runs |-> SuffixedRunsBetween(bound(below), bound(above),
                                      Len(cut(below)) + 1 + Len(cut(above)))]

Short(run) == \A i \in 1 .. Len(run) : Len(run[i]) <= RespaceTarget

\* A result is the rows and the key left for the gap.
Rewritten(r, w, run) ==
    LET taken == w.below \o w.above
        n == Len(w.below)
        ids == [i \in 1 .. Len(taken) |-> r.order[taken[i]]]
        fresh == SubSeq(run, 1, n) \o SubSeq(run, n + 2, Len(run))
        cleared == [r EXCEPT !.order = Without(r.order, Range(taken))]
    IN  [rows |-> IndexAll(cleared, ids, fresh), key |-> run[n + 1]]

\* The first width whose fresh keys are short is rewritten, the last one whatever they are.
RECURSIVE RespaceIn(_, _, _, _)
RespaceIn(r, prev, nxt, widths) ==
    UNION {{Rewritten(r, w, run) : run \in {x \in w.runs : Len(widths) = 1 \/ Short(x)}}
           \cup (IF Len(widths) = 1 \/ \A run \in w.runs : Short(run) THEN {}
                 ELSE RespaceIn(r, prev, nxt, Tail(widths))) :
               w \in {WindowOf(r, prev, nxt, Head(widths))}}

\* A window as it is, four times as wide, the whole collection.
RespaceAround(r, prev, nxt) == RespaceIn(r, prev, nxt, <<Window, 4 * Window, 0>>)

AllotFrom(r, prev, nxt, drawn) ==
    {[rows |-> r, key |-> k] :
        k \in {x \in drawn : Len(x) <= MaxKeyLength /\ x \notin KeysIn(r)}}
    \cup (IF \A k \in drawn : Len(k) <= MaxKeyLength THEN {} ELSE RespaceAround(r, prev, nxt))

\* A fresh key in the gap.  A taken key is drawn again; the draws that never
\* find a free one are left out: a key between two neighbours is never taken.
Allot(r, prev, nxt) == AllotFrom(r, prev, nxt, SuffixedKeysBetween(prev, nxt))

Place(r, id, prev, nxt) == {Index(a.rows, id, a.key) : a \in Allot(r, prev, nxt)}

Relocate(r, id, k, prev, nxt) ==
    Place([r EXCEPT !.order = Without(r.order, {k})], id, prev, nxt)

-----------------------------------------------------------------------------
(* Writing a value.  A plain value and a container never replace one       *)
(* another; a container may be left torn.  An outcome is the rows and      *)
(* whether the write raised.                                               *)

Positioned(r, id) == IF id \in DOMAIN r.pos THEN {r} ELSE Place(r, id, LastKey(r), NoKey)

\* The hook _on_child_created runs when the child had no row before.
Store(r, id, v) ==
    LET put == [r EXCEPT !.data = Put(r.data, id, v)]
    IN  IF id \in DOMAIN r.data THEN {put} ELSE Positioned(put, id)

WriteValue(r, id, v) ==
    IF id \in DOMAIN r.data /\ IsBox(r.data[id]) # IsBox(v)
    THEN {[rows |-> r, raised |-> TRUE]}
    ELSE UNION {{[rows |-> s, raised |-> x # v] : s \in Store(r, id, x)} :
                    x \in IF IsBox(v) THEN {v, "torn"} ELSE {v}}
         \cup (IF IsBox(v) THEN {} ELSE {[rows |-> r, raised |-> TRUE]})

\* __setitem__, set_primitive and set_child_container_as.
SetItem(r, id, v) ==
    UNION {IF w.raised THEN {w}
           ELSE {[rows |-> s, raised |-> FALSE] : s \in Positioned(w.rows, id)} :
               w \in WriteValue(r, id, v)}

\* update and store put the items one by one and stop at the first that raises.
RECURSIVE SetItems(_, _, _)
SetItems(r, ids, v) ==
    IF ids = <<>> THEN {[rows |-> r, raised |-> FALSE]}
    ELSE UNION {IF w.raised THEN {w} ELSE SetItems(w.rows, Tail(ids), v) :
                    w \in SetItem(r, Head(ids), v)}

InCollection(r, id) == id \in DOMAIN r.pos /\ r.pos[id] \in KeysIn(r)

\* A change of the code: a failed insert takes back its position only.
Insert_KeepsData(r, id, v, prev, nxt) ==
    IF InCollection(r, id) THEN {[rows |-> r, raised |-> TRUE]}
    ELSE UNION {
        {IF w.raised
         THEN [rows |-> [w.rows EXCEPT !.pos = Without(w.rows.pos, {id})], raised |-> TRUE]
         ELSE [rows |-> Index(w.rows, id, a.key), raised |-> FALSE] :
             w \in WriteValue([a.rows EXCEPT !.pos = Put(a.rows.pos, id, a.key)], id, v)} :
        a \in Allot(r, prev, nxt)}

\* The position row first, then the value, then the order row.  When the value
\* raises, the position and whatever the id holds are deleted.
Insert(r, id, v, prev, nxt) ==
    IF InCollection(r, id) THEN {[rows |-> r, raised |-> TRUE]}
    ELSE UNION {
        {IF w.raised
         THEN [rows |-> [w.rows EXCEPT !.pos = Without(w.rows.pos, {id}),
                                       !.data = Without(w.rows.data, {id})],
               raised |-> TRUE]
         ELSE [rows |-> Index(w.rows, id, a.key), raised |-> FALSE] :
             w \in WriteValue([a.rows EXCEPT !.pos = Put(a.rows.pos, id, a.key)], id, v)} :
        a \in Allot(r, prev, nxt)}

-----------------------------------------------------------------------------
(* rebuild_bookkeeping keeps the first order row of every id that has      *)
(* data, drops the other rows and appends the ids that have no row.        *)

Kept(r) ==
    {k \in KeysIn(r) :
        /\ r.order[k] \in DOMAIN r.data
        /\ \A j \in KeysIn(r) : r.order[j] = r.order[k] => j = k \/ Before(k, j)}

\* The positions are only corrected, never added: an id that keeps its order
\* row and has no position stays without one.
Repaired(r) ==
    LET kept == Kept(r)
        keyOf(id) == CHOOSE k \in kept : r.order[k] = id
        listed == {r.order[k] : k \in kept}
    IN  [r EXCEPT !.order = Restrict(r.order, kept),
                  !.pos = [id \in DOMAIN r.pos \cap listed |-> keyOf(id)]]

\* A data scan meets the ids in the order of their segments; any order here.
RECURSIVE AppendAll(_, _)
AppendAll(r, ids) ==
    IF ids = {} THEN {r}
    ELSE UNION {UNION {AppendAll(s, ids \ {id}) : s \in Place(r, id, LastKey(r), NoKey)} :
                    id \in ids}

Rebuilt(r) ==
    AppendAll(Repaired(r), DOMAIN r.data \ {r.order[k] : k \in Kept(r)})

Respaced(r) ==
    LET ids == Iteration(r)
    IN  {IndexAll([r EXCEPT !.order = <<>>], ids, run) :
            run \in SuffixedRunsBetween(NoKey, NoKey, Len(ids))}

-----------------------------------------------------------------------------
(* The calls.  Each one also does to "list" what it promises to the caller. *)

LOCAL Dropped(s, id) == SelectSeq(s, LAMBDA x : x # id)
LOCAL Listed(s, id) == \E i \in 1 .. Len(s) : s[i] = id
LOCAL IndexOf(s, id) == CHOOSE i \in 1 .. Len(s) : s[i] = id
LOCAL Placed(s, id, i) == SubSeq(s, 1, i) \o <<id>> \o SubSeq(s, i + 1, Len(s))
LOCAL AtEnd(s, id) == IF Listed(s, id) THEN s ELSE Append(s, id)
LOCAL Has(id) == id \in DOMAIN rows.pos

Init ==
    /\ rows = NoRows
    /\ exists = FALSE
    /\ bypassed = {}
    /\ list = <<>>
    /\ steps = 0

Step == steps < MaxSteps /\ steps' = steps + 1

\* Leave the rows r and the list; the ids in "whole" have all their rows again.
Leaves(r, then, whole) ==
    /\ rows' = r
    /\ exists' = TRUE
    /\ list' = then
    /\ bypassed' = bypassed \ whole

Unless(raised, S) == IF raised THEN {} ELSE S

\* An id is listed when it was new and its row was put.
SetItemStep(id, v) ==
    /\ Step
    /\ \E w \in SetItem(rows, id, v) :
           LET began == id \notin DOMAIN rows.data /\ w.rows # rows
           IN  Leaves(w.rows,
                      IF ~ Has(id) /\ (began \/ ~ w.raised) THEN Append(list, id) ELSE list,
                      Unless(w.raised, {id}))

InsertAt(id, v, prev, nxt, place) ==
    \E w \in Insert(rows, id, v, prev, nxt) :
        Leaves(w.rows, IF w.raised THEN list ELSE Placed(list, id, place),
               Unless(w.raised, {id}))

AppendStep(id, v) ==
    /\ Step
    /\ InsertAt(id, v, LastKey(rows), NoKey, Len(list))

Prepend(id, v) ==
    /\ Step
    /\ InsertAt(id, v, NoKey, FirstKey(rows), 0)

InsertBefore(ref, id, v) ==
    /\ Step
    /\ Has(ref)
    /\ LET k == rows.pos[ref]
       IN  InsertAt(id, v, KeyBeforeThis(rows, k), k, IndexOf(list, ref) - 1)

InsertAfter(ref, id, v) ==
    /\ Step
    /\ Has(ref)
    /\ LET k == rows.pos[ref]
       IN  InsertAt(id, v, k, KeyAfterThis(rows, k), IndexOf(list, ref))

Moves(id, prev, nxt, then) ==
    \E r \in Relocate(rows, id, rows.pos[id], prev, nxt) : Leaves(r, then, {})

MoveBefore(id, ref) ==
    /\ Step
    /\ Has(id) /\ Has(ref) /\ id # ref
    /\ LET k == rows.pos[ref]
           rest == Dropped(list, id)
       IN  /\ KeyBeforeThis(rows, k) # rows.pos[id]
           /\ Moves(id, KeyBeforeThis(rows, k), k, Placed(rest, id, IndexOf(rest, ref) - 1))

MoveAfter(id, ref) ==
    /\ Step
    /\ Has(id) /\ Has(ref) /\ id # ref
    /\ LET k == rows.pos[ref]
           rest == Dropped(list, id)
       IN  /\ KeyAfterThis(rows, k) # rows.pos[id]
           /\ Moves(id, k, KeyAfterThis(rows, k), Placed(rest, id, IndexOf(rest, ref)))

MoveFirst(id) ==
    /\ Step
    /\ Has(id) /\ FirstKey(rows) \notin {NoKey, rows.pos[id]}
    /\ Moves(id, NoKey, FirstKey(rows), <<id>> \o Dropped(list, id))

MoveLast(id) ==
    /\ Step
    /\ Has(id) /\ LastKey(rows) \notin {NoKey, rows.pos[id]}
    /\ Moves(id, LastKey(rows), NoKey, Append(Dropped(list, id), id))

\* __delitem__, and pop after its read; an id with neither row nor data raises.
DelItem(id) ==
    /\ Step
    /\ Has(id) \/ id \in DOMAIN rows.data
    /\ rows' = [data |-> Without(rows.data, {id}),
                order |-> IF Has(id) THEN Without(rows.order, {rows.pos[id]}) ELSE rows.order,
                pos |-> Without(rows.pos, {id})]
    /\ list' = Dropped(list, id)
    /\ bypassed' = bypassed \ {id}
    /\ UNCHANGED exists

Clear ==
    /\ Step
    /\ exists
    /\ Leaves(NoRows, <<>>, Ids)

\* store(replace) clears first, and only when the view has an order row; the
\* items that were set before one raised stay.
StoreItems(ids, v, replace) ==
    /\ Step
    /\ LET clears == replace /\ FirstKey(rows) # NoKey
           from == IF clears THEN NoRows ELSE rows
           old == IF clears THEN <<>> ELSE list
       IN  \E w \in SetItems(from, ids, v) :
               Leaves(w.rows,
                      old \o SelectSeq(ids, LAMBDA id : /\ id \in DOMAIN w.rows.pos
                                                        /\ ~ Listed(old, id)),
                      (IF clears THEN Ids ELSE {}) \cup Unless(w.raised, Range(ids)))

RebuildBookkeeping ==
    /\ Step
    /\ exists
    /\ \E r \in Rebuilt(rows) :
           LET kept == SelectSeq(list, LAMBDA id : id \in DOMAIN rows.data)
           IN  Leaves(r, kept \o SelectSeq(Iteration(r), LAMBDA id : ~ Listed(kept, id)), Ids)

Respace ==
    /\ Step
    /\ KeysIn(rows) # {}
    /\ \E r \in Respaced(rows) : Leaves(r, list, {})

\* A child's own container, written or deleted past the view, reaches the data
\* rows and no other.
Bypass(id) ==
    /\ Step
    /\ exists
    /\ rows' = [rows EXCEPT !.data = IF id \in DOMAIN rows.data THEN Without(rows.data, {id})
                                     ELSE Put(rows.data, id, "box")]
    /\ bypassed' = bypassed \cup {id}
    /\ UNCHANGED <<exists, list>>

Pairs == {<<i, j>> \in Ids \X Ids : i # j}

Next ==
    \/ \E id \in Ids, v \in Written :
           SetItemStep(id, v) \/ AppendStep(id, v) \/ Prepend(id, v)
    \/ \E p \in Pairs : MoveBefore(p[1], p[2]) \/ MoveAfter(p[1], p[2])
    \/ \E p \in Pairs, v \in Written : InsertBefore(p[1], p[2], v) \/ InsertAfter(p[1], p[2], v)
    \/ \E id \in Ids : MoveFirst(id) \/ MoveLast(id) \/ DelItem(id) \/ Bypass(id)
    \/ \E p \in Pairs, replace \in BOOLEAN : StoreItems(p, "plain", replace)
    \/ Clear
    \/ RebuildBookkeeping
    \/ Respace

Spec == Init /\ [][Next]_vars

-----------------------------------------------------------------------------
(* Properties.                                                             *)

\* The rows hold ids and values, and every order key is one the generator
\* accepts as a neighbour and is no longer than the cap, whatever sequence of
\* inserts at one gap came before.
TypeOK ==
    /\ DOMAIN rows.data \subseteq Ids /\ Range(rows.data) \subseteq Values
    /\ DOMAIN rows.pos \subseteq Ids
    /\ Range(rows.order) \subseteq Ids
    /\ \A k \in KeysIn(rows) \cup Range(rows.pos) : ValidOrderKey(k) /\ Len(k) <= MaxKeyLength

\* Iterating the view gives what a list would hold after the same calls: an
\* insert or a move puts one id where it was asked to and moves no other, and
\* a respace on the way, of a window or of all the rows, changes no order.
IterationIsList == Iteration(rows) = list

\* An id that nobody wrote behind the view has data, a position and one order
\* row that name each other, or none of the three: also after a value write
\* that raised, and for every id after rebuild_bookkeeping.
IndexesAgree ==
    \A id \in Ids \ bypassed :
        LET at == {k \in KeysIn(rows) : rows.order[k] = id}
        IN  IF id \in DOMAIN rows.data
            THEN id \in DOMAIN rows.pos /\ at = {rows.pos[id]}
            ELSE id \notin DOMAIN rows.pos /\ at = {}
=============================================================================
