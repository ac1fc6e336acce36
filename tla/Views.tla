-------------------------------- MODULE Views --------------------------------
(***************************************************************************)
(* The views: Python's lists, dicts and sets over a container (_views/).   *)
(* A view keeps no state of its own; each call is a run of row writes, and *)
(* beside the rows it keeps books: a stored length, a list of keys in the  *)
(* order of insertion, a log of keys with its reverse index.               *)
(*                                                                         *)
(* One view at the site <<>> takes calls; "ref" is what the Python value   *)
(* it stands for would hold after the same calls.  Values are primitives,  *)
(* and lists and sets of primitives, stored as child containers.           *)
(***************************************************************************)
EXTENDS ContainerTree, Functions

CONSTANTS
    Prims,      \* the primitive values
    Boxes,      \* the compound values
    Keys,       \* the keys of a mapping
    Roots,      \* the kinds of view to look at
    MaxLen,     \* bound on the length of a list
    MaxSteps    \* bound on the number of calls of a behaviour

VARIABLES
    kind,       \* the class of the view
    tree,       \* its rows and metadata
    ref,        \* the elements, pairs or members of the Python value, in order,
                \* and the pairs written past the hooks of an indexed view
    slips,      \* which known limits of the code the behaviour has met
    steps

vars == <<kind, tree, ref, slips, steps>>

Root == <<>>
DataName == -1
KeysName == -2
LogName == -3

Sequences_ == {"list", "tuple", "bytearray", "flat_list"}
Members == {"set", "frozenset"}
Indexed == {"indexed_dict", "log_dict"}
Mappings == {"dict", "flat_dict", "light_dict", "kh57"} \cup Indexed
Nesting == {"list", "tuple", "dict", "kh57"} \cup Indexed

\* A primitive is stored as it is; a compound value names its view class.
Value(v) == [kind |-> "primitive", items |-> <<v>>]
Values(K) == {Value(v) : v \in Prims} \cup (IF K \in Nesting THEN Boxes ELSE {})

\* A set member is stored under a digest of it: unique, in no useful order.
MemberKey(v) == 100 - v

\* kh57 sorts a key under the level its hash picks, then by the key.
Kh57(k) == 1000 * (k % 2) + k
Kh57Mask(e) == e % 1000

Site(K) == IF K \in Indexed THEN <<DataName>> ELSE Root
Segment(K, k) == IF K = "kh57" THEN Kh57(k) ELSE k
Address(K, k) == Child(Site(K), Segment(K, k))

SetLength(t, n) == PutLen(t, Root, n)
IncrementLength(t, p) == PutLen(t, p, GetLen(t, p) + 1)
DecrementLength(t, p) == IF GetLen(t, p) > 0 THEN PutLen(t, p, GetLen(t, p) - 1) ELSE t

-----------------------------------------------------------------------------
(* Creation and the books of a new child.                                  *)

\* A flat list of keys, the first part of an indexed dict's books.
FlatAppend(t, p, v) ==
    IncrementLength(PutRow(t, Child(p, GetLen(t, p)), Primitive(v)), p)

FlatStore(t, p, vs) ==
    LET cleared == PutLen(ClearChildren(t, p), p, 0)
    IN  FoldLeft(LAMBDA u, v : FlatAppend(u, p, v), cleared, vs)

\* Two rows: the log in time order and the way back from a key to its entry.
AppendLogKey(t, k) ==
    LET entry == t.tick + 1
        logged == PutRow(t, <<KeysName, entry>>, Primitive(k))
    IN  [PutRow(logged, <<LogName, k>>, Primitive(entry)) EXCEPT !.tick = entry]

EnsureInternalLayout(t, K) ==
    LET names == IF K = "indexed_dict" THEN <<DataName, KeysName>>
                 ELSE IF K = "log_dict" THEN <<DataName, KeysName, LogName>> ELSE <<>>
        layout(n) == IF K = "indexed_dict" /\ n = KeysName THEN "flat_list" ELSE "dict"
    IN  FoldLeft(LAMBDA u, n : CreateContainer(u, <<n>>, layout(n)).tree, t, names)

EnsureCreated(t, K) == EnsureInternalLayout(CreateContainer(t, Root, K).tree, K)

OnChildCreated(t, K, k) ==
    IF K \in Members \cup {"kh57"} THEN IncrementLength(t, Root)
    ELSE IF K = "indexed_dict" THEN FlatAppend(t, <<KeysName>>, k)
    ELSE IF K = "log_dict" THEN AppendLogKey(t, k)
    ELSE t

\* A change of the code: the hook of the parent runs at every write.
Entered_Always(old, new, K, k, q) == OnChildCreated(new, K, k)

\* The hook of the parent runs once, when the child had no row.
Entered(old, new, K, k, q) == IF Exists(old, q) THEN new ELSE OnChildCreated(new, K, k)

PutChild(t, K, k, q, v) ==
    IF IsContainer(t, q) THEN Raise(t)
    ELSE Done(Entered(t, PutRow(t, q, Primitive(v)), K, k, q))

-----------------------------------------------------------------------------
(* A compound value fills a child container.  An existing child of the     *)
(* same class is replaced; a new one has nothing to clear.                 *)

FillList(t, q, vs, replace) ==
    LET from == IF replace THEN PutLen(ClearChildren(t, q), q, 0) ELSE t
        count == GetLen(from, q)
        put(u, i) == PutRow(u, Child(q, count + i - 1), Primitive(vs[i]))
    IN  PutLen(FoldLeft(put, from, [i \in 1 .. Len(vs) |-> i]), q, count + Len(vs))

PutMember(t, q, v) ==
    LET m == Child(q, MemberKey(v))
    IN  IF Exists(t, m) THEN t ELSE IncrementLength(PutRow(t, m, Primitive(v)), q)

FillSet(t, q, vs, replace) ==
    LET from == IF replace THEN PutLen(ClearChildren(t, q), q, 0) ELSE t
    IN  FoldLeft(LAMBDA u, v : PutMember(u, q, v), from, vs)

PopulateChild(t, K, k, q, value) ==
    LET made == CreateContainer(t, q, value.kind)
        entered == Entered(t, made.tree, K, k, q)
        replace == Exists(t, q)
    IN  IF made.raised THEN made
        ELSE Done(IF value.kind = "set" THEN FillSet(entered, q, value.items, replace)
                  ELSE FillList(entered, q, value.items, replace))

SetChildValue(t, K, k, value) ==
    LET made == EnsureCreated(t, K)
        q == Address(K, k)
    IN  IF value.kind = "primitive" THEN PutChild(made, K, k, q, value.items[1])
        ELSE PopulateChild(made, K, k, q, value)

\* Items one by one; the first that raises ends it.
SetChildValues(t, K, pairs) ==
    FoldLeft(LAMBDA o, p : IF o.raised THEN o ELSE SetChildValue(o.tree, K, p[1], p[2]),
             Done(t), pairs)

-----------------------------------------------------------------------------
(* Reads.  A list goes over its rows; a tuple and a bytearray count up to  *)
(* their length; an indexed view goes over its keys.                       *)

\* The value at a site; a row that is missing reads as nothing.
Gone == [kind |-> "missing", items |-> <<>>]
ValueAt(t, q) ==
    IF ~ Exists(t, q) THEN Gone
    ELSE IF IsPrimitive(t, q) THEN Value(t.rows[q].value)
    ELSE LET vs == [i \in 1 .. CountChildren(t, q) |-> t.rows[Child(q, IterChildKeys(t, q)[i])].value]
         IN  [kind |-> t.rows[q].kind,
              items |-> IF t.rows[q].kind = "set" THEN Reverse(vs) ELSE vs]

ListContent(t) ==
    LET ks == IterChildKeys(t, Root) IN [i \in 1 .. Len(ks) |-> ValueAt(t, <<ks[i]>>)]

TupleContent(t) == [i \in 1 .. GetLen(t, Root) |-> ValueAt(t, <<i - 1>>)]

DictContent(t) ==
    LET ks == IterChildKeys(t, Root) IN [i \in 1 .. Len(ks) |-> <<ks[i], ValueAt(t, <<ks[i]>>)>>]

\* The levels merged: original key order.
Kh57Content(t) ==
    LET ks == SetToSortSeq({Kh57Mask(e) : e \in ChildKeys(t, Root)}, <)
    IN  [i \in 1 .. Len(ks) |-> <<ks[i], ValueAt(t, <<Kh57(ks[i])>>)>>]

SetContent(t) ==
    LET ks == Reverse(IterChildKeys(t, Root)) IN [i \in 1 .. Len(ks) |-> ValueAt(t, <<ks[i]>>)]

\* The keys in the order they were first set.
KeysInOrder(t) ==
    LET ks == IterChildKeys(t, <<KeysName>>)
    IN  [i \in 1 .. Len(ks) |-> t.rows[<<KeysName, ks[i]>>].value]

IndexedContent(t) ==
    LET ks == KeysInOrder(t)
    IN  [i \in 1 .. Len(ks) |-> <<ks[i], ValueAt(t, <<DataName, ks[i]>>)>>]

Content(t, K) ==
    IF ~ Exists(t, Root) THEN <<>>
    ELSE IF K \in {"list", "flat_list"} THEN ListContent(t)
    ELSE IF K \in {"tuple", "bytearray"} THEN TupleContent(t)
    ELSE IF K \in Members THEN SetContent(t)
    ELSE IF K = "kh57" THEN Kh57Content(t)
    ELSE IF K \in Indexed THEN IndexedContent(t)
    ELSE DictContent(t)

\* What len() answers.
Length(t, K) ==
    IF K \in {"dict", "flat_dict", "light_dict"} THEN CountChildren(t, Root)
    ELSE IF K = "indexed_dict" THEN GetLen(t, <<KeysName>>)
    ELSE IF K = "log_dict" THEN CountChildren(t, <<KeysName>>)
    ELSE GetLen(t, Root)

-----------------------------------------------------------------------------
(* Calls of a sequence.  A list is dense: its rows are 0 .. len - 1, and a *)
(* call that makes or closes a gap moves every later row by one.           *)

Normalize(n, a) == IF a < 0 THEN n + a ELSE a
InRange(n, a) == Normalize(n, a) \in 0 .. n - 1

\* The later rows by one; a container moves with its subtree.
Slide(t, i, j) ==
    IF IsPrimitive(t, <<i>>) THEN DeleteRow(PutRow(t, <<j>>, t.rows[<<i>>]), <<i>>)
    ELSE IF IsContainer(t, <<i>>) THEN MoveChildSubtree(t, Root, i, j) ELSE t

\* A change of the code: the walk starts at the last row.
DelAt_FromTheEnd(t, at) ==
    LET n == GetLen(t, Root)
        closed == FoldLeft(LAMBDA u, d : Slide(u, n - d, n - d - 1),
                           DeleteChild(t, Root, at).tree, [d \in 1 .. n - 1 - at |-> d])
    IN  SetLength(closed, n - 1)

DelAt(t, at) ==
    LET n == GetLen(t, Root)
        closed == FoldLeft(LAMBDA u, d : Slide(u, at + d, at + d - 1),
                           DeleteChild(t, Root, at).tree, [d \in 1 .. n - 1 - at |-> d])
    IN  SetLength(closed, n - 1)

\* From the last row down: a primitive stays in its old row too, until the
\* row before it, or the new value, takes the place.
Lift(t, K, at, i) ==
    LET lifted == PutRow(t, <<i + 1>>, t.rows[<<i>>])
    IN  IF IsPrimitive(t, <<i>>)
        THEN IF i = at /\ K = "list" THEN DeleteRow(lifted, <<i>>) ELSE lifted
        ELSE IF IsContainer(t, <<i>>) THEN MoveChildSubtree(t, Root, i, i + 1) ELSE t

InsertPlace(n, a) == IF a < 0 THEN Max({0, n + a}) ELSE Min({a, n})

InsertInto(t, K, a, v) ==
    LET made == EnsureCreated(t, K)
        n == GetLen(made, Root)
        at == InsertPlace(n, a)
        open == FoldLeft(LAMBDA u, d : Lift(u, K, at, n - d), made, [d \in 1 .. n - at |-> d])
        set == SetChildValue(open, K, at, v)
    IN  IF set.raised THEN set ELSE Done(SetLength(set.tree, n + 1))

AppendOne(t, K, v) ==
    LET n == GetLen(t, Root)
        set == SetChildValue(t, K, n, v)
    IN  IF set.raised THEN set ELSE Done(SetLength(set.tree, n + 1))

AppendEach(t, K, vs) ==
    FoldLeft(LAMBDA o, v : IF o.raised THEN o ELSE AppendOne(o.tree, K, v), Done(t), vs)

\* Clearing a view that is absent writes nothing.
ClearView(t, K) ==
    LET cleared == ClearChildren(t, Root)
    IN  IF ~ Exists(t, Root) THEN t
        ELSE IF K = "indexed_dict"
             THEN PutLen(ClearChildren(ClearChildren(t, <<DataName>>), <<KeysName>>), <<KeysName>>, 0)
        ELSE IF K = "log_dict"
             THEN FoldLeft(LAMBDA u, n : ClearChildren(u, <<n>>), t, <<DataName, KeysName, LogName>>)
        ELSE IF K \in {"dict", "flat_dict", "light_dict"} THEN cleared
        ELSE SetLength(cleared, 0)

\* The rows first, the length once at the end.
StoreSequence(t, K, vs, replace) ==
    LET made == EnsureCreated(t, K)
        \* a tuple leaves the length as it is until the end
        from == IF ~ replace THEN made
                ELSE IF K = "tuple" THEN ClearChildren(made, Root) ELSE ClearView(made, K)
        count == IF replace THEN 0 ELSE GetLen(from, Root)
        filled == SetChildValues(from, K, [i \in 1 .. Len(vs) |-> <<count + i - 1, vs[i]>>])
    IN  IF filled.raised THEN filled ELSE Done(SetLength(filled.tree, count + Len(vs)))

-----------------------------------------------------------------------------
(* Calls of a mapping.                                                     *)

\* The entry of a key in the log: the one its reverse row names, if that
\* entry still holds the key, and the first entry with the key otherwise.
LogEntries(t, k) == {e \in ChildKeys(t, <<KeysName>>) : t.rows[<<KeysName, e>>].value = k}
LogEntry(t, k) ==
    LET named == {t.rows[q].value : q \in {<<LogName, k>>} \cap DOMAIN t.rows} \cap LogEntries(t, k)
    IN  IF named # {} THEN named ELSE {e \in LogEntries(t, k) : \A f \in LogEntries(t, k) : e <= f}

DropKey(t, K, k) ==
    LET gone == DeleteChild(t, Site(K), Segment(K, k)).tree
        entries == LogEntry(gone, k)
    IN  IF K = "kh57" THEN DecrementLength(gone, Root)
        ELSE IF K = "indexed_dict"
             THEN FlatStore(gone, <<KeysName>>, SelectSeq(KeysInOrder(gone), LAMBDA j : j # k))
        ELSE IF K = "log_dict" /\ entries # {}
             THEN DeleteRow(FoldSet(LAMBDA e, u : DeleteRow(u, <<KeysName, e>>), gone, entries), <<LogName, k>>)
        ELSE gone

\* An indexed view and kh57 clear only what their books say is not empty.
StoreMapping(t, K, pairs, replace) ==
    LET made == EnsureCreated(t, K)
        empty == (K \in Indexed \/ K = "kh57") /\ Length(made, K) = 0
    IN  SetChildValues(IF replace /\ ~ empty THEN ClearView(made, K) ELSE made, K, pairs)

-----------------------------------------------------------------------------
(* Calls of a set.                                                         *)

AddMember(t, K, v) == PutMember(EnsureCreated(t, K), Root, v)

DropMember(t, v) ==
    DecrementLength(DeleteChild(t, Root, MemberKey(v)).tree, Root)

StoreMembers(t, K, vs, replace) ==
    LET made == EnsureCreated(t, K)
    IN  FillSet(made, Root, vs, replace)

-----------------------------------------------------------------------------
(* A list below the view takes an append through a handle of its own: the  *)
(* child, if it is absent, is created through the view.                    *)

ChildAppendTo(t, K, k, v) ==
    LET q == Address(K, k)
        made == CreateContainer(EnsureCreated(t, K), q, "list")
        entered == Entered(t, made.tree, K, k, q)
        n == GetLen(entered, q)
    IN  IF made.raised THEN made
        ELSE Done(PutLen(PutRow(entered, Child(q, n), Primitive(v)), q, n + 1))

-----------------------------------------------------------------------------
(* Rebuilding the books from the rows, children before parents.            *)

Recount(t, p) == PutLen(t, p, CountChildren(t, p))

RebuildChildren(t, K) ==
    FoldSet(LAMBDA k, u : IF IsContainer(u, Child(Site(K), k)) THEN Recount(u, Child(Site(K), k)) ELSE u,
            t, ChildKeys(t, Site(K)))

FirstOf(ks, S) ==
    LET first(i) == ks[i] \in S /\ \A j \in 1 .. i - 1 : ks[j] # ks[i]
        held == SelectSeq([i \in 1 .. Len(ks) |-> i], first)
    IN  [i \in 1 .. Len(held) |-> ks[held[i]]]

RebuildKeys(t) ==
    LET data == ChildKeys(t, <<DataName>>)
        kept == FirstOf(KeysInOrder(t), data)
        rest == SelectSeq(IterChildKeys(t, <<DataName>>), LAMBDA k : ~ Contains(kept, k))
    IN  FlatStore(t, <<KeysName>>, kept \o rest)

\* Entries of keys without data and repeated entries go, the way back is
\* written again where it differs, and keys without an entry are logged.
RebuildLog(t) ==
    LET data == ChildKeys(t, <<DataName>>)
        first(k) == Min(LogEntries(t, k))
        seen == {k \in data : LogEntries(t, k) # {}}
        keep == {<<KeysName, first(k)>> : k \in seen}
        indexed == [q \in {<<LogName, k>> : k \in seen} |-> Primitive(first(q[2]))]
        old == {q \in DOMAIN t.rows : Len(q) = 2 /\ q[1] \in {KeysName, LogName}}
        repaired == [t EXCEPT !.rows =
            [q \in ((DOMAIN t.rows \ old) \cup keep \cup DOMAIN indexed) |->
                IF q \in DOMAIN indexed THEN indexed[q] ELSE t.rows[q]]]
    IN  FoldLeft(AppendLogKey, repaired,
                 SelectSeq(IterChildKeys(t, <<DataName>>), LAMBDA k : k \notin seen))

Rebuild(t, K) ==
    LET below == RebuildChildren(t, K)
    IN  IF K = "indexed_dict" THEN RebuildKeys(below)
        ELSE IF K = "log_dict" THEN RebuildLog(below)
        ELSE IF K \in Mappings \ {"kh57"} THEN DeleteLen(below, Root)
        ELSE Recount(below, Root)

-----------------------------------------------------------------------------
(* What the Python value holds.  The kind of an element is fixed while it  *)
(* is there: a call that would change it raises and leaves it.             *)

Keyed == kind \in Mappings
Fits(old, new) == old.kind \in {new.kind, Gone.kind}
Shown(r) == [shown |-> r, hidden |-> <<>>]

Ordered(K, r) ==
    IF K \in Sequences_ \cup Indexed THEN r
    ELSE IF K \in Members THEN SetToSortSeq(ToSet(r), LAMBDA x, y : x.items[1] < y.items[1])
    ELSE SetToSortSeq(ToSet(r), LAMBDA x, y : x[1] < y[1])

Position(r, k) == {i \in 1 .. Len(r) : r[i][1] = k}

RefPut(K, r, k, v) ==
    IF Position(r, k) = {} THEN Ordered(K, Append(r, <<k, v>>))
    ELSE [i \in 1 .. Len(r) |-> IF r[i][1] = k THEN <<k, v>> ELSE r[i]]

RefSet(K, r, k, v) ==
    IF Position(r.hidden, k) # {} THEN [r EXCEPT !.hidden = RefPut("dict", r.hidden, k, v)]
    ELSE [r EXCEPT !.shown = RefPut(K, r.shown, k, v)]

\* Pair by pair, up to one that does not fit.
RefFits(r, p) ==
    /\ \A i \in Position(r.shown, p[1]) : Fits(r.shown[i][2], p[2])
    /\ \A i \in Position(r.hidden, p[1]) : Fits(r.hidden[i][2], p[2])

RefUpdate(K, r, pairs) ==
    FoldLeft(LAMBDA o, p : IF ~ o.ok \/ ~ RefFits(o.value, p) THEN [o EXCEPT !.ok = FALSE]
                           ELSE [o EXCEPT !.value = RefSet(K, o.value, p[1], p[2])],
             [ok |-> TRUE, value |-> r], pairs).value

RefDrop(r, k) ==
    [shown |-> SelectSeq(r.shown, LAMBDA p : p[1] # k),
     hidden |-> SelectSeq(r.hidden, LAMBDA p : p[1] # k)]

\* What the books miss comes last, and what is gone goes.
RefRebuilt(r) == Shown(SelectSeq(r.shown, LAMBDA p : p[2] # Gone) \o r.hidden)

RefAdd(r, vs) == Ordered("set", r \o vs)

RefInsert(r, a, v) ==
    LET at == InsertPlace(Len(r), a) IN SubSeq(r, 1, at) \o <<v>> \o SubSeq(r, at + 1, Len(r))

RefDelete(r, at) == SubSeq(r, 1, at) \o SubSeq(r, at + 2, Len(r))

-----------------------------------------------------------------------------
(* The calls.                                                              *)

Init ==
    /\ kind \in Roots
    /\ tree = EmptyTree
    /\ ref = Shown(<<>>)
    /\ slips = {}
    /\ steps = 0

\* A call that raises leaves the value as it is, but for the items it set.
Call(newTree, newRef) ==
    /\ steps < MaxSteps
    /\ steps' = steps + 1
    /\ tree' = newTree
    /\ ref' = newRef
    /\ UNCHANGED kind

\* Containers at or after a place change their rows.
Shifts(from) ==
    slips' = IF \E i \in from .. Len(ref.shown) : ref.shown[i].kind # "primitive"
             THEN slips \cup {"moved"} ELSE slips

\* A key whose row went past the books is set again: it is logged twice.
SetsAgain(ks) ==
    slips' = IF \E k \in ks : \E i \in Position(ref.shown, k) : ref.shown[i][2] = Gone
             THEN slips \cup {"dirty"} ELSE slips

SetItem ==
    /\ kind \in {"list", "bytearray", "flat_list"}
    /\ \E a \in -MaxLen - 1 .. MaxLen, v \in Values(kind) :
        LET at == Normalize(GetLen(tree, Root), a)
        IN  IF InRange(GetLen(tree, Root), a)
            THEN Call(SetChildValue(tree, kind, at, v).tree,
                      Shown(IF Fits(ref.shown[at + 1], v) THEN [ref.shown EXCEPT ![at + 1] = v]
                            ELSE ref.shown))
            ELSE Call(tree, ref)
    /\ UNCHANGED slips

DelItem ==
    /\ kind \in {"list", "bytearray"}
    /\ \E a \in -MaxLen .. MaxLen - 1 :
        LET at == Normalize(Len(ref.shown), a)
        IN  /\ InRange(GetLen(tree, Root), a)
            /\ Call(DelAt(tree, Normalize(GetLen(tree, Root), a)), Shown(RefDelete(ref.shown, at)))
            /\ Shifts(at + 2)

InsertItem ==
    /\ kind \in {"list", "bytearray"}
    /\ Len(ref.shown) < MaxLen
    /\ \E a \in -MaxLen .. MaxLen, v \in Values(kind) :
        /\ Call(InsertInto(tree, kind, a, v).tree, Shown(RefInsert(ref.shown, a, v)))
        /\ Shifts(InsertPlace(Len(ref.shown), a) + 1)

AppendItem ==
    /\ kind \in {"list", "bytearray", "flat_list"}
    /\ Len(ref.shown) < MaxLen
    /\ \E v \in Values(kind) : Call(AppendOne(tree, kind, v).tree, Shown(Append(ref.shown, v)))
    /\ UNCHANGED slips

Extend ==
    /\ kind \in {"list", "bytearray", "flat_list"}
    /\ Len(ref.shown) + 2 <= MaxLen
    /\ \E vs \in [1 .. 2 -> Values(kind)] : Call(AppendEach(tree, kind, vs).tree, Shown(ref.shown \o vs))
    /\ UNCHANGED slips

\* The first element that equals the value goes.
RemoveItem ==
    /\ kind \in {"list", "bytearray"}
    /\ GetLen(tree, Root) > 0
    /\ \E v \in ToSet(Content(tree, kind)) \cap ToSet(ref.shown) :
        LET at(s) == Min({i \in 1 .. Len(s) : s[i] = v}) - 1
        IN  /\ Call(DelAt(tree, at(Content(tree, kind))), Shown(RefDelete(ref.shown, at(ref.shown))))
            /\ Shifts(at(ref.shown) + 2)

StoreItems ==
    /\ kind \in Sequences_
    /\ \E n \in 0 .. 2, replace \in BOOLEAN :
        \E vs \in [1 .. n -> Values(kind)] :
            /\ replace \/ Len(ref.shown) + n <= MaxLen
            /\ Call(StoreSequence(tree, kind, vs, replace).tree,
                    Shown(IF replace THEN vs ELSE ref.shown \o vs))
    /\ UNCHANGED slips

Clear ==
    /\ kind \notin {"tuple", "frozenset"}
    /\ Call(ClearView(tree, kind), Shown(<<>>))
    /\ slips' = slips \ {"dirty", "uncounted"}

SetKey ==
    /\ Keyed
    /\ \E k \in Keys, v \in Values(kind) :
        /\ Call(SetChildValue(tree, kind, k, v).tree, RefUpdate(kind, ref, <<<<k, v>>>>))
        /\ SetsAgain({k})

DelKey ==
    /\ Keyed
    /\ \E k \in Keys :
        \* an indexed view and kh57 raise KeyError, the others do nothing
        IF Exists(tree, Address(kind, k)) THEN Call(DropKey(tree, kind, k), RefDrop(ref, k))
        ELSE Call(tree, ref)
    /\ UNCHANGED slips

\* Two pairs, the second of them a primitive.
Pairs(K) ==
    {<<<<k, v>>, <<j, w>>>> : k \in Keys, j \in Keys, v \in Values(K), w \in {Value(1)}}

Update ==
    /\ Keyed
    /\ \E pairs \in Pairs(kind) :
        /\ pairs[1][1] # pairs[2][1]
        /\ Call(SetChildValues(tree, kind, pairs).tree, RefUpdate(kind, ref, pairs))
        /\ SetsAgain({pairs[1][1], pairs[2][1]})

\* Replacing clears the rows the books do not know of with the others, unless
\* the books say that there is nothing to clear.
StorePairs ==
    /\ Keyed
    /\ \E pairs \in Pairs(kind) \cup {<<>>}, replace \in BOOLEAN :
        LET from == IF ~ replace THEN ref
                    ELSE IF ref.shown = <<>> THEN ref ELSE Shown(<<>>)
        IN  /\ pairs # <<>> => pairs[1][1] # pairs[2][1]
            /\ Call(StoreMapping(tree, kind, pairs, replace).tree, RefUpdate(kind, from, pairs))
            /\ IF replace THEN slips' = slips \ {"dirty", "uncounted"}
               ELSE SetsAgain({pairs[i][1] : i \in 1 .. Len(pairs)})

Add ==
    /\ kind = "set"
    /\ \E v \in Prims : Call(AddMember(tree, kind, v), Shown(RefAdd(ref.shown, <<Value(v)>>)))
    /\ UNCHANGED slips

\* "discard" of a member that is absent does nothing, "remove" raises.
Discard ==
    /\ kind = "set"
    /\ \E v \in Prims :
        IF Exists(tree, <<MemberKey(v)>>)
        THEN Call(DropMember(tree, v), Shown(SelectSeq(ref.shown, LAMBDA x : x # Value(v))))
        ELSE Call(tree, ref)
    /\ UNCHANGED slips

StoreValues ==
    /\ kind \in Members
    /\ \E n \in 0 .. 2, replace \in BOOLEAN :
        \E vs \in [1 .. n -> Prims] :
            /\ Call(StoreMembers(tree, kind, vs, replace),
                    Shown(RefAdd(IF replace THEN <<>> ELSE ref.shown, [i \in 1 .. n |-> Value(vs[i])])))
            /\ slips' = IF replace THEN slips \ {"dirty", "uncounted"} ELSE slips

\* An element that is a list grows by an append of its own; a key that is
\* absent gets a list first.
ChildAppend ==
    /\ kind \in Nesting
    /\ \E k \in IF Keyed THEN Keys ELSE 0 .. Len(ref.shown) - 1, v \in Prims :
        LET both == ref.shown \o ref.hidden
            held == IF Keyed THEN {both[i][2] : i \in Position(both, k)} \ {Gone} ELSE {ref.shown[k + 1]}
            old == {x.items : x \in held}
            new == [kind |-> "list", items |-> Append(IF old = {} THEN <<>> ELSE CHOOSE x \in old : TRUE, v)]
        IN  /\ Len(new.items) <= MaxLen
            /\ Call(ChildAppendTo(tree, kind, k, v).tree,
                    IF \E x \in held : x.kind # "list" THEN ref
                    ELSE IF Keyed THEN RefSet(kind, ref, k, new)
                    ELSE Shown([ref.shown EXCEPT ![k + 1] = new]))
            /\ IF Keyed THEN SetsAgain({k})
               ELSE slips' = IF "moved" \in slips THEN slips \cup {"lost"} ELSE slips

\* A caller with a Container of its own writes or deletes a row of the data;
\* the books do not know until they are rebuilt.
BypassKey ==
    /\ kind \in Indexed
    /\ IsContainer(tree, <<DataName>>)
    /\ \E k \in Keys :
        LET at == Address(kind, k)
            put(v) == [ref EXCEPT !.shown = RefPut(kind, ref.shown, k, v)]
        IN  IF Exists(tree, at)
            THEN Call(DeleteDescendants(tree, at),
                      IF Position(ref.hidden, k) # {} THEN RefDrop(ref, k) ELSE put(Gone))
            ELSE Call(PutRow(tree, at, Primitive(1)),
                      IF Position(ref.shown, k) # {} THEN put(Value(1))
                      ELSE [ref EXCEPT !.hidden = RefPut("dict", ref.hidden, k, Value(1))])
    /\ UNCHANGED slips

BypassMember ==
    /\ kind = "set"
    /\ Exists(tree, Root)
    /\ \E v \in Prims :
        LET q == <<MemberKey(v)>>
        IN  IF Exists(tree, q)
            THEN Call(DeleteRow(tree, q), Shown(SelectSeq(ref.shown, LAMBDA x : x # Value(v))))
            ELSE Call(PutRow(tree, q, Primitive(v)), Shown(RefAdd(ref.shown, <<Value(v)>>)))
    /\ slips' = slips \cup {"uncounted"}

RebuildBookkeeping ==
    /\ Exists(tree, Root)
    /\ Call(Rebuild(tree, kind), IF kind \in Indexed THEN RefRebuilt(ref) ELSE ref)
    /\ slips' = slips \ {"dirty", "uncounted"}

Next ==
    \/ SetItem \/ DelItem \/ InsertItem \/ AppendItem \/ Extend \/ RemoveItem \/ StoreItems
    \/ Clear \/ SetKey \/ DelKey \/ Update \/ StorePairs
    \/ Add \/ Discard \/ StoreValues
    \/ ChildAppend \/ BypassKey \/ BypassMember \/ RebuildBookkeeping

Spec == Init /\ [][Next]_vars

-----------------------------------------------------------------------------
(* What must hold.                                                         *)

\* What is read back is what Python's own value would hold after the same
\* calls: elements in place after every shift, pairs in the order their keys
\* were first set, members once.  A call that raises changes nothing but the
\* items it had set before.
ContentIsPython == slips \cap {"lost", "dirty"} = {} => Content(tree, kind) = ref.shown

Boxed(t, K) == {Child(Site(K), k) : k \in {j \in ChildKeys(t, Site(K)) : IsContainer(t, Child(Site(K), j))}}

\* The books agree with the rows: the length of the view and of every nested
\* container is the number of its elements.
LengthsTrue ==
    Exists(tree, Root) =>
        /\ Length(tree, kind) = Len(ref.shown)
        /\ \A q \in Boxed(tree, kind) : GetLen(tree, q) = CountChildren(tree, q)

\* A length without a container would be found by the next one at its site.
NoStrayLength == \A q \in DOMAIN tree.len : IsContainer(tree, q)

\* The log and the way back to it name each other.
LogAgrees ==
    (kind = "log_dict" /\ Exists(tree, Root)) =>
        /\ \A e \in ChildKeys(tree, <<KeysName>>) :
            LET q == <<LogName, tree.rows[<<KeysName, e>>].value>>
            IN  q \in DOMAIN tree.rows /\ tree.rows[q].value = e
        /\ CountChildren(tree, <<LogName>>) = CountChildren(tree, <<KeysName>>)

\* The stored length, the key index and the log are exact after every call,
\* unless a list moved a container, whose length stays behind, or a caller
\* wrote past the view.
BookkeepingExact ==
    slips = {} => LengthsTrue /\ NoStrayLength /\ LogAgrees

=============================================================================
