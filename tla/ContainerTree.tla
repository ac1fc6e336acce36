---------------------------- MODULE ContainerTree ----------------------------
(***************************************************************************)
(* The container layer: a tree of rows under one storage, and the metadata *)
(* rows kept beside it (container/container_ops.py, meta_ops.py).  A site  *)
(* is a sequence of segments below the view's own site, which is <<>>.  A  *)
(* row is a primitive or the marker of a container.  Of the metadata only  *)
(* "__len__" is used, so the metadata of a site is a number or absent.     *)
(*                                                                         *)
(* An operation that may raise returns the tree it leaves and whether it   *)
(* raised; the writes made before the error are in that tree.  "tick"      *)
(* counts the log keys the process has drawn (log_indexed_dict_view.py).   *)
(***************************************************************************)
EXTENDS Integers, Sequences, FiniteSets, SequencesExt

CONSTANT Structures     \* the kinds of containers a marker may name

Primitive(v) == [kind |-> "primitive", value |-> v]
Marker(structure) == [kind |-> structure, value |-> 0]

NoRows == <<>>
EmptyTree == [rows |-> NoRows, len |-> NoRows, tick |-> 0]

Done(t) == [tree |-> t, raised |-> FALSE]
Raise(t) == [tree |-> t, raised |-> TRUE]

LOCAL Put(f, x, v) == [y \in DOMAIN f \cup {x} |-> IF y = x THEN v ELSE f[y]]
LOCAL Only(f, S) == [x \in DOMAIN f \cap S |-> f[x]]

Under(p, q) == Len(p) <= Len(q) /\ SubSeq(q, 1, Len(p)) = p
Child(p, k) == Append(p, k)

Exists(t, p) == p \in DOMAIN t.rows
IsContainer(t, p) == Exists(t, p) /\ t.rows[p].kind \in Structures
IsPrimitive(t, p) == Exists(t, p) /\ t.rows[p].kind = "primitive"

\* The keys of the direct children, in the order a scan meets them.
ChildKeys(t, p) == {q[Len(q)] : q \in {x \in DOMAIN t.rows : Len(x) = Len(p) + 1 /\ Under(p, x)}}
IterChildKeys(t, p) == SetToSortSeq(ChildKeys(t, p), <)

\* The same rule for every scan of direct children: rows under the site, one
\* segment longer, the site's own row left out.
CountChildren(t, p) == Cardinality(ChildKeys(t, p))
ExistsChild(t, p, k) == Exists(t, Child(p, k))

PutLen(t, p, n) == [t EXCEPT !.len = Put(t.len, p, n)]
GetLen(t, p) == IF p \in DOMAIN t.len THEN t.len[p] ELSE 0
DeleteLen(t, p) == [t EXCEPT !.len = Only(t.len, DOMAIN t.len \ {p})]

PutRow(t, p, row) == [t EXCEPT !.rows = Put(t.rows, p, row)]
DeleteRow(t, p) == [t EXCEPT !.rows = Only(t.rows, DOMAIN t.rows \ {p})]

\* An existing container of the same structure is left as it is.  The parent
\* of a new one must be a container.
CreateContainer(t, p, structure) ==
    IF Exists(t, p)
    THEN IF t.rows[p].kind = structure THEN Done(t) ELSE Raise(t)
    ELSE IF p # <<>> /\ ~ IsContainer(t, Front(p)) THEN Raise(t)
    ELSE Done(PutRow(t, p, Marker(structure)))

\* The rows of the subtree and the metadata of every container in it.
DeleteDescendants(t, p) ==
    [t EXCEPT !.rows = Only(t.rows, {q \in DOMAIN t.rows : ~ Under(p, q)}),
              !.len = Only(t.len, {q \in DOMAIN t.len : ~ Under(p, q)})]

DeleteChild(t, p, k) ==
    IF ~ IsContainer(t, p) THEN Raise(t)
    ELSE IF IsContainer(t, Child(p, k)) THEN Done(DeleteDescendants(t, Child(p, k)))
    ELSE Done(DeleteRow(t, Child(p, k)))

\* The children one by one: a child that is a primitive has no metadata, and
\* metadata under a key that has no row is not met.
ClearChildren(t, p) ==
    LET boxes == {Child(p, k) : k \in {j \in ChildKeys(t, p) : IsContainer(t, Child(p, j))}}
    IN  [t EXCEPT !.rows = Only(t.rows, {q \in DOMAIN t.rows : q = p \/ ~ Under(p, q)}),
                  !.len = Only(t.len, {q \in DOMAIN t.len : \A b \in boxes : ~ Under(b, q)})]

PutChildPrimitive(t, p, k, v) ==
    IF ~ IsContainer(t, p) \/ IsContainer(t, Child(p, k)) THEN Raise(t)
    ELSE Done(PutRow(t, Child(p, k), Primitive(v)))

\* Every row of the subtree is put under the other key and deleted here.
MoveChildSubtree(t, p, from, to) ==
    LET source == Child(p, from)
        moved(q) == Child(p, to) \o SubSeq(q, Len(source) + 1, Len(q))
        old == {q \in DOMAIN t.rows : Under(source, q)}
        new == {moved(q) : q \in old}
    IN  [t EXCEPT !.rows = [q \in (DOMAIN t.rows \ old) \cup new |->
            IF q \in new THEN t.rows[CHOOSE o \in old : moved(o) = q] ELSE t.rows[q]]]
=============================================================================
