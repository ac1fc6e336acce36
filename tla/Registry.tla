------------------------------ MODULE Registry ------------------------------
(***************************************************************************)
(* SubscriptionRegistry (tkv/observer/registry.py): the subscriptions of   *)
(* one connection, indexed by what their filters look like.  A registry is *)
(* a value; an index is a set of <<what, subscription>> pairs.  The lock   *)
(* makes each of add, remove and match one step of whoever calls it.       *)
(* FilterOf gives the filter of each subscription.                         *)
(***************************************************************************)
EXTENDS Filters, Naturals, Sequences, FiniteSets
LOCAL INSTANCE SequencesExt
LOCAL INSTANCE Folds

NewRegistry ==
    [all |-> {}, prefix |-> {}, suffix |-> {}, length |-> {}, wildcard |-> {},
     sigs |-> {}, unindexed |-> {}]

\* _wildcard_signature with the length of the pattern: the keys of _wildcard_index.
Signature(f) == <<Len(f.segs), FixedPositions(f.segs)>>
FixedValues(f) == SegmentsAt(f.segs, FixedPositions(f.segs))

IndexWildcard(reg, s, f) ==
    [reg EXCEPT !.wildcard = @ \cup {<<Signature(f), FixedValues(f), s>>},
                !.sigs = @ \cup {Signature(f)}]

UnindexWildcardAndSignature(reg, s, f) ==
    [reg EXCEPT !.wildcard = @ \ {<<Signature(f), FixedValues(f), s>>},
                !.sigs = @ \ {Signature(f)}]

\* The signature goes only when no subscription is left under it.
UnindexWildcard(reg, s, f) ==
    LET left == reg.wildcard \ {<<Signature(f), FixedValues(f), s>>}
    IN  [reg EXCEPT !.wildcard = left,
                    !.sigs = IF \E w \in left : w[1] = Signature(f) THEN @ ELSE @ \ {Signature(f)}]

-----------------------------------------------------------------------------
\* _index_filter.  An And is found through its first part, an Or through any.
RECURSIVE IndexFilter(_, _, _)
IndexFilter(reg, s, f) ==
    CASE f.kind = "prefix"   -> [reg EXCEPT !.prefix = @ \cup {<<f.segs, s>>}]
      [] f.kind = "suffix"   -> [reg EXCEPT !.suffix = @ \cup {<<f.segs, s>>}]
      [] f.kind = "length"   -> [reg EXCEPT !.length = @ \cup {<<f.length, s>>}]
      [] f.kind = "wildcard" -> IndexWildcard(reg, s, f)
      [] f.kind = "and"      -> IF f.parts = <<>> THEN reg ELSE IndexFilter(reg, s, Head(f.parts))
      [] f.kind = "or"       -> FoldSeq(LAMBDA g, r : IndexFilter(r, s, g), reg, f.parts)
      [] OTHER               -> [reg EXCEPT !.unindexed = @ \cup {s}]

\* _unindex_filter.  A filter repeated in an Or is taken out twice.
RECURSIVE UnindexFilter(_, _, _)
UnindexFilter(reg, s, f) ==
    CASE f.kind = "prefix"   -> [reg EXCEPT !.prefix = @ \ {<<f.segs, s>>}]
      [] f.kind = "suffix"   -> [reg EXCEPT !.suffix = @ \ {<<f.segs, s>>}]
      [] f.kind = "length"   -> [reg EXCEPT !.length = @ \ {<<f.length, s>>}]
      [] f.kind = "wildcard" -> UnindexWildcard(reg, s, f)
      [] f.kind = "and"      -> IF f.parts = <<>> THEN reg ELSE UnindexFilter(reg, s, Head(f.parts))
      [] f.kind = "or"       -> FoldSeq(LAMBDA g, r : UnindexFilter(r, s, g), reg, f.parts)
      [] OTHER               -> [reg EXCEPT !.unindexed = @ \ {s}]

RegistryAdd(reg, s, f) ==
    IF s \in reg.all THEN reg ELSE IndexFilter([reg EXCEPT !.all = @ \cup {s}], s, f)

RegistryRemove(reg, s, f) ==
    IF s \in reg.all THEN UnindexFilter([reg EXCEPT !.all = @ \ {s}], s, f) ELSE reg

-----------------------------------------------------------------------------
\* match: whoever an index finds for the key, each verified with its filter.
PrefixesOf(key) == {SubSeq(key, 1, i) : i \in 0 .. Len(key)}
SuffixesOf(key) == {SubSeq(key, i + 1, Len(key)) : i \in 0 .. Len(key)}

Candidates(reg, key) ==
    {e[2] : e \in {p \in reg.prefix : p[1] \in PrefixesOf(key)}}
      \cup {e[2] : e \in {p \in reg.suffix : p[1] \in SuffixesOf(key)}}
      \cup {e[2] : e \in {p \in reg.length : p[1] = Len(key)}}
      \cup {w[3] : w \in {v \in reg.wildcard : /\ v[1] \in reg.sigs
                                              /\ v[1][1] = Len(key)
                                              /\ v[2] = SegmentsAt(key, v[1][2])}}
      \cup reg.unindexed

Match(reg, key, FilterOf) == {s \in Candidates(reg, key) : Matches(FilterOf[s], key)}
=============================================================================
