------------------------------ MODULE Filters -------------------------------
(***************************************************************************)
(* The filters of tkv/filter: what a filter matches, its canonical form,   *)
(* and the routing hints derived from it.  A key is a sequence of segments.*)
(* A filter is a record with a kind; And and Or carry their parts as a     *)
(* sequence.  A canonical And or Or carries a set instead, because         *)
(* canonicalize drops duplicates and sorts by a key that is injective on   *)
(* canonical forms; filter_hash is a digest of that form, so the canonical *)
(* form stands for the hash itself (digests are taken not to collide).     *)
(***************************************************************************)
LOCAL INSTANCE Naturals
LOCAL INSTANCE Sequences
LOCAL INSTANCE FiniteSets
LOCAL INSTANCE SequencesExt

\* filter.py:49.  A pattern segment that matches any key segment.
WILDCARD == "*"

PrefixFilter(p)   == [kind |-> "prefix", segs |-> p]
SuffixFilter(p)   == [kind |-> "suffix", segs |-> p]
LengthFilter(n)   == [kind |-> "length", length |-> n]
WildcardFilter(p) == [kind |-> "wildcard", segs |-> p]
And(fs)           == [kind |-> "and", parts |-> fs]
Or(fs)            == [kind |-> "or", parts |-> fs]
PassAll           == [kind |-> "pass_all"]
PassNone          == [kind |-> "pass_none"]

\* A user's own Filter subclass, known only by the keys it matches.
Custom(keys) == [kind |-> "custom", keys |-> keys]

Composite(f) == f.kind \in {"and", "or"}

\* The parts of a composite filter, canonical or not.
PartsOf(f) == IF "set" \in DOMAIN f THEN f.set ELSE ToSet(f.parts)

FixedPositions(pattern) == SelectSeq([i \in 1 .. Len(pattern) |-> i], LAMBDA i : pattern[i] # WILDCARD)

SegmentsAt(segs, positions) == [i \in 1 .. Len(positions) |-> segs[positions[i]]]

-----------------------------------------------------------------------------
\* Filter.matches of every class.
RECURSIVE Matches(_, _)
Matches(f, key) ==
    CASE f.kind = "prefix"    -> IsPrefix(f.segs, key)
      [] f.kind = "suffix"    -> IsSuffix(f.segs, key)
      [] f.kind = "length"    -> Len(key) = f.length
      [] f.kind = "wildcard"  -> /\ Len(key) = Len(f.segs)
                                 /\ \A i \in DOMAIN key : f.segs[i] \in {WILDCARD, key[i]}
      [] f.kind = "and"       -> \A g \in PartsOf(f) : Matches(g, key)
      [] f.kind = "or"        -> \E g \in PartsOf(f) : Matches(g, key)
      [] f.kind = "pass_all"  -> TRUE
      [] f.kind = "pass_none" -> FALSE
      [] f.kind = "custom"    -> key \in f.keys

-----------------------------------------------------------------------------
\* One level of a composite: nested filters of the same kind flattened, the
\* absorbing filter wins, the neutral one is dropped, one part stands alone.
Collapse(kind, children, absorbing, neutral) ==
    LET flat == UNION {IF c.kind = kind THEN c.set ELSE {c} : c \in children}
        kept == flat \ {neutral}
    IN  IF absorbing \in flat THEN absorbing
        ELSE IF kept = {} THEN neutral
        ELSE IF \E c \in kept : kept = {c} THEN CHOOSE c \in kept : TRUE
        ELSE [kind |-> kind, set |-> kept]

RECURSIVE Canonicalize(_)
Canonicalize(f) ==
    CASE f.kind \in {"prefix", "suffix"} /\ f.segs = <<>> -> PassAll
      [] f.kind = "wildcard" /\ FixedPositions(f.segs) = <<>> -> LengthFilter(Len(f.segs))
      [] f.kind = "and" -> Collapse("and", {Canonicalize(g) : g \in PartsOf(f)}, PassNone, PassAll)
      [] f.kind = "or"  -> Collapse("or", {Canonicalize(g) : g \in PartsOf(f)}, PassAll, PassNone)
      [] OTHER -> f

FilterHash(f) == Canonicalize(f)

-----------------------------------------------------------------------------
\* A RoutingHint, in the form keyenc.hint_entries sends it to the server: what
\* set of hashes it belongs to.  Its field is a depth or a length, for a wildcard
\* with the fixed positions.
Hint(kind, field, segs) == [kind |-> kind, field |-> field, segs |-> segs]

AllHints == {Hint("a", <<0, <<>>>>, <<>>)}

\* and_hints prefers the child whose worst hint ranks first: a prefix before
\* a wildcard, a suffix, a length, and the longer before the shorter.
\* 9 is more than the segments of any filter of an instance.
Rank(h) ==
    CASE h.kind = "p" -> 9 - Len(h.segs)
      [] h.kind = "w" -> 19 - Len(h.segs)
      [] h.kind = "s" -> 29 - Len(h.segs)
      [] h.kind = "l" -> 30
      [] h.kind = "a" -> 90

WorstRank(hints) == CHOOSE n \in {Rank(h) : h \in hints} : \A h \in hints : Rank(h) <= n

Narrowest(choices) ==
    CHOOSE c \in choices : \A d \in choices :
        WorstRank(c) * 100 + Cardinality(c) <= WorstRank(d) * 100 + Cardinality(d)

RECURSIVE RoutingHints(_)
RoutingHints(f) ==
    CASE f.kind = "prefix"    -> IF f.segs = <<>> THEN AllHints
                                 ELSE {Hint("p", <<Len(f.segs), <<>>>>, f.segs)}
      [] f.kind = "suffix"    -> IF f.segs = <<>> THEN AllHints
                                 ELSE {Hint("s", <<Len(f.segs), <<>>>>, f.segs)}
      [] f.kind = "length"    -> {Hint("l", <<f.length, <<>>>>, <<>>)}
      [] f.kind = "wildcard"  -> LET ps == FixedPositions(f.segs) IN
                                 IF ps = <<>> THEN {Hint("l", <<Len(f.segs), <<>>>>, <<>>)}
                                 ELSE {Hint("w", <<Len(f.segs), ps>>, SegmentsAt(f.segs, ps))}
      [] f.kind = "and"       -> LET choices == {RoutingHints(g) : g \in PartsOf(f)} IN
                                 IF choices = {} THEN AllHints
                                 ELSE IF {} \in choices THEN {}
                                 ELSE Narrowest(choices)
      [] f.kind = "or"        -> LET hints == UNION {RoutingHints(g) : g \in PartsOf(f)} IN
                                 IF AllHints \subseteq hints THEN AllHints ELSE hints
      [] f.kind = "pass_none" -> {}
      [] OTHER                -> AllHints
=============================================================================
