---------------------------- MODULE NotifyServer ----------------------------
(***************************************************************************)
(* The server-side routing index (_backends/notify/nu_notify.lua): which   *)
(* filter hashes a key may interest.  The index is a value; a Lua function *)
(* is one step of the server.  An entry is a routing hint of a hash, as    *)
(* keyenc.hint_entries encodes it.                                         *)
(***************************************************************************)
EXTENDS Filters, Naturals, Sequences, FiniteSets
LOCAL INSTANCE SequencesExt
LOCAL INSTANCE Functions

\* sets: <<hint, hash>>; count: how many hints have a prefix depth, a suffix
\* depth or a wildcard signature; refs: <<hash, its hints>>.
EmptyIndex == [sets |-> {}, count |-> [f \in {} |-> 0], refs |-> {}]

\* The counters tell route which depths and signatures to try.
FieldOf(hint) == <<hint.kind, hint.field>>
Counted(hints) == {FieldOf(hint) : hint \in {x \in hints : x.kind \in {"p", "s", "w"}}}
HintsOfField(hints, f) == Cardinality({hint \in hints : FieldOf(hint) = f})

Indexed(index, h) == \E ref \in index.refs : ref[1] = h

\* nu1_reg: nothing happens to a hash that is indexed.
Reg(index, h, hints) ==
    IF Indexed(index, h) THEN index
    ELSE [sets  |-> index.sets \cup (hints \X {h}),
          count |-> [f \in DOMAIN index.count \cup Counted(hints) |->
                       (IF f \in DOMAIN index.count THEN index.count[f] ELSE 0)
                         + HintsOfField(hints, f)],
          refs  |-> index.refs \cup {<<h, hints>>}]

\* A field goes when the last hint that has it does.
Unreg(index, h) ==
    LET hints == UNION {ref[2] : ref \in {x \in index.refs : x[1] = h}}
        left(f) == index.count[f] - HintsOfField(hints, f)
        fields == {f \in DOMAIN index.count : index.count[f] > HintsOfField(hints, f)}
    IN  [sets  |-> index.sets \ (hints \X {h}),
         count |-> [f \in fields |-> left(f)],
         refs  |-> index.refs \ {<<h, hints>>}]

\* nu1_route asks for the sets a key can be in, by the fields counted.
SetsOfKey(index, key) ==
    LET n == Len(key)
        depths(kind) == {f[2][1] : f \in {g \in DOMAIN index.count : g[1] = kind}} \cap 0 .. n
        signatures == {f[2] : f \in {g \in DOMAIN index.count : g[1] = "w"}}
    IN  {Hint("p", <<d, <<>>>>, SubSeq(key, 1, d)) : d \in depths("p")}
          \cup {Hint("s", <<d, <<>>>>, SubSeq(key, n - d + 1, n)) : d \in depths("s")}
          \cup {Hint("l", <<n, <<>>>>, <<>>)}
          \cup {Hint("w", s, SegmentsAt(key, s[2])) : s \in {x \in signatures : x[1] = n}}
          \cup AllHints

Route(index, key) == {e[2] : e \in {x \in index.sets : x[1] \in SetsOfKey(index, key)}}
=============================================================================
