------------------------------ MODULE MCScans -------------------------------
(* An instance of StoreScans and one of RangeScans for TLC: a behaviour is  *)
(* of one or of the other.                                                  *)
EXTENDS StoreScans, RangeScans, TLC

CONSTANTS a, r1

VARIABLE part

(* In-memory pages: a whole scan forward, and keys 3 and 2 in reverse.      *)
ThreeKeys  == 1 .. 3
OneValue   == {a}
SomeRanges == {<<None, None>>, <<3, 2>>}
OneReader  == {r1}

(* Encoded keys: a site "S", children under an integer and under strings    *)
(* that are prefixes of each other, one with a null character, descendants  *)
(* with and without a row of their parent, and a site "Sa" beside.          *)
Chars(s) == [str |-> s]
Site     == <<Chars(<<83>>)>>
Beside1  == <<Chars(<<83, 97>>)>>
Below(segments) == Site \o segments

SomeKeys ==
    {Site, Below(<<[int |-> -1]>>), Below(<<[int |-> -1], Chars(<<>>)>>),
     Below(<<Chars(<<97>>)>>), Below(<<Chars(<<97, 98>>), [int |-> 0]>>), Beside1}

MCKeySpace == [codec \in Codecs |->
                  IF codec = "string" THEN SomeKeys
                  ELSE SomeKeys \cup {Below(<<Chars(<<97, 0>>)>>)}]

\* Everything; no row of the site; no child row, only what is below; an empty container.
MCContents == [codec \in Codecs |->
                LET keys == MCKeySpace[codec]
                IN  {keys, keys \ {Site}, {k \in keys : Len(k) # 2}, {Site, Beside1}, {Beside1}}]

\* A scan with no start and no filter.
Whole(reverse, depth, limit) ==
    [ChildScan(Site, reverse) EXCEPT !.start = Nil, !.upper = FALSE, !.breakAt = Nil,
                                     !.length = Nil, !.depth = depth, !.limit = limit]

MCRequests == [codec \in Codecs |->
    {ChildScan(Site, FALSE), ChildScan(Site, TRUE), StrictChildScan(Site, FALSE, 1),
     StrictChildScan(Site, TRUE, 1), StrictChildScan(Site, TRUE, Nil), FirstChildScan(Site),
     SubtreeScan(Site, Nil), SubtreeScan(Site, 2), Whole(TRUE, 2, Nil), Whole(FALSE, 1, Nil),
     Whole(FALSE, 2, 0), Whole(TRUE, 2, 2)}]

MCSizes == [firstPage |-> 2, maxPage |-> 4, seekPage |-> 1, firstBatch |-> 1, maxBatch |-> 4]

IdleDb == [ctx |-> "open", cut |-> Nil]

MCInit ==
    \/ part = "pages" /\ ScanInit /\ db = IdleDb /\ cursor = Nil
    \/ part = "keys"  /\ ScanInit /\ RangeInit

MCNext ==
    \/ part = "pages" /\ ScanNext /\ UNCHANGED rangeVars /\ UNCHANGED part
    \/ part = "keys"  /\ RangeNext /\ UNCHANGED scanVars /\ UNCHANGED part

MCSpec == MCInit /\ [][MCNext]_<<scanVars, rangeVars, part>>
=============================================================================
