----------------------------- MODULE MCObserver -----------------------------
(* Instances of Observer for TLC: two subscriptions, on two values of one  *)
(* wildcard shape, one of them twice over in an Or.                        *)
EXTENDS Observer, TLC
CONSTANTS s1, s2, r1, r2, r3

Shape(v) == WildcardFilter(<<v, WILDCARD>>)
TwoFilters == s1 :> Or(<<Shape("a"), PrefixFilter(<<"b", "c">>), Shape("a")>>)
           @@ s2 :> And(<<Shape("b"), SuffixFilter(<<"c">>)>>)
Bindings == r1 :> s1 @@ r2 :> s1 @@ r3 :> s2
SubSet == {s1, s2}
ReceiverSet == {r1, r2, r3}
OneBatch == <<<<<<"a", "c">>, <<"b", "c">>>>>>
Plan(receivers, flush_called, acts_left) ==
    [receivers |-> receivers, flush |-> flush_called, acts |-> acts_left]
ThreePlans == {Plan({r1, r2}, FALSE, 1), Plan({r1, r3}, FALSE, 1), Plan({r1}, TRUE, 0)}
OwnKey == {<<"b", "c", "d">>}
=============================================================================
