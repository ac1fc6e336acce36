-------------------------- MODULE MCRedisObserver --------------------------
EXTENDS RedisObserver

f == PrefixFilter(<<"a">>)
g == WildcardFilter(<<WILDCARD, "b">>)
\* c1 and c2 subscribe to one filter written in two ways, c3 to a longer prefix
\* of the same depth as c1's, c4 to a filter that matches nothing.
MCFilterOf == [c1 |-> And(<<f, g>>), c2 |-> And(<<g, f>>), c3 |-> PrefixFilter(<<"b">>),
               c4 |-> PassNone]
MCThreads == DOMAIN MCFilterOf
MCKeys == {<<"a", "b">>, <<"b">>}

Plan(callers, keys, cuts, restarts, failing, late, ends) ==
    [threads |-> callers, published |-> keys, losses |-> cuts, restart |-> restarts,
     failures |-> failing, timeouts |-> late, disconnect |-> ends]

MCPlans == {
    Plan({"c1", "c2"}, 1, 1, TRUE, 1, 0, FALSE),
    Plan({"c1", "c2"}, 1, 1, FALSE, 0, 1, FALSE),
    Plan({"c1", "c3"}, 2, 0, FALSE, 0, 0, FALSE),
    Plan({"c1", "c2"}, 0, 1, FALSE, 0, 0, TRUE),
    Plan({"c3", "c4"}, 0, 0, FALSE, 0, 0, FALSE)}
=============================================================================
