---------------------------- MODULE MCWriterSlot ----------------------------
(* Instances of WriterSlot for TLC.                                        *)
EXTENDS WriterSlot, TLC

CONSTANTS t1, t2, c1, c2, l1, l2

ThreadSet2 == {t1, t2}
CoroSet2   == {c1, c2}
LoopSet2   == {l1, l2}
LoopSet1   == {l1}
OneLoop2   == [c \in {c1, c2} |-> l1]
TwoLoops2  == (c1 :> l1) @@ (c2 :> l2)

\* Threads are interchangeable; tasks are when one loop runs them all.
ThreadSymmetry == Permutations({t1, t2})
=============================================================================
