----------------------------- MODULE MCBookPage -----------------------------
EXTENDS BookPage

\* Each behaviour uses few of the counters, so that each kind of trouble is met alone.
Plan(m, c, l, r, a, o, f) ==
    [moves |-> m, changes |-> c, locks |-> l, reloads |-> r, acts |-> a, others |-> o, faults |-> f]
MCPlans == {Plan(3, 1, 1, 1, 0, 0, 0), Plan(2, 1, 1, 0, 1, 0, 0), Plan(1, 0, 1, 1, 1, 0, 0),
            Plan(2, 0, 0, 0, 1, 1, 0), Plan(1, 0, 0, 0, 2, 1, 0), Plan(1, 0, 0, 0, 1, 2, 0),
            Plan(1, 0, 0, 0, 2, 0, 1), Plan(1, 0, 0, 0, 1, 1, 1), Plan(0, 0, 0, 0, 0, 3, 1)}
MCGapPlans == {Plan(1, 0, 0, 0, 3, 0, 0), Plan(1, 0, 0, 0, 2, 1, 0)}
MCSourcesPlans == {Plan(2, 0, 0, 0, 2, 0, 0), Plan(1, 0, 0, 0, 1, 1, 1)}
=============================================================================
