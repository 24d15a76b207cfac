--------------------------- MODULE MCSimHashSearch ---------------------------
(* Instance of SimHashSearch for TLC.                                      *)
EXTENDS SimHashSearch

V(a, b, r) == [word |-> <<a, b>>, rest |-> r]

\* equal; near in all words; at and beyond the limits of the filter; the
\* differences in words without bench
Exact == V(0, 0, 0)
MCValues == {Exact, V(2, 1, 0), V(1, 1, 2), V(2, 2, 0), V(0, 1, 8)}

Store(a, b, c, d, e) == <<a, b, c, d, e>>

\* descending, ascending and mixed distances, equal ones, a feature without
\* value, no value at all
MCStores == {
    Store(V(0, 1, 8), V(2, 2, 0), V(1, 1, 2), V(2, 1, 0), Exact),
    Store(Exact, V(2, 1, 0), V(1, 1, 2), V(2, 2, 0), V(0, 1, 8)),
    Store(V(2, 1, 0), V(1, 1, 2), V(2, 2, 0), V(0, 1, 8), V(2, 1, 0)),
    Store(Exact, V(2, 1, 0), V(0, 1, 8), V(0, 1, 8), V(1, 1, 2)),
    Store(V(1, 1, 2), Exact, V(2, 2, 0), Exact, V(2, 1, 0)),
    Store(Exact, Exact, V(2, 1, 0), Exact, Exact),
    Store(V(2, 2, 0), Absent, V(0, 1, 8), Exact, V(1, 1, 2)),
    Store(Absent, Absent, Absent, Absent, Absent)}

MCLimits == {<<8, 16>>, <<9, 15>>, <<9, 16>>, <<4, 8>>, <<0, 0>>}
MCRanks == [dist : 0..9, idx : 1..5]
=============================================================================
