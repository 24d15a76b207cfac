------------------------------ MODULE BestRanks ------------------------------
(***************************************************************************)
(* What a ranked list promises: the best elements inserted so far, at most *)
(* MaxNofRanks of them, in ascending order.  A rank is a distance and the  *)
(* index of the element; equal distances are ordered by the index.         *)
(***************************************************************************)
EXTENDS Integers, Sequences

CONSTANTS MaxNofRanks, Ranks

VARIABLE best

\* SimHashRank::operator<, SimHashSelect::operator<
Before(a, b) == a.dist < b.dist \/ (a.dist = b.dist /\ a.idx < b.idx)

Init == best = << >>

\* The list with e at position p+1; what exceeds MaxNofRanks is dropped.
Inserted(s, p, e) ==
    [i \in 1..(IF Len(s) < MaxNofRanks THEN Len(s) + 1 ELSE MaxNofRanks) |->
        IF i <= p THEN s[i] ELSE IF i = p + 1 THEN e ELSE s[i-1]]

\* e goes to a place where it leaves the list in order, or beyond its end.
Insert(e) ==
    \E p \in 0..Len(best) :
        /\ \A i \in 1..p : ~Before(e, best[i])
        /\ \A i \in (p+1)..Len(best) : ~Before(best[i], e)
        /\ best' = Inserted(best, p, e)

Next == \E e \in Ranks : Insert(e)

Spec == Init /\ [][Next]_best

=============================================================================
