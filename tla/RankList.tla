------------------------------- MODULE RankList -------------------------------
(***************************************************************************)
(* The ranked list of the similarity search (src/src/rankList.hpp): a      *)
(* fixed array of elements and an array of indices that orders them.  An   *)
(* insertion searches its place by halving an interval of the index array; *)
(* every turn of that loop is a step of its own, so that what the loop     *)
(* maintains can be stated.                                                *)
(***************************************************************************)
EXTENDS Integers, Sequences

CONSTANTS
    MaxNofRanks, \* m_maxNofRanks
    Ranks        \* the elements that may be inserted

ASSUME RankAssumption ==
    /\ MaxNofRanks \in Nat \ {0}
    /\ Ranks \subseteq [dist : Int, idx : Int]

VARIABLES
    nofRanks,   \* m_nofRanks: insertions accepted, also those dropped again
    bruteIndex, \* m_brute_index
    bruteAr,    \* m_brute_ar
    inserting,  \* whether insert is in its search loop
    elem,       \* the element inserted
    first, last, mid \* the interval searched and its probe

search == <<inserting, elem, first, last, mid>>
rankVars == <<nofRanks, bruteIndex, bruteAr, search>>

Slots == 0..(MaxNofRanks - 1)

\* SimHashRank(), SimHashSelect()
DefaultRank == [dist |-> 0, idx |-> 0]

RankTypeOK ==
    /\ nofRanks \in Nat
    /\ bruteIndex \in [Slots -> Slots]
    /\ bruteAr \in [Slots -> Ranks \cup {DefaultRank}]
    /\ inserting \in BOOLEAN
    /\ elem \in Ranks \cup {DefaultRank}
    /\ first \in 0..MaxNofRanks /\ last \in 0..MaxNofRanks /\ mid \in 0..MaxNofRanks

RankInit ==
    /\ nofRanks = 0
    /\ bruteIndex = [i \in Slots |-> i]
    /\ bruteAr = [i \in Slots |-> DefaultRank]
    /\ inserting = FALSE
    /\ elem = DefaultRank
    /\ first = 0 /\ last = 0 /\ mid = 0

\* (fault: one rank too many is taken to be filled)
Fault_Filled == IF nofRanks >= MaxNofRanks THEN MaxNofRanks - 1 ELSE nofRanks

\* The number of ranks in use.
Filled == IF nofRanks > MaxNofRanks THEN MaxNofRanks ELSE nofRanks

At(i) == bruteAr[bruteIndex[i]]

Back == At(Filled - 1)

\* SimHashRank::operator<, SimHashSelect::operator<
Before(a, b) == a.dist < b.dist \/ (a.dist = b.dist /\ a.idx < b.idx)

\* The index array with the last entry moved to place p.
Shifted(p) ==
    [i \in Slots |-> IF i < p THEN bruteIndex[i]
                     ELSE IF i = p THEN bruteIndex[MaxNofRanks - 1]
                     ELSE bruteIndex[i - 1]]

\* (fault: the element is stored where the index entry of place p pointed to)
Fault_BruteInsertAt(p, e) ==
    /\ bruteIndex' = Shifted(p)
    /\ bruteAr' = [bruteAr EXCEPT ![bruteIndex[p]] = e]

\* bruteInsert_at: the entry at the end of the index array, in use or not,
\* gets the element.
BruteInsertAt(p, e) ==
    /\ bruteIndex' = Shifted(p)
    /\ bruteAr' = [bruteAr EXCEPT ![bruteIndex[MaxNofRanks - 1]] = e]

Accepted ==
    /\ nofRanks' = nofRanks + 1
    /\ inserting' = FALSE
    /\ UNCHANGED <<elem, first, last, mid>>

InsertFirst(e) ==
    /\ ~inserting /\ nofRanks = 0
    /\ bruteIndex' = [bruteIndex EXCEPT ![0] = 0]
    /\ bruteAr' = [bruteAr EXCEPT ![0] = e]
    /\ Accepted

InsertLast(e) ==
    /\ ~inserting /\ nofRanks # 0
    /\ ~Before(e, Back)
    /\ nofRanks < MaxNofRanks
    /\ BruteInsertAt(nofRanks, e)
    /\ Accepted

Reject(e) ==
    /\ ~inserting /\ nofRanks # 0
    /\ ~Before(e, Back)
    /\ nofRanks >= MaxNofRanks
    /\ UNCHANGED rankVars

InsertSearch(e) ==
    /\ ~inserting /\ nofRanks # 0
    /\ Before(e, Back)
    /\ inserting' = TRUE
    /\ elem' = e
    /\ first' = 0 /\ last' = Filled /\ mid' = Filled - 1
    /\ UNCHANGED <<nofRanks, bruteIndex, bruteAr>>

\* RankList::insert up to its loop.
Insert(e) == InsertFirst(e) \/ InsertLast(e) \/ Reject(e) \/ InsertSearch(e)

SearchLeft ==
    /\ inserting /\ last - first > 2
    /\ Before(elem, At(mid))
    /\ last' = mid
    /\ mid' = (first + mid) \div 2
    /\ UNCHANGED <<nofRanks, bruteIndex, bruteAr, inserting, elem, first>>

\* (fault: the upper half starts one place too late)
Fault_SearchRight ==
    /\ inserting /\ last - first > 2
    /\ Before(At(mid), elem)
    /\ first' = (IF mid + 2 < last THEN mid + 2 ELSE last)
    /\ mid' = (last + mid) \div 2
    /\ UNCHANGED <<nofRanks, bruteIndex, bruteAr, inserting, elem, last>>

SearchRight ==
    /\ inserting /\ last - first > 2
    /\ Before(At(mid), elem)
    /\ first' = mid + 1
    /\ mid' = (last + mid) \div 2
    /\ UNCHANGED <<nofRanks, bruteIndex, bruteAr, inserting, elem, last>>

SearchEqual ==
    /\ inserting /\ last - first > 2
    /\ ~Before(elem, At(mid)) /\ ~Before(At(mid), elem)
    /\ BruteInsertAt(mid, elem)
    /\ Accepted

\* The linear search in an interval of at most two places: before the first
\* greater element, or after the interval if there is room.
Scan ==
    /\ inserting /\ last - first <= 2
    /\ \E p \in first..last :
          /\ \A q \in first..(p-1) : ~Before(elem, At(q))
          /\ p < last => Before(elem, At(p))
          /\ IF p < MaxNofRanks
             THEN BruteInsertAt(p, elem)
             ELSE UNCHANGED <<bruteIndex, bruteAr>>
    /\ Accepted

SearchStep == SearchLeft \/ SearchRight \/ SearchEqual \/ Scan

RankNext == (\E e \in Ranks : Insert(e)) \/ SearchStep

RankSpec == RankInit /\ [][RankNext]_rankVars

-----------------------------------------------------------------------------
(* Properties.                                                             *)

\* The list as begin() to end() iterate over it.
Listed == [i \in 1..Filled |-> At(i - 1)]

\* The ranked list holds the best elements inserted, in order, whatever the
\* order of insertion, also when the list is full and elements are equal.
Abstract == INSTANCE BestRanks WITH best <- Listed
ImplementsBestRanks == Abstract!Spec

\* The loop of insert never loses the place of the element: everything left
\* of the interval is not greater, everything right of it is greater, and the
\* probe stays within the interval.
PlaceInInterval ==
    inserting =>
        /\ first <= last /\ last <= Filled
        /\ \A i \in 0..(first-1) : ~Before(elem, At(i))
        /\ \A i \in last..(Filled-1) : Before(elem, At(i))
        /\ last - first > 2 => first <= mid /\ mid < last

=============================================================================
