-------------------------- MODULE SimHashSearchProofs --------------------------
(***************************************************************************)
(* Proofs about RankList: for every size, every set of elements and every  *)
(* order of insertion the list implements BestRanks.                       *)
(*                                                                         *)
(* Proofs about SimHashSearch: the candidates of the filter are places of  *)
(* the map, a search uses the ranked list as RankList specifies it, its    *)
(* results are distances of values the features had, it loses no feature   *)
(* near enough but to better ones, and the filter lets equal values and    *)
(* evenly spread differences pass.                                         *)
(***************************************************************************)
EXTENDS SimHashSearch, FiniteSetTheorems, WellFoundedInduction, TLAPS

Keys == [dist : Int, idx : Int]

-----------------------------------------------------------------------------
(* Before is a strict total order on ranks.                                *)

LEMMA BeforeIrreflexive == ASSUME NEW a \in Keys PROVE ~Before(a, a)
  BY DEF Before, Keys

LEMMA BeforeTotal ==
  ASSUME NEW a \in Keys, NEW b \in Keys, ~Before(a, b), ~Before(b, a)
  PROVE  a = b
  BY DEF Before, Keys

LEMMA NotBeforeTransitive ==
  ASSUME NEW a \in Keys, NEW b \in Keys, NEW c \in Keys,
         ~Before(b, a), ~Before(c, b)
  PROVE  ~Before(c, a)
  BY DEF Before, Keys

LEMMA BeforeNotAfter ==
  ASSUME NEW a \in Keys, NEW b \in Keys, Before(a, b)
  PROVE  ~Before(b, a)
  BY DEF Before, Keys

LEMMA BeforeTransitive ==
  ASSUME NEW a \in Keys, NEW b \in Keys, NEW c \in Keys,
         Before(a, b), ~Before(c, b)
  PROVE  Before(a, c)
  BY DEF Before, Keys

-----------------------------------------------------------------------------
(* The inductive invariant.                                                *)

IndexInjective ==
    \A i, j \in Slots : bruteIndex[i] = bruteIndex[j] => i = j

Sorted ==
    \A i, j \in 0..(Filled - 1) : i < j => ~Before(At(j), At(i))

ListedFromRanks == \A i \in 0..(Filled - 1) : At(i) \in Ranks

SearchStarted ==
    inserting => nofRanks # 0 /\ elem \in Ranks /\ Before(elem, Back)

EmptyList == nofRanks = 0 => bruteIndex[0] = 0

RankInv ==
    /\ RankTypeOK
    /\ IndexInjective
    /\ Sorted
    /\ ListedFromRanks
    /\ SearchStarted
    /\ EmptyList
    /\ PlaceInInterval

LEMMA RanksAreKeys == Ranks \subseteq Keys
  BY RankAssumption DEF Keys

LEMMA FilledBounds ==
  ASSUME RankTypeOK
  PROVE  /\ Filled \in 0..MaxNofRanks
         /\ nofRanks # 0 => Filled # 0
         /\ nofRanks < MaxNofRanks => Filled = nofRanks
         /\ nofRanks >= MaxNofRanks => Filled = MaxNofRanks
  BY RankAssumption DEF RankTypeOK, Filled

\* The effect of an insertion at place p on the list: the elements from p on
\* move up by one, the one that exceeds the size is dropped.
LEMMA InsertAtPlace ==
  ASSUME RankTypeOK, IndexInjective,
         NEW p \in 0..Filled, p < MaxNofRanks,
         NEW e \in Ranks,
         BruteInsertAt(p, e),
         nofRanks' = nofRanks + 1
  PROVE  /\ bruteIndex' \in [Slots -> Slots]
         /\ bruteAr' \in [Slots -> Ranks \cup {DefaultRank}]
         /\ IndexInjective'
         /\ Filled' = IF Filled < MaxNofRanks THEN Filled + 1 ELSE MaxNofRanks
         /\ \A i \in 0..(Filled' - 1) :
               At(i)' = IF i < p THEN At(i) ELSE IF i = p THEN e ELSE At(i-1)
  <1>0. MaxNofRanks \in Nat \ {0} /\ p \in Slots /\ MaxNofRanks - 1 \in Slots
    BY RankAssumption, FilledBounds DEF Slots
  <1>1. bruteIndex \in [Slots -> Slots] /\ bruteAr \in [Slots -> Ranks \cup {DefaultRank}]
    BY DEF RankTypeOK
  <1>2. \A i \in Slots : i > p => i - 1 \in Slots
    BY <1>0 DEF Slots
  <1>3. bruteIndex' \in [Slots -> Slots]
    BY SMTT(30), <1>0, <1>1, <1>2 DEF BruteInsertAt, Shifted, Slots
  <1>4. bruteAr' \in [Slots -> Ranks \cup {DefaultRank}]
    BY <1>0, <1>1 DEF BruteInsertAt
  <1>5. IndexInjective'
    <2>1. ASSUME NEW i \in Slots, NEW j \in Slots, bruteIndex'[i] = bruteIndex'[j]
          PROVE  i = j
      <3> DEFINE src(k) == IF k < p THEN k ELSE IF k = p THEN MaxNofRanks - 1 ELSE k - 1
      <3>1. src(i) \in Slots /\ src(j) \in Slots
        BY <1>0, <1>2 DEF Slots
      <3>2. bruteIndex'[i] = bruteIndex[src(i)] /\ bruteIndex'[j] = bruteIndex[src(j)]
        BY DEF BruteInsertAt, Shifted
      <3>3. src(i) = src(j) => i = j
        BY <1>0 DEF Slots
      <3> HIDE DEF src
      <3>. QED BY <2>1, <3>1, <3>2, <3>3 DEF IndexInjective
    <2>. QED BY <2>1 DEF IndexInjective
  <1>6. Filled' = IF Filled < MaxNofRanks THEN Filled + 1 ELSE MaxNofRanks
    BY <1>0 DEF RankTypeOK, Filled
  <1>7. ASSUME NEW i \in 0..(Filled' - 1)
        PROVE  At(i)' = IF i < p THEN At(i) ELSE IF i = p THEN e ELSE At(i-1)
    <2>1. i \in Slots
      BY <1>0, <1>6, FilledBounds DEF Slots
    <2>2. bruteIndex'[i] = IF i < p THEN bruteIndex[i]
                           ELSE IF i = p THEN bruteIndex[MaxNofRanks - 1]
                           ELSE bruteIndex[i - 1]
      BY <2>1 DEF BruteInsertAt, Shifted
    <2>3. bruteAr' = [bruteAr EXCEPT ![bruteIndex[MaxNofRanks - 1]] = e]
      BY DEF BruteInsertAt
    <2>4. \A q \in Slots : q # MaxNofRanks - 1 =>
             bruteAr'[bruteIndex[q]] = bruteAr[bruteIndex[q]]
      BY <1>0, <1>1, <2>3 DEF IndexInjective
    <2>5. bruteAr'[bruteIndex[MaxNofRanks - 1]] = e
      BY <1>0, <1>1, <2>3
    <2>6. CASE i < p
      <3>1. i # MaxNofRanks - 1
        BY <1>0, <2>6 DEF Slots
      <3>. QED BY <2>1, <2>2, <2>4, <2>6, <3>1 DEF At
    <2>7. CASE i = p
      BY <2>2, <2>5, <2>7, <1>0 DEF At, Slots
    <2>8. CASE i > p
      <3>1. i - 1 \in Slots /\ i - 1 # MaxNofRanks - 1
        BY <1>0, <1>2, <2>1, <2>8 DEF Slots
      <3>2. bruteIndex'[i] = bruteIndex[i - 1]
        BY <2>1, <2>2, <2>8, <1>0 DEF Slots
      <3>3. At(i)' = At(i-1)
        BY <2>4, <3>1, <3>2 DEF At
      <3>. QED BY <2>1, <2>8, <3>3, <1>0 DEF Slots
    <2>. QED BY <2>6, <2>7, <2>8, <2>1, <1>0 DEF Slots
  <1>. QED BY <1>3, <1>4, <1>5, <1>6, <1>7

\* An insertion where everything before is not greater and everything after
\* not less keeps the list in order.
LEMMA InsertKeepsOrder ==
  ASSUME RankTypeOK, IndexInjective, Sorted, ListedFromRanks,
         NEW p \in 0..Filled, p < MaxNofRanks,
         NEW e \in Ranks,
         \A i \in 0..(p - 1) : ~Before(e, At(i)),
         \A i \in p..(Filled - 1) : ~Before(At(i), e),
         BruteInsertAt(p, e),
         nofRanks' = nofRanks + 1
  PROVE  Sorted' /\ ListedFromRanks'
  <1> DEFINE N == Filled
             M == Filled'
             L(i) == At(i)
             K(i) == At(i)'
  <1>1. MaxNofRanks \in Nat \ {0} /\ N \in 0..MaxNofRanks
    BY RankAssumption, FilledBounds
  <1>2. /\ M = IF N < MaxNofRanks THEN N + 1 ELSE MaxNofRanks
        /\ \A i \in 0..(M - 1) : K(i) = IF i < p THEN L(i) ELSE IF i = p THEN e ELSE L(i-1)
    BY InsertAtPlace
  <1>3. \A i \in 0..(N - 1) : L(i) \in Ranks
    BY DEF ListedFromRanks
  <1>4. \A i, j \in 0..(N - 1) : i < j => ~Before(L(j), L(i))
    BY DEF Sorted
  <1>5. /\ \A i \in 0..(p - 1) : ~Before(e, L(i))
        /\ \A i \in p..(N - 1) : ~Before(L(i), e)
    OBVIOUS
  <1>6. p \in 0..N
    OBVIOUS
  <1>7. Ranks \subseteq Keys
    BY RanksAreKeys
  <1> HIDE DEF N, M, L, K
  <1>8. ASSUME NEW i \in 0..(M - 1)
        PROVE  K(i) \in Ranks
    <2>1. i < p => i \in 0..(N - 1)
      BY <1>1, <1>6
    <2>2. i > p => i - 1 \in 0..(N - 1)
      BY <1>1, <1>2, <1>6
    <2>. QED BY <1>1, <1>2, <1>3, <1>6, <2>1, <2>2
  <1>9. ASSUME NEW i \in 0..(M - 1), NEW j \in 0..(M - 1), i < j
        PROVE  ~Before(K(j), K(i))
    <2>1. CASE j < p
      <3>1. i \in 0..(N - 1) /\ j \in 0..(N - 1)
        BY <1>1, <1>6, <1>9, <2>1
      <3>2. K(i) = L(i) /\ K(j) = L(j)
        BY <1>1, <1>2, <1>6, <1>9, <2>1
      <3>. QED BY <1>4, <1>9, <3>1, <3>2
    <2>2. CASE j = p
      <3>1. K(j) = e /\ K(i) = L(i) /\ i \in 0..(p - 1)
        BY <1>1, <1>2, <1>6, <1>9, <2>2
      <3>. QED BY <1>5, <3>1
    <2>3. CASE j > p /\ i = p
      <3>1. K(j) = L(j - 1) /\ K(i) = e /\ j - 1 \in p..(N - 1)
        BY <1>1, <1>2, <1>6, <1>9, <2>3
      <3>. QED BY <1>5, <3>1
    <2>4. CASE j > p /\ i > p
      <3>1. K(j) = L(j - 1) /\ K(i) = L(i - 1)
        BY <1>1, <1>2, <1>6, <1>9, <2>4
      <3>2. i - 1 \in 0..(N - 1) /\ j - 1 \in 0..(N - 1) /\ i - 1 < j - 1
        BY <1>1, <1>2, <1>6, <1>9, <2>4
      <3>. QED BY <1>4, <3>1, <3>2
    <2>5. CASE j > p /\ i < p
      <3>1. K(j) = L(j - 1) /\ K(i) = L(i)
        BY <1>1, <1>2, <1>6, <1>9, <2>5
      <3>2. i \in 0..(p - 1) /\ i \in 0..(N - 1)
            /\ j - 1 \in p..(N - 1) /\ j - 1 \in 0..(N - 1)
        BY <1>1, <1>2, <1>6, <1>9, <2>5
      <3>3. L(i) \in Keys /\ L(j - 1) \in Keys /\ e \in Keys
        BY <1>3, <1>7, <3>2
      <3>4. ~Before(e, L(i)) /\ ~Before(L(j - 1), e)
        BY <1>5, <3>2
      <3>. QED BY NotBeforeTransitive, <3>1, <3>3, <3>4
    <2>. QED BY <1>1, <1>6, <1>9, <2>1, <2>2, <2>3, <2>4, <2>5
  <1>. QED BY <1>8, <1>9 DEF Sorted, ListedFromRanks, M, K

-----------------------------------------------------------------------------
(* Refinement mapping: the list as the abstract sequence.                  *)

LEMMA ListedLength ==
  ASSUME RankTypeOK
  PROVE  /\ Len(Listed) = Filled /\ Listed = [i \in 1..Filled |-> At(i - 1)]
         /\ \A i \in 1..Filled : Listed[i] = At(i - 1)
  BY FilledBounds DEF Listed

\* An insertion at a place that keeps the order keeps the invariant and is an
\* insertion into the abstract list.
LEMMA InsertStep ==
  ASSUME RankInv,
         NEW p \in 0..Filled, p < MaxNofRanks,
         NEW e \in Ranks,
         \A i \in 0..(p - 1) : ~Before(e, At(i)),
         \A i \in p..(Filled - 1) : ~Before(At(i), e),
         BruteInsertAt(p, e),
         Accepted
  PROVE  RankInv' /\ Abstract!Insert(e)
  <1>1. RankTypeOK /\ IndexInjective /\ Sorted /\ ListedFromRanks /\ nofRanks' = nofRanks + 1
    BY DEF RankInv, Accepted
  <1>2. /\ bruteIndex' \in [Slots -> Slots]
        /\ bruteAr' \in [Slots -> Ranks \cup {DefaultRank}]
        /\ IndexInjective'
        /\ Filled' = IF Filled < MaxNofRanks THEN Filled + 1 ELSE MaxNofRanks
        /\ \A i \in 0..(Filled' - 1) :
              At(i)' = IF i < p THEN At(i) ELSE IF i = p THEN e ELSE At(i-1)
    BY <1>1, InsertAtPlace
  <1>3. Sorted' /\ ListedFromRanks'
    BY <1>1, InsertKeepsOrder
  <1>4. RankTypeOK'
    <2>1. nofRanks' \in Nat
      BY <1>1 DEF RankTypeOK
    <2>2. inserting' \in BOOLEAN
      BY Zenon DEF Accepted
    <2>3. /\ elem' \in Ranks \cup {DefaultRank}
          /\ first' \in 0..MaxNofRanks /\ last' \in 0..MaxNofRanks /\ mid' \in 0..MaxNofRanks
      BY <1>1 DEF RankTypeOK, Accepted
    <2>. QED BY <1>2, <2>1, <2>2, <2>3, Zenon DEF RankTypeOK
  <1>5. (SearchStarted /\ EmptyList /\ PlaceInInterval)'
    BY <1>1 DEF SearchStarted, EmptyList, PlaceInInterval, Accepted, RankTypeOK
  <1>6. RankInv'
    BY <1>2, <1>3, <1>4, <1>5 DEF RankInv
  <1>7. Abstract!Insert(e)
    <2>0. MaxNofRanks \in Nat \ {0} /\ Filled \in 0..MaxNofRanks
      BY RankAssumption, FilledBounds, <1>1
    <2>1. /\ Len(Listed) = Filled
          /\ \A i \in 1..Filled : Listed[i] = At(i - 1)
      BY <1>1, ListedLength
    <2>2. Listed' = [i \in 1..Filled' |-> At(i - 1)']
      BY DEF Listed
    <2>3. \A i \in 1..p : ~Abstract!Before(e, Listed[i])
      <3> SUFFICES ASSUME NEW i \in 1..p PROVE ~Abstract!Before(e, Listed[i])
        OBVIOUS
      <3>1. i - 1 \in 0..(p - 1) /\ i \in 1..Filled
        BY <2>0
      <3>. QED BY <2>1, <3>1 DEF Abstract!Before, Before
    <2>4. \A i \in (p+1)..Filled : ~Abstract!Before(Listed[i], e)
      <3> SUFFICES ASSUME NEW i \in (p+1)..Filled PROVE ~Abstract!Before(Listed[i], e)
        OBVIOUS
      <3>1. i - 1 \in p..(Filled - 1) /\ i \in 1..Filled
        BY <2>0
      <3>. QED BY <2>1, <3>1 DEF Abstract!Before, Before
    <2>5. Listed' = [i \in 1..Filled' |-> IF i <= p THEN Listed[i]
                                          ELSE IF i = p + 1 THEN e ELSE Listed[i-1]]
      <3>1. ASSUME NEW i \in 1..Filled'
            PROVE  At(i - 1)' = IF i <= p THEN Listed[i]
                                ELSE IF i = p + 1 THEN e ELSE Listed[i-1]
        <4>1. i - 1 \in 0..(Filled' - 1)
          BY <1>2, <2>0
        <4>2. At(i-1)' = IF i - 1 < p THEN At(i-1) ELSE IF i - 1 = p THEN e ELSE At((i-1)-1)
          BY <1>2, <4>1
        <4>3. i <= p => Listed[i] = At(i - 1)
          BY <2>0, <2>1
        <4>4. i > p + 1 => i - 1 \in 1..Filled
          BY <1>2, <2>0
        <4>5. i > p + 1 => Listed[i-1] = At((i-1)-1)
          BY <2>1, <4>4
        <4>. QED BY <4>2, <4>3, <4>5, <2>0, <1>2
      <3>. QED BY <2>2, <3>1
    <2>6. Listed' = Abstract!Inserted(Listed, p, e)
      BY <1>2, <2>1, <2>5 DEF Abstract!Inserted
    <2>. QED BY <2>1, <2>3, <2>4, <2>6 DEF Abstract!Insert
  <1>. QED BY <1>6, <1>7

-----------------------------------------------------------------------------
(* Every step keeps the invariant and maps to a step of BestRanks.         *)

LEMMA FirstStep ==
  ASSUME RankInv, NEW e \in Ranks, InsertFirst(e)
  PROVE  RankInv' /\ Abstract!Insert(e)
  <1>0. /\ MaxNofRanks \in Nat \ {0} /\ 0 \in Slots /\ nofRanks = 0 /\ nofRanks' = 1
        /\ bruteIndex[0] = 0
        /\ bruteIndex \in [Slots -> Slots] /\ bruteAr \in [Slots -> Ranks \cup {DefaultRank}]
    BY RankAssumption DEF RankInv, RankTypeOK, EmptyList, InsertFirst, Accepted, Slots
  <1>1. bruteIndex' = bruteIndex /\ bruteAr' = [bruteAr EXCEPT ![0] = e]
    BY <1>0 DEF InsertFirst
  <1>2. Filled = 0 /\ Filled' = 1
    BY <1>0 DEF Filled
  <1>3. At(0)' = e
    BY <1>0, <1>1 DEF At
  <1>4. RankTypeOK'
    <2>1. inserting' \in BOOLEAN
      BY Zenon DEF InsertFirst, Accepted
    <2>2. nofRanks' \in Nat /\ bruteAr' \in [Slots -> Ranks \cup {DefaultRank}]
      BY <1>0, <1>1
    <2>3. /\ elem' \in Ranks \cup {DefaultRank}
          /\ first' \in 0..MaxNofRanks /\ last' \in 0..MaxNofRanks /\ mid' \in 0..MaxNofRanks
      BY DEF RankInv, RankTypeOK, InsertFirst, Accepted
    <2>4. bruteIndex' \in [Slots -> Slots]
      BY <1>0, <1>1
    <2>. QED BY <2>1, <2>2, <2>3, <2>4, Zenon DEF RankTypeOK
  <1>5. IndexInjective'
    BY <1>1, Zenon DEF RankInv, IndexInjective
  <1>6. Sorted' /\ ListedFromRanks'
    <2>1. \A i \in 0..(Filled' - 1) : i = 0
      BY <1>2
    <2>2. ListedFromRanks'
      BY <1>3, <2>1 DEF ListedFromRanks
    <2>3. ASSUME NEW i \in 0..(Filled' - 1), NEW j \in 0..(Filled' - 1), i < j PROVE FALSE
      BY <2>1, <2>3
    <2>. QED BY <2>2, <2>3 DEF Sorted
  <1>7. (SearchStarted /\ EmptyList /\ PlaceInInterval)'
    BY <1>0 DEF SearchStarted, EmptyList, PlaceInInterval, InsertFirst, Accepted
  <1>8. Abstract!Insert(e)
    <2>1. Len(Listed) = 0
      BY <1>2, ListedLength DEF RankInv
    <2>2. Listed' = [i \in 1..1 |-> e]
      <3>1. \A i \in 1..1 : At(i - 1)' = e
        BY <1>3
      <3>2. Listed' = [i \in 1..1 |-> At(i - 1)']
        BY <1>2 DEF Listed
      <3>. QED BY <3>1, <3>2
    <2>3. Abstract!Inserted(Listed, 0, e) = [i \in 1..1 |-> e]
      BY <1>0, <2>1 DEF Abstract!Inserted
    <2>4. /\ \A i \in 1..0 : ~Abstract!Before(e, Listed[i])
          /\ \A i \in (0+1)..Len(Listed) : ~Abstract!Before(Listed[i], e)
      BY <2>1
    <2>. QED BY <2>1, <2>2, <2>3, <2>4 DEF Abstract!Insert
  <1>. QED BY <1>4, <1>5, <1>6, <1>7, <1>8 DEF RankInv

LEMMA BeforeBackOrNot ==
  ASSUME RankInv, nofRanks # 0, NEW e \in Ranks, ~Before(e, Back)
  PROVE  \A i \in 0..(Filled - 1) : ~Before(e, At(i))
  <1>0. /\ Filled \in 1..MaxNofRanks /\ Filled - 1 \in 0..(Filled - 1)
        /\ MaxNofRanks \in Nat
    BY FilledBounds, RankAssumption DEF RankInv
  <1> SUFFICES ASSUME NEW i \in 0..(Filled - 1) PROVE ~Before(e, At(i))
    OBVIOUS
  <1>1. At(i) \in Keys /\ At(Filled - 1) \in Keys /\ e \in Keys
    BY <1>0, RanksAreKeys DEF RankInv, ListedFromRanks
  <1>2. CASE i = Filled - 1
    BY <1>2 DEF Back
  <1>3. CASE i # Filled - 1
    <2>1. ~Before(At(Filled - 1), At(i))
      BY <1>0, <1>3 DEF RankInv, Sorted
    <2>. QED BY <1>1, <2>1, NotBeforeTransitive DEF Back
  <1>. QED BY <1>2, <1>3

LEMMA LastStep ==
  ASSUME RankInv, NEW e \in Ranks, InsertLast(e)
  PROVE  RankInv' /\ Abstract!Insert(e)
  <1>1. /\ Filled = nofRanks /\ nofRanks \in 0..Filled /\ nofRanks < MaxNofRanks
        /\ BruteInsertAt(nofRanks, e) /\ Accepted
    BY FilledBounds DEF InsertLast, RankInv, RankTypeOK
  <1>2. \A i \in 0..(nofRanks - 1) : ~Before(e, At(i))
    BY <1>1, BeforeBackOrNot DEF InsertLast
  <1>3. \A i \in nofRanks..(Filled - 1) : ~Before(At(i), e)
    BY <1>1 DEF RankInv, RankTypeOK
  <1>. QED BY <1>1, <1>2, <1>3, InsertStep

LEMMA SearchStarts ==
  ASSUME RankInv, NEW e \in Ranks, InsertSearch(e)
  PROVE  RankInv' /\ UNCHANGED Listed
  <1>1. UNCHANGED <<nofRanks, bruteIndex, bruteAr>>
    BY DEF InsertSearch
  <1>2. /\ Filled \in 1..MaxNofRanks /\ Filled' = Filled
        /\ MaxNofRanks \in Nat \ {0}
    BY <1>1, FilledBounds, RankAssumption DEF RankInv, InsertSearch, Filled
  <1>3. RankTypeOK'
    <2>1. inserting' \in BOOLEAN
      BY Zenon DEF InsertSearch
    <2>2. elem' \in Ranks \cup {DefaultRank}
      BY DEF InsertSearch
    <2>3. first' \in 0..MaxNofRanks /\ last' \in 0..MaxNofRanks /\ mid' \in 0..MaxNofRanks
      BY <1>2 DEF InsertSearch
    <2>. QED BY <1>1, <2>1, <2>2, <2>3, Zenon DEF RankInv, RankTypeOK
  <1>4. (IndexInjective /\ Sorted /\ ListedFromRanks /\ EmptyList)' /\ UNCHANGED Listed
    BY <1>1, <1>2 DEF RankInv, IndexInjective, Sorted, ListedFromRanks, EmptyList, Listed, At
  <1>5. SearchStarted'
    BY <1>1, <1>2 DEF SearchStarted, InsertSearch, Back, At
  <1>6. PlaceInInterval'
    BY <1>1, <1>2 DEF PlaceInInterval, InsertSearch
  <1>. QED BY <1>3, <1>4, <1>5, <1>6 DEF RankInv

\* What the probe's comparison says of all places on its side.
LEMMA ProbeSides ==
  ASSUME RankInv, inserting, last - first > 2
  PROVE  /\ mid \in 0..(Filled - 1) /\ first <= mid /\ mid < last
         /\ ~Before(elem, At(mid)) => \A i \in 0..mid : ~Before(elem, At(i))
         /\ Before(elem, At(mid)) => \A i \in mid..(Filled-1) : Before(elem, At(i))
         /\ ~Before(At(mid), elem) => \A i \in mid..(Filled-1) : ~Before(At(i), elem)
  <1>0. /\ first \in Nat /\ last \in Nat /\ mid \in Nat /\ Filled \in Nat
        /\ last <= Filled /\ first <= mid /\ mid < last
    BY FilledBounds, RankAssumption DEF RankInv, RankTypeOK, PlaceInInterval
  <1>1. mid \in 0..(Filled - 1)
    BY <1>0
  <1>2. \A i \in 0..(Filled - 1) : At(i) \in Keys
    BY RanksAreKeys DEF RankInv, ListedFromRanks
  <1>3. elem \in Keys
    BY RanksAreKeys DEF RankInv, SearchStarted
  <1>4. ASSUME NEW i \in 0..mid, ~Before(elem, At(mid)) PROVE ~Before(elem, At(i))
    <2>1. CASE i = mid
      BY <1>4, <2>1
    <2>2. CASE i < mid
      <3>1. i \in 0..(Filled - 1)
        BY <1>0, <1>1
      <3>2. ~Before(At(mid), At(i))
        BY <1>1, <2>2, <3>1 DEF RankInv, Sorted
      <3>. QED BY <1>1, <1>2, <1>3, <1>4, <3>1, <3>2, NotBeforeTransitive
    <2>. QED BY <1>1, <2>1, <2>2
  <1>5. ASSUME NEW i \in mid..(Filled - 1) PROVE ~Before(At(i), At(mid)) /\ At(i) \in Keys
    <2>1. CASE i = mid
      BY <1>1, <1>2, <2>1, BeforeIrreflexive
    <2>2. CASE i > mid
      <3>1. i \in 0..(Filled - 1)
        BY <1>0, <1>1
      <3>. QED BY <1>1, <1>2, <2>2, <3>1 DEF RankInv, Sorted
    <2>. QED BY <1>1, <2>1, <2>2
  <1>6. ASSUME NEW i \in mid..(Filled - 1), Before(elem, At(mid)) PROVE Before(elem, At(i))
    BY <1>1, <1>2, <1>3, <1>5, <1>6, BeforeTransitive
  <1>7. ASSUME NEW i \in mid..(Filled - 1), ~Before(At(mid), elem) PROVE ~Before(At(i), elem)
    BY <1>1, <1>2, <1>3, <1>5, <1>7, NotBeforeTransitive
  <1>. QED BY <1>0, <1>1, <1>4, <1>6, <1>7

LEMMA NarrowKeeps ==
  ASSUME RankInv, inserting, UNCHANGED <<nofRanks, bruteIndex, bruteAr, inserting, elem>>
  PROVE  /\ (IndexInjective /\ Sorted /\ ListedFromRanks /\ EmptyList /\ SearchStarted)'
         /\ UNCHANGED Listed /\ Filled' = Filled
         /\ \A i : At(i)' = At(i)
  BY DEF RankInv, IndexInjective, Sorted, ListedFromRanks, EmptyList, SearchStarted,
         Listed, Back, Filled, At

LEMMA LeftStep ==
  ASSUME RankInv, SearchLeft
  PROVE  RankInv' /\ UNCHANGED Listed
  <1>1. /\ (IndexInjective /\ Sorted /\ ListedFromRanks /\ EmptyList /\ SearchStarted)'
        /\ UNCHANGED Listed /\ Filled' = Filled
        /\ \A i : At(i)' = At(i)
    BY NarrowKeeps, Zenon DEF SearchLeft
  <1>2. /\ mid \in 0..(Filled - 1) /\ first <= mid /\ mid < last
        /\ \A i \in mid..(Filled-1) : Before(elem, At(i))
    BY ProbeSides DEF SearchLeft
  <1>3. /\ first \in Nat /\ last \in Nat /\ Filled \in Nat /\ last <= Filled
        /\ first' = first /\ last' = mid /\ mid' = (first + mid) \div 2 /\ elem' = elem
        /\ Filled <= MaxNofRanks /\ MaxNofRanks \in Nat
        /\ \A i \in 0..(first-1) : ~Before(elem, At(i))
    BY FilledBounds, RankAssumption DEF RankInv, RankTypeOK, PlaceInInterval, SearchLeft
  <1>4. /\ first' <= last' /\ last' <= Filled' /\ mid' \in Nat
        /\ (last' - first' > 2 => first' <= mid' /\ mid' < last')
        /\ mid' <= MaxNofRanks
    BY <1>1, <1>2, <1>3
  <1>5. PlaceInInterval'
    BY <1>1, <1>2, <1>3, <1>4 DEF PlaceInInterval
  <1>6. RankTypeOK'
    <2>1. first' \in 0..MaxNofRanks /\ last' \in 0..MaxNofRanks /\ mid' \in 0..MaxNofRanks
      BY <1>2, <1>3, <1>4
    <2>. QED BY <2>1, Zenon DEF RankInv, RankTypeOK, SearchLeft
  <1>. QED BY <1>1, <1>5, <1>6 DEF RankInv

LEMMA RightStep ==
  ASSUME RankInv, SearchRight
  PROVE  RankInv' /\ UNCHANGED Listed
  <1>1. /\ (IndexInjective /\ Sorted /\ ListedFromRanks /\ EmptyList /\ SearchStarted)'
        /\ UNCHANGED Listed /\ Filled' = Filled
        /\ \A i : At(i)' = At(i)
    BY NarrowKeeps, Zenon DEF SearchRight
  <1>2. /\ mid \in 0..(Filled - 1) /\ first <= mid /\ mid < last
        /\ \A i \in 0..mid : ~Before(elem, At(i))
    <2>1. At(mid) \in Keys /\ elem \in Keys
      BY ProbeSides, RanksAreKeys DEF RankInv, ListedFromRanks, SearchStarted, SearchRight
    <2>2. ~Before(elem, At(mid))
      BY <2>1, BeforeNotAfter DEF SearchRight
    <2>. QED BY <2>2, ProbeSides DEF SearchRight
  <1>3. /\ first \in Nat /\ last \in Nat /\ Filled \in Nat /\ last <= Filled
        /\ first' = mid + 1 /\ last' = last /\ mid' = (last + mid) \div 2 /\ elem' = elem
        /\ Filled <= MaxNofRanks /\ MaxNofRanks \in Nat
        /\ \A i \in last..(Filled-1) : Before(elem, At(i))
    BY FilledBounds, RankAssumption DEF RankInv, RankTypeOK, PlaceInInterval, SearchRight
  <1>4. /\ first' <= last' /\ last' <= Filled' /\ mid' \in Nat
        /\ (last' - first' > 2 => first' <= mid' /\ mid' < last')
        /\ mid' <= MaxNofRanks
    BY <1>1, <1>2, <1>3
  <1>5. PlaceInInterval'
    BY <1>1, <1>2, <1>3, <1>4 DEF PlaceInInterval
  <1>6. RankTypeOK'
    <2>1. first' \in 0..MaxNofRanks /\ last' \in 0..MaxNofRanks /\ mid' \in 0..MaxNofRanks
      BY <1>2, <1>3, <1>4
    <2>. QED BY <2>1, Zenon DEF RankInv, RankTypeOK, SearchRight
  <1>. QED BY <1>1, <1>5, <1>6 DEF RankInv

LEMMA EqualStep ==
  ASSUME RankInv, SearchEqual
  PROVE  RankInv' /\ elem \in Ranks /\ Abstract!Insert(elem)
  <1>1. /\ mid \in 0..(Filled - 1)
        /\ \A i \in 0..mid : ~Before(elem, At(i))
        /\ \A i \in mid..(Filled-1) : ~Before(At(i), elem)
    BY ProbeSides DEF SearchEqual
  <1>2. mid \in 0..Filled /\ mid < MaxNofRanks /\ \A i \in 0..(mid - 1) : ~Before(elem, At(i))
    BY <1>1, FilledBounds, RankAssumption DEF RankInv
  <1>3. elem \in Ranks /\ BruteInsertAt(mid, elem) /\ Accepted
    BY DEF SearchEqual, RankInv, SearchStarted
  <1>. QED BY <1>1, <1>2, <1>3, InsertStep

LEMMA ScanStep ==
  ASSUME RankInv, Scan
  PROVE  RankInv' /\ elem \in Ranks /\ Abstract!Insert(elem)
  <1>1. PICK p \in first..last :
          /\ \A q \in first..(p-1) : ~Before(elem, At(q))
          /\ p < last => Before(elem, At(p))
          /\ IF p < MaxNofRanks
             THEN BruteInsertAt(p, elem)
             ELSE UNCHANGED <<bruteIndex, bruteAr>>
    BY DEF Scan
  <1>2. /\ first \in Nat /\ last \in Nat /\ Filled \in Nat /\ first <= last /\ last <= Filled
        /\ Filled \in 1..MaxNofRanks /\ MaxNofRanks \in Nat \ {0}
        /\ \A i \in 0..(first-1) : ~Before(elem, At(i))
        /\ \A i \in last..(Filled-1) : Before(elem, At(i))
        /\ elem \in Ranks /\ Before(elem, At(Filled - 1)) /\ Accepted
    BY FilledBounds, RankAssumption
    DEF RankInv, RankTypeOK, PlaceInInterval, SearchStarted, Back, Scan
  <1>3. elem \in Keys /\ \A i \in 0..(Filled - 1) : At(i) \in Keys
    BY <1>2, RanksAreKeys DEF RankInv, ListedFromRanks
  <1>4. p \in 0..Filled /\ \A i \in 0..(p - 1) : ~Before(elem, At(i))
    BY <1>1, <1>2
  <1>5. p # Filled
    <2>1. ASSUME p = Filled PROVE FALSE
      <3>1. Filled - 1 \in 0..(p - 1)
        BY <1>2, <2>1
      <3>. QED BY <1>2, <1>4, <3>1
    <2>. QED BY <2>1
  <1>6. p < MaxNofRanks
    BY <1>2, <1>4, <1>5
  <1>7. \A i \in p..(Filled - 1) : ~Before(At(i), elem)
    <2> SUFFICES ASSUME NEW i \in p..(Filled - 1) PROVE ~Before(At(i), elem)
      OBVIOUS
    <2>0. p \in 0..(Filled - 1) /\ i \in 0..(Filled - 1)
      BY <1>2, <1>4, <1>5
    <2>1. CASE p = last
      BY <1>2, <1>3, <2>0, <2>1, BeforeNotAfter
    <2>2. CASE p < last
      <3>1. Before(elem, At(p))
        BY <1>1, <2>2
      <3>2. ~Before(At(i), At(p))
        BY <1>3, <2>0, BeforeIrreflexive DEF RankInv, Sorted
      <3>3. Before(elem, At(i))
        BY <1>3, <2>0, <3>1, <3>2, BeforeTransitive
      <3>. QED BY <1>3, <2>0, <3>3, BeforeNotAfter
    <2>. QED BY <1>1, <1>2, <2>1, <2>2
  <1>. QED BY <1>1, <1>2, <1>4, <1>6, <1>7, InsertStep

-----------------------------------------------------------------------------
(* The theorems.                                                           *)

LEMMA InitInv == RankInit => RankInv /\ Abstract!Init
  <1> SUFFICES ASSUME RankInit PROVE RankInv /\ Abstract!Init
    OBVIOUS
  <1>1. /\ MaxNofRanks \in Nat \ {0} /\ Filled = 0 /\ 0 \in Slots
    BY RankAssumption DEF RankInit, Filled, Slots
  <1>2. RankTypeOK
    <2>1. inserting \in BOOLEAN
      BY Zenon DEF RankInit
    <2>2. /\ nofRanks \in Nat
          /\ elem \in Ranks \cup {DefaultRank}
          /\ first \in 0..MaxNofRanks /\ last \in 0..MaxNofRanks /\ mid \in 0..MaxNofRanks
      BY <1>1 DEF RankInit
    <2>3. bruteIndex \in [Slots -> Slots] /\ bruteAr \in [Slots -> Ranks \cup {DefaultRank}]
      BY DEF RankInit
    <2>. QED BY <2>1, <2>2, <2>3, Zenon DEF RankTypeOK
  <1>3. IndexInjective /\ EmptyList
    BY <1>1 DEF RankInit, IndexInjective, EmptyList
  <1>4. Sorted /\ ListedFromRanks
    BY <1>1 DEF Sorted, ListedFromRanks
  <1>5. SearchStarted /\ PlaceInInterval
    BY DEF RankInit, SearchStarted, PlaceInInterval
  <1>6. Abstract!Init
    BY <1>1 DEF Abstract!Init, Listed
  <1>. QED BY <1>2, <1>3, <1>4, <1>5, <1>6 DEF RankInv

LEMMA NextKeepsInv ==
  ASSUME RankInv, [RankNext]_rankVars
  PROVE  RankInv' /\ [Abstract!Next]_Listed
  <1>1. CASE \E e \in Ranks : InsertFirst(e)
    BY <1>1, FirstStep DEF Abstract!Next
  <1>2. CASE \E e \in Ranks : InsertLast(e)
    BY <1>2, LastStep DEF Abstract!Next
  <1>3. CASE \E e \in Ranks : InsertSearch(e)
    BY <1>3, SearchStarts
  <1>4. CASE SearchLeft
    BY <1>4, LeftStep
  <1>5. CASE SearchRight
    BY <1>5, RightStep
  <1>6. CASE SearchEqual
    BY <1>6, EqualStep DEF Abstract!Next
  <1>7. CASE Scan
    BY <1>7, ScanStep DEF Abstract!Next
  <1>8. CASE UNCHANGED rankVars
    BY <1>8 DEF rankVars, search, RankInv, RankTypeOK, IndexInjective, Sorted, ListedFromRanks,
                SearchStarted, EmptyList, PlaceInInterval, Listed, Back, Filled, At
  <1>9. CASE \E e \in Ranks : Reject(e)
    BY <1>8, <1>9 DEF Reject
  <1>. QED BY <1>1, <1>2, <1>3, <1>4, <1>5, <1>6, <1>7, <1>8, <1>9
           DEF RankNext, Insert, SearchStep

\* Type correctness of the ranked list: the indices stay within the array.
THEOREM RankTypeCorrect == RankSpec => []RankTypeOK
  <1>1. RankInv => RankTypeOK
    BY DEF RankInv
  <1>. QED BY <1>1, InitInv, NextKeepsInv, PTL DEF RankSpec

\* The search for the place of an element never loses it.
THEOREM PlaceAlwaysInInterval == RankSpec => []PlaceInInterval
  <1>1. RankInv => PlaceInInterval
    BY DEF RankInv
  <1>. QED BY <1>1, InitInv, NextKeepsInv, PTL DEF RankSpec

\* The list keeps the best elements inserted, in order: every behaviour of
\* the ranked list is one of BestRanks.
THEOREM RanksImplemented == RankSpec => ImplementsBestRanks
  <1>. QED BY InitInv, NextKeepsInv, PTL DEF RankSpec, ImplementsBestRanks, Abstract!Spec

-----------------------------------------------------------------------------
(* The map and its candidates.                                             *)

Words == {v.word : v \in Values}

MaybeValues == Values \cup {Absent}

ValuesTyped ==
    /\ stored \in [Features -> MaybeValues]
    /\ loaded \in [Features -> MaybeValues]
    /\ versions \in [Features -> SUBSET MaybeValues]
    /\ loading \in Nat \ {0}
    /\ idar \in Seq(Features)

Bench == [startIdx : Nat, ar : Seq(Words)]

\* A bench starts where the full benches before it end, and all it holds has
\* an entry in idar.
BenchesInRange ==
    /\ benches \in Seq(Bench)
    /\ \A b \in DOMAIN benches :
          /\ benches[b].startIdx = (b - 1) * BenchSize
          /\ Len(benches[b].ar) \in 1..BenchSize
          /\ benches[b].startIdx + Len(benches[b].ar) <= Len(idar)

CandidatesInRange == \A c \in candidates \cup toSample : c.idx + 1 \in DOMAIN idar

MapInv == ValuesTyped /\ BenchesInRange /\ CandidatesInRange

LEMMA BenchFields ==
  ASSUME NEW bs \in Seq(Bench), NEW b \in DOMAIN bs
  PROVE  bs[b] \in Bench /\ bs[b].startIdx \in Nat /\ bs[b].ar \in Seq(Words)
  <1>1. bs[b] \in Bench
    OBVIOUS
  <1>. QED BY <1>1 DEF Bench

\* One more word in bench k.
Grown(bs, k, word) == [bs EXCEPT ![k].ar = Append(@, word)]

LEMMA BenchGrows ==
  ASSUME NEW bs \in Seq(Bench), NEW k \in DOMAIN bs, NEW word \in Words
  PROVE  /\ Grown(bs, k, word) \in Seq(Bench)
         /\ Len(Grown(bs, k, word)) = Len(bs)
         /\ DOMAIN Grown(bs, k, word) = DOMAIN bs
         /\ \A b \in DOMAIN bs : b # k => Grown(bs, k, word)[b] = bs[b]
         /\ Grown(bs, k, word)[k].startIdx = bs[k].startIdx
         /\ Grown(bs, k, word)[k].ar = Append(bs[k].ar, word)
  <1> DEFINE new == Grown(bs, k, word)
             grown == [bs[k] EXCEPT !.ar = Append(bs[k].ar, word)]
  <1>1. new = [bs EXCEPT ![k] = grown]
    BY DEF Grown
  <1>2. bs[k] \in Bench /\ Append(bs[k].ar, word) \in Seq(Words)
    BY BenchFields
  <1>3. /\ grown \in Bench /\ grown.startIdx = bs[k].startIdx
        /\ grown.ar = Append(bs[k].ar, word)
    BY <1>2 DEF Bench
  <1> HIDE DEF new, grown
  <1>4. new[k] = grown /\ \A b \in DOMAIN bs : b # k => new[b] = bs[b]
    BY <1>1
  <1>5. new \in Seq(Bench) /\ Len(new) = Len(bs) /\ DOMAIN new = DOMAIN bs
    <2>1. bs \in [1..Len(bs) -> Bench] /\ Len(bs) \in Nat
      OBVIOUS
    <2>2. new \in [1..Len(bs) -> Bench]
      BY <1>1, <1>3, <2>1
    <2>3. new \in Seq(Bench)
      BY <2>1, <2>2
    <2>4. DOMAIN new = 1..Len(bs) /\ DOMAIN bs = 1..Len(bs)
      BY <2>1, <2>2
    <2>. QED BY <2>1, <2>3, <2>4
  <1>. QED BY <1>3, <1>4, <1>5 DEF new

LEMMA BenchSizes ==
  ASSUME NEW n \in Nat, NEW s \in Nat
  PROVE  n * s \in Nat /\ (n + 1) * s = n * s + s
  OBVIOUS

\* Appending one value to the benches and its feature to idar keeps them
\* aligned.
LEMMA AppendKeepsRange ==
  ASSUME MapInv, NEW word \in Words, NEW f \in Features,
         idar' = Append(idar, f), benches' = BenchAppend(benches, word)
  PROVE  BenchesInRange'
  <1> DEFINE n == Len(benches)
  <1>0. /\ BenchSize \in Nat \ {0} /\ benches \in Seq(Bench) /\ idar \in Seq(Features)
        /\ n \in Nat /\ Len(idar) \in Nat /\ Len(idar') = Len(idar) + 1
        /\ DOMAIN benches = 1..n /\ n = Len(benches)
    BY SearchAssumption DEF MapInv, ValuesTyped, BenchesInRange
  <1> HIDE DEF n
  <1>1. \A b \in 1..n : /\ benches[b] \in Bench
                        /\ benches[b].startIdx \in Nat /\ benches[b].ar \in Seq(Words)
                        /\ benches[b].startIdx = (b - 1) * BenchSize
                        /\ Len(benches[b].ar) \in 1..BenchSize
                        /\ benches[b].startIdx + Len(benches[b].ar) <= Len(idar)
    BY <1>0, BenchFields DEF MapInv, BenchesInRange
  <1>2. CASE benches # << >> /\ Len(benches[n].ar) < BenchSize
    <2>1. n \in 1..n
      BY <1>0, <1>2
    <2>2. benches' = Grown(benches, n, word)
      BY <1>0, <1>2 DEF BenchAppend, Grown
    <2>3. /\ benches' \in Seq(Bench) /\ Len(benches') = n /\ DOMAIN benches' = 1..n
          /\ \A b \in 1..n : b # n => benches'[b] = benches[b]
          /\ benches'[n].startIdx = benches[n].startIdx
          /\ benches'[n].ar = Append(benches[n].ar, word)
      <3>1. benches \in Seq(Bench) /\ n \in DOMAIN benches
        BY <1>0, <2>1
      <3>2. /\ benches' \in Seq(Bench) /\ Len(benches') = Len(benches)
            /\ DOMAIN benches' = DOMAIN benches
            /\ \A b \in DOMAIN benches : b # n => benches'[b] = benches[b]
            /\ benches'[n].startIdx = benches[n].startIdx
            /\ benches'[n].ar = Append(benches[n].ar, word)
        BY <2>2, <3>1, BenchGrows
      <3>. QED BY <1>0, <3>2
    <2>4. Len(benches'[n].ar) = Len(benches[n].ar) + 1
      <3>1. benches[n].ar \in Seq(Words)
        BY <1>1, <2>1
      <3>. QED BY <2>3, <3>1
    <2>7. \A b \in 1..n : /\ benches'[b].startIdx = (b - 1) * BenchSize
                          /\ Len(benches'[b].ar) \in 1..BenchSize
                          /\ benches'[b].startIdx + Len(benches'[b].ar) <= Len(idar')
      <3> SUFFICES ASSUME NEW b \in 1..n
                   PROVE  /\ benches'[b].startIdx = (b - 1) * BenchSize
                          /\ Len(benches'[b].ar) \in 1..BenchSize
                          /\ benches'[b].startIdx + Len(benches'[b].ar) <= Len(idar')
        OBVIOUS
      <3>1. CASE b = n
        <4>1. benches'[b].startIdx = benches[n].startIdx /\ Len(benches'[b].ar) = Len(benches[n].ar) + 1
          BY <2>3, <2>4, <3>1
        <4>2. /\ benches[n].startIdx = (n - 1) * BenchSize /\ benches[n].startIdx \in Nat
              /\ Len(benches[n].ar) \in 1..BenchSize
              /\ benches[n].startIdx + Len(benches[n].ar) <= Len(idar)
          BY <1>1, <2>1
        <4>3. Len(benches[n].ar) < BenchSize
          BY <1>2
        <4>4. benches'[b].startIdx = (b - 1) * BenchSize
          BY <3>1, <4>1, <4>2
        <4>5. Len(benches'[b].ar) \in 1..BenchSize
          BY <1>0, <4>1, <4>2, <4>3
        <4>6. benches'[b].startIdx + Len(benches'[b].ar) <= Len(idar')
          <5>1. benches[n].startIdx \in Nat /\ Len(benches[n].ar) \in Nat
            BY <1>0, <4>2
          <5>2. benches[n].startIdx + Len(benches[n].ar) <= Len(idar)
            BY <4>2
          <5>3. Len(idar) \in Nat /\ Len(idar') = Len(idar) + 1
            BY <1>0
          <5>. QED BY <4>1, <5>1, <5>2, <5>3
        <4>. QED BY <4>4, <4>5, <4>6
      <3>2. CASE b # n
        <4>1. benches'[b] = benches[b]
          BY <2>3, <3>2
        <4>2. /\ benches[b].startIdx = (b - 1) * BenchSize /\ benches[b].startIdx \in Nat
              /\ Len(benches[b].ar) \in 1..BenchSize
              /\ benches[b].startIdx + Len(benches[b].ar) <= Len(idar)
          BY <1>1
        <4>3. benches[b].startIdx + Len(benches[b].ar) <= Len(idar')
          <5>1. benches[b].startIdx \in Nat /\ Len(benches[b].ar) \in Nat
            BY <1>0, <4>2
          <5>2. benches[b].startIdx + Len(benches[b].ar) <= Len(idar)
            BY <4>2
          <5>3. Len(idar) \in Nat /\ Len(idar') = Len(idar) + 1
            BY <1>0
          <5>. QED BY <5>1, <5>2, <5>3
        <4>. QED BY <4>1, <4>2, <4>3
      <3>. QED BY <3>1, <3>2
    <2>. QED BY <2>3, <2>7 DEF BenchesInRange
  <1>3. CASE ~(benches # << >> /\ Len(benches[n].ar) < BenchSize)
    <2> DEFINE new == [startIdx |-> n * BenchSize, ar |-> <<word>>]
    <2>1. benches' = Append(benches, new)
      BY <1>0, <1>3 DEF BenchAppend
    <2>2. n * BenchSize \in Nat /\ new \in Bench
      BY <1>0, BenchSizes DEF Bench
    <2>3. n * BenchSize <= Len(idar)
      <3>1. CASE n = 0
        BY <1>0, <3>1
      <3>2. CASE n # 0
        <4>1. n \in 1..n /\ n - 1 \in Nat /\ benches # << >>
          BY <1>0, <3>2
        <4>2. Len(benches[n].ar) = BenchSize
          BY <1>0, <1>1, <1>3, <4>1
        <4>3. n * BenchSize = (n - 1) * BenchSize + BenchSize
          <5>1. ((n - 1) + 1) * BenchSize = (n - 1) * BenchSize + BenchSize
            BY <1>0, <4>1, BenchSizes
          <5>2. (n - 1) + 1 = n
            BY <1>0
          <5>. QED BY <5>1, <5>2
        <4>. QED BY <1>0, <1>1, <4>1, <4>2, <4>3
      <3>. QED BY <3>1, <3>2
    <2> HIDE DEF new
    <2>4. /\ benches' \in Seq(Bench) /\ Len(benches') = n + 1 /\ DOMAIN benches' = 1..(n+1)
          /\ \A b \in 1..n : benches'[b] = benches[b]
          /\ benches'[n + 1] = new
      BY <1>0, <2>1, <2>2
    <2>5. new.startIdx = n * BenchSize /\ Len(new.ar) = 1
      BY DEF new
    <2>6. \A b \in 1..(n+1) : /\ benches'[b].startIdx = (b - 1) * BenchSize
                              /\ Len(benches'[b].ar) \in 1..BenchSize
                              /\ benches'[b].startIdx + Len(benches'[b].ar) <= Len(idar')
      <3> SUFFICES ASSUME NEW b \in 1..(n+1)
                   PROVE  /\ benches'[b].startIdx = (b - 1) * BenchSize
                          /\ Len(benches'[b].ar) \in 1..BenchSize
                          /\ benches'[b].startIdx + Len(benches'[b].ar) <= Len(idar')
        OBVIOUS
      <3>1. CASE b = n + 1
        <4>1. b - 1 = n
          BY <1>0, <3>1
        <4>2. benches'[b].startIdx = n * BenchSize /\ Len(benches'[b].ar) = 1
          BY <2>4, <2>5, <3>1
        <4>. QED BY <1>0, <2>2, <2>3, <4>1, <4>2
      <3>2. CASE b # n + 1
        BY SMTT(30), <1>0, <1>1, <2>4, <3>2
      <3>. QED BY <3>1, <3>2
    <2>. QED BY <2>4, <2>6 DEF BenchesInRange
  <1>. QED BY <1>2, <1>3

\* What the filter selects is a place of the map.
LEMMA FilteredInRange ==
  ASSUME MapInv, NEW l, NEW c \in Filtered(l)
  PROVE  c.idx + 1 \in DOMAIN idar
  <1>1. PICK p \in {q \in (DOMAIN benches) \X (1..BenchSize) :
                       q[2] \in DOMAIN benches[q[1]].ar /\ Passes(benches[q[1]].ar[q[2]], l)} :
          c = [dist |-> SumTo([word |-> benches[p[1]].ar[p[2]]], NofBenches),
               idx |-> benches[p[1]].startIdx + p[2] - 1]
    BY DEF Filtered
  <1>2. /\ p[1] \in DOMAIN benches /\ p[2] \in 1..BenchSize
        /\ p[2] \in DOMAIN benches[p[1]].ar
        /\ c.idx = benches[p[1]].startIdx + p[2] - 1
    BY <1>1
  <1>3. /\ benches[p[1]].startIdx \in Nat /\ benches[p[1]].ar \in Seq(Words)
        /\ benches[p[1]].startIdx + Len(benches[p[1]].ar) <= Len(idar)
        /\ idar \in Seq(Features) /\ BenchSize \in Nat
    BY <1>2, SearchAssumption, BenchFields DEF MapInv, BenchesInRange, ValuesTyped
  <1>4. DOMAIN benches[p[1]].ar = 1..Len(benches[p[1]].ar) /\ Len(benches[p[1]].ar) \in Nat
    BY <1>3
  <1>. QED BY <1>2, <1>3, <1>4

-----------------------------------------------------------------------------
(* What an insertion adds to the results.                                  *)

LEMMA InsertedResults ==
  ASSUME RankTypeOK, NEW e, Abstract!Insert(e)
  PROVE  Results' \subseteq Results \cup {e}
  <1> DEFINE n == Len(Listed)
             m == IF n < MaxNofRanks THEN n + 1 ELSE MaxNofRanks
  <1>1. n \in Nat /\ DOMAIN Listed = 1..n /\ MaxNofRanks \in Nat
    BY FilledBounds, ListedLength, RankAssumption DEF Listed
  <1>2. PICK p \in 0..n : Listed' = Abstract!Inserted(Listed, p, e)
    BY DEF Abstract!Insert
  <1>3. Listed' = [i \in 1..m |-> IF i <= p THEN Listed[i]
                                 ELSE IF i = p + 1 THEN e ELSE Listed[i-1]]
    BY <1>2 DEF Abstract!Inserted
  <1> HIDE DEF n
  <1>4. m \in Nat /\ m <= n + 1
    BY <1>1
  <1> HIDE DEF m
  <1>5. ASSUME NEW i \in 1..m
        PROVE  Listed'[i] \in Results \cup {e}
    <2>1. CASE i <= p
      <3>1. i \in DOMAIN Listed /\ Listed'[i] = Listed[i]
        BY <1>1, <1>3, <1>4, <2>1
      <3>. QED BY <3>1 DEF Results
    <2>2. CASE i = p + 1
      BY <1>1, <1>3, <1>4, <2>2
    <2>3. CASE i > p + 1
      <3>1. i - 1 \in DOMAIN Listed /\ Listed'[i] = Listed[i - 1]
        BY <1>1, <1>3, <1>4, <2>3
      <3>. QED BY <3>1 DEF Results
    <2>. QED BY <1>4, <2>1, <2>2, <2>3
  <1>6. DOMAIN Listed' = 1..m
    BY <1>3
  <1>. QED BY <1>5, <1>6 DEF Results

LEMMA InsertResults ==
  ASSUME RankInv, NEW e \in Ranks, Insert(e)
  PROVE  /\ RankInv' /\ [RankNext]_rankVars
         /\ Results' \subseteq Results \cup {e}
         /\ inserting' => elem' = e
  <1>1. [RankNext]_rankVars
    BY DEF RankNext
  <1>2. RankTypeOK
    BY DEF RankInv
  <1>3. CASE InsertFirst(e)
    BY <1>1, <1>2, <1>3, FirstStep, InsertedResults DEF InsertFirst, Accepted
  <1>4. CASE InsertLast(e)
    BY <1>1, <1>2, <1>4, LastStep, InsertedResults DEF InsertLast, Accepted
  <1>5. CASE Reject(e)
    <2>1. RankInv' /\ UNCHANGED rankVars
      BY <1>1, <1>5, NextKeepsInv DEF Reject
    <2>2. UNCHANGED Listed /\ ~inserting'
      BY <1>5, <2>1 DEF Reject, rankVars, search, Listed, Filled, At
    <2>. QED BY <1>1, <2>1, <2>2 DEF Results
  <1>6. CASE InsertSearch(e)
    <2>1. RankInv' /\ UNCHANGED Listed
      BY <1>6, SearchStarts
    <2>. QED BY <1>1, <1>6, <2>1 DEF InsertSearch, Results
  <1>. QED BY <1>3, <1>4, <1>5, <1>6 DEF Insert

LEMMA SearchResults ==
  ASSUME RankInv, SearchLeft \/ SearchRight \/ Scan
  PROVE  /\ RankInv' /\ [RankNext]_rankVars
         /\ inserting
         /\ Results' \subseteq Results \cup {elem}
         /\ elem' = elem
  <1>1. [RankNext]_rankVars
    BY DEF RankNext, SearchStep
  <1>2. RankTypeOK
    BY DEF RankInv
  <1>3. CASE SearchLeft
    <2>1. RankInv' /\ UNCHANGED Listed
      BY <1>3, LeftStep
    <2>. QED BY <1>1, <1>3, <2>1 DEF SearchLeft, Results
  <1>4. CASE SearchRight
    <2>1. RankInv' /\ UNCHANGED Listed
      BY <1>4, RightStep
    <2>. QED BY <1>1, <1>4, <2>1 DEF SearchRight, Results
  <1>5. CASE Scan
    BY <1>1, <1>2, <1>5, ScanStep, InsertedResults DEF Scan, Accepted
  <1>. QED BY <1>3, <1>4, <1>5

LEMMA SameResults ==
  ASSUME UNCHANGED rankVars
  PROVE  Results' = Results
  BY DEF rankVars, search, Results, Listed, Filled, At

LEMMA NoResults ==
  ASSUME nofRanks = 0
  PROVE  Results = {}
  <1>1. Filled = 0
    BY RankAssumption DEF Filled
  <1>2. DOMAIN Listed = {}
    BY <1>1 DEF Listed
  <1>. QED BY <1>2 DEF Results

-----------------------------------------------------------------------------
(* The inductive invariant of the search.                                  *)

\* Nothing is ranked before the search is called, and from then on the
\* versions hold what is stored.
CallInv ==
    /\ phase \in {"load", "ready", "sample"} => nofRanks = 0 /\ ~inserting
    /\ phase \notin {"load", "ready"} => \A f \in Features : stored[f] \in versions[f]

Reported(r) == r.idx \in Features /\ Genuine(r)

\* The results and the element on its way to its place are genuine.
ReportInv ==
    /\ \A r \in Results : Reported(r)
    /\ inserting => Reported(elem)

SearchInv == MapInv /\ RankInv /\ CallInv /\ ReportInv

LEMMA SearchInitInv == SearchInit => SearchInv
  <1> SUFFICES ASSUME SearchInit PROVE SearchInv
    OBVIOUS
  <1>1. ValuesTyped
    BY SearchAssumption DEF SearchInit, ValuesTyped, MaybeValues
  <1>2. BenchesInRange
    BY DEF SearchInit, BenchesInRange
  <1>3. CandidatesInRange
    BY DEF SearchInit, CandidatesInRange
  <1>4. RankInv /\ nofRanks = 0 /\ ~inserting
    BY InitInv DEF SearchInit, RankInit
  <1>5. CallInv
    BY <1>4 DEF SearchInit, CallInv
  <1>6. ReportInv
    BY <1>4, NoResults DEF ReportInv
  <1>. QED BY <1>1, <1>2, <1>3, <1>4, <1>5, <1>6 DEF SearchInv, MapInv

LEMMA SameRanks ==
  ASSUME RankInv, UNCHANGED rankVars
  PROVE  RankInv' /\ [RankNext]_rankVars
  BY NextKeepsInv

\* A step that neither ranks nor touches what a report refers to.
LEMMA SameReports ==
  ASSUME ReportInv, UNCHANGED rankVars, limit' = limit, reader' = reader,
         loaded' = loaded, versions' = versions
  PROVE  ReportInv'
  <1>1. Results' = Results /\ inserting' = inserting /\ elem' = elem
    BY SameResults DEF rankVars, search
  <1>2. \A r : Reported(r)' <=> Reported(r)
    BY DEF Reported, Genuine
  <1>. QED BY <1>1, <1>2 DEF ReportInv

\* A step of the map, or the call: there are no results.
LEMMA NoReports ==
  ASSUME UNCHANGED rankVars, nofRanks = 0, ~inserting
  PROVE  ReportInv' /\ nofRanks' = 0 /\ ~inserting'
  <1>1. Results' = {} /\ ~inserting' /\ nofRanks' = 0
    BY NoResults, SameResults DEF rankVars, search
  <1>. QED BY <1>1 DEF ReportInv

LEMMA LoadNextKeeps ==
  ASSUME SearchInv, LoadNext
  PROVE  SearchInv' /\ [RankNext]_rankVars
  <1>1. UNCHANGED rankVars /\ RankInv' /\ [RankNext]_rankVars
    BY SameRanks DEF SearchInv, LoadNext
  <1>2. nofRanks = 0 /\ ~inserting /\ phase' = phase /\ phase = "load"
    BY DEF SearchInv, CallInv, LoadNext, callVars
  <1>3. CallInv' /\ ReportInv'
    BY <1>1, <1>2, NoReports DEF CallInv
  <1>4. loading \in Features /\ stored[loading] \in MaybeValues /\ loading' \in Nat \ {0}
    BY SearchAssumption DEF LoadNext, SearchInv, MapInv, ValuesTyped, Features
  <1>5. UNCHANGED <<stored, versions, candidates, toSample>>
    BY DEF LoadNext, callVars
  <1>6. CASE stored[loading] = Absent
    <2>1. UNCHANGED <<loaded, idar, benches>>
      BY <1>6 DEF LoadNext
    <2>. QED BY <1>1, <1>3, <1>4, <1>5, <2>1
         DEF SearchInv, MapInv, ValuesTyped, BenchesInRange, CandidatesInRange
  <1>7. CASE stored[loading] # Absent
    <2> DEFINE v == stored[loading]
    <2>1. /\ loaded' = [loaded EXCEPT ![loading] = v]
          /\ idar' = Append(idar, loading)
          /\ benches' = BenchAppend(benches, v.word)
      BY <1>7 DEF LoadNext
    <2>2. v \in MaybeValues /\ v.word \in Words
      BY <1>4, <1>7 DEF MaybeValues, Words
    <2> HIDE DEF v
    <2>3. idar' \in Seq(Features) /\ DOMAIN idar \subseteq DOMAIN idar'
      BY <1>4, <2>1 DEF SearchInv, MapInv, ValuesTyped
    <2>4. ValuesTyped'
      BY <1>4, <1>5, <2>1, <2>2, <2>3 DEF SearchInv, MapInv, ValuesTyped
    <2>5. BenchesInRange'
      BY <1>4, <2>1, <2>2, AppendKeepsRange DEF SearchInv
    <2>6. CandidatesInRange'
      BY <1>5, <2>3 DEF SearchInv, MapInv, CandidatesInRange
    <2>. QED BY <1>1, <1>3, <2>4, <2>5, <2>6 DEF SearchInv, MapInv
  <1>. QED BY <1>6, <1>7

LEMMA FindSimilarKeeps ==
  ASSUME SearchInv, FindSimilar
  PROVE  SearchInv' /\ [RankNext]_rankVars
  <1>1. UNCHANGED rankVars /\ RankInv' /\ [RankNext]_rankVars
    BY SameRanks DEF SearchInv, FindSimilar
  <1>2. nofRanks = 0 /\ ~inserting
    BY DEF SearchInv, CallInv, FindSimilar
  <1>3. /\ versions' = [f \in Features |-> {stored[f]}]
        /\ UNCHANGED <<stored, loaded, loading, idar, benches>>
    BY DEF FindSimilar, mapVars
  <1>4. CallInv' /\ ReportInv'
    BY <1>1, <1>2, <1>3, NoReports DEF CallInv
  <1>5. ValuesTyped' /\ BenchesInRange'
    BY <1>3 DEF SearchInv, MapInv, ValuesTyped, BenchesInRange
  <1>6. CandidatesInRange'
    <2>1. PICK l \in Limits : /\ candidates' = Filtered(l)
                              /\ toSample' = Best(Filtered(l), NofSampleReads)
      BY DEF FindSimilar
    <2>2. candidates' \cup toSample' \subseteq Filtered(l)
      BY <2>1 DEF Best
    <2>3. \A c \in Filtered(l) : c.idx + 1 \in DOMAIN idar
      BY FilteredInRange DEF SearchInv
    <2>. QED BY <1>3, <2>2, <2>3 DEF CandidatesInRange
  <1>. QED BY <1>1, <1>4, <1>5, <1>6 DEF SearchInv, MapInv

\* What a comparison ranks is an element of the list's kind and genuine.
LEMMA ComparedIsGenuine ==
  ASSUME SearchInv, NEW f \in Features, Load(f) # Absent, Dist(Load(f)) <= limit[1],
         phase = "compare"
  PROVE  [dist |-> Dist(Load(f)), idx |-> f] \in Ranks /\ Reported([dist |-> Dist(Load(f)), idx |-> f])
  <1> DEFINE v == Load(f)
             r == [dist |-> Dist(v), idx |-> f]
  <1>1. v \in IF reader = "memory" THEN {loaded[f]} ELSE versions[f]
    BY DEF Load, SearchInv, CallInv
  <1>2. v \in Values
    BY DEF Load, SearchInv, MapInv, ValuesTyped, MaybeValues
  <1>3. r \in Ranks
    BY <1>2, SearchAssumption
  <1>4. r.dist = Dist(v) /\ r.idx = f /\ v # Absent /\ r.dist <= limit[1]
    OBVIOUS
  <1> HIDE DEF v, r
  <1>5. Reported(r)
    BY <1>1, <1>4 DEF Reported, Genuine
  <1>. QED BY <1>3, <1>5 DEF v, r

LEMMA CompareKeeps ==
  ASSUME SearchInv, Compare
  PROVE  SearchInv' /\ [RankNext]_rankVars
  <1>1. PICK c \in candidates :
          /\ Comparing(c)
          /\ candidates' = candidates \ {c}
          /\ LET f == idar[c.idx + 1]
             IN  IF c.dist < probSum /\ Load(f) # Absent /\ Dist(Load(f)) <= limit[1]
                 THEN Insert([dist |-> Dist(Load(f)), idx |-> f])
                 ELSE UNCHANGED rankVars
    BY DEF Compare
  <1>2. /\ UNCHANGED <<stored, reader, loaded, loading, idar, benches>>
        /\ UNCHANGED <<phase, limit, toSample, versions>>
        /\ phase = "compare" /\ ~inserting
    BY <1>1 DEF Compare, mapVars, Comparing
  <1>3. idar[c.idx + 1] \in Features
    BY DEF SearchInv, MapInv, CandidatesInRange, ValuesTyped
  <1>4. MapInv'
    BY <1>1, <1>2 DEF SearchInv, MapInv, ValuesTyped, BenchesInRange, CandidatesInRange
  <1>5. CallInv'
    BY <1>2 DEF SearchInv, CallInv
  <1>6. CASE UNCHANGED rankVars
    BY <1>2, <1>4, <1>5, <1>6, SameRanks, SameReports DEF SearchInv
  <1>7. CASE ~UNCHANGED rankVars
    <2> DEFINE f == idar[c.idx + 1]
               e == [dist |-> Dist(Load(f)), idx |-> f]
    <2>1. Load(f) # Absent /\ Dist(Load(f)) <= limit[1] /\ Insert(e)
      BY <1>1, <1>7
    <2>2. e \in Ranks /\ Reported(e)
      BY <1>2, <1>3, <2>1, ComparedIsGenuine
    <2> HIDE DEF e, f
    <2>3. /\ RankInv' /\ [RankNext]_rankVars
          /\ Results' \subseteq Results \cup {e}
          /\ inserting' => elem' = e
      BY <2>1, <2>2, InsertResults DEF SearchInv
    <2>4. \A r : Reported(r)' <=> Reported(r)
      BY <1>2 DEF Reported, Genuine
    <2>5. ReportInv'
      BY <2>2, <2>3, <2>4 DEF SearchInv, ReportInv
    <2>. QED BY <1>4, <1>5, <2>3, <2>5 DEF SearchInv
  <1>. QED BY <1>6, <1>7

LEMMA RankStepKeeps ==
  ASSUME SearchInv, RankStep
  PROVE  SearchInv' /\ [RankNext]_rankVars
  <1>1. UNCHANGED <<stored, reader, loaded, loading, idar, benches, phase, limit,
                    candidates, toSample, versions>>
    BY DEF RankStep, mapVars, callVars
  <1>2. /\ RankInv' /\ [RankNext]_rankVars /\ inserting
        /\ Results' \subseteq Results \cup {elem} /\ elem' = elem
    BY SearchResults DEF RankStep, SearchInv
  <1>3. MapInv'
    BY <1>1 DEF SearchInv, MapInv, ValuesTyped, BenchesInRange, CandidatesInRange
  <1>4. CallInv'
    BY <1>1, <1>2 DEF SearchInv, CallInv
  <1>5. \A r : Reported(r)' <=> Reported(r)
    BY <1>1 DEF Reported, Genuine
  <1>6. ReportInv'
    BY <1>2, <1>5 DEF SearchInv, ReportInv
  <1>. QED BY <1>2, <1>3, <1>4, <1>6 DEF SearchInv

LEMMA CommitKeeps ==
  ASSUME SearchInv, Commit
  PROVE  SearchInv' /\ [RankNext]_rankVars
  <1>1. UNCHANGED rankVars /\ RankInv' /\ [RankNext]_rankVars
    BY SameRanks DEF SearchInv, Commit
  <1>2. UNCHANGED <<reader, loaded, loading, idar, benches, phase, limit, candidates, toSample>>
    BY DEF Commit, mapVars, callVars
  <1>3. PICK f \in Features, v \in Values \cup {Absent} :
          /\ stored' = [stored EXCEPT ![f] = v]
          /\ versions' = [versions EXCEPT ![f] = @ \cup {v}]
    BY DEF Commit
  <1>4. ValuesTyped
    BY DEF SearchInv, MapInv
  <1>5. \A g \in Features : /\ versions[g] \subseteq versions'[g]
                            /\ stored[g] \in versions[g] => stored'[g] \in versions'[g]
    BY <1>3, <1>4 DEF ValuesTyped
  <1>6. ValuesTyped'
    BY <1>2, <1>3, <1>4 DEF ValuesTyped, MaybeValues
  <1>7. BenchesInRange' /\ CandidatesInRange'
    BY <1>2 DEF SearchInv, MapInv, BenchesInRange, CandidatesInRange
  <1>8. CallInv'
    BY <1>1, <1>2, <1>5 DEF SearchInv, CallInv, rankVars, search
  <1>9. ASSUME NEW r, Reported(r) PROVE Reported(r)'
    <2>1. PICK w \in (IF reader = "memory" THEN {loaded[r.idx]} ELSE versions[r.idx]) :
            w # Absent /\ r.dist = Dist(w)
      BY <1>9 DEF Reported, Genuine
    <2>2. w \in (IF reader' = "memory" THEN {loaded'[r.idx]} ELSE versions'[r.idx])
      BY <1>2, <1>5, <1>9, <2>1 DEF Reported
    <2>. QED BY <1>2, <1>9, <2>1, <2>2 DEF Reported, Genuine
  <1>10. ReportInv'
    <2>1. Results' = Results /\ inserting' = inserting /\ elem' = elem
      BY <1>1, SameResults DEF rankVars, search
    <2>. QED BY <1>9, <2>1 DEF SearchInv, ReportInv
  <1>. QED BY <1>1, <1>6, <1>7, <1>8, <1>10 DEF SearchInv, MapInv

\* The steps that only change the phase of the search, or what is to sample.
LEMMA OtherStepsKeep ==
  ASSUME SearchInv, LoadEnds \/ Sample \/ SampleEnds \/ Result \/ UNCHANGED searchVars
  PROVE  SearchInv' /\ [RankNext]_rankVars
  <1>1. /\ UNCHANGED rankVars
        /\ UNCHANGED <<stored, reader, loaded, loading, idar, benches, limit, candidates, versions>>
    BY DEF LoadEnds, Sample, SampleEnds, Result, searchVars, mapVars, callVars
  <1>2. toSample' \subseteq toSample
    BY DEF LoadEnds, Sample, SampleEnds, Result, searchVars, callVars
  <1>3. /\ phase' \in {"load", "ready", "sample"} => phase \in {"load", "ready", "sample"}
        /\ phase' \notin {"load", "ready"} => phase \notin {"load", "ready"}
    BY DEF LoadEnds, Sample, SampleEnds, Result, searchVars, callVars
  <1>4. MapInv'
    BY <1>1, <1>2 DEF SearchInv, MapInv, ValuesTyped, BenchesInRange, CandidatesInRange
  <1>5. CallInv'
    BY <1>1, <1>3 DEF SearchInv, CallInv, rankVars, search
  <1>6. ReportInv' /\ RankInv' /\ [RankNext]_rankVars
    BY <1>1, SameReports, SameRanks DEF SearchInv
  <1>. QED BY <1>4, <1>5, <1>6 DEF SearchInv

LEMMA SearchNextInv ==
  ASSUME SearchInv, [SearchNext]_searchVars
  PROVE  SearchInv' /\ [RankNext]_rankVars
  <1>1. CASE LoadNext
    BY <1>1, LoadNextKeeps
  <1>2. CASE FindSimilar
    BY <1>2, FindSimilarKeeps
  <1>3. CASE Compare
    BY <1>3, CompareKeeps
  <1>4. CASE RankStep
    BY <1>4, RankStepKeeps
  <1>5. CASE Commit
    BY <1>5, CommitKeeps
  <1>6. CASE LoadEnds \/ Sample \/ SampleEnds \/ Result \/ UNCHANGED searchVars
    BY <1>6, OtherStepsKeep
  <1>. QED BY <1>1, <1>2, <1>3, <1>4, <1>5, <1>6 DEF SearchNext, Returned

-----------------------------------------------------------------------------
(* The theorems.                                                           *)

\* The search uses the ranked list as RankList specifies it: no element that
\* is not a rank of a feature is inserted, none during an insertion.
THEOREM SearchUsesRankList == SearchSpec => RankSpec
  <1>1. SearchInit => RankInit
    BY DEF SearchInit
  <1>. QED BY <1>1, SearchInitInv, SearchNextInv, PTL DEF SearchSpec, RankSpec

\* Whatever is committed while a search runs, what it returns are distances
\* within its limit of values the features had since it was called.
THEOREM ResultsAlwaysStored == SearchSpec => []ResultsStored
  <1>1. SearchInv => ResultsStored
    BY DEF SearchInv, ReportInv, Reported, ResultsStored
  <1>. QED BY <1>1, SearchInitInv, SearchNextInv, PTL DEF SearchSpec

\* The results of a search are the best of the candidates it has ranked, in
\* ascending order.
THEOREM SearchRanksBest == SearchSpec => ImplementsBestRanks
  BY SearchUsesRankList, RanksImplemented, PTL

-----------------------------------------------------------------------------
(* No feature near enough is lost.  The map is complete: every value that  *)
(* was loaded has a place in idar, and its word is in the bench at that    *)
(* place.                                                                  *)

\* The word of place i of the map is in place j of bench b.
Holds(bs, b, j, i, word) ==
    /\ b \in DOMAIN bs /\ j \in DOMAIN bs[b].ar
    /\ bs[b].startIdx + j = i /\ bs[b].ar[j] = word

Kept(bs, i, word) == \E b, j \in Nat : Holds(bs, b, j, i, word)

\* The benches end where idar ends.
BenchesEnd ==
    IF benches = << >> THEN idar = << >>
    ELSE benches[Len(benches)].startIdx + Len(benches[Len(benches)].ar) = Len(idar)

MapComplete ==
    /\ BenchesEnd
    /\ \A i \in DOMAIN idar : idar[i] < loading
    /\ \A f \in Features : loaded[f] # Absent => \E i \in DOMAIN idar : idar[i] = f
    /\ \A i \in DOMAIN idar : Kept(benches, i, loaded[idar[i]].word)

\* A value is appended to the last bench, if it has room, or to a new one.
LEMMA AppendKeepsEnd ==
  ASSUME MapInv, BenchesEnd, NEW word \in Words, NEW f \in Features,
         idar' = Append(idar, f), benches' = BenchAppend(benches, word)
  PROVE  /\ BenchesEnd'
         /\ Kept(benches', Len(idar'), word)
         /\ \A i, w : Kept(benches, i, w) => Kept(benches', i, w)
  <1> DEFINE n == Len(benches)
  <1>0. /\ BenchSize \in Nat \ {0} /\ benches \in Seq(Bench) /\ idar \in Seq(Features)
        /\ n \in Nat /\ Len(idar) \in Nat /\ Len(idar') = Len(idar) + 1
        /\ DOMAIN benches = 1..n /\ n = Len(benches) /\ (n = 0 <=> benches = << >>)
        /\ (benches = << >> => Len(idar) = 0)
    BY SearchAssumption DEF MapInv, ValuesTyped, BenchesInRange, BenchesEnd
  <1> HIDE DEF n
  <1>1. \A b \in 1..n : /\ benches[b] \in Bench
                        /\ benches[b].startIdx \in Nat /\ benches[b].ar \in Seq(Words)
                        /\ benches[b].startIdx = (b - 1) * BenchSize
                        /\ Len(benches[b].ar) \in 1..BenchSize
    BY <1>0, BenchFields DEF MapInv, BenchesInRange
  <1>2. n # 0 => /\ n \in 1..n /\ n \in Nat
                 /\ benches[n].startIdx + Len(benches[n].ar) = Len(idar)
                 /\ Len(benches[n].ar) \in Nat /\ benches[n].ar \in Seq(Words)
                 /\ DOMAIN benches[n].ar = 1..Len(benches[n].ar)
    <2> SUFFICES ASSUME n # 0
                 PROVE  /\ n \in 1..n /\ n \in Nat
                        /\ benches[n].startIdx + Len(benches[n].ar) = Len(idar)
                        /\ Len(benches[n].ar) \in Nat /\ benches[n].ar \in Seq(Words)
                        /\ DOMAIN benches[n].ar = 1..Len(benches[n].ar)
      OBVIOUS
    <2>1. n \in 1..n
      BY <1>0
    <2>2. benches[n].ar \in Seq(Words)
      BY <1>1, <2>1
    <2>3. Len(benches[n].ar) \in Nat /\ DOMAIN benches[n].ar = 1..Len(benches[n].ar)
      BY <2>2
    <2>4. benches[n].startIdx + Len(benches[n].ar) = Len(idar)
      BY <1>0 DEF BenchesEnd
    <2>. QED BY <1>0, <2>1, <2>2, <2>3, <2>4
  <1>3. CASE benches # << >> /\ Len(benches[n].ar) < BenchSize
    <2>1. n \in 1..n /\ n # 0
      BY <1>0, <1>3
    <2>2. benches' = Grown(benches, n, word)
      BY <1>0, <1>3 DEF BenchAppend, Grown
    <2>3. /\ benches' \in Seq(Bench) /\ Len(benches') = n /\ DOMAIN benches' = 1..n
          /\ \A b \in 1..n : b # n => benches'[b] = benches[b]
          /\ benches'[n].startIdx = benches[n].startIdx
          /\ benches'[n].ar = Append(benches[n].ar, word)
      <3>1. benches \in Seq(Bench) /\ n \in DOMAIN benches
        BY <1>0, <2>1
      <3>2. /\ benches' \in Seq(Bench) /\ Len(benches') = Len(benches)
            /\ DOMAIN benches' = DOMAIN benches
            /\ \A b \in DOMAIN benches : b # n => benches'[b] = benches[b]
            /\ benches'[n].startIdx = benches[n].startIdx
            /\ benches'[n].ar = Append(benches[n].ar, word)
        BY <2>2, <3>1, BenchGrows
      <3>. QED BY <1>0, <3>2
    <2> DEFINE len == Len(benches[n].ar)
    <2>4. /\ Len(benches'[n].ar) = len + 1 /\ DOMAIN benches'[n].ar = 1..(len + 1)
          /\ benches'[n].ar[len + 1] = word
          /\ \A j \in 1..len : benches'[n].ar[j] = benches[n].ar[j]
      <3>1. benches[n].ar \in Seq(Words)
        BY <1>2, <2>1
      <3>. QED BY <2>3, <3>1
    <2>5. /\ len \in Nat /\ benches[n].startIdx \in Nat /\ benches[n].startIdx + len = Len(idar)
          /\ DOMAIN benches[n].ar = 1..len
      BY <1>1, <1>2, <2>1
    <2> HIDE DEF len
    <2>6. benches'[n].startIdx + (len + 1) = Len(idar')
      <3>1. Len(idar') = Len(idar) + 1
        BY <1>0
      <3>2. benches'[n].startIdx = benches[n].startIdx
        BY <2>3
      <3>3. benches[n].startIdx + (len + 1) = (benches[n].startIdx + len) + 1
        <4>1. len \in Nat /\ benches[n].startIdx \in Nat
          BY <2>5
        <4>. QED BY <4>1
      <3>4. benches[n].startIdx + len = Len(idar)
        BY <2>5
      <3>. QED BY <3>1, <3>2, <3>3, <3>4, Zenon
    <2>7. BenchesEnd'
      <3>1. benches' # << >>
        BY <2>1, <2>3
      <3>. QED BY <2>3, <2>4, <2>6, <3>1 DEF BenchesEnd
    <2>8. Holds(benches', n, len + 1, Len(idar'), word)
      <3>1. n \in DOMAIN benches' /\ len + 1 \in DOMAIN benches'[n].ar
        BY <2>1, <2>3, <2>4, <2>5
      <3>. QED BY <2>4, <2>6, <3>1 DEF Holds
    <2>9. ASSUME NEW b \in Nat, NEW j \in Nat, NEW i, NEW w, Holds(benches, b, j, i, w)
          PROVE  Holds(benches', b, j, i, w)
      <3>1. b \in 1..n /\ j \in DOMAIN benches[b].ar /\ benches[b].startIdx + j = i /\ benches[b].ar[j] = w
        BY <1>0, <2>9 DEF Holds
      <3>2. CASE b # n
        BY <2>3, <3>1, <3>2 DEF Holds
      <3>3. CASE b = n
        <4>1. j \in 1..len /\ j \in 1..(len + 1)
          BY <2>5, <3>1, <3>3
        <4>. QED BY <2>3, <2>4, <3>1, <3>3, <4>1 DEF Holds
      <3>. QED BY <3>2, <3>3
    <2>10. len + 1 \in Nat
      BY <2>5
    <2>. QED BY <1>0, <2>7, <2>8, <2>9, <2>10 DEF Kept
  <1>4. CASE ~(benches # << >> /\ Len(benches[n].ar) < BenchSize)
    <2> DEFINE new == [startIdx |-> n * BenchSize, ar |-> <<word>>]
    <2>1. benches' = Append(benches, new)
      BY <1>0, <1>4 DEF BenchAppend
    <2>2. n * BenchSize \in Nat /\ new \in Bench
      BY <1>0, BenchSizes DEF Bench
    <2>3. n * BenchSize = Len(idar)
      <3>1. CASE n = 0
        BY <1>0, <3>1
      <3>2. CASE n # 0
        <4>1. n \in 1..n /\ n - 1 \in Nat /\ benches # << >>
          BY <1>0, <3>2
        <4>2. Len(benches[n].ar) = BenchSize
          BY <1>0, <1>1, <1>4, <4>1
        <4>3. n * BenchSize = (n - 1) * BenchSize + BenchSize
          <5>1. ((n - 1) + 1) * BenchSize = (n - 1) * BenchSize + BenchSize
            BY <1>0, <4>1, BenchSizes
          <5>2. (n - 1) + 1 = n
            BY <1>0
          <5>. QED BY <5>1, <5>2
        <4>. QED BY <1>1, <1>2, <3>2, <4>1, <4>2, <4>3
      <3>. QED BY <3>1, <3>2
    <2>4. new.startIdx = Len(idar) /\ new.ar = <<word>> /\ Len(new.ar) = 1 /\ DOMAIN new.ar = 1..1
          /\ new.ar[1] = word
      BY <2>3
    <2> HIDE DEF new
    <2>5. /\ benches' \in Seq(Bench) /\ Len(benches') = n + 1 /\ DOMAIN benches' = 1..(n+1)
          /\ \A b \in 1..n : benches'[b] = benches[b]
          /\ benches'[n + 1] = new
      BY <1>0, <2>1, <2>2
    <2>6. n + 1 \in 1..(n + 1) /\ n + 1 \in Nat /\ benches' # << >>
      BY <1>0, <2>5
    <2>7. BenchesEnd'
      BY <1>0, <2>4, <2>5, <2>6 DEF BenchesEnd
    <2>8. Holds(benches', n + 1, 1, Len(idar'), word)
      BY <1>0, <2>4, <2>5, <2>6 DEF Holds
    <2>9. ASSUME NEW b \in Nat, NEW j \in Nat, NEW i, NEW w, Holds(benches, b, j, i, w)
          PROVE  Holds(benches', b, j, i, w)
      <3>1. b \in 1..n /\ b \in 1..(n + 1)
        BY <1>0, <2>9 DEF Holds
      <3>. QED BY <2>5, <2>9, <3>1 DEF Holds
    <2>. QED BY <1>0, <2>6, <2>7, <2>8, <2>9 DEF Kept
  <1>. QED BY <1>3, <1>4

LEMMA CompleteInit == SearchInit => MapComplete
  BY DEF SearchInit, MapComplete, BenchesEnd

LEMMA CompleteStep ==
  ASSUME MapInv, MapComplete, [SearchNext]_searchVars
  PROVE  MapComplete'
  <1>1. CASE UNCHANGED <<loaded, loading, idar, benches>>
    BY <1>1 DEF MapComplete, BenchesEnd
  <1>2. CASE ~LoadNext
    <2>1. UNCHANGED <<loaded, loading, idar, benches>>
      BY <1>2 DEF SearchNext, searchVars, mapVars, LoadEnds, FindSimilar, Sample, SampleEnds,
                  Compare, RankStep, Result, Commit, Returned
    <2>. QED BY <1>1, <2>1
  <1>3. CASE LoadNext
    <2>1. loading \in Features /\ stored[loading] \in MaybeValues /\ loading' = loading + 1
          /\ Features \subseteq Nat /\ idar \in Seq(Features)
          /\ loaded \in [Features -> MaybeValues]
      BY <1>3, SearchAssumption DEF LoadNext, MapInv, ValuesTyped, Features
    <2>2. ASSUME NEW i \in DOMAIN idar
          PROVE  idar[i] \in Features /\ idar[i] < loading' /\ idar[i] # loading
      <3>1. idar[i] \in Features /\ idar[i] < loading
        BY <2>1 DEF MapComplete
      <3>2. idar[i] \in Nat /\ loading \in Nat
        BY <2>1, <3>1
      <3>. QED BY <2>1, <3>1, <3>2
    <2>3. CASE stored[loading] = Absent
      <3>1. UNCHANGED <<loaded, idar, benches>>
        BY <1>3, <2>3 DEF LoadNext
      <3>2. \A i \in DOMAIN idar : idar[i] < loading'
        BY <2>2
      <3>. QED BY <3>1, <3>2 DEF MapComplete, BenchesEnd
    <2>4. CASE stored[loading] # Absent
      <3> DEFINE v == stored[loading]
      <3>1. /\ loaded' = [loaded EXCEPT ![loading] = v]
            /\ idar' = Append(idar, loading)
            /\ benches' = BenchAppend(benches, v.word)
        BY <1>3, <2>4 DEF LoadNext
      <3>2. v.word \in Words
        BY <2>1, <2>4 DEF MaybeValues, Words
      <3> HIDE DEF v
      <3>3. /\ BenchesEnd' /\ Kept(benches', Len(idar'), v.word)
            /\ \A i, w : Kept(benches, i, w) => Kept(benches', i, w)
        BY <2>1, <3>1, <3>2, AppendKeepsEnd DEF MapComplete
      <3>4. /\ DOMAIN idar' = DOMAIN idar \cup {Len(idar')} /\ idar'[Len(idar')] = loading
            /\ \A i \in DOMAIN idar : idar'[i] = idar[i]
        BY <2>1, <3>1
      <3>5. loaded'[loading] = v /\ \A f \in Features : f # loading => loaded'[f] = loaded[f]
        BY <2>1, <3>1
      <3>6. ASSUME NEW i \in DOMAIN idar'
            PROVE  idar'[i] < loading' /\ Kept(benches', i, loaded'[idar'[i]].word)
        <4>1. CASE i = Len(idar')
          BY <2>1, <3>3, <3>4, <3>5, <4>1
        <4>2. CASE i # Len(idar')
          <5>1. i \in DOMAIN idar /\ idar'[i] = idar[i] /\ idar[i] \in Features /\ idar[i] < loading'
                /\ idar[i] # loading
            BY <2>2, <3>4, <4>2
          <5>2. loaded'[idar[i]] = loaded[idar[i]]
            BY <3>5, <5>1
          <5>3. Kept(benches, i, loaded[idar[i]].word)
            BY <5>1 DEF MapComplete
          <5>4. Kept(benches', i, loaded[idar[i]].word)
            BY <3>3, <5>3
          <5>. QED BY <5>1, <5>2, <5>4
        <4>. QED BY <4>1, <4>2
      <3>7. ASSUME NEW f \in Features, loaded'[f] # Absent
            PROVE  \E i \in DOMAIN idar' : idar'[i] = f
        <4>1. CASE f = loading
          BY <3>4, <4>1
        <4>2. CASE f # loading
          BY <3>4, <3>5, <3>7, <4>2 DEF MapComplete
        <4>. QED BY <4>1, <4>2
      <3>. QED BY <3>3, <3>6, <3>7 DEF MapComplete
    <2>. QED BY <2>3, <2>4
  <1>. QED BY <1>2, <1>3

\* What is loaded and passes the limits is a candidate.
LEMMA LoadedIsFiltered ==
  ASSUME MapInv, MapComplete, NEW l, NEW f \in Features,
         loaded[f] # Absent, Passes(loaded[f].word, l)
  PROVE  \E c \in Filtered(l) : idar[c.idx + 1] = f /\ c.dist = FilterSum(loaded[f])
  <1>1. PICK i \in DOMAIN idar : idar[i] = f
    BY DEF MapComplete
  <1>2. PICK b \in Nat, j \in Nat : Holds(benches, b, j, i, loaded[f].word)
    BY <1>1 DEF MapComplete, Kept
  <1> DEFINE c == [dist |-> SumTo([word |-> benches[b].ar[j]], NofBenches),
                   idx |-> benches[b].startIdx + j - 1]
  <1>3. /\ b \in DOMAIN benches /\ j \in DOMAIN benches[b].ar
        /\ benches[b].startIdx + j = i /\ benches[b].ar[j] = loaded[f].word
    BY <1>2 DEF Holds
  <1>4. j \in 1..BenchSize /\ benches[b].startIdx \in Nat
    <2>1. benches \in Seq(Bench) /\ Len(benches[b].ar) \in 1..BenchSize /\ BenchSize \in Nat
      BY <1>3, SearchAssumption DEF MapInv, BenchesInRange
    <2>2. benches[b].ar \in Seq(Words) /\ benches[b].startIdx \in Nat
      BY <1>3, <2>1, BenchFields
    <2>3. DOMAIN benches[b].ar = 1..Len(benches[b].ar)
      BY <2>2
    <2>. QED BY <1>3, <2>1, <2>2, <2>3
  <1>5. c \in Filtered(l)
    <2> DEFINE p == <<b, j>>
    <2>1. p \in (DOMAIN benches) \X (1..BenchSize) /\ p[1] = b /\ p[2] = j
      BY <1>3, <1>4
    <2> HIDE DEF p
    <2>2. c = [dist |-> SumTo([word |-> benches[p[1]].ar[p[2]]], NofBenches),
               idx |-> benches[p[1]].startIdx + p[2] - 1]
      BY <2>1
    <2>3. Passes(benches[p[1]].ar[p[2]], l)
      BY <1>3, <2>1
    <2>. QED BY <1>3, <2>1, <2>2, <2>3 DEF Filtered
  <1>6. c.dist = FilterSum(loaded[f])
    BY <1>3 DEF FilterSum, SumTo
  <1>7. c.idx + 1 = i
    BY <1>3, <1>4
  <1> HIDE DEF c
  <1>. QED BY <1>1, <1>5, <1>6, <1>7

-----------------------------------------------------------------------------
(* The ranked list loses an element only to better ones.                   *)

\* r is in the list L, or better ones fill it.
PlacedIn(L, r) ==
    \/ \E i \in 1..Len(L) : L[i] = r
    \/ Len(L) = MaxNofRanks /\ \A i \in 1..Len(L) : Before(L[i], r)

LEMMA FullOfBetter ==
  ASSUME NEW L \in Seq(Keys), NEW r \in Keys, Len(L) = MaxNofRanks,
         \A i \in 1..Len(L) : ~Before(r, L[i])
  PROVE  PlacedIn(L, r)
  <1>1. CASE \E i \in 1..Len(L) : L[i] = r
    BY <1>1 DEF PlacedIn
  <1>2. CASE \A i \in 1..Len(L) : L[i] # r
    <2>1. ASSUME NEW i \in 1..Len(L) PROVE Before(L[i], r)
      <3>1. L[i] \in Keys /\ ~Before(r, L[i]) /\ L[i] # r
        BY <1>2
      <3>. QED BY <3>1, BeforeTotal
    <2>. QED BY <2>1 DEF PlacedIn
  <1>. QED BY <1>1, <1>2

LEMMA BetterThanLast ==
  ASSUME NEW a \in Keys, NEW b \in Keys, NEW c \in Keys, ~Before(b, a), Before(b, c)
  PROVE  Before(a, c)
  BY DEF Before, Keys

\* L is in order and has room for one more, or is full.
Ordered(L) ==
    /\ L \in Seq(Keys) /\ Len(L) <= MaxNofRanks
    /\ \A i, j \in 1..Len(L) : i < j => ~Before(L[j], L[i])

LEMMA InsertedElements ==
  ASSUME NEW L, Ordered(L), NEW e \in Keys, NEW p \in 0..Len(L),
         NEW M, M = Abstract!Inserted(L, p, e)
  PROVE  /\ M \in Seq(Keys)
         /\ Len(M) = IF Len(L) < MaxNofRanks THEN Len(L) + 1 ELSE MaxNofRanks
         /\ \A i \in 1..Len(M) : M[i] = IF i <= p THEN L[i] ELSE IF i = p + 1 THEN e ELSE L[i - 1]
  <1> DEFINE m == IF Len(L) < MaxNofRanks THEN Len(L) + 1 ELSE MaxNofRanks
  <1>1. Len(L) \in Nat /\ MaxNofRanks \in Nat \ {0} /\ Len(L) <= MaxNofRanks
        /\ \A i \in 1..Len(L) : L[i] \in Keys
    BY RankAssumption DEF Ordered
  <1>2. M = [i \in 1..m |-> IF i <= p THEN L[i] ELSE IF i = p + 1 THEN e ELSE L[i - 1]]
    BY DEF Abstract!Inserted
  <1>3. m \in Nat /\ m <= Len(L) + 1
    BY <1>1
  <1> HIDE DEF m
  <1>4. \A i \in 1..m : M[i] \in Keys
    <2> SUFFICES ASSUME NEW i \in 1..m PROVE M[i] \in Keys
      OBVIOUS
    <2>1. CASE i <= p
      <3>1. i \in 1..Len(L)
        BY <1>1, <1>3, <2>1
      <3>. QED BY <1>1, <1>2, <2>1, <3>1
    <2>2. CASE i = p + 1
      <3>1. M[i] = e
        BY <1>1, <1>2, <2>2
      <3>. QED BY <3>1
    <2>3. CASE i > p + 1
      <3>1. i - 1 \in 1..Len(L) /\ M[i] = L[i - 1]
        BY <1>1, <1>2, <1>3, <2>3
      <3>. QED BY <1>1, <3>1
    <2>. QED BY <1>1, <1>3, <2>1, <2>2, <2>3
  <1>5. M \in Seq(Keys) /\ Len(M) = m
    <2>1. M \in [1..m -> Keys]
      BY <1>2, <1>4
    <2>. QED BY <1>3, <2>1
  <1>. QED BY <1>2, <1>5 DEF m

LEMMA InsertedPlaces ==
  ASSUME NEW L, Ordered(L), NEW e \in Keys, NEW p \in 0..Len(L),
         \A i \in 1..p : ~Before(e, L[i]),
         \A i \in (p + 1)..Len(L) : ~Before(L[i], e),
         NEW M, M = Abstract!Inserted(L, p, e)
  PROVE  PlacedIn(M, e) /\ \A r \in Keys : PlacedIn(L, r) => PlacedIn(M, r)
  <1> DEFINE n == Len(L)
             m == Len(M)
  <1>1. /\ n \in Nat /\ MaxNofRanks \in Nat \ {0} /\ n <= MaxNofRanks /\ p \in Nat /\ p <= n
        /\ (\A i \in 1..n : L[i] \in Keys)
        /\ \A i, j \in 1..n : i < j => ~Before(L[j], L[i])
    BY RankAssumption DEF Ordered
  <1>2. /\ M \in Seq(Keys) /\ m = (IF n < MaxNofRanks THEN n + 1 ELSE MaxNofRanks)
        /\ \A i \in 1..m : M[i] = IF i <= p THEN L[i] ELSE IF i = p + 1 THEN e ELSE L[i - 1]
    BY InsertedElements
  <1>3. m \in Nat /\ (n < MaxNofRanks => m = n + 1) /\ (m # n + 1 => m = n /\ n = MaxNofRanks)
        /\ (n = MaxNofRanks => m = n)
    BY <1>1, <1>2
  <1> HIDE DEF n, m
  <1>4. PlacedIn(M, e)
    <2>1. CASE p + 1 <= m
      <3>1. p + 1 \in 1..m /\ M[p + 1] = e
        BY <1>1, <1>2, <2>1
      <3>. QED BY <3>1 DEF PlacedIn, m
    <2>2. CASE p + 1 > m
      <3>1. p = n /\ m = n /\ n = MaxNofRanks
        BY <1>1, <1>3, <2>2
      <3>2. \A i \in 1..m : ~Before(e, M[i])
        BY <1>1, <1>2, <3>1
      <3>. QED BY <1>2, <3>1, <3>2, FullOfBetter DEF m
    <2>. QED BY <1>1, <1>3, <2>1, <2>2
  <1>5. ASSUME NEW i \in 1..n PROVE PlacedIn(M, L[i])
    <2>1. CASE i <= p
      <3>1. i \in 1..m /\ M[i] = L[i]
        BY <1>1, <1>2, <1>3, <2>1
      <3>. QED BY <3>1 DEF PlacedIn, m
    <2>2. CASE i > p /\ i + 1 <= m
      <3>1. i + 1 \in 1..m /\ i + 1 > p + 1 /\ (i + 1) - 1 = i
        BY <1>1, <1>3, <2>2
      <3>2. M[i + 1] = L[i]
        BY <1>1, <1>2, <3>1
      <3>. QED BY <3>1, <3>2 DEF PlacedIn, m
    <2>3. CASE i > p /\ i + 1 > m
      <3>1. i = n /\ m = n /\ n = MaxNofRanks
        BY <1>1, <1>3, <2>3
      <3>2. ASSUME NEW k \in 1..m PROVE ~Before(L[i], M[k])
        <4>1. CASE k <= p
          <5>1. k \in 1..n /\ k < i /\ M[k] = L[k]
            BY <1>1, <1>2, <2>3, <3>1, <4>1
          <5>. QED BY <1>1, <5>1
        <4>2. CASE k = p + 1
          <5>1. i \in (p + 1)..Len(L) /\ M[k] = e
            BY <1>1, <1>2, <2>3, <3>1, <4>2 DEF n
          <5>. QED BY <5>1
        <4>3. CASE k > p + 1
          <5>1. k - 1 \in 1..n /\ k - 1 < i /\ M[k] = L[k - 1]
            BY <1>1, <1>2, <3>1, <4>3
          <5>. QED BY <1>1, <5>1
        <4>. QED BY <1>1, <1>3, <4>1, <4>2, <4>3
      <3>. QED BY <1>1, <1>2, <3>1, <3>2, FullOfBetter DEF m
    <2>. QED BY <1>1, <1>3, <2>1, <2>2, <2>3
  <1>6. ASSUME NEW r \in Keys, n = MaxNofRanks, \A i \in 1..n : Before(L[i], r)
        PROVE  PlacedIn(M, r)
    <2>1. m = n /\ n \in 1..n
      BY <1>1, <1>3, <1>6
    <2>2. ASSUME NEW k \in 1..m PROVE Before(M[k], r)
      <3>1. CASE k <= p
        BY <1>1, <1>2, <1>6, <2>1, <3>1
      <3>2. CASE k = p + 1
        <4>1. M[k] = e /\ n \in (p + 1)..Len(L)
          BY <1>1, <1>2, <2>1, <3>2 DEF n
        <4>2. ~Before(L[n], e) /\ Before(L[n], r) /\ L[n] \in Keys
          BY <1>1, <1>6, <2>1, <4>1
        <4>. QED BY <4>1, <4>2, BetterThanLast
      <3>3. CASE k > p + 1
        <4>1. k - 1 \in 1..n /\ M[k] = L[k - 1]
          BY <1>1, <1>2, <2>1, <3>3
        <4>. QED BY <1>6, <4>1
      <3>. QED BY <1>1, <1>3, <3>1, <3>2, <3>3
    <2>. QED BY <1>6, <2>1, <2>2 DEF PlacedIn, m
  <1>. QED BY <1>4, <1>5, <1>6 DEF PlacedIn, n

LEMMA ListedOrdered ==
  ASSUME RankInv
  PROVE  Ordered(Listed) /\ Len(Listed) = Filled
  <1>1. /\ Filled \in Nat /\ Filled <= MaxNofRanks /\ Len(Listed) = Filled
        /\ Listed = [i \in 1..Filled |-> At(i - 1)]
        /\ \A i \in 1..Filled : Listed[i] = At(i - 1)
    BY FilledBounds, ListedLength, RankAssumption DEF RankInv
  <1>2. ASSUME NEW i \in 1..Filled
        PROVE  i - 1 \in 0..(Filled - 1) /\ Listed[i] \in Keys
    BY <1>1, RanksAreKeys DEF RankInv, ListedFromRanks
  <1>3. Listed \in Seq(Keys)
    BY <1>1, <1>2
  <1>4. ASSUME NEW i \in 1..Filled, NEW j \in 1..Filled, i < j
        PROVE  ~Before(Listed[j], Listed[i])
    <2>1. i - 1 \in 0..(Filled - 1) /\ j - 1 \in 0..(Filled - 1) /\ i - 1 < j - 1
      BY <1>1, <1>4
    <2>2. ~Before(At(j - 1), At(i - 1))
      BY <2>1 DEF RankInv, Sorted
    <2>. QED BY <1>1, <2>2
  <1>. QED BY <1>1, <1>3, <1>4 DEF Ordered

\* No element of L is lost in M but to better ones.
NoneLost(L, M) == \A r \in Keys : PlacedIn(L, r) => PlacedIn(M, r)

LEMMA InsertPlaces ==
  ASSUME RankInv, NEW e \in Ranks, Abstract!Insert(e)
  PROVE  PlacedIn(Listed', e) /\ NoneLost(Listed, Listed')
  <1>1. Ordered(Listed) /\ e \in Keys
    BY ListedOrdered, RanksAreKeys
  <1>2. PICK p \in 0..Len(Listed) :
          /\ \A i \in 1..p : ~Abstract!Before(e, Listed[i])
          /\ \A i \in (p+1)..Len(Listed) : ~Abstract!Before(Listed[i], e)
          /\ Listed' = Abstract!Inserted(Listed, p, e)
    BY DEF Abstract!Insert
  <1>3. /\ \A i \in 1..p : ~Before(e, Listed[i])
        /\ \A i \in (p+1)..Len(Listed) : ~Before(Listed[i], e)
    BY <1>2 DEF Before, Abstract!Before
  <1> DEFINE L == Listed
             M == Listed'
  <1>4. /\ Ordered(L) /\ p \in 0..Len(L) /\ M = Abstract!Inserted(L, p, e)
        /\ \A i \in 1..p : ~Before(e, L[i])
        /\ \A i \in (p+1)..Len(L) : ~Before(L[i], e)
    BY <1>1, <1>2, <1>3
  <1> HIDE DEF L, M
  <1>5. PlacedIn(M, e) /\ \A r \in Keys : PlacedIn(L, r) => PlacedIn(M, r)
    BY <1>1, <1>4, InsertedPlaces
  <1>. QED BY <1>5 DEF NoneLost, L, M

LEMMA InsertFinds ==
  ASSUME RankInv, NEW e \in Ranks, Insert(e)
  PROVE  /\ (inserting' /\ elem' = e) \/ PlacedIn(Listed', e)
         /\ NoneLost(Listed, Listed')
  <1>1. CASE InsertFirst(e)
    BY <1>1, FirstStep, InsertPlaces
  <1>2. CASE InsertLast(e)
    BY <1>2, LastStep, InsertPlaces
  <1>3. CASE Reject(e)
    <2>1. Listed' = Listed
      BY <1>3 DEF Reject, rankVars, search, Listed, Filled, At
    <2>2. /\ \A i \in 0..(Filled - 1) : ~Before(e, At(i))
          /\ Filled = MaxNofRanks /\ Filled \in Nat
      BY <1>3, BeforeBackOrNot, FilledBounds, RankAssumption DEF Reject, RankInv, RankTypeOK
    <2>3. /\ Listed \in Seq(Keys) /\ Len(Listed) = Filled /\ e \in Keys
          /\ \A i \in 1..Filled : Listed[i] = At(i - 1)
      BY ListedOrdered, ListedLength, RanksAreKeys DEF Ordered, RankInv
    <2>4. ASSUME NEW i \in 1..Len(Listed) PROVE ~Before(e, Listed[i])
      <3>1. i - 1 \in 0..(Filled - 1) /\ Listed[i] = At(i - 1)
        BY <2>2, <2>3
      <3>. QED BY <2>2, <3>1
    <2>5. PlacedIn(Listed, e)
      BY <2>2, <2>3, <2>4, FullOfBetter
    <2>. QED BY <2>1, <2>5 DEF NoneLost
  <1>4. CASE InsertSearch(e)
    <2>1. UNCHANGED Listed
      BY <1>4, SearchStarts
    <2>. QED BY <1>4, <2>1 DEF InsertSearch, NoneLost
  <1>. QED BY <1>1, <1>2, <1>3, <1>4 DEF Insert

LEMMA SearchFinds ==
  ASSUME RankInv, SearchLeft \/ SearchRight \/ Scan
  PROVE  /\ (inserting' /\ elem' = elem) \/ PlacedIn(Listed', elem)
         /\ NoneLost(Listed, Listed')
  <1>1. CASE SearchLeft
    BY <1>1, LeftStep DEF SearchLeft, NoneLost
  <1>2. CASE SearchRight
    BY <1>2, RightStep DEF SearchRight, NoneLost
  <1>3. CASE Scan
    <2>1. elem \in Ranks /\ Abstract!Insert(elem)
      BY <1>3, ScanStep
    <2>. QED BY <2>1, InsertPlaces
  <1>. QED BY <1>1, <1>2, <1>3

-----------------------------------------------------------------------------
(* What the search must not lose, and where it is.                         *)

RankOf(f) == [dist |-> Dist(loaded[f]), idx |-> f]

\* A feature that belongs into the result as far as the limits tell: the one
\* of the sum of the differences is known when the samples have been read.
Due(f) ==
    /\ Unchanged(f) /\ RankOf(f).dist <= limit[1]
    /\ Passes(loaded[f].word, limit)
    /\ phase # "sample" => FilterSum(loaded[f]) < probSum

\* f is a candidate that is still to be compared.
Pending(f) == \E c \in candidates : idar[c.idx + 1] = f /\ c.dist = FilterSum(loaded[f])

Found(f) == Pending(f) \/ (inserting /\ elem = RankOf(f)) \/ PlacedIn(Listed, RankOf(f))

FoundInv ==
    phase \in {"sample", "compare", "done"} => \A f \in Features : Due(f) => Found(f)

DoneInv == phase = "done" => candidates = {} /\ ~inserting

FindInv == SearchInv /\ MapComplete /\ FoundInv /\ DoneInv

LEMMA RankOfUnchanged ==
  ASSUME ValuesTyped, NEW f \in Features, Unchanged(f)
  PROVE  RankOf(f) \in Ranks /\ RankOf(f) \in Keys /\ loaded[f] \in Values
  <1>1. loaded[f] \in Values
    BY DEF Unchanged, ValuesTyped, MaybeValues
  <1>2. RankOf(f) \in Ranks
    BY <1>1, SearchAssumption DEF RankOf
  <1>. QED BY <1>1, <1>2, RanksAreKeys

\* Steps that change neither the ranks nor the candidates.
LEMMA FoundKept ==
  ASSUME UNCHANGED <<candidates, idar, loaded, rankVars>>, NEW f \in Features, Found(f)
  PROVE  Found(f)'
  <1>1. RankOf(f)' = RankOf(f) /\ Listed' = Listed /\ inserting' = inserting /\ elem' = elem
    BY DEF RankOf, rankVars, search, Listed, Filled, At
  <1>2. Pending(f) => Pending(f)'
    BY DEF Pending
  <1>3. PlacedIn(Listed, RankOf(f)) => PlacedIn(Listed', RankOf(f)')
    BY <1>1
  <1>. QED BY <1>1, <1>2, <1>3 DEF Found

LEMMA FoundQuiet ==
  ASSUME FindInv, Sample \/ SampleEnds \/ Result \/ UNCHANGED searchVars
  PROVE  FoundInv' /\ DoneInv'
  <1>1. UNCHANGED <<candidates, idar, loaded, limit, versions, rankVars>>
    BY DEF Sample, SampleEnds, Result, searchVars, mapVars, callVars
  <1>2. UNCHANGED <<phase, probSum>> \/ phase = "sample" \/ (phase = "compare" /\ UNCHANGED probSum)
    BY DEF Sample, SampleEnds, Result, searchVars, callVars
  <1>3. phase' \in {"sample", "compare", "done"} => phase \in {"sample", "compare", "done"}
    BY DEF Sample, SampleEnds, Result, searchVars, callVars
  <1>4. ASSUME NEW f \in Features, Due(f)', phase' \in {"sample", "compare", "done"} PROVE Found(f)'
    <2>1. phase # "sample" => phase' # "sample"
      BY DEF Sample, SampleEnds, Result, searchVars, callVars
    <2>2. Due(f)
      BY <1>1, <1>2, <1>4, <2>1 DEF Due, Unchanged, RankOf
    <2>3. Found(f)
      BY <1>3, <1>4, <2>2 DEF FindInv, FoundInv
    <2>. QED BY <1>1, <2>3, FoundKept
  <1>5. DoneInv'
    <2>1. inserting' = inserting /\ candidates' = candidates
      BY <1>1 DEF rankVars, search
    <2>2. phase' = "done" => candidates = {} /\ ~inserting
      BY DEF Sample, SampleEnds, Result, searchVars, callVars, FindInv, DoneInv
    <2>. QED BY <2>1, <2>2 DEF DoneInv
  <1>. QED BY <1>4, <1>5 DEF FoundInv

LEMMA FoundCommit ==
  ASSUME FindInv, Commit
  PROVE  FoundInv' /\ DoneInv'
  <1>1. UNCHANGED <<candidates, idar, loaded, limit, phase, probSum, rankVars>> /\ phase # "done"
    BY DEF Commit, mapVars, callVars
  <1>2. PICK g \in Features, v \in Values \cup {Absent} :
          /\ stored' = [stored EXCEPT ![g] = v]
          /\ versions' = [versions EXCEPT ![g] = @ \cup {v}]
    BY DEF Commit
  <1>3. versions \in [Features -> SUBSET MaybeValues]
    BY DEF FindInv, SearchInv, MapInv, ValuesTyped
  <1>4. ASSUME NEW f \in Features, Due(f)', phase' \in {"sample", "compare", "done"} PROVE Found(f)'
    <2>1. versions[f] \subseteq versions'[f] /\ stored[f] \in versions[f]
      BY <1>1, <1>2, <1>3, <1>4 DEF FindInv, SearchInv, CallInv
    <2>2. loaded[f] # Absent /\ versions'[f] = {loaded[f]}
      BY <1>1, <1>4 DEF Due, Unchanged
    <2>3. versions[f] = {loaded[f]}
      BY <2>1, <2>2
    <2>4. Due(f)
      BY <1>1, <1>4, <2>2, <2>3 DEF Due, Unchanged, RankOf
    <2>5. Found(f)
      BY <1>1, <1>4, <2>4 DEF FindInv, FoundInv
    <2>. QED BY <1>1, <2>5, FoundKept
  <1>. QED BY <1>1, <1>4 DEF FoundInv, DoneInv

LEMMA FoundCalled ==
  ASSUME FindInv, FindSimilar
  PROVE  FoundInv' /\ DoneInv'
  <1>1. PICK l \in Limits : limit' = l /\ candidates' = Filtered(l)
    BY DEF FindSimilar
  <1>2. /\ UNCHANGED <<idar, loaded, rankVars>> /\ phase = "ready"
        /\ phase' = IF idar = << >> THEN "done" ELSE "sample"
    BY DEF FindSimilar, mapVars
  <1>3. MapInv /\ MapComplete
    BY DEF FindInv, SearchInv
  <1>4. ASSUME NEW f \in Features, Due(f)' PROVE Found(f)'
    <2>1. loaded[f] # Absent /\ Passes(loaded[f].word, l)
      BY <1>1, <1>2, <1>4 DEF Due, Unchanged
    <2>2. PICK c \in Filtered(l) : idar[c.idx + 1] = f /\ c.dist = FilterSum(loaded[f])
      BY <1>3, <2>1, LoadedIsFiltered
    <2>3. Pending(f)'
      BY <1>1, <1>2, <2>2 DEF Pending
    <2>. QED BY <2>3 DEF Found
  <1>5. ASSUME phase' = "done" PROVE candidates' = {} /\ ~inserting'
    <2>1. idar = << >>
      BY <1>2, <1>5
    <2>2. \A c \in Filtered(l) : c.idx + 1 \in DOMAIN idar
      BY <1>3, FilteredInRange
    <2>3. DOMAIN idar = {}
      BY <2>1
    <2>4. ~inserting'
      BY <1>2 DEF FindInv, SearchInv, CallInv, rankVars, search
    <2>. QED BY <1>1, <2>2, <2>3, <2>4
  <1>. QED BY <1>4, <1>5 DEF FoundInv, DoneInv

LEMMA FoundCompared ==
  ASSUME FindInv, Compare
  PROVE  FoundInv' /\ DoneInv'
  <1>1. PICK c \in candidates :
          /\ Comparing(c)
          /\ candidates' = candidates \ {c}
          /\ LET f == idar[c.idx + 1]
             IN  IF c.dist < probSum /\ Load(f) # Absent /\ Dist(Load(f)) <= limit[1]
                 THEN Insert([dist |-> Dist(Load(f)), idx |-> f])
                 ELSE UNCHANGED rankVars
    BY DEF Compare
  <1>2. /\ UNCHANGED <<stored, idar, loaded, phase, limit, versions, probSum>>
        /\ phase = "compare" /\ ~inserting
    BY <1>1 DEF Compare, mapVars, Comparing
  <1>3. /\ RankInv /\ ValuesTyped /\ idar[c.idx + 1] \in Features
        /\ \A f \in Features : stored[f] \in versions[f]
    BY <1>2 DEF FindInv, SearchInv, MapInv, CandidatesInRange, ValuesTyped, CallInv
  <1> DEFINE g == idar[c.idx + 1]
             e == [dist |-> Dist(Load(g)), idx |-> g]
  <1>4. NoneLost(Listed, Listed')
    <2>1. CASE UNCHANGED rankVars
      <3>1. Listed' = Listed
        BY <2>1 DEF rankVars, search, Listed, Filled, At
      <3>. QED BY <3>1 DEF NoneLost
    <2>2. CASE ~UNCHANGED rankVars
      <3>1. Load(g) # Absent /\ Dist(Load(g)) <= limit[1] /\ Insert(e)
        BY <1>1, <2>2
      <3>2. e \in Ranks
        BY <1>2, <1>3, <3>1, ComparedIsGenuine DEF FindInv
      <3> HIDE DEF e
      <3>. QED BY <1>3, <3>1, <3>2, InsertFinds
    <2>. QED BY <2>1, <2>2
  <1>5. ASSUME NEW f \in Features, Due(f)' PROVE Found(f)'
    <2>1. Due(f) /\ RankOf(f)' = RankOf(f)
      BY <1>2, <1>5 DEF Due, Unchanged, RankOf
    <2>2. /\ Unchanged(f) /\ RankOf(f).dist <= limit[1] /\ FilterSum(loaded[f]) < probSum
          /\ RankOf(f) \in Ranks /\ RankOf(f) \in Keys
      BY <1>2, <1>3, <2>1, RankOfUnchanged DEF Due
    <2>3. Pending(f) \/ PlacedIn(Listed, RankOf(f))
      BY <1>2, <2>1 DEF FindInv, FoundInv, Found
    <2>4. CASE PlacedIn(Listed, RankOf(f))
      <3>1. PlacedIn(Listed', RankOf(f))
        BY <1>4, <2>2, <2>4 DEF NoneLost
      <3>. QED BY <2>1, <3>1 DEF Found
    <2>5. CASE Pending(f)
      <3>1. PICK d \in candidates : idar[d.idx + 1] = f /\ d.dist = FilterSum(loaded[f])
        BY <2>5 DEF Pending
      <3>2. CASE d # c
        <4>1. Pending(f)'
          BY <1>1, <1>2, <3>1, <3>2 DEF Pending
        <4>. QED BY <4>1 DEF Found
      <3>3. CASE d = c
        <4>1. g = f /\ c.dist < probSum
          BY <2>2, <3>1, <3>3
        <4>2. Load(f) = loaded[f] /\ loaded[f] # Absent
          BY <1>3, <2>2 DEF Unchanged, Load
        <4>3. e = RankOf(f) /\ Dist(Load(g)) <= limit[1] /\ Load(g) # Absent
          BY <2>2, <4>1, <4>2 DEF RankOf
        <4>4. Insert(e)
          BY <1>1, <4>1, <4>3
        <4> DEFINE r == RankOf(f)
        <4>5. r \in Ranks /\ Insert(r) /\ r = RankOf(f)'
          BY <2>1, <2>2, <4>3, <4>4
        <4> HIDE DEF r
        <4>6. (inserting' /\ elem' = r) \/ PlacedIn(Listed', r)
          BY <1>3, <4>5, InsertFinds
        <4>. QED BY <4>5, <4>6 DEF Found
      <3>. QED BY <3>2, <3>3
    <2>. QED BY <2>3, <2>4, <2>5
  <1>. QED BY <1>2, <1>5 DEF FoundInv, DoneInv

LEMMA FoundRanked ==
  ASSUME FindInv, RankStep
  PROVE  FoundInv' /\ DoneInv'
  <1>1. /\ UNCHANGED <<candidates, idar, loaded, phase, limit, versions, probSum>>
        /\ SearchLeft \/ SearchRight \/ Scan
        /\ inserting /\ RankInv /\ ValuesTyped
    BY DEF RankStep, mapVars, callVars, SearchLeft, SearchRight, Scan, FindInv, SearchInv, MapInv
  <1>2. /\ (inserting' /\ elem' = elem) \/ PlacedIn(Listed', elem)
        /\ NoneLost(Listed, Listed')
    BY <1>1, SearchFinds
  <1>3. ASSUME NEW f \in Features, Due(f)', phase' \in {"sample", "compare", "done"} PROVE Found(f)'
    <2>1. Due(f) /\ RankOf(f)' = RankOf(f) /\ (Pending(f) => Pending(f)')
      BY <1>1, <1>3 DEF Due, Unchanged, RankOf, Pending
    <2>2. RankOf(f) \in Keys
      BY <1>1, <2>1, RankOfUnchanged DEF Due
    <2>3. Found(f)
      BY <1>1, <1>3, <2>1 DEF FindInv, FoundInv
    <2>4. CASE Pending(f)
      BY <2>1, <2>4 DEF Found
    <2>5. CASE elem = RankOf(f)
      BY <1>2, <2>1, <2>5 DEF Found
    <2>6. CASE PlacedIn(Listed, RankOf(f))
      <3>1. PlacedIn(Listed', RankOf(f))
        BY <1>2, <2>2, <2>6 DEF NoneLost
      <3>. QED BY <2>1, <3>1 DEF Found
    <2>. QED BY <2>3, <2>4, <2>5, <2>6 DEF Found
  <1>4. phase # "done"
    BY <1>1 DEF FindInv, DoneInv
  <1>. QED BY <1>1, <1>3, <1>4 DEF FoundInv, DoneInv

LEMMA FindInit == SearchInit => FindInv
  <1> SUFFICES ASSUME SearchInit PROVE FindInv
    OBVIOUS
  <1>1. phase = "load"
    BY DEF SearchInit
  <1>. QED BY <1>1, SearchInitInv, CompleteInit DEF FindInv, FoundInv, DoneInv

LEMMA FindNext ==
  ASSUME FindInv, [SearchNext]_searchVars
  PROVE  FindInv'
  <1>1. SearchInv' /\ MapComplete'
    BY SearchNextInv, CompleteStep DEF FindInv, SearchInv
  <1>2. CASE LoadNext \/ LoadEnds
    <2>1. phase' \in {"load", "ready"}
      BY <1>2 DEF LoadNext, LoadEnds, callVars
    <2>. QED BY <1>1, <2>1 DEF FindInv, FoundInv, DoneInv
  <1>3. (FoundInv' /\ DoneInv') \/ LoadNext \/ LoadEnds
    BY FoundQuiet, FoundCommit, FoundCalled, FoundCompared, FoundRanked DEF SearchNext, Returned
  <1>. QED BY <1>1, <1>2, <1>3 DEF FindInv

\* No feature that is near enough is lost between the benches, the filter, the
\* samples and the ranked list: for any number of values, size of the benches
\* and of the result, and any commits during the search, a value unchanged
\* since the map was loaded that passes the limits of the filter is in the
\* result, or the result is full of better ones.
THEOREM SearchFindsBest == SearchSpec => []FindsBest
  <1>1. ASSUME FindInv PROVE FindsBest
    <2> SUFFICES ASSUME phase = "done", NEW f \in Features, Unchanged(f),
                        RankOf(f).dist <= limit[1], Passes(loaded[f].word, limit),
                        FilterSum(loaded[f]) < probSum
                 PROVE  \/ RankOf(f) \in Results
                        \/ Filled = MaxNofRanks /\ \A o \in Results : Before(o, RankOf(f))
      BY DEF FindsBest, RankOf
    <2>1. Found(f) /\ candidates = {} /\ ~inserting
      BY <1>1 DEF FindInv, FoundInv, DoneInv, Due
    <2>2. PlacedIn(Listed, RankOf(f))
      BY <2>1 DEF Found, Pending
    <2>3. Len(Listed) = Filled /\ DOMAIN Listed = 1..Filled
      BY <1>1, ListedOrdered DEF FindInv, SearchInv, Listed
    <2>. QED BY <2>2, <2>3 DEF PlacedIn, Results
  <1>. QED BY <1>1, FindInit, FindNext, PTL DEF SearchSpec

-----------------------------------------------------------------------------
(* Sums of differences.  Folds are recursive functions: what they compute  *)
(* follows from the induction on sets of naturals that the least-number    *)
(* principle gives.                                                        *)

LEMMA LeastNumber ==
  ASSUME NEW S \in SUBSET Nat, S # {}
  PROVE  \E m \in S : \A n \in S : m <= n
  <1>1. PICK m \in S : \A n \in S : ~ (<<n, m>> \in OpToRel(<, Nat))
    BY WFMin, NatLessThanWellFounded
  <1>2. ASSUME NEW n \in S PROVE m <= n
    <2>1. m \in Nat /\ n \in Nat /\ ~(n < m)
      BY <1>1 DEF OpToRel
    <2>. QED BY <2>1
  <1>. QED BY <1>2

LEMMA SetInduction ==
  ASSUME NEW S \in SUBSET Nat, 0 \in S, \A n \in S : n + 1 \in S
  PROVE  S = Nat
  <1> SUFFICES ASSUME Nat \ S # {} PROVE FALSE
    OBVIOUS
  <1>1. PICK m \in Nat \ S : \A n \in Nat \ S : m <= n
    BY LeastNumber, Nat \ S \in SUBSET Nat
  <1>2. m # 0 /\ m - 1 \in Nat
    BY <1>1
  <1>3. m - 1 \in S
    BY <1>1, <1>2
  <1>. QED BY <1>1, <1>2, <1>3

LEMMA MaxIsLargest ==
  ASSUME NEW n \in Nat, NEW t \in SUBSET (1..n), t # {}
  PROVE  Max(t) \in t /\ \A i \in t : i <= Max(t)
  <1> DEFINE D == {n - i : i \in t}
  <1>1. D \in SUBSET Nat /\ D # {}
    <2>1. \A i \in t : n - i \in Nat
      OBVIOUS
    <2>2. \A d \in D : d \in Nat
      BY <2>1
    <2>3. D # {}
      OBVIOUS
    <2>. QED BY <2>2, <2>3
  <1> HIDE DEF D
  <1>2. PICK d \in D : \A e \in D : d <= e
    BY <1>1, LeastNumber
  <1>3. PICK m \in t : d = n - m
    BY <1>2 DEF D
  <1>4. ASSUME NEW i \in t PROVE m >= i
    <2>1. d <= n - i
      BY <1>2 DEF D
    <2>. QED BY <1>3, <2>1
  <1>5. \A i \in t : Max(t) \in t /\ Max(t) >= i
    BY <1>4 DEF Max
  <1>. QED BY <1>5

\* The recursive function of the fold of s up to n, g[t] the sum of s over t
SumStep(s, t, g) == IF t = {} THEN 0 ELSE g[t \ {Max(t)}] + s[Max(t)]
IsSum(s, n, g) == g = [t \in SUBSET (1..n) |-> SumStep(s, t, g)]

LEMMA SumExtends ==
  ASSUME NEW s, NEW n \in Nat, NEW g, IsSum(s, n, g)
  PROVE  \E h : IsSum(s, n + 1, h)
  <1> DEFINE h == [t \in SUBSET (1..n+1) |->
                      IF n + 1 \in t THEN g[t \ {n + 1}] + s[n + 1] ELSE g[t]]
  <1>1. ASSUME NEW t \in SUBSET (1..n+1), n + 1 \in t
        PROVE  h[t] = SumStep(s, t, h)
    <2>1. Max(t) \in t /\ \A i \in t : i <= Max(t)
      BY <1>1, MaxIsLargest, n + 1 \in Nat
    <2>2. Max(t) = n + 1
      <3>1. Max(t) \in 1..n+1 /\ n + 1 <= Max(t)
        BY <1>1, <2>1
      <3>. QED BY <3>1
    <2>3. t \ {n + 1} \in SUBSET (1..n+1) /\ n + 1 \notin t \ {n + 1}
      OBVIOUS
    <2>4. h[t \ {n + 1}] = g[t \ {n + 1}]
      BY <2>3
    <2>. QED BY <1>1, <2>2, <2>4 DEF SumStep
  <1>2. ASSUME NEW t \in SUBSET (1..n+1), n + 1 \notin t
        PROVE  h[t] = SumStep(s, t, h)
    <2>1. t \in SUBSET (1..n)
      BY <1>2
    <2>2. h[t] = g[t] /\ g[t] = SumStep(s, t, g)
      BY <1>2, <2>1 DEF IsSum
    <2>3. CASE t = {}
      BY <2>2, <2>3 DEF SumStep
    <2>4. CASE t # {}
      <3>1. t \ {Max(t)} \in SUBSET (1..n+1) /\ n + 1 \notin t \ {Max(t)}
        BY <1>2
      <3>2. h[t \ {Max(t)}] = g[t \ {Max(t)}]
        BY <3>1
      <3>. QED BY <2>2, <2>4, <3>2 DEF SumStep
    <2>. QED BY <2>3, <2>4
  <1>3. h = [t \in SUBSET (1..n+1) |-> SumStep(s, t, h)]
    BY <1>1, <1>2
  <1>. QED BY <1>3 DEF IsSum

LEMMA SumExists ==
  ASSUME NEW s, NEW n \in Nat
  PROVE  \E g : IsSum(s, n, g)
  <1> DEFINE S == {m \in Nat : \E g : IsSum(s, m, g)}
  <1>1. 0 \in S
    <2> DEFINE g == [t \in SUBSET (1..0) |-> 0]
    <2>1. \A t \in SUBSET (1..0) : SumStep(s, t, g) = 0
      BY DEF SumStep
    <2>2. IsSum(s, 0, g)
      BY <2>1 DEF IsSum
    <2>. QED BY <2>2
  <1>2. ASSUME NEW m \in S PROVE m + 1 \in S
    BY SumExtends
  <1> HIDE DEF S
  <1>3. S = Nat
    <2>1. S \in SUBSET Nat
      BY DEF S
    <2>. QED BY <1>1, <1>2, <2>1, SetInduction
  <1>. QED BY <1>3 DEF S

\* The steps of the fold: h[k] is the sum of the first k elements of s.
IsSumTo(s, n, h) ==
    /\ h[0] = 0
    /\ \A k \in 1..n : h[k] = h[k - 1] + s[k]

Total(s) == FoldLeft(LAMBDA a, b : a + b, 0, s)

LEMMA SumFolds ==
  ASSUME NEW s, NEW n \in Nat, DOMAIN s = 1..n
  PROVE  \E h : /\ IsSumTo(s, n, h)
                /\ Total(s) = h[n]
  <1> DEFINE F == CHOOSE g : g = [t \in SUBSET (1..n) |-> SumStep(s, t, g)]
  <1>1. Total(s) = F[1..n]
    BY DEF Total, FoldLeft, MapThenFoldSet, SumStep
  <1>2. F = [t \in SUBSET (1..n) |-> SumStep(s, t, F)]
    BY SumExists DEF IsSum
  <1> HIDE DEF F
  <1> DEFINE h == [k \in 0..n |-> F[1..k]]
  <1>3. h[0] = 0
    BY <1>2 DEF SumStep
  <1>4. ASSUME NEW k \in 1..n PROVE h[k] = h[k - 1] + s[k]
    <2>1. 1..k \in SUBSET (1..n) /\ 1..k # {} /\ k - 1 \in 0..n /\ k \in 0..n
      <3>1. k \in 1..k /\ 1..k \subseteq 1..n
        OBVIOUS
      <3>2. k - 1 \in 0..n /\ k \in 0..n
        OBVIOUS
      <3>. QED BY <3>1, <3>2
    <2>2. Max(1..k) \in 1..k /\ \A i \in 1..k : i <= Max(1..k)
      BY MaxIsLargest, <2>1
    <2>3. Max(1..k) = k
      BY <2>2
    <2>4. (1..k) \ {k} = 1..(k - 1)
      OBVIOUS
    <2>5. F[1..k] = SumStep(s, 1..k, F)
      BY <1>2, <2>1
    <2>6. F[1..k] = F[1..(k - 1)] + s[k]
      BY <2>1, <2>3, <2>4, <2>5 DEF SumStep
    <2>. QED BY <2>1, <2>6
  <1>5. IsSumTo(s, n, h)
    BY <1>3, <1>4 DEF IsSumTo
  <1>6. h[n] = F[1..n]
    OBVIOUS
  <1>. QED BY <1>1, <1>5, <1>6

SamePrefix(s, t, m) == \A k \in 1..m : s[k] = t[k]

LEMMA SumsAgree ==
  ASSUME NEW s, NEW t, NEW n \in Nat, NEW m \in Nat, m <= n, NEW h, NEW g,
         IsSumTo(s, n, h), IsSumTo(t, m, g), SamePrefix(s, t, m)
  PROVE  h[m] = g[m]
  <1> DEFINE S == {k \in Nat : k <= m => h[k] = g[k]}
  <1>1. 0 \in S
    BY DEF IsSumTo
  <1>2. ASSUME NEW k \in S PROVE k + 1 \in S
    <2>1. k + 1 \in Nat /\ (k + 1) - 1 = k
      OBVIOUS
    <2>2. ASSUME k + 1 <= m PROVE h[k + 1] = g[k + 1]
      <3>1. k + 1 \in 1..m /\ k + 1 \in 1..n
        BY <2>2
      <3>2. h[k] = g[k]
        BY <2>2
      <3>3. h[k + 1] = h[(k + 1) - 1] + s[k + 1] /\ g[k + 1] = g[(k + 1) - 1] + t[k + 1]
        BY <3>1 DEF IsSumTo, SamePrefix
      <3>. QED BY <2>1, <3>1, <3>2, <3>3 DEF SamePrefix
    <2>. QED BY <2>1, <2>2
  <1> HIDE DEF S
  <1>3. S = Nat
    <2>1. S \in SUBSET Nat
      BY DEF S
    <2>. QED BY <1>1, <1>2, <2>1, SetInduction
  <1>. QED BY <1>3 DEF S

LEMMA SumsAreNat ==
  ASSUME NEW s, NEW n \in Nat, NEW h, IsSumTo(s, n, h), \A k \in 1..n : s[k] \in Nat
  PROVE  \A k \in 0..n : h[k] \in Nat
  <1> DEFINE S == {k \in Nat : k <= n => h[k] \in Nat}
  <1>1. 0 \in S
    BY DEF IsSumTo
  <1>2. ASSUME NEW k \in S PROVE k + 1 \in S
    <2>1. k + 1 \in Nat /\ (k + 1) - 1 = k
      OBVIOUS
    <2>2. ASSUME k + 1 <= n PROVE h[k + 1] \in Nat
      <3>1. k + 1 \in 1..n /\ h[k] \in Nat
        BY <2>2
      <3>2. h[k + 1] = h[(k + 1) - 1] + s[k + 1] /\ s[k + 1] \in Nat
        BY <3>1 DEF IsSumTo
      <3>. QED BY <2>1, <3>1, <3>2
    <2>. QED BY <2>1, <2>2
  <1> HIDE DEF S
  <1>3. S = Nat
    <2>1. S \in SUBSET Nat
      BY DEF S
    <2>. QED BY <1>1, <1>2, <2>1, SetInduction
  <1>. QED BY <1>3 DEF S

\* h[m] is the sum of the first m words of v.
SumsOf(v, h) ==
    /\ IsSumTo(v.word, Len(v.word), h)
    /\ \A m \in 0..Len(v.word) : SumTo(v, m) = h[m] /\ h[m] \in Nat

LEMMA WordSums ==
  ASSUME NEW v, v.word \in Seq(Nat)
  PROVE  \E h : SumsOf(v, h)
  <1> DEFINE w == v.word
  <1>1. /\ w \in Seq(Nat) /\ Len(w) \in Nat
        /\ DOMAIN w = 1..Len(w) /\ \A k \in 1..Len(w) : w[k] \in Nat
    OBVIOUS
  <1> HIDE DEF w
  <1>2. PICK h : IsSumTo(w, Len(w), h)
    BY <1>1, SumFolds
  <1>3. \A m \in 0..Len(w) : h[m] \in Nat
    BY <1>1, <1>2, SumsAreNat
  <1>4. ASSUME NEW m \in 0..Len(w) PROVE SumTo(v, m) = h[m]
    <2> DEFINE t == SubSeq(w, 1, m)
    <2>1. m \in Nat /\ DOMAIN t = 1..m /\ \A k \in 1..m : w[k] = t[k]
      BY <1>1
    <2> HIDE DEF t
    <2>2. PICK g : IsSumTo(t, m, g) /\ Total(t) = g[m]
      BY <2>1, SumFolds
    <2>3. h[m] = g[m]
      <3>1. SamePrefix(w, t, m)
        BY <2>1 DEF SamePrefix
      <3>2. Len(w) \in Nat /\ m \in Nat /\ m <= Len(w)
        BY <1>1
      <3>. QED BY <1>2, <2>2, <3>1, <3>2, SumsAgree
    <2>4. SumTo(v, m) = Total(t)
      BY DEF SumTo, Total, t, w
    <2>. QED BY <2>2, <2>3, <2>4
  <1>. QED BY <1>2, <1>3, <1>4 DEF SumsOf, w

LEMMA BenchesOfWord ==
  /\ NofBenches \in 1..4
  /\ NofBenches = 1 \/ ElementArSize \div 4 >= NofBenches
  <1> DEFINE k == ElementArSize \div 4
  <1>1. k \in Nat
    BY SearchAssumption
  <1>2. \E n \in 1..4 : /\ n = 1 \/ k >= n
                        /\ \A m \in (n+1)..4 : k < m
    <2>1. CASE k <= 1
      <3>1. 1 \in 1..4 /\ \A m \in (1+1)..4 : k < m
        BY <1>1, <2>1
      <3>. QED BY <3>1
    <2>2. CASE k \in 2..4
      <3>1. k \in 1..4 /\ k >= k /\ \A m \in (k+1)..4 : k < m
        BY <2>2
      <3>. QED BY <3>1
    <2>3. CASE k > 4
      <3>1. 4 \in 1..4 /\ k >= 4 /\ \A m \in (4+1)..4 : k < m
        BY <2>3, <1>1
      <3>. QED BY <3>1
    <2>. QED BY <1>1, <2>1, <2>2, <2>3
  <1> HIDE DEF k
  <1>3. DEFINE N == CHOOSE n \in 1..4 : (n = 1 \/ k >= n) /\ \A m \in (n+1)..4 : k < m
  <1>4. N \in 1..4 /\ (N = 1 \/ k >= N)
    BY <1>2
  <1>5. NofBenches = N
    BY DEF NofBenches, k
  <1>. QED BY <1>4, <1>5 DEF k

LEMMA ValueTyped ==
  ASSUME NEW v \in Values
  PROVE  /\ v.word \in Seq(Nat) /\ v.rest \in Nat
         /\ NofBenches \in 1..Len(v.word)
         /\ Dist(v) \in Nat
         /\ \A n \in 0..Len(v.word) : SumTo(v, n) \in Nat
  <1>1. v.word \in Seq(Nat) /\ v.rest \in Nat /\ NofBenches <= Len(v.word)
    BY SearchAssumption
  <1>2. NofBenches \in 1..Len(v.word) /\ Len(v.word) \in 0..Len(v.word)
    <2>1. NofBenches \in 1..4 /\ Len(v.word) \in Nat
      BY <1>1, BenchesOfWord
    <2>. QED BY <1>1, <2>1
  <1>3. PICK h : SumsOf(v, h)
    BY <1>1, WordSums
  <1>4. \A n \in 0..Len(v.word) : SumTo(v, n) \in Nat
    BY <1>3 DEF SumsOf
  <1>5. Dist(v) \in Nat
    <2>1. SumTo(v, Len(v.word)) \in Nat
      BY <1>2, <1>4
    <2>. QED BY <1>1, <2>1 DEF Dist
  <1>. QED BY <1>1, <1>2, <1>4, <1>5

\* A value at distance 0 has no differences in its words.
LEMMA NoDifferences ==
  ASSUME NEW v \in Values, Dist(v) = 0
  PROVE  /\ \A n \in 1..Len(v.word) : v.word[n] = 0
         /\ \A n \in 0..Len(v.word) : SumTo(v, n) = 0
  <1> DEFINE L == Len(v.word)
  <1>1. v.word \in Seq(Nat) /\ v.rest \in Nat /\ L \in Nat /\ \A n \in 1..L : v.word[n] \in Nat
    BY ValueTyped
  <1>2. PICK h : SumsOf(v, h)
    BY <1>1, WordSums
  <1>3. h[L] = 0
    <2>1. SumTo(v, L) = h[L] /\ h[L] \in Nat
      BY <1>1, <1>2 DEF SumsOf
    <2>2. SumTo(v, L) + v.rest = 0
      BY DEF Dist
    <2>. QED BY <1>1, <2>1, <2>2
  <1>4. \A n \in 0..L : h[n] \in Nat
    BY <1>2 DEF SumsOf
  <1>5. \A n \in 1..L : h[n] = h[n - 1] + v.word[n]
    BY <1>2 DEF SumsOf, IsSumTo
  <1> DEFINE S == {n \in Nat : n <= L => h[L - n] = 0}
  <1>6. 0 \in S
    BY <1>1, <1>3
  <1>7. ASSUME NEW n \in S PROVE n + 1 \in S
    <2> SUFFICES ASSUME n + 1 <= L PROVE h[L - (n + 1)] = 0
      OBVIOUS
    <2>1. n \in Nat /\ n <= L /\ L - n \in 1..L /\ (L - n) - 1 = L - (n + 1) /\ L - (n + 1) \in 0..L
      BY <1>1
    <2>2. h[L - n] = 0 /\ h[L - n] = h[L - (n + 1)] + v.word[L - n]
      BY <1>5, <2>1
    <2>3. h[L - (n + 1)] \in Nat /\ v.word[L - n] \in Nat
      BY <1>1, <1>4, <2>1
    <2>. QED BY <2>2, <2>3
  <1> HIDE DEF S
  <1>8. S = Nat
    <2>1. S \in SUBSET Nat
      BY DEF S
    <2>. QED BY <1>6, <1>7, <2>1, SetInduction
  <1>9. ASSUME NEW n \in 0..L PROVE h[n] = 0
    <2>1. L - n \in S /\ L - n <= L /\ L - (L - n) = n
      BY <1>1, <1>8
    <2>. QED BY <2>1 DEF S
  <1>10. ASSUME NEW n \in 1..L PROVE v.word[n] = 0
    <2>1. n \in 0..L /\ n - 1 \in 0..L
      BY <1>1
    <2>2. h[n] = 0 /\ h[n - 1] = 0 /\ h[n] = h[n - 1] + v.word[n] /\ v.word[n] \in Nat
      BY <1>1, <1>5, <1>9, <2>1
    <2>. QED BY <2>2
  <1>. QED BY <1>2, <1>9, <1>10 DEF SumsOf

LEMMA DivisionFacts ==
  ASSUME NEW a \in Int, NEW b \in Nat \ {0}
  PROVE  /\ a \div b \in Int
         /\ b * (a \div b) <= a /\ a < b * (a \div b) + b
         /\ a >= 0 => a \div b \in Nat
  <1>1. a \div b \in Int
    OBVIOUS
  <1>2. a >= 0 => a \div b >= 0
    OBVIOUS
  <1>3. b * (a \div b) <= a
    BY SMTT(30)
  <1>4. a < b * (a \div b) + b
    BY SMTT(30)
  <1>. QED BY <1>1, <1>2, <1>3, <1>4

LEMMA ExactDivision ==
  ASSUME NEW a \in Int, NEW b \in Nat \ {0}, a % b = 0
  PROVE  b * (a \div b) = a
  <1>1. a = b * (a \div b) + (a % b)
    BY SMTT(30)
  <1>2. a \div b \in Int
    OBVIOUS
  <1>. QED BY <1>1, <1>2

LEMMA ProductsOrdered ==
  ASSUME NEW b \in Nat, NEW x \in Int, NEW y \in Int, x <= y
  PROVE  b * x \in Int /\ b * y \in Int /\ b * x <= b * y
  OBVIOUS

\* What is at most a in multiples of b is at most the quotient.
LEMMA QuotientBound ==
  ASSUME NEW a \in Int, NEW b \in Nat \ {0}, NEW x \in Int, b * x <= a
  PROVE  x <= a \div b
  <1> DEFINE d == a \div b
  <1>1. d \in Int /\ a < b * d + b
    BY DivisionFacts
  <1> HIDE DEF d
  <1>2. CASE x <= d
    BY <1>2 DEF d
  <1>3. CASE x > d
    <2>1. b * (d + 1) <= b * x
      BY <1>1, <1>3, ProductsOrdered, d + 1 \in Int
    <2>2. b * (d + 1) = b * d + b
      BY <1>1
    <2>. QED BY <1>1, <2>1, <2>2
  <1>. QED BY <1>1, <1>2, <1>3

LEMMA QuotientIsInt ==
  ASSUME NEW a \in Int, NEW b \in Nat \ {0}
  PROVE  /\ Quotient(a, b) \in Int
         /\ a >= b => Quotient(a, b) >= 1
         /\ a > -b => Quotient(a, b) >= 0
  <1>1. a \div b \in Int /\ (-a) \div b \in Int
    BY DivisionFacts
  <1>2. ASSUME a >= b PROVE Quotient(a, b) >= 1
    <2>1. b * 1 <= a /\ a >= 0
      BY <1>2
    <2>2. 1 <= a \div b
      BY <2>1, QuotientBound
    <2>. QED BY <1>1, <2>1, <2>2 DEF Quotient
  <1>3. ASSUME a > -b PROVE Quotient(a, b) >= 0
    <2>1. CASE a >= 0
      <3>1. a \div b \in Nat
        BY <2>1, DivisionFacts
      <3>. QED BY <2>1, <3>1 DEF Quotient
    <2>2. CASE a < 0
      <3>1. -a \in 1..(b - 1)
        BY <1>3, <2>2
      <3>2. (-a) \div b = 0
        BY <3>1
      <3>. QED BY <2>2, <3>2 DEF Quotient
    <2>. QED BY <2>1, <2>2
  <1>. QED BY <1>1, <1>2, <1>3 DEF Quotient

\* The largest sample.
LEMMA LargestElement ==
  ASSUME NEW s \in Seq(Nat), Len(s) > 0
  PROVE  \E j \in DOMAIN s : \A i \in DOMAIN s : s[i] <= s[j]
  <1>1. Len(s) \in Nat /\ DOMAIN s = 1..Len(s) /\ \A i \in 1..Len(s) : s[i] \in Nat
    OBVIOUS
  <1> DEFINE S == {n \in Nat : 0 < n /\ n <= Len(s) => \E j \in 1..n : \A i \in 1..n : s[i] <= s[j]}
  <1>2. 0 \in S
    OBVIOUS
  <1>3. ASSUME NEW n \in S PROVE n + 1 \in S
    <2> SUFFICES ASSUME n + 1 <= Len(s)
                 PROVE  \E j \in 1..(n + 1) : \A i \in 1..(n + 1) : s[i] <= s[j]
      OBVIOUS
    <2>1. n \in Nat /\ \A i \in 1..(n + 1) : s[i] \in Nat /\ (i \in 1..n \/ i = n + 1)
      BY <1>1
    <2>2. CASE n = 0
      <3>1. n + 1 \in 1..(n + 1) /\ \A i \in 1..(n + 1) : s[i] <= s[n + 1]
        BY <2>1, <2>2
      <3>. QED BY <3>1
    <2>3. CASE n > 0
      <3>1. PICK j \in 1..n : \A i \in 1..n : s[i] <= s[j]
        BY <1>1, <2>1, <2>3
      <3>2. j \in 1..(n + 1) /\ s[j] \in Nat /\ n + 1 \in 1..(n + 1) /\ s[n + 1] \in Nat
        BY <2>1
      <3>3. CASE s[n + 1] <= s[j]
        BY <2>1, <3>1, <3>2, <3>3
      <3>4. CASE s[j] <= s[n + 1]
        <4>1. \A i \in 1..(n + 1) : s[i] <= s[n + 1]
          BY SMTT(30), <2>1, <3>1, <3>2, <3>4
        <4>. QED BY <3>2, <4>1
      <3>5. s[n + 1] <= s[j] \/ s[j] <= s[n + 1]
        BY <3>2
      <3>. QED BY <3>3, <3>4, <3>5
    <2>. QED BY <2>1, <2>2, <2>3
  <1> HIDE DEF S
  <1>4. S = Nat
    <2>1. S \in SUBSET Nat
      BY DEF S
    <2>. QED BY <1>2, <1>3, <2>1, SetInduction
  <1>5. Len(s) \in S
    BY <1>1, <1>4
  <1>. QED BY <1>1, <1>5 DEF S

LEMMA LastDistIsNat ==
  ASSUME samples \in Seq(Nat)
  PROVE  LastDist \in Nat
  <1> SUFFICES ASSUME ~(MaxNofRanks >= Len(samples)) PROVE LastDist \in Nat
    BY DEF LastDist
  <1> DEFINE D == {d \in Range(samples) :
                     MaxNofRanks < Cardinality({i \in DOMAIN samples : samples[i] <= d})}
  <1>1. LastDist = Min(D)
    BY DEF LastDist
  <1>2. Len(samples) \in Nat /\ Len(samples) > MaxNofRanks /\ Len(samples) > 0
        /\ DOMAIN samples = 1..Len(samples)
    BY RankAssumption
  <1>3. D \in SUBSET Nat
    BY DEF Range
  <1>4. D # {}
    <2>1. PICK j \in DOMAIN samples : \A i \in DOMAIN samples : samples[i] <= samples[j]
      BY <1>2, LargestElement
    <2>2. {i \in DOMAIN samples : samples[i] <= samples[j]} = 1..Len(samples)
      BY <1>2, <2>1
    <2>3. Cardinality(1..Len(samples)) = Len(samples)
      <3> DEFINE n == Len(samples)
      <3>1. n \in Nat /\ n > 0
        BY <1>2
      <3> HIDE DEF n
      <3>2. Cardinality(1..n) = n
        BY <3>1, FS_Interval
      <3>. QED BY <3>2 DEF n
    <2>4. samples[j] \in D
      BY <1>2, <2>2, <2>3 DEF Range
    <2>. QED BY <2>4
  <1> HIDE DEF D
  <1>5. \E d \in D : \A e \in D : d <= e
    BY <1>3, <1>4, LeastNumber
  <1>6. Min(D) \in D
    BY <1>5 DEF Min
  <1>. QED BY <1>1, <1>3, <1>6

-----------------------------------------------------------------------------
(* The types of the call, and the limit of the sum.                        *)

\* The distance asked for is not so small that the limit of the sum rounds
\* to zero.
WideEnough == (NofBenches - 1) * limit[1] + 2 >= ElementArSize /\ limit[1] > 0

CallTyped ==
    /\ commits \in 0..MaxCommits
    /\ reader \in {"database", "memory"}
    /\ loading <= NofFeatures + 1
    /\ phase \in {"load", "ready", "sample", "compare", "done"}
    /\ limit \in Limits \cup {<<0, 0>>}
    /\ \A c \in candidates \cup toSample : c.dist \in Nat
    /\ samples \in Seq(Nat)
    /\ probSum \in Int

\* What the samples are taken from is what passes the filter, and the limit
\* of the sum lets a value without differences pass.
FilterInv ==
    /\ phase = "sample" => candidates = Filtered(limit)
    /\ phase \in {"compare", "done"} /\ idar # << >> /\ WideEnough => probSum >= 1

LEMMA LimitTyped ==
  ASSUME limit \in Limits \cup {<<0, 0>>}
  PROVE  limit[1] \in Nat /\ limit[2] \in Nat /\ limit[1] <= limit[2]
  BY SearchAssumption

LEMMA FilteredDistances ==
  ASSUME MapInv, NEW l
  PROVE  \A c \in Filtered(l) : c.dist \in Nat
  <1> SUFFICES ASSUME NEW c \in Filtered(l) PROVE c.dist \in Nat
    OBVIOUS
  <1>1. PICK p \in (DOMAIN benches) \X (1..BenchSize) :
          /\ p[2] \in DOMAIN benches[p[1]].ar
          /\ c = [dist |-> SumTo([word |-> benches[p[1]].ar[p[2]]], NofBenches),
                  idx |-> benches[p[1]].startIdx + p[2] - 1]
    BY DEF Filtered
  <1> DEFINE w == benches[p[1]].ar[p[2]]
  <1>2. w \in Words
    <2>1. p[1] \in DOMAIN benches /\ benches \in Seq(Bench)
      BY <1>1 DEF MapInv, BenchesInRange
    <2>2. benches[p[1]].ar \in Seq(Words)
      BY <2>1, BenchFields
    <2>. QED BY <1>1, <2>2
  <1>3. c.dist = SumTo([word |-> w], NofBenches)
    BY <1>1
  <1> HIDE DEF w
  <1>4. PICK v \in Values : w = v.word
    BY <1>2 DEF Words
  <1>5. SumTo([word |-> w], NofBenches) = SumTo(v, NofBenches)
    BY <1>4 DEF SumTo
  <1>6. NofBenches \in 0..Len(v.word)
    <2>1. NofBenches \in 1..Len(v.word)
      BY ValueTyped
    <2>. QED BY <2>1
  <1>7. SumTo(v, NofBenches) \in Nat
    BY <1>6, ValueTyped
  <1>. QED BY <1>3, <1>5, <1>7

LEMMA ScaledLimit ==
  ASSUME NEW sim \in Nat, NEW prob \in Nat, sim > 0, sim <= prob, NEW d \in Nat, d > 0
  PROVE  (d * prob) \div sim + 1 \in Int /\ (d * prob) \div sim + 1 >= 2
  <1>1. d * prob \in Int /\ sim * 1 <= d * prob
    <2>1. 1 * prob <= d * prob
      <3>1. prob * 1 <= prob * d
        BY ProductsOrdered
      <3>. QED BY <3>1
    <2>. QED BY <2>1
  <1>2. 1 <= (d * prob) \div sim
    BY <1>1, QuotientBound
  <1>3. (d * prob) \div sim \in Int
    BY <1>1, DivisionFacts
  <1>. QED BY <1>2, <1>3

LEMMA SumLimit ==
  ASSUME samples \in Seq(Nat), limit \in Limits \cup {<<0, 0>>}, SampleEnds
  PROVE  probSum' \in Int /\ (WideEnough => probSum' >= 1)
  <1> DEFINE sim == limit[1]
             d == IF LastDist = 0 THEN sim ELSE LastDist
  <1>1. PICK scaled \in IF sim = 0 THEN {0, -(2 ^ 30)} ELSE {(d * limit[2]) \div sim + 1} :
          probSum' = MaxProbSumDist(sim, scaled)
    BY DEF SampleEnds
  <1>2. sim \in Nat /\ limit[2] \in Nat /\ sim <= limit[2] /\ d \in Nat /\ (sim > 0 => d > 0)
    BY LimitTyped, LastDistIsNat
  <1>3. scaled \in Int /\ (sim > 0 => scaled >= 2)
    <2>1. CASE sim = 0
      <3>1. 2 ^ 30 \in Int
        OBVIOUS
      <3>. QED BY <1>1, <2>1, <3>1
    <2>2. CASE sim # 0
      <3>1. sim > 0 /\ d > 0
        BY <1>2, <2>2
      <3>2. (d * limit[2]) \div sim + 1 \in Int /\ (d * limit[2]) \div sim + 1 >= 2
        BY <1>2, <3>1, ScaledLimit
      <3>. QED BY <1>1, <2>2, <3>2
    <2>. QED BY <2>1, <2>2
  <1> DEFINE part == (NofBenches - 1) * sim
  <1>4. part \in Int
    BY <1>2, BenchesOfWord
  <1>5. probSum' = Quotient(scaled + part, ElementArSize)
    BY <1>1 DEF MaxProbSumDist
  <1>6. WideEnough <=> part + 2 >= ElementArSize /\ sim > 0
    BY DEF WideEnough
  <1>7. ElementArSize \in Nat \ {0}
    BY SearchAssumption
  <1> HIDE DEF part, sim
  <1>8. scaled + part \in Int /\ (WideEnough => scaled + part >= ElementArSize)
    BY <1>3, <1>4, <1>6, <1>7
  <1>. QED BY <1>5, <1>7, <1>8, QuotientIsInt

LEMMA TypedInit == SearchInit => CallTyped /\ FilterInv
  BY SearchAssumption DEF SearchInit, CallTyped, FilterInv, Features

LEMMA TypedStep ==
  ASSUME SearchInv, CallTyped, [SearchNext]_searchVars
  PROVE  CallTyped'
  <1>1. CASE LoadNext
    <2>1. loading' <= NofFeatures + 1
      BY <1>1, SearchAssumption DEF LoadNext, SearchInv, MapInv, ValuesTyped
    <2>. QED BY <1>1, <2>1 DEF CallTyped, LoadNext, callVars
  <1>2. CASE LoadEnds \/ UNCHANGED searchVars
    BY <1>2 DEF CallTyped, LoadEnds, searchVars, mapVars, callVars
  <1>3. CASE FindSimilar
    <2>1. PICK l \in Limits : /\ limit' = l /\ candidates' = Filtered(l)
                              /\ toSample' = Best(Filtered(l), NofSampleReads)
      BY <1>3 DEF FindSimilar
    <2>2. \A c \in candidates' \cup toSample' : c.dist \in Nat
      <3>1. \A c \in Filtered(l) : c.dist \in Nat
        BY FilteredDistances DEF SearchInv
      <3>. QED BY <2>1, <3>1 DEF Best
    <2>3. /\ UNCHANGED <<commits, reader, loading, samples, probSum>>
          /\ phase' \in {"done", "sample"}
      BY <1>3 DEF FindSimilar, mapVars
    <2>. QED BY <2>1, <2>2, <2>3 DEF CallTyped
  <1>4. CASE Sample
    <2>1. PICK c \in toSample :
            /\ samples' = IF Load(idar[c.idx + 1]) = Absent THEN samples
                          ELSE Append(samples, Dist(Load(idar[c.idx + 1])))
            /\ toSample' = toSample \ {c}
      BY <1>4 DEF Sample
    <2>2. idar[c.idx + 1] \in Features
      BY DEF SearchInv, MapInv, CandidatesInRange, ValuesTyped
    <2> DEFINE v == Load(idar[c.idx + 1])
    <2>3. v \in MaybeValues
      BY <2>2 DEF Load, SearchInv, MapInv, ValuesTyped
    <2> HIDE DEF v
    <2>4. samples' \in Seq(Nat)
      <3>1. samples' = IF v = Absent THEN samples ELSE Append(samples, Dist(v))
        BY <2>1 DEF v
      <3>2. v # Absent => Dist(v) \in Nat
        BY <2>3, ValueTyped DEF MaybeValues
      <3>3. samples \in Seq(Nat)
        BY DEF CallTyped
      <3>. QED BY <3>1, <3>2, <3>3
    <2>5. UNCHANGED <<commits, reader, loading, phase, limit, candidates, probSum>>
      BY <1>4 DEF Sample, mapVars
    <2>. QED BY <2>1, <2>4, <2>5 DEF CallTyped
  <1>5. CASE SampleEnds
    <2>1. probSum' \in Int
      BY <1>5, SumLimit DEF CallTyped
    <2>. QED BY <1>5, <2>1 DEF CallTyped, SampleEnds, mapVars
  <1>6. CASE Compare \/ RankStep \/ Result
    <2>1. UNCHANGED <<commits, reader, loading, limit, toSample, samples, probSum>>
      BY <1>6 DEF Compare, RankStep, Result, mapVars, callVars
    <2>2. candidates' \subseteq candidates /\ phase' \in {phase, "done"}
      BY <1>6 DEF Compare, RankStep, Result, callVars
    <2>. QED BY <2>1, <2>2 DEF CallTyped
  <1>7. CASE Commit
    <2>1. commits' \in 0..MaxCommits
      BY <1>7, SearchAssumption DEF Commit, CallTyped
    <2>. QED BY <1>7, <2>1 DEF Commit, CallTyped, mapVars, callVars
  <1>. QED BY <1>1, <1>2, <1>3, <1>4, <1>5, <1>6, <1>7 DEF SearchNext, Returned

LEMMA FilterStep ==
  ASSUME SearchInv, CallTyped, FilterInv, [SearchNext]_searchVars
  PROVE  FilterInv'
  <1>1. CASE LoadNext \/ LoadEnds
    BY <1>1 DEF FilterInv, LoadNext, LoadEnds, callVars
  <1>2. CASE FindSimilar
    <2>1. PICK l \in Limits : limit' = l /\ candidates' = Filtered(l)
      BY <1>2 DEF FindSimilar
    <2>2. UNCHANGED <<idar, benches>> /\ phase' = IF idar = << >> THEN "done" ELSE "sample"
      BY <1>2 DEF FindSimilar, mapVars
    <2>3. Filtered(l)' = Filtered(l)
      BY <2>2 DEF Filtered
    <2>4. candidates' = Filtered(limit)'
      BY <2>1, <2>2 DEF Filtered
    <2>. QED BY <2>2, <2>4 DEF FilterInv
  <1>3. CASE SampleEnds
    <2>1. WideEnough => probSum' >= 1
      BY <1>3, SumLimit DEF CallTyped
    <2>2. WideEnough' <=> WideEnough
      BY <1>3 DEF SampleEnds, WideEnough
    <2>3. phase' = "compare"
      BY <1>3 DEF SampleEnds
    <2>. QED BY <2>1, <2>2, <2>3 DEF FilterInv
  <1>4. CASE Sample \/ Compare \/ RankStep \/ Result \/ Commit \/ UNCHANGED searchVars
    <2>1. UNCHANGED <<idar, benches, limit, probSum>>
      BY <1>4 DEF Sample, Compare, RankStep, Result, Commit, searchVars, mapVars, callVars
    <2>2. phase' = "sample" => phase = "sample" /\ candidates' = candidates
      BY <1>4 DEF Sample, Compare, RankStep, Result, Commit, searchVars, callVars, Comparing
    <2>3. phase' \in {"compare", "done"} => phase \in {"compare", "done"}
      BY <1>4 DEF Sample, Compare, RankStep, Result, Commit, searchVars, callVars
    <2>4. (WideEnough' <=> WideEnough) /\ Filtered(limit)' = Filtered(limit)
      BY <2>1 DEF WideEnough, Filtered
    <2>. QED BY <2>1, <2>2, <2>3, <2>4 DEF FilterInv
  <1>. QED BY <1>1, <1>2, <1>3, <1>4 DEF SearchNext, Returned

-----------------------------------------------------------------------------
(* What the limits of the filter let pass.                                 *)

\* The limits of the benches are not below zero.
LEMMA LimitsPositive ==
  ASSUME limit \in Limits \cup {<<0, 0>>}, WideEnough
  PROVE  RelProb(limit) >= 0 /\ \A n \in 2..NofBenches : RelSum(n, limit) >= 0
  <1> DEFINE E == ElementArSize
             q == RelProb(limit)
             a == limit[1]
             b == limit[2]
             N == NofBenches
             X == E * q
  <1>1. E \in Nat \ {0} /\ a \in Nat /\ b \in Nat /\ a <= b
    BY SearchAssumption, LimitTyped
  <1>2. q = b \div E
    BY DEF RelProb
  <1> HIDE DEF E, q, a, b, N
  <1>3. q \in Nat /\ X <= b /\ b < X + E
    BY <1>1, <1>2, DivisionFacts
  <1>4. X \in Nat
    BY <1>1, <1>3
  <1>5. N \in 1..4 /\ (N - 1) * a + 2 >= E /\ a > 0
    BY BenchesOfWord DEF WideEnough, N, a, E
  <1>6. ASSUME NEW n \in 2..N PROVE RelSum(n, limit) >= 0
    <2> DEFINE A == 2 * E * n * q - (n - 1) * (b - a)
    <2>1. RelSum(n, limit) = Quotient(A, 2 * E)
      BY DEF RelSum, E, q, a, b
    <2>2. 2 * E * n * q = 2 * n * X
      BY <1>1, <1>3, <1>5
    <2> HIDE DEF X
    <2>3. A = 2 * n * X - (n - 1) * (b - a)
      BY <2>2
    <2>4. A \in Int /\ A > -(2 * E)
      <3>1. CASE N = 2
        <4>1. n = 2 /\ A = 4 * X - (b - a) /\ a + 2 >= E
          BY <1>1, <1>4, <1>5, <2>3, <3>1
        <4>. QED BY <1>1, <1>3, <1>4, <1>5, <4>1
      <3>2. CASE N = 3
        <4>1. 2 * a + 2 >= E
          BY <1>1, <1>5, <3>2
        <4>2. (n = 2 /\ A = 4 * X - (b - a)) \/ (n = 3 /\ A = 6 * X - 2 * (b - a))
          BY <1>1, <1>4, <1>5, <2>3, <3>2
        <4>. QED BY <1>1, <1>3, <1>4, <1>5, <4>1, <4>2
      <3>3. CASE N = 4
        <4>1. 3 * a + 2 >= E
          BY <1>1, <1>5, <3>3
        <4>2. \/ n = 2 /\ A = 4 * X - (b - a)
              \/ n = 3 /\ A = 6 * X - 2 * (b - a)
              \/ n = 4 /\ A = 8 * X - 3 * (b - a)
          BY <1>1, <1>4, <1>5, <2>3, <3>3
        <4>. QED BY <1>1, <1>3, <1>4, <1>5, <4>1, <4>2
      <3>. QED BY <1>5, <3>1, <3>2, <3>3
    <2> HIDE DEF A
    <2>5. 2 * E \in Nat \ {0}
      BY <1>1
    <2>. QED BY <2>1, <2>4, <2>5, QuotientIsInt
  <1>. QED BY <1>3, <1>6 DEF q, N

LEMMA ExactPasses ==
  ASSUME limit \in Limits \cup {<<0, 0>>}, WideEnough, NEW v \in Values, Dist(v) = 0
  PROVE  Passes(v.word, limit) /\ FilterSum(v) = 0
  <1>1. NofBenches \in 1..Len(v.word) /\ v.word \in Seq(Nat)
    BY ValueTyped
  <1>2. \A n \in 1..NofBenches : v.word[n] = 0 /\ SumTo(v, n) = 0
    BY <1>1, NoDifferences
  <1>3. RelProb(limit) >= 0 /\ \A n \in 2..NofBenches : RelSum(n, limit) >= 0
    BY LimitsPositive
  <1>4. ASSUME NEW n \in 1..NofBenches, n > 1
        PROVE  SumTo([word |-> v.word], n) <= RelSum(n, limit)
    <2>1. SumTo([word |-> v.word], n) = SumTo(v, n)
      BY DEF SumTo
    <2>2. n \in 2..NofBenches
      BY <1>1, <1>4
    <2>. QED BY <1>2, <1>3, <2>1, <2>2
  <1>5. Passes(v.word, limit)
    BY <1>2, <1>3, <1>4 DEF Passes
  <1>6. NofBenches \in 1..NofBenches
    BY <1>1
  <1>. QED BY <1>2, <1>5, <1>6 DEF FilterSum

\* A sum of n words none of which is above a share is within n shares.
LEMMA SharesAdd ==
  ASSUME NEW v, v.word \in Seq(Nat), NEW n \in 0..Len(v.word), NEW E \in Nat, NEW a \in Nat,
         \A i \in 1..n : v.word[i] * E <= a
  PROVE  SumTo(v, n) \in Nat /\ SumTo(v, n) * E <= n * a
  <1> DEFINE L == Len(v.word)
  <1>1. L \in Nat /\ n \in Nat /\ n <= L /\ \A i \in 1..L : v.word[i] \in Nat
    OBVIOUS
  <1>2. PICK h : SumsOf(v, h)
    BY WordSums
  <1>3. h[0] = 0 /\ \A i \in 1..L : h[i] = h[i - 1] + v.word[i]
    BY <1>2 DEF SumsOf, IsSumTo
  <1>4. \A i \in 0..L : h[i] \in Nat /\ SumTo(v, i) = h[i]
    BY <1>2 DEF SumsOf
  <1> HIDE DEF L
  <1> DEFINE S == {k \in Nat : k <= n => h[k] * E <= k * a}
  <1>5. 0 \in S
    BY <1>3
  <1>6. ASSUME NEW k \in S PROVE k + 1 \in S
    <2> SUFFICES ASSUME k + 1 <= n PROVE h[k + 1] * E <= (k + 1) * a
      OBVIOUS
    <2>1. k \in Nat /\ k + 1 \in 1..L /\ k + 1 \in 1..n /\ k \in 0..L /\ (k + 1) - 1 = k
      BY <1>1
    <2>2. h[k] \in Nat /\ v.word[k + 1] \in Nat /\ h[k + 1] = h[k] + v.word[k + 1]
      BY <1>1, <1>3, <1>4, <2>1
    <2>3. h[k] * E <= k * a /\ v.word[k + 1] * E <= a
      BY <2>1
    <2> DEFINE x == h[k]
               y == v.word[k + 1]
    <2>4. x \in Nat /\ y \in Nat /\ x * E <= k * a /\ y * E <= a /\ h[k + 1] = x + y
      BY <2>2, <2>3
    <2> HIDE DEF x, y
    <2>5. (x + y) * E = x * E + y * E /\ (k + 1) * a = k * a + a
      BY <2>1, <2>4
    <2>6. x * E \in Int /\ y * E \in Int /\ k * a \in Int
      BY <2>1, <2>4
    <2>. QED BY <2>4, <2>5, <2>6
  <1> HIDE DEF S
  <1>7. S = Nat
    <2>1. S \in SUBSET Nat
      BY DEF S
    <2>. QED BY <1>5, <1>6, <2>1, SetInduction
  <1>8. n \in S
    BY <1>1, <1>7
  <1>. QED BY <1>1, <1>4, <1>8 DEF S, L

LEMMA EvenPasses ==
  ASSUME limit \in Limits \cup {<<0, 0>>}, limit[2] % ElementArSize = 0, NEW v \in Values,
         \A n \in 1..NofBenches : v.word[n] * ElementArSize <= limit[1]
  PROVE  Passes(v.word, limit)
  <1> DEFINE E == ElementArSize
             q == RelProb(limit)
             a == limit[1]
             b == limit[2]
             X == E * q
  <1>1. E \in Nat \ {0} /\ a \in Nat /\ b \in Nat /\ a <= b /\ NofBenches \in 1..4
    BY SearchAssumption, LimitTyped, BenchesOfWord
  <1>2. q = b \div E /\ b % E = 0
    BY DEF RelProb
  <1>3. v.word \in Seq(Nat) /\ NofBenches \in 1..Len(v.word)
    BY ValueTyped
  <1>4. \A n \in 1..NofBenches : v.word[n] \in Nat /\ v.word[n] * E <= a
    BY <1>3
  <1> HIDE DEF E, q, a, b
  <1>5. X = b /\ q \in Nat
    <2>1. E * (b \div E) = b
      BY <1>1, <1>2, ExactDivision
    <2>2. b \div E \in Nat
      BY <1>1, DivisionFacts
    <2>. QED BY <1>1, <1>2, <2>1, <2>2
  <1>6. ASSUME NEW n \in 1..NofBenches PROVE v.word[n] <= q
    <2>1. v.word[n] \in Nat /\ E * v.word[n] <= b
      BY <1>1, <1>4
    <2>. QED BY <1>1, <1>2, <2>1, QuotientBound
  <1>7. ASSUME NEW n \in 1..NofBenches, n > 1
        PROVE  SumTo([word |-> v.word], n) <= RelSum(n, limit)
    <2> DEFINE s == SumTo(v, n)
               A == 2 * E * n * q - (n - 1) * (b - a)
    <2>1. n \in 2..4 /\ n \in 0..Len(v.word) /\ 1..n \subseteq 1..NofBenches
      BY <1>1, <1>3, <1>7
    <2>2. s \in Nat /\ s * E <= n * a
      BY <1>1, <1>3, <1>4, <2>1, SharesAdd
    <2>3. SumTo([word |-> v.word], n) = s
      BY DEF SumTo
    <2>4. RelSum(n, limit) = Quotient(A, 2 * E)
      BY DEF RelSum, E, q, a, b
    <2> HIDE DEF s
    <2>5. 2 * E * n * q = 2 * n * X
      BY <1>1, <1>5, <2>1
    <2>6. A = 2 * n * b - (n - 1) * (b - a)
      BY <1>5, <2>5
    <2> HIDE DEF A
    <2>7. A \in Int /\ A >= 0 /\ 2 * (n * a) <= A
      <3>1. CASE n = 2
        BY <1>1, <2>6, <3>1
      <3>2. CASE n = 3
        BY <1>1, <2>6, <3>2
      <3>3. CASE n = 4
        BY <1>1, <2>6, <3>3
      <3>. QED BY <2>1, <3>1, <3>2, <3>3
    <2>8. (2 * E) * s <= A
      <3>1. (2 * E) * s = 2 * (s * E) /\ s * E \in Int /\ n * a \in Int
        BY <1>1, <2>1, <2>2
      <3>. QED BY <2>2, <2>7, <3>1
    <2>9. s <= A \div (2 * E)
      BY <1>1, <2>2, <2>7, <2>8, QuotientBound
    <2>10. Quotient(A, 2 * E) = A \div (2 * E)
      BY <2>7 DEF Quotient
    <2>. QED BY <2>3, <2>4, <2>9, <2>10
  <1>. QED BY <1>6, <1>7 DEF Passes, q

-----------------------------------------------------------------------------
(* The theorems about types, exact and evenly spread values.               *)

TypedInv == FindInv /\ CallTyped /\ FilterInv

LEMMA TypedInvInit == SearchInit => TypedInv
  BY FindInit, TypedInit DEF TypedInv

LEMMA TypedInvNext ==
  ASSUME TypedInv, [SearchNext]_searchVars
  PROVE  TypedInv'
  BY FindNext, TypedStep, FilterStep DEF TypedInv, FindInv

\* The search stays within its arrays, and its distances and sums of
\* differences are numbers of bits.
THEOREM SearchTypeCorrect == SearchSpec => []SearchTypeOK
  <1>1. TypedInv => SearchTypeOK
    <2> SUFFICES ASSUME TypedInv PROVE SearchTypeOK
      OBVIOUS
    <2>1. MapInv /\ RankTypeOK /\ CallTyped
      BY DEF TypedInv, FindInv, SearchInv, RankInv
    <2>2. loading \in 1..(NofFeatures + 1)
      BY <2>1, SearchAssumption DEF MapInv, ValuesTyped, CallTyped
    <2>3. \A b \in DOMAIN benches : Len(benches[b].ar) \in 1..BenchSize
      BY <2>1 DEF MapInv, BenchesInRange
    <2>4. /\ stored \in [Features -> Values \cup {Absent}]
          /\ loaded \in [Features -> Values \cup {Absent}]
          /\ idar \in Seq(Features)
      BY <2>1 DEF MapInv, ValuesTyped, MaybeValues
    <2>5. \A c \in candidates \cup toSample : c.dist \in Nat /\ c.idx + 1 \in DOMAIN idar
      BY <2>1 DEF MapInv, CandidatesInRange, CallTyped
    <2>. QED BY <2>1, <2>2, <2>3, <2>4, <2>5 DEF SearchTypeOK, CallTyped
  <1>. QED BY <1>1, TypedInvInit, TypedInvNext, PTL DEF SearchSpec

\* A value equal to the one searched, and unchanged during the search, is
\* found unless the result is full of values equal to it: it passes every
\* limit of the filter, for all limits the distance asked for is wide enough
\* to make.
THEOREM ExactAlwaysFound == SearchSpec => []ExactFound
  <1>1. ASSUME TypedInv PROVE ExactFound
    <2> SUFFICES ASSUME phase = "done", WideEnough, NEW f \in Features, Unchanged(f), Dist(loaded[f]) = 0
                 PROVE  \/ [dist |-> 0, idx |-> f] \in Results
                        \/ Filled = MaxNofRanks /\ \A o \in Results : o.dist = 0
      BY DEF ExactFound, WideEnough
    <2>1. /\ MapInv /\ MapComplete /\ FoundInv /\ DoneInv /\ CallTyped /\ FilterInv
          /\ ValuesTyped /\ RankInv
      BY <1>1 DEF TypedInv, FindInv, SearchInv, MapInv
    <2>2. loaded[f] \in Values /\ loaded[f] # Absent
      BY <2>1, RankOfUnchanged DEF Unchanged
    <2>3. Passes(loaded[f].word, limit) /\ FilterSum(loaded[f]) = 0
      BY <2>1, <2>2, ExactPasses DEF CallTyped
    <2>4. probSum >= 1 /\ probSum \in Int
      <3>1. idar # << >>
        BY <2>1, <2>2 DEF MapComplete
      <3>. QED BY <2>1, <3>1 DEF FilterInv, CallTyped
    <2>5. limit[1] \in Nat
      BY <2>1, LimitTyped DEF CallTyped
    <2>6. Due(f) /\ RankOf(f) = [dist |-> 0, idx |-> f]
      BY <2>3, <2>4, <2>5 DEF Due, RankOf
    <2>7. PlacedIn(Listed, RankOf(f))
      BY <2>1, <2>6 DEF FoundInv, DoneInv, Found, Pending
    <2>8. Len(Listed) = Filled /\ DOMAIN Listed = 1..Filled
      BY <2>1, ListedOrdered DEF Listed
    <2>9. CASE \E i \in 1..Len(Listed) : Listed[i] = RankOf(f)
      BY <2>6, <2>8, <2>9 DEF Results
    <2>10. CASE Len(Listed) = MaxNofRanks /\ \A i \in 1..Len(Listed) : Before(Listed[i], RankOf(f))
      <3>1. ASSUME NEW o \in Results PROVE o.dist = 0
        <4>1. Before(o, RankOf(f)) /\ RankOf(f).dist = 0
          BY <2>6, <2>8, <2>10 DEF Results
        <4>2. PICK v : Dist(v) = o.dist /\ v \in Values
          <5>1. Reported(o)
            BY <1>1 DEF TypedInv, FindInv, SearchInv, ReportInv
          <5>2. PICK v \in (IF reader = "memory" THEN {loaded[o.idx]} ELSE versions[o.idx]) :
                  v # Absent /\ o.dist = Dist(v)
            BY <5>1 DEF Reported, Genuine
          <5>3. v \in MaybeValues
            BY <2>1, <5>1, <5>2 DEF Reported, ValuesTyped
          <5>. QED BY <5>2, <5>3 DEF MaybeValues
        <4>3. o.dist \in Nat
          BY <4>2, ValueTyped
        <4>. QED BY <4>1, <4>3 DEF Before
      <3>. QED BY <2>8, <2>10, <3>1
    <2>. QED BY <2>7, <2>9, <2>10 DEF PlacedIn
  <1>. QED BY <1>1, TypedInvInit, TypedInvNext, PTL DEF SearchSpec

\* A value whose differences are spread evenly over its words passes the
\* filter: no division rounds against it when the limit is a multiple of the
\* number of words.
THEOREM EvenSpreadAlwaysCandidate == SearchSpec => []EvenSpreadIsCandidate
  <1>1. ASSUME TypedInv PROVE EvenSpreadIsCandidate
    <2> SUFFICES ASSUME phase = "sample", limit[2] % ElementArSize = 0, NEW i \in DOMAIN idar,
                        \A n \in 1..NofBenches : loaded[idar[i]].word[n] * ElementArSize <= limit[1]
                 PROVE  \E c \in candidates : c.idx = i - 1
      BY DEF EvenSpreadIsCandidate
    <2>1. /\ MapInv /\ BenchesInRange /\ MapComplete /\ CallTyped /\ candidates = Filtered(limit)
      BY <1>1 DEF TypedInv, FindInv, SearchInv, MapInv, FilterInv
    <2> DEFINE w == loaded[idar[i]].word
    <2>2. PICK b \in Nat, j \in Nat : Holds(benches, b, j, i, w)
      BY <2>1 DEF MapComplete, Kept
    <2>3. /\ b \in DOMAIN benches /\ j \in DOMAIN benches[b].ar
          /\ benches[b].startIdx + j = i /\ benches[b].ar[j] = w
      BY <2>2 DEF Holds
    <2>4. benches[b].ar \in Seq(Words) /\ benches[b].startIdx \in Nat
      BY <2>1, <2>3, BenchFields DEF BenchesInRange
    <2>5. PICK v \in Values : w = v.word
      <3>1. w \in Words
        BY <2>3, <2>4
      <3>. QED BY <3>1 DEF Words
    <2>6. Passes(w, limit)
      <3>1. \A n \in 1..NofBenches : v.word[n] * ElementArSize <= limit[1]
        BY <2>5
      <3>2. Passes(v.word, limit)
        BY <2>1, <3>1, EvenPasses DEF CallTyped
      <3>. QED BY <2>5, <3>2
    <2>7. PICK c \in Filtered(limit) : c.idx = benches[b].startIdx + j - 1
      <3>1. j \in 1..BenchSize
        <4>1. Len(benches[b].ar) \in 1..BenchSize /\ BenchSize \in Nat
          BY <2>1, <2>3, SearchAssumption DEF BenchesInRange
        <4>2. DOMAIN benches[b].ar = 1..Len(benches[b].ar)
          BY <2>4
        <4>. QED BY <2>3, <4>1, <4>2
      <3> DEFINE p == <<b, j>>
                 c == [dist |-> SumTo([word |-> benches[p[1]].ar[p[2]]], NofBenches),
                       idx |-> benches[p[1]].startIdx + p[2] - 1]
      <3>2. p \in (DOMAIN benches) \X (1..BenchSize) /\ p[1] = b /\ p[2] = j
        BY <2>3, <3>1
      <3> HIDE DEF p
      <3>3. Passes(benches[p[1]].ar[p[2]], limit)
        BY <2>3, <2>6, <3>2
      <3>4. c \in Filtered(limit)
        BY <2>3, <3>2, <3>3 DEF Filtered
      <3>5. c.idx = benches[b].startIdx + j - 1
        BY <3>2
      <3>. QED BY <3>4, <3>5
    <2>8. c.idx = i - 1
      <3>1. benches[b].startIdx \in Nat /\ j \in Nat /\ benches[b].startIdx + j = i
        BY <2>3, <2>4
      <3> DEFINE x == benches[b].startIdx
      <3>2. x + j - 1 = (x + j) - 1
        BY <3>1
      <3>. QED BY <2>7, <3>1, <3>2
    <2>. QED BY <2>1, <2>7, <2>8
  <1>. QED BY <1>1, TypedInvInit, TypedInvNext, PTL DEF SearchSpec

=============================================================================
