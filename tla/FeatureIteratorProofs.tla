------------------------ MODULE FeatureIteratorProofs ------------------------
(***************************************************************************)
(* Proofs about FeatureIterator, for any number of values stored: it is    *)
(* well typed and implements OrderedIterator.                              *)
(***************************************************************************)
EXTENDS FeatureIterator, TLAPS

\* Before the first call the cursor is before all values; a value held by the
\* iterator is the one the cursor is at, and it has the prefix.
IteratorInv ==
    /\ TypeOK
    /\ ~ hasInit => cursor = 0 /\ ~ hasValue /\ keyprefix = N
    /\ hasInit => cursor >= 1
    /\ hasValue => value = cursor /\ value <= keyprefix

\* The part of the invariant about values and positions.
Positions ==
    /\ cursor \in 0 .. N + 1
    /\ value \in 0 .. N
    /\ keyprefix \in 0 .. N
    /\ result \subseteq 1 .. N
    /\ ~ hasInit => cursor = 0 /\ ~ hasValue /\ keyprefix = N
    /\ hasInit => cursor >= 1
    /\ hasValue => value = cursor /\ value <= keyprefix

LEMMA IteratorInvParts ==
    IteratorInv <=> Positions /\ hasInit \in BOOLEAN /\ hasValue \in BOOLEAN
  BY Zenon DEF IteratorInv, TypeOK, Positions

LEMMA InitInv == Init => IteratorInv
<1> SUFFICES ASSUME Init PROVE IteratorInv
  OBVIOUS
<1>1. Positions
  BY IteratorAssumption DEF Init, Positions
<1>2. hasInit \in BOOLEAN /\ hasValue \in BOOLEAN
  BY DEF Init
<1>3. QED
  BY <1>1, <1>2, IteratorInvParts

\* What the loop of fetchValues does, as far as the invariant tells.
LEMMA LoadMoreInv ==
    ASSUME keyprefix \in 0 .. N, NEW c \in 1 .. N + 1, NEW n \in Nat,
           NEW got \in SUBSET (1 .. N), LoadMore(c, n, got)
    PROVE  cursor' \in 1 .. N + 1 /\ result' \subseteq 1 .. N
<1>1. CASE n = 0
  BY <1>1, IteratorAssumption DEF LoadMore
<1>2. CASE n # 0 /\ c + n <= keyprefix
  <2>1. cursor' = c + n /\ result' = got \cup (c + 1 .. c + n)
    BY <1>2 DEF LoadMore
  <2>2. QED
    BY <1>2, <2>1, IteratorAssumption
<1>3. CASE n # 0 /\ ~ (c + n <= keyprefix)
  <2>1. cursor' = Advance(IF c <= keyprefix THEN keyprefix ELSE c)
    BY <1>3 DEF LoadMore
  <2>2. result' = got \cup (c + 1 .. keyprefix)
    BY <1>3 DEF LoadMore
  <2>3. QED
    BY <2>1, <2>2, IteratorAssumption DEF Advance
<1>4. QED
  BY <1>1, <1>2, <1>3

\* A skip leaves the iterator at the value skipped to, if there is one.
LEMMA SkippedInv ==
    ASSUME value \in 0 .. N, result \subseteq 1 .. N,
           NEW a \in 1 .. N + 1, NEW b \in 0 .. N, hasValue' => a <= N /\ a <= b,
           cursor' = a, value' = IF a <= N THEN a ELSE value, result' = result,
           keyprefix' = b, hasInit' = TRUE
    PROVE  Positions'
<1>1. /\ cursor' \in 0 .. N + 1 /\ value' \in 0 .. N /\ keyprefix' \in 0 .. N
      /\ result' \subseteq 1 .. N /\ cursor' >= 1
  BY IteratorAssumption
<1>2. hasValue' => value' = cursor' /\ value' <= keyprefix'
  OBVIOUS
<1>3. QED
  BY <1>1, <1>2, Zenon DEF Positions

LEMMA StepInv == IteratorInv /\ [Next]_vars => IteratorInv'
<1> SUFFICES ASSUME IteratorInv, [Next]_vars
             PROVE  Positions' /\ hasInit' \in BOOLEAN /\ hasValue' \in BOOLEAN
  BY Zenon DEF IteratorInv, TypeOK, Positions
<1>0. Positions /\ hasInit \in BOOLEAN /\ hasValue \in BOOLEAN
  BY IteratorInvParts
<1>1. ASSUME NEW a \in 1 .. N + 1, Skip(a)
      PROVE  Positions' /\ hasInit' \in BOOLEAN /\ hasValue' \in BOOLEAN
  <2>1. cursor' = a /\ value' = (IF a <= N THEN a ELSE value) /\ result' = result
        /\ keyprefix' = N
    BY <1>1 DEF Skip, Seek
  <2>2. hasInit' = TRUE /\ (hasValue' => a <= N) /\ hasValue' \in BOOLEAN
    <3>1. hasInit' = TRUE /\ hasValue' = (a <= N)
      BY <1>1, Zenon DEF Skip, Seek
    <3>2. hasValue' => a <= N
      BY <3>1
    <3>3. hasValue' \in BOOLEAN
      BY <3>1
    <3>4. QED
      BY <3>1, <3>2, <3>3
  <2>3. N \in 0 .. N /\ value \in 0 .. N /\ result \subseteq 1 .. N
    BY <1>0, IteratorAssumption DEF Positions
  <2>4. Positions'
    BY <2>1, <2>2, <2>3, SkippedInv
  <2>5. QED
    BY <2>2, <2>4, Zenon
<1>2. ASSUME NEW a \in 1 .. N + 1, NEW b \in a - 1 .. N, SkipPrefix(a, b)
      PROVE  Positions' /\ hasInit' \in BOOLEAN /\ hasValue' \in BOOLEAN
  <2>1. cursor' = a /\ value' = (IF a <= N THEN a ELSE value) /\ result' = result
        /\ keyprefix' = b
    BY <1>2 DEF SkipPrefix, Seek
  <2>2. hasInit' = TRUE /\ (hasValue' => a <= N /\ a <= b) /\ hasValue' \in BOOLEAN
    BY <1>2, Zenon DEF SkipPrefix, Seek
  <2>3. b \in 0 .. N
    BY IteratorAssumption
  <2>4. value \in 0 .. N /\ result \subseteq 1 .. N
    BY <1>0 DEF Positions
  <2>5. Positions'
    BY <2>1, <2>2, <2>3, <2>4, SkippedInv
  <2>6. QED
    BY <2>2, <2>5, Zenon
<1>3. ASSUME NEW n \in FetchSizes, FetchValues(n)
      PROVE  Positions' /\ hasInit' \in BOOLEAN /\ hasValue' \in BOOLEAN
  <2>1. n \in Nat /\ n - 1 \in Nat
    BY IteratorAssumption
  <2>2. cursor' \in 1 .. N + 1 /\ result' \subseteq 1 .. N
    <3>1. CASE ~ hasInit
      <4>1. LoadMore(1, IF N = 0 THEN n ELSE n - 1, {1} \cap 1 .. N)
        BY <1>3, <3>1 DEF FetchValues
      <4>2. keyprefix \in 0 .. N /\ 1 \in 1 .. N + 1 /\ {1} \cap 1 .. N \in SUBSET (1 .. N)
        BY <1>0, IteratorAssumption DEF Positions
      <4>3. (IF N = 0 THEN n ELSE n - 1) \in Nat
        BY <2>1
      <4>4. QED
        BY <4>1, <4>2, <4>3, LoadMoreInv
    <3>2. CASE hasInit /\ hasValue
      <4>1. LoadMore(cursor, n - 1, {value})
        BY <1>3, <3>2 DEF FetchValues
      <4>2. keyprefix \in 0 .. N /\ cursor \in 1 .. N + 1 /\ {value} \in SUBSET (1 .. N)
        BY <1>0, <3>2, IteratorAssumption DEF Positions
      <4>3. QED
        BY <4>1, <4>2, <2>1, LoadMoreInv
    <3>3. CASE hasInit /\ ~ hasValue
      <4>1. LoadMore(cursor, n, {})
        BY <1>3, <3>3 DEF FetchValues
      <4>2. keyprefix \in 0 .. N /\ cursor \in 1 .. N + 1
        BY <1>0, <3>3, IteratorAssumption DEF Positions
      <4>3. QED
        BY <4>1, <4>2, <2>1, LoadMoreInv
    <3>4. QED
      BY <3>1, <3>2, <3>3
  <2>3. hasInit' = TRUE /\ hasValue' = FALSE /\ keyprefix' = keyprefix
    <3>1. hasInit' = TRUE /\ keyprefix' = keyprefix /\ hasValue' = (hasValue /\ ~ hasInit)
      BY <1>3 DEF FetchValues, Taken
    <3>2. ~ hasInit => ~ hasValue
      BY <1>0 DEF Positions
    <3>3. QED
      BY <3>1, <3>2
  <2>4. value' \in 0 .. N
    BY <1>0, <1>3, IteratorAssumption DEF FetchValues, Positions
  <2>5. cursor' \in 0 .. N + 1 /\ cursor' >= 1 /\ keyprefix' \in 0 .. N
    BY <2>2, <2>3, <1>0, IteratorAssumption DEF Positions
  <2>6. QED
    BY <2>2, <2>3, <2>4, <2>5, Zenon DEF Positions
<1>4. CASE UNCHANGED vars
  BY <1>0, <1>4, Zenon DEF vars, Positions
<1>5. QED
  BY <1>1, <1>2, <1>3, <1>4 DEF Next

\* The iterator is well typed: its cursor stays within one position of the
\* values and it never returns anything but values stored.
THEOREM IteratorTypeCorrect == Spec => []TypeOK
<1>1. IteratorInv => TypeOK
  BY DEF IteratorInv
<1>2. QED
  BY <1>1, InitInv, StepInv, PTL DEF Spec

-----------------------------------------------------------------------------
(* The refinement of OrderedIterator.                                      *)

\* The value delivered next by an iterator that holds none.
After(c) == IF c <= keyprefix THEN c + 1 ELSE keyprefix + 1

\* The loop of fetchValues after the value held by the iterator.
LEMMA HeldDelivers ==
    ASSUME keyprefix \in 0 .. N, NEW c \in 1 .. N + 1, NEW n \in Nat, c <= keyprefix,
           LoadMore(c, n, {c})
    PROVE  LET to == IF c + n <= keyprefix THEN c + n ELSE keyprefix
           IN  result' = c .. to /\ After(cursor') = to + 1
<1> USE IteratorAssumption
<1>1. CASE n = 0
  <2>1. cursor' = c /\ result' = {c}
    BY <1>1 DEF LoadMore
  <2>2. QED
    BY <1>1, <2>1 DEF After
<1>2. CASE n # 0 /\ c + n <= keyprefix
  <2>1. cursor' = c + n /\ result' = {c} \cup (c + 1 .. c + n)
    BY <1>2 DEF LoadMore
  <2>2. QED
    BY <1>2, <2>1 DEF After
<1>3. CASE n # 0 /\ ~ (c + n <= keyprefix)
  <2>1. cursor' = Advance(keyprefix) /\ result' = {c} \cup (c + 1 .. keyprefix)
    BY <1>3 DEF LoadMore
  <2>2. cursor' = keyprefix + 1
    BY <2>1 DEF Advance
  <2>3. QED
    BY <1>3, <2>1, <2>2 DEF After
<1>4. QED
  BY <1>1, <1>2, <1>3

\* The loop of fetchValues of an iterator that holds no value.
LEMMA FreshDelivers ==
    ASSUME keyprefix \in 0 .. N, NEW c \in 1 .. N + 1, NEW n \in Nat \ {0},
           LoadMore(c, n, {})
    PROVE  LET first == After(c)
               to    == IF first + n - 1 <= keyprefix THEN first + n - 1 ELSE keyprefix
           IN  /\ result' = first .. to
               /\ After(cursor') = IF first <= to THEN to + 1 ELSE first
<1> USE IteratorAssumption
<1>1. CASE c + n <= keyprefix
  <2>1. cursor' = c + n /\ result' = c + 1 .. c + n
    BY <1>1 DEF LoadMore
  <2>2. QED
    BY <1>1, <2>1 DEF After
<1>2. CASE c <= keyprefix /\ ~ (c + n <= keyprefix)
  <2>1. cursor' = Advance(keyprefix) /\ result' = c + 1 .. keyprefix
    BY <1>2 DEF LoadMore
  <2>2. cursor' = keyprefix + 1
    BY <2>1 DEF Advance
  <2>3. QED
    BY <1>2, <2>1, <2>2 DEF After
<1>3. CASE ~ (c <= keyprefix)
  <2>1. cursor' = Advance(c) /\ result' = c + 1 .. keyprefix
    BY <1>3 DEF LoadMore
  <2>2. cursor' \in 1 .. N + 1 /\ cursor' >= c
    BY <2>1 DEF Advance
  <2>3. QED
    BY <1>3, <2>1, <2>2 DEF After
<1>4. QED
  BY <1>1, <1>2, <1>3

LEMMA InitRefines == Init => Iterator!Init
  BY DEF Init, Iterator!Init, NextValue

\* A skip of the iterator is a skip of the abstract one.
LEMMA SkipRefines ==
    ASSUME NEW a \in 1 .. N + 1, NEW b \in a - 1 .. N, result' = result,
           hasInit' = TRUE, hasValue' <=> a <= N /\ a <= b,
           cursor' = a, value' = IF a <= N THEN a ELSE value, keyprefix' = b
    PROVE  Iterator!Skip(a, b)
<1> USE IteratorAssumption
<1>1. CASE a <= b
  <2>1. hasValue' /\ value' = a
    BY <1>1
  <2>2. NextValue' = a
    BY <2>1, Zenon DEF NextValue
  <2>3. QED
    BY <2>2 DEF Iterator!Skip
<1>2. CASE ~ (a <= b)
  <2>1. ~ hasValue' /\ ~ (cursor' <= keyprefix') /\ keyprefix' + 1 = a
    BY <1>2
  <2>2. NextValue' = keyprefix' + 1
    BY <2>1 DEF NextValue
  <2>3. QED
    BY <2>1, <2>2 DEF Iterator!Skip
<1>3. QED
  BY <1>1, <1>2

LEMMA StepRefines ==
    IteratorInv /\ [Next]_vars => [Iterator!Next]_<<NextValue, keyprefix, result>>
<1> SUFFICES ASSUME IteratorInv, [Next]_vars
             PROVE  [Iterator!Next]_<<NextValue, keyprefix, result>>
  OBVIOUS
<1>0. Positions
  BY IteratorInvParts
<1>1. ASSUME NEW a \in 1 .. N + 1, Skip(a)
      PROVE  Iterator!Next
  <2>1. cursor' = a /\ value' = (IF a <= N THEN a ELSE value) /\ result' = result
        /\ keyprefix' = N /\ N \in a - 1 .. N
    BY <1>1, IteratorAssumption DEF Skip, Seek
  <2>2. hasInit' = TRUE /\ hasValue' = (a <= N)
    BY <1>1, Zenon DEF Skip, Seek
  <2>3. hasValue' <=> a <= N /\ a <= N
    BY <2>2
  <2>4. Iterator!Skip(a, N)
    BY <2>1, <2>2, <2>3, SkipRefines
  <2>5. QED
    BY <2>1, <2>4 DEF Iterator!Next
<1>2. ASSUME NEW a \in 1 .. N + 1, NEW b \in a - 1 .. N, SkipPrefix(a, b)
      PROVE  Iterator!Next
  <2>1. cursor' = a /\ value' = (IF a <= N THEN a ELSE value) /\ result' = result
        /\ keyprefix' = b
    BY <1>2 DEF SkipPrefix, Seek
  <2>2. hasInit' = TRUE /\ hasValue' = (a <= N /\ a <= b)
    BY <1>2, Zenon DEF SkipPrefix, Seek
  <2>3. hasValue' <=> a <= N /\ a <= b
    BY <2>2
  <2>4. Iterator!Skip(a, b)
    BY <2>1, <2>2, <2>3, SkipRefines
  <2>5. QED
    BY <2>4 DEF Iterator!Next
<1>3. ASSUME NEW n \in FetchSizes, FetchValues(n)
      PROVE  Iterator!Next
  <2>0. n \in Nat \ {0} /\ n - 1 \in Nat /\ keyprefix \in 0 .. N
    BY <1>0, IteratorAssumption DEF Positions
  <2>1. hasInit' = TRUE /\ keyprefix' = keyprefix /\ hasValue' = FALSE
    <3>1. hasInit' = TRUE /\ keyprefix' = keyprefix /\ hasValue' = (hasValue /\ ~ hasInit)
      BY <1>3 DEF FetchValues, Taken
    <3>2. ~ hasInit => ~ hasValue
      BY <1>0 DEF Positions
    <3>3. QED
      BY <3>1, <3>2
  <2>2. NextValue' = After(cursor')
    BY <2>1 DEF NextValue, After
  <2>3. CASE ~ hasInit
    <3>1. NextValue = 1 /\ keyprefix = N
      BY <1>0, <2>3 DEF NextValue, Positions
    <3>2. CASE N = 0
      <4>1. {1} \cap 1 .. N = {} /\ 1 \in 1 .. N + 1 /\ After(1) = 1
        BY <3>1, <3>2 DEF After
      <4>2. LoadMore(1, n, {})
        BY <1>3, <2>3, <3>2, <4>1 DEF FetchValues
      <4>3. QED
        BY <2>0, <2>1, <2>2, <3>1, <4>1, <4>2, FreshDelivers DEF Iterator!Next, Iterator!Fetch
    <3>3. CASE N # 0
      <4>1. {1} \cap 1 .. N = {1} /\ 1 \in 1 .. N + 1 /\ 1 <= keyprefix
        BY <3>1, <3>3, IteratorAssumption
      <4>2. LoadMore(1, n - 1, {1})
        BY <1>3, <2>3, <3>3, <4>1 DEF FetchValues
      <4>3. QED
        BY <2>0, <2>1, <2>2, <3>1, <4>1, <4>2, IteratorAssumption, HeldDelivers
           DEF Iterator!Next, Iterator!Fetch
    <3>4. QED
      BY <3>2, <3>3
  <2>4. CASE hasInit /\ hasValue
    <3>1. NextValue = cursor /\ value = cursor /\ cursor \in 1 .. N + 1 /\ cursor <= keyprefix
      BY <1>0, <2>4 DEF NextValue, Positions
    <3>2. LoadMore(cursor, n - 1, {cursor})
      BY <1>3, <2>4, <3>1 DEF FetchValues
    <3>3. QED
      BY <2>0, <2>1, <2>2, <3>1, <3>2, IteratorAssumption, HeldDelivers
         DEF Iterator!Next, Iterator!Fetch
  <2>5. CASE hasInit /\ ~ hasValue
    <3>1. NextValue = After(cursor) /\ cursor \in 1 .. N + 1
      BY <1>0, <2>5 DEF NextValue, After, Positions
    <3>2. LoadMore(cursor, n, {})
      BY <1>3, <2>5 DEF FetchValues
    <3>3. QED
      BY <2>0, <2>1, <2>2, <3>1, <3>2, FreshDelivers DEF Iterator!Next, Iterator!Fetch
  <2>6. QED
    BY <2>3, <2>4, <2>5
<1>4. CASE UNCHANGED vars
  BY <1>4 DEF vars, NextValue
<1>5. QED
  BY <1>1, <1>2, <1>3, <1>4 DEF Next

\* The iterator implements the abstract one: whatever the order of skips and
\* fetches, values are delivered in order, none twice and none left out.
THEOREM IteratorImplemented == Spec => ImplementsIterator
<1>1. Init => Iterator!Init
  BY InitRefines
<1>2. QED
  BY <1>1, InitInv, StepInv, StepRefines, PTL DEF Spec, ImplementsIterator, Iterator!Spec

=============================================================================
