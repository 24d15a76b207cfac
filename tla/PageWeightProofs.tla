---------------------------- MODULE PageWeightProofs ----------------------------
(***************************************************************************)
(* Proofs about PageWeight: pages keep their identifiers, the links of     *)
(* declared pages are counted once each, whatever the order of the         *)
(* declarations, and the matrix has the size of its vector.                *)
(*                                                                         *)
(* A database of links by identifiers is related to the declarations by    *)
(* names (Known); the end of a rule first names pages, which changes       *)
(* nothing of what is known, and then adds its declaration.                *)
(***************************************************************************)
EXTENDS PageWeight, FiniteSetTheorems, WellFoundedInduction, TLAPS

-----------------------------------------------------------------------------
(* Least and largest numbers, and induction.                               *)

LEMMA LeastNumber ==
  ASSUME NEW S \in SUBSET Nat, S # {}
  PROVE  \E m \in S : \A n \in S : m <= n
  <1>1. PICK m \in S : \A n \in S : ~ (<<n, m>> \in OpToRel(<, Nat))
    BY WFMin, NatLessThanWellFounded
  <1>2. ASSUME NEW n \in S PROVE m <= n
    <2>1. m \in Nat /\ n \in Nat /\ ~(n < m)
      BY <1>1 DEF OpToRel
    <2>. QED BY <2>1
  <1>. QED BY <1>2

LEMMA SetInduction ==
  ASSUME NEW S, 0 \in S, \A n \in Nat : n \in S => n + 1 \in S
  PROVE  \A n \in Nat : n \in S
  <1> SUFFICES ASSUME Nat \ S # {} PROVE FALSE
    OBVIOUS
  <1>1. PICK m \in Nat \ S : \A n \in Nat \ S : m <= n
    BY LeastNumber, Nat \ S \in SUBSET Nat
  <1>2. m # 0 /\ m - 1 \in Nat
    BY <1>1
  <1>3. m - 1 \in S
    BY <1>1, <1>2
  <1>. QED BY <1>1, <1>2, <1>3

LEMMA MinIsLeast ==
  ASSUME NEW S \in SUBSET Nat, S # {}
  PROVE  Min(S) \in S /\ \A n \in S : Min(S) <= n
  BY LeastNumber DEF Min

LEMMA MaxIsLargest ==
  ASSUME NEW n \in Nat, NEW t \in SUBSET (0..n), t # {}
  PROVE  Max(t) \in t /\ \A i \in t : i <= Max(t)
  <1> DEFINE D == {n - i : i \in t}
  <1>1. D \in SUBSET Nat /\ D # {}
    <2>1. \A i \in t : n - i \in Nat
      OBVIOUS
    <2>2. \A d \in D : d \in Nat
      BY <2>1
    <2>3. D # {}
      OBVIOUS
    <2>. QED BY <2>2, <2>3
  <1> HIDE DEF D
  <1>2. PICK d \in D : \A e \in D : d <= e
    BY <1>1, LeastNumber
  <1>3. PICK m \in t : d = n - m
    BY <1>2 DEF D
  <1>4. ASSUME NEW i \in t PROVE m >= i
    <2>1. d <= n - i
      BY <1>2 DEF D
    <2>. QED BY <1>3, <2>1
  <1>5. \A i \in t : Max(t) \in t /\ Max(t) >= i
    BY <1>4 DEF Max
  <1>. QED BY <1>5

\* A bound that is attained is the maximum.
LEMMA MaxIsBound ==
  ASSUME NEW t, NEW n \in t, \A i \in t : i \in Nat /\ i <= n
  PROVE  Max(t) = n
  <1>1. n \in Nat /\ t \in SUBSET (0..n) /\ t # {}
    OBVIOUS
  <1>2. Max(t) \in t /\ \A i \in t : i <= Max(t)
    BY <1>1, MaxIsLargest
  <1>3. Max(t) \in Nat /\ Max(t) <= n /\ n <= Max(t)
    BY <1>2
  <1>. QED BY <1>1, <1>3

-----------------------------------------------------------------------------
(* The names of the pages.                                                 *)

\* The names, the empty one included
Text == STRING \cup {""}

Name == Text \ {""}

Distinct(ns) ==
    /\ ns \in Seq(Text)
    /\ \A i, j \in 1..Len(ns) : ns[i] = ns[j] => i = j

\* ns is an initial part of ms.
Begins(ns, ms) == Len(ns) <= Len(ms) /\ \A i \in 1..Len(ns) : ms[i] = ns[i]

Has(ns, n) == \E i \in 1..Len(ns) : ns[i] = n

LEMMA HasIsInRange ==
  ASSUME NEW ns \in Seq(Text), NEW n
  PROVE  Has(ns, n) <=> n \in Range(ns)
  BY DEF Has, Range

LEMMA IdIsPlace ==
  ASSUME NEW ns, Distinct(ns), NEW n, Has(ns, n)
  PROVE  /\ IdOf(ns, n) \in 1..Len(ns) /\ ns[IdOf(ns, n)] = n
         /\ \A i \in 1..Len(ns) : ns[i] = n => i = IdOf(ns, n)
  <1>1. DOMAIN ns = 1..Len(ns)
    BY DEF Distinct
  <1>2. IdOf(ns, n) \in 1..Len(ns) /\ ns[IdOf(ns, n)] = n
    BY <1>1 DEF Has, IdOf
  <1>. QED BY <1>2 DEF Distinct

LEMMA RangeCounted ==
  ASSUME NEW ns, Distinct(ns)
  PROVE  Cardinality(Range(ns)) = Len(ns)
  <1>1. ns \in Seq(Text) /\ Len(ns) \in Nat /\ DOMAIN ns = 1..Len(ns)
    BY DEF Distinct
  <1>2. IsFiniteSet(1..Len(ns)) /\ Cardinality(1..Len(ns)) = Len(ns)
    BY <1>1, FS_Interval
  <1>3. ns \in Bijection(1..Len(ns), Range(ns))
    BY <1>1 DEF Distinct, Bijection, Injection, Surjection, IsInjective, Range
  <1>4. ExistsBijection(1..Len(ns), Range(ns))
    BY <1>3 DEF ExistsBijection
  <1>. QED BY <1>2, <1>4, FS_Bijection

LEMMA NameAdded ==
  ASSUME NEW ns, Distinct(ns), NEW n \in Text
  PROVE  /\ Distinct(WithName(ns, n)) /\ Begins(ns, WithName(ns, n)) /\ Has(WithName(ns, n), n)
  <1>1. ns \in Seq(Text) /\ Len(ns) \in Nat
    BY DEF Distinct
  <1>2. CASE n \in Range(ns)
    <2>1. WithName(ns, n) = ns /\ Has(ns, n)
      BY <1>1, <1>2, HasIsInRange DEF WithName
    <2>. QED BY <2>1, <1>1 DEF Begins
  <1>3. CASE n \notin Range(ns)
    <2> DEFINE ms == Append(ns, n)
    <2>1. WithName(ns, n) = ms
      BY <1>3 DEF WithName
    <2>2. ms \in Seq(Text) /\ Len(ms) = Len(ns) + 1 /\ ms[Len(ns) + 1] = n
      BY <1>1
    <2>3. \A i \in 1..Len(ns) : ms[i] = ns[i] /\ ns[i] # n
      BY <1>1, <1>3, HasIsInRange DEF Has
    <2> HIDE DEF ms
    <2>4. Distinct(ms)
      <3>1. \A i \in 1..Len(ms) : i \in 1..Len(ns) \/ i = Len(ns) + 1
        BY <1>1, <2>2
      <3>2. ASSUME NEW i \in 1..Len(ms), NEW j \in 1..Len(ms), ms[i] = ms[j] PROVE i = j
        BY <2>2, <2>3, <3>1, <3>2 DEF Distinct
      <3>. QED BY <2>2, <3>2 DEF Distinct
    <2>5. Begins(ns, ms)
      BY <1>1, <2>2, <2>3 DEF Begins
    <2>6. Has(ms, n)
      BY <1>1, <2>2 DEF Has
    <2>. QED BY <2>1, <2>4, <2>5, <2>6
  <1>. QED BY <1>2, <1>3

LEMMA BeginsTransitive ==
  ASSUME NEW ns, NEW ms, NEW ls, Distinct(ns), Distinct(ms), Distinct(ls),
         Begins(ns, ms), Begins(ms, ls)
  PROVE  Begins(ns, ls) /\ \A n : Has(ms, n) => Has(ls, n)
  <1>1. Len(ns) \in Nat /\ Len(ms) \in Nat /\ Len(ls) \in Nat
    BY DEF Distinct
  <1>2. 1..Len(ns) \subseteq 1..Len(ms) /\ 1..Len(ms) \subseteq 1..Len(ls) /\ Len(ns) <= Len(ls)
    BY <1>1 DEF Begins
  <1>. QED BY <1>2 DEF Begins, Has

-----------------------------------------------------------------------------
(* The names of a rule get their identifiers one after the other.          *)

\* The recursive function of the fold of s up to n
NameStep(base, s, t, g) == IF t = {} THEN base ELSE WithName(g[t \ {Max(t)}], s[Max(t)])
IsFold(base, s, n, g) == g = [t \in SUBSET (1..n) |-> NameStep(base, s, t, g)]

LEMMA LargestIndex ==
  ASSUME NEW n \in Nat, NEW t \in SUBSET (1..n), t # {}
  PROVE  Max(t) \in t /\ \A i \in t : i <= Max(t)
  <1>1. t \in SUBSET (0..n)
    OBVIOUS
  <1>. QED BY <1>1, MaxIsLargest

LEMMA FoldExtends ==
  ASSUME NEW base, NEW s, NEW n \in Nat, NEW g, IsFold(base, s, n, g)
  PROVE  \E h : IsFold(base, s, n + 1, h)
  <1> DEFINE h == [t \in SUBSET (1..n+1) |->
                      IF n + 1 \in t THEN WithName(g[t \ {n + 1}], s[n + 1]) ELSE g[t]]
  <1>1. ASSUME NEW t \in SUBSET (1..n+1), n + 1 \in t
        PROVE  h[t] = NameStep(base, s, t, h)
    <2>1. Max(t) \in t /\ \A i \in t : i <= Max(t)
      BY <1>1, LargestIndex, n + 1 \in Nat
    <2>2. Max(t) = n + 1
      <3>1. Max(t) \in 1..n+1 /\ n + 1 <= Max(t)
        BY <1>1, <2>1
      <3>. QED BY <3>1
    <2>3. t \ {n + 1} \in SUBSET (1..n+1) /\ n + 1 \notin t \ {n + 1}
      OBVIOUS
    <2>4. h[t \ {n + 1}] = g[t \ {n + 1}]
      BY <2>3
    <2>. QED BY <1>1, <2>2, <2>4 DEF NameStep
  <1>2. ASSUME NEW t \in SUBSET (1..n+1), n + 1 \notin t
        PROVE  h[t] = NameStep(base, s, t, h)
    <2>1. t \in SUBSET (1..n)
      BY <1>2
    <2>2. h[t] = g[t] /\ g[t] = NameStep(base, s, t, g)
      BY <1>2, <2>1 DEF IsFold
    <2>3. CASE t = {}
      BY <2>2, <2>3 DEF NameStep
    <2>4. CASE t # {}
      <3>1. t \ {Max(t)} \in SUBSET (1..n+1) /\ n + 1 \notin t \ {Max(t)}
        BY <1>2
      <3>2. h[t \ {Max(t)}] = g[t \ {Max(t)}]
        BY <3>1
      <3>. QED BY <2>2, <2>4, <3>2 DEF NameStep
    <2>. QED BY <2>3, <2>4
  <1>3. h = [t \in SUBSET (1..n+1) |-> NameStep(base, s, t, h)]
    BY <1>1, <1>2
  <1>. QED BY <1>3 DEF IsFold

LEMMA FoldExists ==
  ASSUME NEW base, NEW s
  PROVE  \A n \in Nat : \E g : IsFold(base, s, n, g)
  <1> DEFINE S == {m \in Nat : \E g : IsFold(base, s, m, g)}
  <1>1. 0 \in S
    <2> DEFINE g == [t \in SUBSET (1..0) |-> base]
    <2>1. \A t \in SUBSET (1..0) : NameStep(base, s, t, g) = base
      BY DEF NameStep
    <2>2. IsFold(base, s, 0, g)
      BY <2>1 DEF IsFold
    <2>. QED BY <2>2
  <1>2. ASSUME NEW m \in Nat, m \in S PROVE m + 1 \in S
    BY <1>2, FoldExtends
  <1> HIDE DEF S
  <1>3. \A n \in Nat : n \in S
    BY <1>1, <1>2, SetInduction
  <1>. QED BY <1>3 DEF S

\* The steps of the fold: h[k] are the names after the first k of s.
IsNaming(base, s, n, h) ==
    h[0] = base /\ \A k \in 1..n : h[k] = WithName(h[k - 1], s[k])

LEMMA NamesFold ==
  ASSUME NEW base, NEW s, NEW n \in Nat, DOMAIN s = 1..n
  PROVE  \E h : IsNaming(base, s, n, h) /\ Named(base, s) = h[n]
  <1> DEFINE F == CHOOSE g : g = [t \in SUBSET (1..n) |-> NameStep(base, s, t, g)]
  <1>1. Named(base, s) = F[1..n]
    BY DEF Named, FoldLeft, MapThenFoldSet, NameStep
  <1>2. F = [t \in SUBSET (1..n) |-> NameStep(base, s, t, F)]
    BY FoldExists DEF IsFold
  <1> HIDE DEF F
  <1> DEFINE h == [k \in 0..n |-> F[1..k]]
  <1>3. h[0] = base
    BY <1>2 DEF NameStep
  <1>4. ASSUME NEW k \in 1..n PROVE h[k] = WithName(h[k - 1], s[k])
    <2>1. 1..k \in SUBSET (1..n) /\ 1..k # {} /\ k - 1 \in 0..n /\ k \in 0..n
      <3>1. k \in 1..k /\ 1..k \subseteq 1..n
        OBVIOUS
      <3>2. k - 1 \in 0..n /\ k \in 0..n
        OBVIOUS
      <3>. QED BY <3>1, <3>2
    <2>2. Max(1..k) \in 1..k /\ \A i \in 1..k : i <= Max(1..k)
      BY LargestIndex, <2>1
    <2>3. Max(1..k) = k
      BY <2>2
    <2>4. (1..k) \ {k} = 1..(k - 1)
      OBVIOUS
    <2>5. F[1..k] = NameStep(base, s, 1..k, F)
      BY <1>2, <2>1
    <2>6. F[1..k] = WithName(F[1..(k - 1)], s[k])
      BY <2>1, <2>3, <2>4, <2>5 DEF NameStep
    <2>. QED BY <2>1, <2>6
  <1>5. h[n] = F[1..n]
    OBVIOUS
  <1>6. IsNaming(base, s, n, h)
    BY <1>3, <1>4 DEF IsNaming
  <1>. QED BY <1>1, <1>5, <1>6

LEMMA NamesAdded ==
  ASSUME NEW ns, Distinct(ns), NEW s \in Seq(Text)
  PROVE  /\ Distinct(Named(ns, s)) /\ Begins(ns, Named(ns, s))
         /\ \A k \in 1..Len(s) : Has(Named(ns, s), s[k])
  <1> DEFINE n == Len(s)
  <1>1. n \in Nat /\ DOMAIN s = 1..n /\ \A k \in 1..n : s[k] \in Text
    OBVIOUS
  <1> HIDE DEF n
  <1>2. PICK h : IsNaming(ns, s, n, h) /\ Named(ns, s) = h[n]
    BY <1>1, NamesFold
  <1> DEFINE Good(k) == /\ Distinct(h[k]) /\ Begins(ns, h[k])
                        /\ \A i \in 1..k : Has(h[k], s[i])
             S == {k \in Nat : k <= n => Good(k)}
  <1>3. 0 \in S
    <2>1. Begins(ns, ns)
      BY DEF Begins, Distinct
    <2>. QED BY <1>2, <2>1 DEF IsNaming
  <1>4. ASSUME NEW k \in Nat, k \in S PROVE k + 1 \in S
    <2> SUFFICES ASSUME k + 1 <= n PROVE Good(k + 1)
      OBVIOUS
    <2>1. k + 1 \in 1..n /\ (k + 1) - 1 = k /\ s[k + 1] \in Text
      BY <1>1
    <2>2. Good(k)
      BY <1>1, <1>4
    <2>3. h[k + 1] = WithName(h[k], s[k + 1])
      BY <1>2, <2>1 DEF IsNaming
    <2>4. Distinct(h[k + 1]) /\ Begins(h[k], h[k + 1]) /\ Has(h[k + 1], s[k + 1])
      BY <2>1, <2>2, <2>3, NameAdded
    <2>5. Begins(ns, h[k + 1]) /\ \A i \in 1..k : Has(h[k + 1], s[i])
      BY <2>2, <2>4, BeginsTransitive
    <2>6. \A i \in 1..(k + 1) : i \in 1..k \/ i = k + 1
      OBVIOUS
    <2>. QED BY <2>4, <2>5, <2>6
  <1> HIDE DEF S
  <1>5. n \in S
    BY <1>1, <1>3, <1>4, SetInduction
  <1>. QED BY <1>1, <1>2, <1>5 DEF S, n

-----------------------------------------------------------------------------
(* The counts of the links.                                                *)

\* Counts of links between the first n pages
Matrix(m, n) ==
    /\ IsFiniteSet(DOMAIN m) /\ DOMAIN m \subseteq (1..n) \X (1..n)
    /\ m \in [DOMAIN m -> Nat \ {0}]

\* The largest row and column of a link, 0 if there is none
Bounds(m, r, c) ==
    /\ \A l \in DOMAIN m : l[1] <= r /\ l[2] <= c
    /\ r = 0 \/ \E l \in DOMAIN m : l[1] = r
    /\ c = 0 \/ \E l \in DOMAIN m : l[2] = c

Times(pairs, l) == Cardinality({i \in DOMAIN pairs : pairs[i] = l})

LEMMA TimesCounted ==
  ASSUME NEW S, NEW pairs \in Seq(S), NEW l
  PROVE  Times(pairs, l) \in Nat /\ (l \in Range(pairs) <=> Times(pairs, l) # 0)
  <1> DEFINE I == {i \in DOMAIN pairs : pairs[i] = l}
  <1>1. Len(pairs) \in Nat /\ DOMAIN pairs = 1..Len(pairs)
    OBVIOUS
  <1>2. IsFiniteSet(1..Len(pairs)) /\ I \subseteq 1..Len(pairs)
    BY <1>1, FS_Interval
  <1>3. IsFiniteSet(I) /\ Cardinality(I) \in Nat /\ (Cardinality(I) = 0 <=> I = {})
    BY <1>2, FS_Subset, FS_CardinalityType, FS_EmptySet
  <1>4. l \in Range(pairs) <=> I # {}
    BY DEF Range
  <1>. QED BY <1>3, <1>4 DEF Times

LEMMA RangeFinite ==
  ASSUME NEW S, NEW T, NEW f \in [S -> T], IsFiniteSet(S)
  PROVE  IsFiniteSet(Range(f))
  <1>1. f \in Surjection(S, Range(f))
    BY DEF Surjection, Range
  <1>. QED BY <1>1, FS_Surjection

LEMMA LinksAddedTo ==
  ASSUME NEW n \in Nat, NEW k \in Nat, k <= n, NEW m, Matrix(m, k),
         NEW pairs \in Seq((1..n) \X (1..n))
  PROVE  /\ Matrix(LinksAdded(m, pairs), n)
         /\ DOMAIN LinksAdded(m, pairs) = DOMAIN m \cup Range(pairs)
         /\ \A l \in DOMAIN m \cup Range(pairs) :
               LinksAdded(m, pairs)[l] = (IF l \in DOMAIN m THEN m[l] ELSE 0) + Times(pairs, l)
  <1> DEFINE D == DOMAIN m \cup Range(pairs)
             u == LinksAdded(m, pairs)
  <1>1. DOMAIN u = D /\ \A l \in D : u[l] = (IF l \in DOMAIN m THEN m[l] ELSE 0) + Times(pairs, l)
    BY DEF LinksAdded, Times
  <1>2. u = [l \in D |-> u[l]]
    BY DEF LinksAdded
  <1> HIDE DEF u
  <1>3. IsFiniteSet(D)
    <2>1. Len(pairs) \in Nat /\ pairs \in [1..Len(pairs) -> Range(pairs)] /\ DOMAIN pairs = 1..Len(pairs)
      BY DEF Range
    <2>2. IsFiniteSet(1..Len(pairs))
      BY <2>1, FS_Interval
    <2>3. IsFiniteSet(Range(pairs))
      BY <2>2, <2>1, RangeFinite
    <2>. QED BY <2>3, FS_Union DEF Matrix
  <1>4. Range(pairs) \subseteq (1..n) \X (1..n)
    BY DEF Range
  <1>5. DOMAIN m \subseteq (1..n) \X (1..n)
    <2>1. 1..k \subseteq 1..n
      OBVIOUS
    <2>. QED BY <2>1 DEF Matrix
  <1>6. ASSUME NEW l \in D PROVE u[l] \in Nat \ {0}
    <2>1. Times(pairs, l) \in Nat /\ (l \in Range(pairs) <=> Times(pairs, l) # 0)
      BY TimesCounted
    <2>2. l \in DOMAIN m => m[l] \in Nat \ {0}
      BY DEF Matrix
    <2>3. l \in DOMAIN m \/ l \in Range(pairs)
      OBVIOUS
    <2>. QED BY <1>1, <2>1, <2>2, <2>3
  <1> HIDE DEF D
  <1>7. u \in [D -> Nat \ {0}]
    BY <1>2, <1>6
  <1>8. Matrix(u, n)
    <2>1. D \subseteq (1..n) \X (1..n)
      BY <1>4, <1>5 DEF D
    <2>. QED BY <1>1, <1>3, <1>7, <2>1 DEF Matrix
  <1>. QED BY <1>1, <1>8 DEF u, D

-----------------------------------------------------------------------------
(* The invariant of types and sizes.                                       *)

PageInv ==
    /\ input \in Inputs /\ pos \in 0..Len(input)
    /\ phase \in {"parse", "reduce", "calculate", "done", "error"}
    /\ declname \in Text /\ linknames \in Seq(Name) /\ redirectname \in Text
    /\ Distinct(idinv) /\ defset \subseteq 1..Len(idinv)
    /\ Matrix(linkMatrix, Len(idinv))
    /\ DOMAIN redirectMap \subseteq 1..Len(idinv)
    /\ \A p \in DOMAIN redirectMap : redirectMap[p] \in 1..Len(idinv) /\ redirectMap[p] # p
    /\ maxrow \in 0..Len(idinv) /\ maxcol \in 0..Len(idinv)
    /\ Bounds(linkMatrix, maxrow, maxcol)

\* The dummies are those the sizes call for.
DummyInv ==
    /\ phase \in {"parse", "reduce", "calculate"} => dummies = << >>
    /\ phase = "done" /\ idinv # << >> => dummies = Dummies

LEMMA SeqWider ==
  ASSUME NEW S, NEW T, S \subseteq T, NEW s \in Seq(S)
  PROVE  s \in Seq(T)
  OBVIOUS

LEMMA InputTyped ==
  ASSUME PageInv
  PROVE  /\ Len(input) \in Nat /\ DOMAIN input = 1..Len(input) /\ pos \in Nat
         /\ \A i \in 1..Len(input) : input[i] \in Name /\ input[i] \in Text
  <1>1. input \in Seq(Text) /\ pos \in 0..Len(input)
    <2>1. input \in Seq(STRING) /\ pos \in 0..Len(input)
      BY PageAssumption DEF PageInv
    <2>2. STRING \subseteq Text
      BY DEF Text
    <2>. QED BY <2>1, <2>2, SeqWider
  <1>2. \A i \in 1..Len(input) : input[i] # ""
    <2>1. \A i \in 1..Len(input) : input[i] \in Range(input)
      BY <1>1 DEF Range
    <2>. QED BY <2>1, PageAssumption DEF PageInv
  <1>3. \A i \in 1..Len(input) : input[i] \in Text
    BY <1>1
  <1>4. \A i \in 1..Len(input) : input[i] \in Name
    BY <1>2, <1>3 DEF Name
  <1>5. Len(input) \in Nat /\ DOMAIN input = 1..Len(input) /\ pos \in Nat
    BY <1>1
  <1>. QED BY <1>3, <1>4, <1>5

LEMMA EmptyName == "" \in Text /\ Name \subseteq Text
  <1>1. "" \in Text
    BY DEF Text
  <1>2. Name \subseteq Text
    BY DEF Name
  <1>. QED BY <1>1, <1>2

LEMMA NoNames == Distinct(<< >>) /\ Len(<< >>) = 0
  BY DEF Distinct

LEMMA EmptyMatrix == Matrix(Empty, 0) /\ Bounds(Empty, 0, 0) /\ DOMAIN Empty = {}
  <1>1. DOMAIN Empty = {}
    BY DEF Empty
  <1>2. IsFiniteSet({})
    BY FS_EmptySet
  <1>3. Empty \in [{} -> Nat \ {0}]
    BY DEF Empty
  <1>. QED BY <1>1, <1>2, <1>3 DEF Matrix, Bounds

LEMMA InitInv ==
  ASSUME Init
  PROVE  PageInv /\ DummyInv
  <1>1. /\ idinv = << >> /\ Len(idinv) = 0 /\ defset = {} /\ linkMatrix = Empty /\ redirectMap = Empty
        /\ maxrow = 0 /\ maxcol = 0 /\ dummies = << >> /\ phase = "parse" /\ pos = 0 /\ input \in Inputs
        /\ declname = "" /\ linknames = << >> /\ redirectname = ""
    BY DEF Init
  <1>2. Len(input) \in Nat
    <2>1. input \in Seq(STRING)
      BY <1>1, PageAssumption
    <2>. QED BY <2>1
  <1>3. linknames \in Seq(Name) /\ declname \in Text /\ redirectname \in Text
    <2>1. << >> \in Seq(Name)
      OBVIOUS
    <2>. QED BY <1>1, <2>1, EmptyName
  <1>4. 0 \in 0..0 /\ 0 \in 0..Len(input)
    BY <1>2
  <1>5. PageInv
    BY <1>1, <1>3, <1>4, NoNames, EmptyMatrix DEF PageInv
  <1>6. DummyInv
    BY <1>1 DEF DummyInv
  <1>. QED BY <1>5, <1>6

LEMMA StartRuleKeeps ==
  ASSUME PageInv, DummyInv, StartRule
  PROVE  PageInv' /\ DummyInv'
  <1>1. /\ phase = "parse" /\ pos < Len(input) /\ linknames' = << >> /\ redirectname' = ""
        /\ UNCHANGED <<input, pageVars, dummies, declared>>
    BY DEF StartRule, Reading
  <1>2. /\ Len(input) \in Nat /\ pos \in Nat
        /\ \A i \in 1..Len(input) : input[i] \in Name /\ input[i] \in Text
    BY InputTyped
  <1> DEFINE n == Len(input)
  <1>n. n \in Nat /\ pos < n /\ pos \in Nat
    BY <1>1, <1>2
  <1>h. HasName(pos + 2) => pos + 2 <= n
    BY DEF HasName
  <1> HIDE DEF n
  <1>3. declname' \in Text /\ pos' \in 0..n /\ phase' \in {"parse", "error"}
    <2>1. CASE HasName(pos + 2) /\ declname' = input[pos + 2] /\ pos' = pos + 2 /\ UNCHANGED phase
      <3>1. pos + 2 \in 1..n /\ pos + 2 \in 0..n
        BY <1>n, <1>h, <2>1
      <3>2. input[pos + 2] \in Text
        BY <1>2, <3>1 DEF n
      <3>. QED BY <1>1, <2>1, <3>1, <3>2
    <2>2. CASE /\ pos + 2 <= Len(input) /\ declname' = "" /\ UNCHANGED phase
               /\ pos' = Min({i \in (pos + 3)..Len(input) : input[i] = ";"} \cup {Len(input)})
      <3> DEFINE E == {i \in (pos + 3)..Len(input) : input[i] = ";"} \cup {Len(input)}
      <3>1. E \in SUBSET Nat
        <4>1. (pos + 3)..n \subseteq Nat
          BY <1>n
        <4>2. {i \in (pos + 3)..n : input[i] = ";"} \subseteq (pos + 3)..n
          OBVIOUS
        <4>. QED BY <1>n, <4>1, <4>2 DEF n
      <3>2. n \in E
        BY DEF n
      <3> HIDE DEF E
      <3>3. Min(E) \in Nat /\ Min(E) <= n
        BY <3>1, <3>2, MinIsLeast
      <3>4. pos' = Min(E)
        BY <2>2 DEF E
      <3>5. Min(E) \in 0..n
        BY <1>n, <3>3
      <3>. QED BY <1>1, <2>2, <3>4, <3>5, EmptyName
    <2>3. CASE declname' = "" /\ phase' = "error" /\ UNCHANGED pos
      <3>1. pos \in 0..n
        BY <1>n
      <3>. QED BY <2>3, <3>1, EmptyName
    <2>. QED BY <2>1, <2>2, <2>3 DEF StartRule
  <1>4. PageInv'
    <2>1. << >> \in Seq(Name)
      OBVIOUS
    <2>. QED BY <1>1, <1>3, <2>1, EmptyName DEF PageInv, pageVars, n
  <1>5. DummyInv'
    BY <1>1, <1>3 DEF DummyInv
  <1>. QED BY <1>4, <1>5

LEMMA NameOrEqualKeeps ==
  ASSUME PageInv, DummyInv, NameOrEqual
  PROVE  PageInv' /\ DummyInv'
  <1>1. /\ phase = "parse" /\ pos < Len(input) /\ pos' = pos + 1
        /\ linknames' = IF HasName(pos + 1) THEN Append(linknames, input[pos + 1]) ELSE linknames
        /\ UNCHANGED <<input, phase, declname, redirectname, pageVars, dummies, declared>>
    BY DEF NameOrEqual
  <1>2. Len(input) \in Nat /\ pos \in Nat /\ \A i \in 1..Len(input) : input[i] \in Name
    BY InputTyped
  <1>3. pos + 1 \in 1..Len(input) /\ pos + 1 \in 0..Len(input)
    <2> DEFINE n == Len(input)
    <2>1. n \in Nat /\ pos < n /\ pos \in Nat
      BY <1>1, <1>2
    <2> HIDE DEF n
    <2>2. pos + 1 \in 1..n /\ pos + 1 \in 0..n
      BY <2>1
    <2>. QED BY <2>2 DEF n
  <1>4. linknames \in Seq(Name)
    BY DEF PageInv
  <1>5. linknames' \in Seq(Name)
    BY <1>1, <1>2, <1>3, <1>4
  <1>6. PageInv'
    BY <1>1, <1>3, <1>5 DEF PageInv, pageVars
  <1>7. DummyInv'
    BY <1>1 DEF DummyInv, Dummies, pageVars
  <1>. QED BY <1>6, <1>7

LEMMA RedirectKeeps ==
  ASSUME PageInv, DummyInv, Redirect
  PROVE  PageInv' /\ DummyInv'
  <1>1. /\ phase = "parse" /\ pos < Len(input) /\ UNCHANGED <<input, phase, pageVars, dummies, declared>>
    BY DEF Redirect, Reading
  <1>2. /\ Len(input) \in Nat /\ pos \in Nat
        /\ \A i \in 1..Len(input) : input[i] \in Name /\ input[i] \in Text
    BY InputTyped
  <1> DEFINE n == Len(input)
  <1>n. n \in Nat /\ pos < n /\ pos \in Nat
    BY <1>1, <1>2
  <1>h. HasName(pos + 2) => pos + 2 <= n
    BY DEF HasName
  <1>3. declname \in Text /\ linknames \in Seq(Name) /\ << >> \in Seq(Name) /\ pos \in 0..n
    BY DEF PageInv
  <1> HIDE DEF n
  <1>4. /\ declname' \in Text /\ linknames' \in Seq(Name) /\ redirectname' \in Text
        /\ pos' \in 0..n
    <2>1. CASE /\ HasName(pos + 2) /\ redirectname' = input[pos + 2] /\ pos' = pos + 2
               /\ UNCHANGED <<declname, linknames>>
      <3>1. pos + 2 \in 1..n /\ pos + 2 \in 0..n
        BY <1>n, <1>h, <2>1
      <3>2. input[pos + 2] \in Text
        BY <1>2, <3>1 DEF n
      <3>. QED BY <1>3, <2>1, <3>1, <3>2
    <2>2. CASE redirectname' = "" /\ UNCHANGED <<pos, declname, linknames>>
      BY <1>3, <2>2, EmptyName
    <2>3. CASE /\ pos + 2 <= Len(input) /\ redirectname' = ""
               /\ pos' = IF input[pos + 2] = "->" THEN pos + 1 ELSE pos + 2
               /\ declname' = IF input[pos + 2] = ";" THEN "" ELSE declname
               /\ linknames' = IF input[pos + 2] = ";" THEN << >> ELSE linknames
      <3>0. pos + 2 <= n
        BY <2>3 DEF n
      <3>1. pos + 1 \in 0..n /\ pos + 2 \in 0..n
        BY <1>n, <3>0
      <3>2. pos' \in 0..n
        BY <2>3, <3>1
      <3>3. declname' \in Text /\ linknames' \in Seq(Name)
        BY <1>3, <2>3, EmptyName
      <3>. QED BY <2>3, <3>2, <3>3, EmptyName
    <2>. QED BY <2>1, <2>2, <2>3 DEF Redirect
  <1>5. PageInv'
    BY <1>1, <1>4 DEF PageInv, pageVars, n
  <1>6. DummyInv'
    BY <1>1 DEF DummyInv, Dummies, pageVars
  <1>. QED BY <1>5, <1>6

LEMMA EndOfInputKeeps ==
  ASSUME PageInv, DummyInv, EndOfInput
  PROVE  PageInv' /\ DummyInv'
  <1>1. /\ phase = "parse" /\ phase' = "reduce"
        /\ UNCHANGED <<input, pos, declVars, pageVars, dummies, declared>>
    BY DEF EndOfInput
  <1>2. PageInv'
    BY <1>1 DEF PageInv, pageVars, declVars
  <1>3. DummyInv'
    BY <1>1 DEF DummyInv
  <1>. QED BY <1>2, <1>3

-----------------------------------------------------------------------------
(* The end of a rule.                                                      *)

LEMMA HasInConcat ==
  ASSUME NEW a \in Seq(Text), NEW b \in Seq(Text)
  PROVE  /\ a \o b \in Seq(Text)
         /\ \A n : Has(a, n) \/ Has(b, n) => Has(a \o b, n)
  <1> DEFINE c == a \o b
             k == Len(a)
             m == Len(b)
  <1>1. /\ c \in Seq(Text) /\ Len(c) = k + m /\ k \in Nat /\ m \in Nat
        /\ \A i \in 1..(k + m) : c[i] = IF i <= k THEN a[i] ELSE b[i - k]
    OBVIOUS
  <1> HIDE DEF c, k, m
  <1>2. \A i \in 1..k : i \in 1..(k + m) /\ c[i] = a[i]
    BY <1>1
  <1>3. \A i \in 1..m : i + k \in 1..(k + m) /\ c[i + k] = b[i]
    BY <1>1
  <1>4. ASSUME NEW n, Has(a, n) PROVE Has(c, n)
    BY <1>1, <1>2, <1>4 DEF Has, k
  <1>5. ASSUME NEW n, Has(b, n) PROVE Has(c, n)
    <2>1. PICK i \in 1..m : b[i] = n
      BY <1>5 DEF Has, m
    <2>. QED BY <1>1, <1>3, <2>1 DEF Has
  <1>. QED BY <1>1, <1>4, <1>5 DEF c

LEMMA SeqIsFunction ==
  ASSUME NEW S, NEW s \in Seq(S)
  PROVE  /\ Len(s) \in Nat /\ DOMAIN s = 1..Len(s) /\ \A i \in DOMAIN s : s[i] \in S
         /\ s # << >> => 1 \in DOMAIN s
  OBVIOUS

LEMMA FunctionIsSeq ==
  ASSUME NEW S, NEW k \in Nat, NEW f \in [1..k -> S]
  PROVE  f \in Seq(S) /\ Len(f) = k
  OBVIOUS

LEMMA EmptyIsSeq ==
  ASSUME NEW S
  PROVE  << >> \in Seq(S) /\ DOMAIN << >> = {} /\ Len(<< >>) = 0
  OBVIOUS

LEMMA HasSingle ==
  ASSUME NEW n \in Text
  PROVE  <<n>> \in Seq(Text) /\ Has(<<n>>, n)
  <1>1. <<n>> \in Seq(Text) /\ Len(<<n>>) = 1 /\ <<n>>[1] = n /\ 1 \in 1..1
    OBVIOUS
  <1>. QED BY <1>1 DEF Has

\* The names of a rule that get identifiers
LEMMA NewNamesAre ==
  ASSUME PageInv
  PROVE  /\ NewNames \in Seq(Text) /\ Has(NewNames, declname)
         /\ declname # "" => /\ \A n : Has(linknames, n) => Has(NewNames, n)
                             /\ redirectname # "" => Has(NewNames, redirectname)
  <1>1. declname \in Text /\ linknames \in Seq(Name) /\ redirectname \in Text /\ linknames \in Seq(Text)
    BY EmptyName, SeqWider DEF PageInv
  <1>2. CASE declname = ""
    BY <1>1, <1>2, HasSingle DEF NewNames
  <1>3. CASE declname # ""
    <2> DEFINE r == IF redirectname = "" THEN << >> ELSE <<redirectname>>
               a == <<declname>> \o r
    <2>1. r \in Seq(Text) /\ (redirectname # "" => Has(r, redirectname))
      <3>1. CASE redirectname = ""
        BY <3>1, EmptyIsSeq
      <3>2. CASE redirectname # ""
        BY <1>1, <3>2, HasSingle
      <3>. QED BY <3>1, <3>2
    <2>2. <<declname>> \in Seq(Text) /\ Has(<<declname>>, declname)
      BY <1>1, HasSingle
    <2> HIDE DEF r
    <2>3. a \in Seq(Text) /\ Has(a, declname) /\ (redirectname # "" => Has(a, redirectname))
      BY <2>1, <2>2, HasInConcat
    <2>4. NewNames = a \o linknames
      BY <1>3 DEF NewNames, r
    <2> HIDE DEF a
    <2>. QED BY <1>1, <2>3, <2>4, HasInConcat
  <1>. QED BY <1>2, <1>3

\* The links of a rule, by the identifiers of their pages
RulePairs(ns) ==
    IF declname = "" THEN << >>
    ELSE [i \in DOMAIN linknames |-> <<IdOf(ns, declname), IdOf(ns, linknames[i])>>]

LEMMA EndRuleMeans ==
  ASSUME PageInv, EndRule
  PROVE  LET ns == Named(idinv, NewNames)
             d == IdOf(ns, declname)
         IN  /\ phase = "parse" /\ pos < Len(input) /\ pos' = pos + 1
             /\ idinv' = ns /\ linkMatrix' = LinksAdded(linkMatrix, RulePairs(ns))
             /\ defset' = IF linknames = << >> THEN defset ELSE defset \cup {d}
             /\ redirectMap' = IF declname = "" \/ redirectname \in {"", declname} THEN redirectMap
                               ELSE [p \in DOMAIN redirectMap \cup {d} |->
                                        IF p = d THEN IdOf(ns, redirectname) ELSE redirectMap[p]]
             /\ maxrow' = IF RulePairs(ns) = << >> THEN maxrow ELSE Larger(maxrow, d)
             /\ maxcol' = Max({maxcol} \cup {RulePairs(ns)[i][2] : i \in DOMAIN RulePairs(ns)})
             /\ declname' = "" /\ linknames' = << >> /\ redirectname' = ""
             /\ UNCHANGED <<input, phase, dummies>>
  <1>1. /\ phase = "parse" /\ pos < Len(input) /\ pos' = pos + 1
        /\ declname' = "" /\ linknames' = << >> /\ redirectname' = ""
        /\ UNCHANGED <<input, phase, dummies>>
    BY DEF EndRule, Reading
  <1> DEFINE n == Named(idinv, NewNames)
             e == IdOf(n, declname)
  <1> DEFINE P(ns, d) == IF declname = "" THEN << >>
                         ELSE [i \in DOMAIN linknames |-> <<d, IdOf(ns, linknames[i])>>]
             Means(ns, d, pairs) ==
                 /\ idinv' = ns
                 /\ defset' = IF linknames = << >> THEN defset ELSE defset \cup {d}
                 /\ redirectMap' = IF declname = "" \/ redirectname \in {"", declname} THEN redirectMap
                                   ELSE [p \in DOMAIN redirectMap \cup {d} |->
                                            IF p = d THEN IdOf(ns, redirectname) ELSE redirectMap[p]]
                 /\ linkMatrix' = LinksAdded(linkMatrix, pairs)
                 /\ maxrow' = IF pairs = << >> THEN maxrow ELSE Larger(maxrow, d)
                 /\ maxcol' = Max({maxcol} \cup {pairs[i][2] : i \in DOMAIN pairs})
  <1>2. \E ns \in {n} : \E d \in {IdOf(ns, declname)} : \E pairs \in {P(ns, d)} : Means(ns, d, pairs)
    BY Zenon DEF EndRule
  <1>3. Means(n, e, P(n, e))
    <2> HIDE DEF Means, P, n
    <2>. QED BY <1>2
  <1>4. P(n, e) = RulePairs(n)
    BY DEF RulePairs
  <1>. QED BY ZenonT(40), <1>1, <1>3, <1>4

\* The names of the pages after a rule: the old ones keep their places.
LEMMA RuleNamed ==
  ASSUME PageInv
  PROVE  LET ns == Named(idinv, NewNames)
         IN  /\ Distinct(ns) /\ Begins(idinv, ns) /\ Has(ns, declname)
             /\ declname # "" => /\ \A n : Has(linknames, n) => Has(ns, n)
                                 /\ redirectname # "" => Has(ns, redirectname)
  <1> DEFINE ns == Named(idinv, NewNames)
  <1>1. Distinct(idinv) /\ NewNames \in Seq(Text)
    BY NewNamesAre DEF PageInv
  <1>2. Distinct(ns) /\ Begins(idinv, ns) /\ \A k \in 1..Len(NewNames) : Has(ns, NewNames[k])
    BY <1>1, NamesAdded
  <1> HIDE DEF ns
  <1>3. \A n : Has(NewNames, n) => Has(ns, n)
    BY <1>2 DEF Has
  <1>. QED BY <1>2, <1>3, NewNamesAre DEF ns

LEMMA RulePairsTyped ==
  ASSUME PageInv, NEW ns, Distinct(ns), Has(ns, declname),
         declname # "" => \A n : Has(linknames, n) => Has(ns, n)
  PROVE  /\ RulePairs(ns) \in Seq((1..Len(ns)) \X (1..Len(ns)))
         /\ \A i \in DOMAIN RulePairs(ns) : RulePairs(ns)[i][1] = IdOf(ns, declname)
  <1> DEFINE d == IdOf(ns, declname)
             P == (1..Len(ns)) \X (1..Len(ns))
             k == Len(linknames)
  <1>1. d \in 1..Len(ns)
    BY IdIsPlace
  <1>2. k \in Nat /\ DOMAIN linknames = 1..k
    BY SeqIsFunction DEF PageInv
  <1>3. CASE declname = ""
    <2>1. RulePairs(ns) = << >>
      BY <1>3 DEF RulePairs
    <2>. QED BY <2>1, EmptyIsSeq
  <1>4. CASE declname # ""
    <2>1. \A i \in 1..k : IdOf(ns, linknames[i]) \in 1..Len(ns)
      BY <1>4, IdIsPlace DEF Has
    <2> HIDE DEF k, d
    <2>2. RulePairs(ns) = [i \in 1..k |-> <<d, IdOf(ns, linknames[i])>>]
      BY <1>2, <1>4 DEF RulePairs, d
    <2>3. \A i \in 1..k : <<d, IdOf(ns, linknames[i])>> \in P
      BY <1>1, <2>1
    <2> HIDE DEF P
    <2>4. RulePairs(ns) \in Seq(P)
      <3>1. RulePairs(ns) \in [1..k -> P]
        BY <2>2, <2>3
      <3>. QED BY <1>2, <3>1, FunctionIsSeq
    <2>5. \A i \in DOMAIN RulePairs(ns) : RulePairs(ns)[i][1] = d
      <3>1. DOMAIN RulePairs(ns) = 1..k /\ \A i \in 1..k : RulePairs(ns)[i] = <<d, IdOf(ns, linknames[i])>>
        BY <2>2
      <3> DEFINE e(i) == IdOf(ns, linknames[i])
      <3> HIDE DEF e
      <3>2. \A i \in 1..k : <<d, e(i)>>[1] = d
        OBVIOUS
      <3>. QED BY <3>1, <3>2 DEF e
    <2>. QED BY <2>4, <2>5 DEF P, d
  <1>. QED BY <1>3, <1>4

\* The columns of links, and one more
Columns(c, pairs) == {c} \cup {pairs[i][2] : i \in DOMAIN pairs}

\* The bounds of the matrix after links of one page are added.
LEMMA BoundsAdded ==
  ASSUME NEW n \in Nat, NEW k \in Nat, k <= n, NEW m, Matrix(m, k), NEW r \in 0..k, NEW c \in 0..k,
         Bounds(m, r, c), NEW d \in 1..n, NEW pairs \in Seq((1..n) \X (1..n)),
         \A i \in DOMAIN pairs : pairs[i][1] = d,
         NEW r1, r1 = IF pairs = << >> THEN r ELSE Larger(r, d),
         NEW c1, c1 = Max(Columns(c, pairs))
  PROVE  r1 \in 0..n /\ c1 \in 0..n /\ Bounds(LinksAdded(m, pairs), r1, c1)
  <1> DEFINE C == Columns(c, pairs)
             u == LinksAdded(m, pairs)
  <1>1. \A i \in DOMAIN pairs : pairs[i] \in (1..n) \X (1..n)
    BY SeqIsFunction
  <1>2. C \in SUBSET (0..n) /\ C # {}
    <2>1. \A i \in DOMAIN pairs : pairs[i][2] \in 0..n
      BY <1>1
    <2>2. c \in 0..n
      OBVIOUS
    <2>. QED BY <2>1, <2>2 DEF Columns
  <1>3. c1 \in C /\ \A i \in C : i <= c1
    BY <1>2, MaxIsLargest
  <1>4. DOMAIN u = DOMAIN m \cup Range(pairs)
    BY DEF LinksAdded
  <1>5. /\ \A l \in DOMAIN m : l[1] \in 1..n /\ l[2] \in 1..n /\ l[1] <= r /\ l[2] <= c
        /\ \A l \in Range(pairs) : l[1] = d /\ \E i \in DOMAIN pairs : l = pairs[i] /\ l[2] = pairs[i][2]
    <2>1. \A l \in DOMAIN m : l \in (1..k) \X (1..k)
      BY DEF Matrix
    <2>. QED BY SMTT(30), <2>1 DEF Bounds, Range
  <1>6. r1 \in 0..n /\ r <= r1 /\ (pairs # << >> => d <= r1) /\ (r1 = r \/ (pairs # << >> /\ r1 = d))
    BY DEF Larger
  <1>7. pairs # << >> => \E l \in Range(pairs) : l[1] = d
    <2>1. pairs # << >> => 1 \in DOMAIN pairs
      BY SeqIsFunction
    <2>. QED BY <2>1 DEF Range
  <1> HIDE DEF u
  <1>8. c \in C /\ \A i \in DOMAIN pairs : pairs[i][2] \in C
    BY DEF Columns
  <1>9. c1 \in 0..n /\ c <= c1 /\ \A l \in Range(pairs) : l[2] <= c1
    BY <1>2, <1>3, <1>5, <1>8
  <1>10. c1 = c \/ \E l \in Range(pairs) : l[2] = c1
    BY <1>3 DEF Range, Columns
  <1> HIDE DEF C
  <1>11. ASSUME NEW l \in DOMAIN u PROVE l[1] <= r1 /\ l[2] <= c1
    <2>1. CASE l \in DOMAIN m
      BY <1>5, <1>6, <1>9, <2>1
    <2>2. CASE l \in Range(pairs)
      <3>1. pairs # << >>
        BY <2>2 DEF Range
      <3>. QED BY <1>5, <1>6, <1>9, <2>2, <3>1
    <2>. QED BY <1>4, <2>1, <2>2
  <1>12. r1 = 0 \/ \E l \in DOMAIN u : l[1] = r1
    BY <1>4, <1>6, <1>7 DEF Bounds
  <1>13. c1 = 0 \/ \E l \in DOMAIN u : l[2] = c1
    BY <1>4, <1>10 DEF Bounds
  <1>. QED BY <1>6, <1>9, <1>11, <1>12, <1>13 DEF Bounds, u

LEMMA EndRuleKeeps ==
  ASSUME PageInv, DummyInv, EndRule
  PROVE  PageInv' /\ DummyInv'
  <1> DEFINE ns == Named(idinv, NewNames)
             d == IdOf(ns, declname)
             n == Len(ns)
             k == Len(idinv)
             pairs == RulePairs(ns)
  <1>1. /\ phase = "parse" /\ pos < Len(input) /\ pos' = pos + 1
        /\ idinv' = ns /\ linkMatrix' = LinksAdded(linkMatrix, pairs)
        /\ defset' = IF linknames = << >> THEN defset ELSE defset \cup {d}
        /\ redirectMap' = IF declname = "" \/ redirectname \in {"", declname} THEN redirectMap
                          ELSE [p \in DOMAIN redirectMap \cup {d} |->
                                   IF p = d THEN IdOf(ns, redirectname) ELSE redirectMap[p]]
        /\ maxrow' = IF pairs = << >> THEN maxrow ELSE Larger(maxrow, d)
        /\ maxcol' = Max({maxcol} \cup {pairs[i][2] : i \in DOMAIN pairs})
        /\ declname' = "" /\ linknames' = << >> /\ redirectname' = ""
        /\ UNCHANGED <<input, phase, dummies>>
    BY EndRuleMeans
  <1>2. /\ Distinct(ns) /\ Begins(idinv, ns) /\ Has(ns, declname)
        /\ declname # "" => /\ \A x : Has(linknames, x) => Has(ns, x)
                            /\ redirectname # "" => Has(ns, redirectname)
    BY RuleNamed
  <1> HIDE DEF ns
  <1>3. n \in Nat /\ k \in Nat /\ k <= n
    BY <1>2, SeqIsFunction DEF Distinct, Begins, PageInv
  <1>4. pairs \in Seq((1..n) \X (1..n)) /\ \A i \in DOMAIN pairs : pairs[i][1] = d
    BY <1>2, RulePairsTyped
  <1>5. d \in 1..n /\ ns[d] = declname
    BY <1>2, IdIsPlace
  <1>6. /\ Matrix(linkMatrix, k) /\ maxrow \in 0..k /\ maxcol \in 0..k
        /\ Bounds(linkMatrix, maxrow, maxcol) /\ defset \subseteq 1..k
        /\ DOMAIN redirectMap \subseteq 1..k
        /\ \A p \in DOMAIN redirectMap : redirectMap[p] \in 1..k /\ redirectMap[p] # p
    BY DEF PageInv
  <1> HIDE DEF n, k, d, pairs
  <1>7. Matrix(linkMatrix', n)
    BY <1>1, <1>3, <1>4, <1>6, LinksAddedTo
  <1>8. maxrow' \in 0..n /\ maxcol' \in 0..n /\ Bounds(linkMatrix', maxrow', maxcol')
    <2>1. maxrow' = IF pairs = << >> THEN maxrow ELSE Larger(maxrow, d)
      BY <1>1
    <2>2. maxcol' = Max(Columns(maxcol, pairs))
      BY <1>1 DEF Columns
    <2>. QED BY <1>1, <1>3, <1>4, <1>5, <1>6, <2>1, <2>2, BoundsAdded
  <1>9. 1..k \subseteq 1..n
    BY <1>3
  <1>10. defset' \subseteq 1..n
    BY <1>1, <1>5, <1>6, <1>9
  <1>11. /\ DOMAIN redirectMap' \subseteq 1..n
         /\ \A p \in DOMAIN redirectMap' : redirectMap'[p] \in 1..n /\ redirectMap'[p] # p
    <2>1. CASE declname = "" \/ redirectname \in {"", declname}
      BY <1>1, <1>6, <1>9, <2>1
    <2>2. CASE ~(declname = "" \/ redirectname \in {"", declname})
      <3>1. IdOf(ns, redirectname) \in 1..n /\ ns[IdOf(ns, redirectname)] = redirectname
        BY <1>2, <2>2, IdIsPlace DEF n
      <3>2. IdOf(ns, redirectname) # d
        BY <1>5, <2>2, <3>1
      <3>3. redirectMap' = [p \in DOMAIN redirectMap \cup {d} |->
                                   IF p = d THEN IdOf(ns, redirectname) ELSE redirectMap[p]]
        BY <1>1, <2>2
      <3>. QED BY <1>5, <1>6, <1>9, <3>1, <3>2, <3>3
    <2>. QED BY <2>1, <2>2
  <1>12. pos' \in 0..Len(input) /\ input \in Inputs
    <2> DEFINE z == Len(input)
    <2>1. z \in Nat /\ pos < z /\ pos \in Nat /\ pos' = pos + 1
      BY <1>1, InputTyped
    <2> HIDE DEF z
    <2>2. pos' \in 0..z
      BY <2>1
    <2>. QED BY <2>2 DEF z, PageInv
  <1>13. PageInv'
    <2>1. << >> \in Seq(Name)
      OBVIOUS
    <2>. QED BY <1>1, <1>2, <1>7, <1>8, <1>10, <1>11, <1>12, <2>1, EmptyName DEF PageInv, n
  <1>14. DummyInv'
    BY <1>1 DEF DummyInv
  <1>. QED BY <1>13, <1>14

-----------------------------------------------------------------------------
(* Sums over sets of links.                                                *)

\* The recursive function of the sum of a set
One(t) == CHOOSE l \in t : TRUE
SumStep(t, g) == IF t = {} THEN 0 ELSE g[t \ {One(t)}] + linkMatrix[One(t)]

\* g sums the subsets of S with up to k links.
SumsTo(S, k, g) ==
    /\ DOMAIN g = SUBSET S
    /\ \A t \in SUBSET S : Cardinality(t) <= k => g[t] = SumStep(t, g)

LEMMA SmallerSet ==
  ASSUME NEW t, IsFiniteSet(t), t # {}
  PROVE  /\ One(t) \in t /\ IsFiniteSet(t \ {One(t)}) /\ Cardinality(t) \in Nat \ {0}
         /\ Cardinality(t \ {One(t)}) = Cardinality(t) - 1
  <1>1. One(t) \in t
    BY DEF One
  <1>2. Cardinality(t) \in Nat /\ Cardinality(t) # 0
    BY FS_CardinalityType, FS_EmptySet
  <1>3. IsFiniteSet(t \ {One(t)}) /\ Cardinality(t \ {One(t)}) = Cardinality(t) - 1
    BY <1>1, FS_RemoveElement
  <1>. QED BY <1>1, <1>2, <1>3

LEMMA SumsExist ==
  ASSUME NEW S, IsFiniteSet(S)
  PROVE  \A k \in Nat : \E g : SumsTo(S, k, g)
  <1> DEFINE K == {k \in Nat : \E g : SumsTo(S, k, g)}
  <1>0. \A t \in SUBSET S : IsFiniteSet(t) /\ Cardinality(t) \in Nat
    BY FS_Subset, FS_CardinalityType
  <1>1. 0 \in K
    <2> DEFINE g == [t \in SUBSET S |-> 0]
    <2>1. ASSUME NEW t \in SUBSET S, Cardinality(t) <= 0 PROVE g[t] = SumStep(t, g)
      <3>1. t = {}
        <4>1. Cardinality(t) = 0
          BY <1>0, <2>1
        <4>. QED BY <1>0, <4>1, FS_EmptySet
      <3>. QED BY <3>1 DEF SumStep
    <2>. QED BY <2>1 DEF SumsTo
  <1>2. ASSUME NEW k \in Nat, k \in K PROVE k + 1 \in K
    <2>1. PICK g : SumsTo(S, k, g)
      BY <1>2
    <2> DEFINE h == [t \in SUBSET S |-> SumStep(t, g)]
    <2>2. ASSUME NEW t \in SUBSET S, Cardinality(t) <= k + 1 PROVE h[t] = SumStep(t, h)
      <3>1. CASE t = {}
        BY <3>1 DEF SumStep
      <3>2. CASE t # {}
        <4> DEFINE r == t \ {One(t)}
        <4>1. /\ Cardinality(t) \in Nat /\ Cardinality(r) = Cardinality(t) - 1
          BY <1>0, <3>2, SmallerSet
        <4>2. r \in SUBSET S /\ Cardinality(r) <= k
          BY <2>2, <4>1
        <4>3. h[r] = g[r]
          BY <2>1, <4>2 DEF SumsTo
        <4>. QED BY <3>2, <4>3 DEF SumStep
      <3>. QED BY <3>1, <3>2
    <2>3. SumsTo(S, k + 1, h)
      BY <2>2 DEF SumsTo
    <2>. QED BY <2>3
  <1> HIDE DEF K
  <1>3. \A k \in Nat : k \in K
    BY <1>1, <1>2, SetInduction
  <1>. QED BY <1>3 DEF K

\* F adds the links of the subsets of S one by one.
Adds(S, F) ==
    /\ F[{}] = 0
    /\ \A t \in SUBSET S : t # {} => \E l \in t : F[t] = F[t \ {l}] + linkMatrix[l]

LEMMA SumAdds ==
  ASSUME NEW S, IsFiniteSet(S)
  PROVE  \E F : Adds(S, F) /\ Sum(S) = F[S]
  <1> DEFINE F == CHOOSE g : g = [t \in SUBSET S |-> SumStep(t, g)]
  <1>1. Sum(S) = F[S]
    BY DEF Sum, FoldSet, MapThenFoldSet, SumStep, One
  <1>2. \E g : g = [t \in SUBSET S |-> SumStep(t, g)]
    <2>1. Cardinality(S) \in Nat
      BY FS_CardinalityType
    <2>2. PICK g : SumsTo(S, Cardinality(S), g)
      BY <2>1, SumsExist
    <2>3. \A t \in SUBSET S : Cardinality(t) <= Cardinality(S)
      BY FS_Subset
    <2> DEFINE h == [t \in SUBSET S |-> g[t]]
    <2>4. ASSUME NEW t \in SUBSET S PROVE h[t] = SumStep(t, h)
      <3>1. h[t] = SumStep(t, g)
        BY <2>2, <2>3 DEF SumsTo
      <3>2. SumStep(t, g) = SumStep(t, h)
        BY DEF SumStep
      <3>. QED BY <3>1, <3>2
    <2>5. h = [t \in SUBSET S |-> SumStep(t, h)]
      BY <2>4
    <2>. QED BY <2>5
  <1>3. F = [t \in SUBSET S |-> SumStep(t, F)]
    BY <1>2
  <1> HIDE DEF F
  <1>4. F[{}] = 0
    BY <1>3 DEF SumStep
  <1>5. ASSUME NEW t \in SUBSET S, t # {} PROVE \E l \in t : F[t] = F[t \ {l}] + linkMatrix[l]
    <2>1. One(t) \in t
      BY <1>5 DEF One
    <2>2. F[t] = F[t \ {One(t)}] + linkMatrix[One(t)]
      BY <1>3, <1>5 DEF SumStep
    <2>. QED BY <2>1, <2>2
  <1>. QED BY <1>1, <1>4, <1>5 DEF Adds

\* The sum of counts is the count of all that is counted, if nothing is
\* counted for two links.
LEMMA SumCounts ==
  ASSUME NEW S, IsFiniteSet(S), NEW o,
         \A l \in S : IsFiniteSet(o[l]) /\ linkMatrix[l] = Cardinality(o[l]),
         \A l, k \in S : l # k => o[l] \cap o[k] = {}
  PROVE  Sum(S) = Cardinality(UNION {o[l] : l \in S})
  <1> DEFINE U(t) == UNION {o[l] : l \in t}
             Good(t, F) == IsFiniteSet(U(t)) /\ F[t] = Cardinality(U(t))
  <1>1. PICK F : Adds(S, F) /\ Sum(S) = F[S]
    BY SumAdds
  <1> DEFINE K == {k \in Nat : \A t \in SUBSET S : Cardinality(t) = k => Good(t, F)}
  <1>2. \A t \in SUBSET S : IsFiniteSet(t) /\ Cardinality(t) \in Nat
    BY FS_Subset, FS_CardinalityType
  <1>3. Good({}, F)
    <2>1. U({}) = {}
      OBVIOUS
    <2>. QED BY <1>1, <2>1, FS_EmptySet DEF Adds
  <1>4. 0 \in K
    <2>1. \A t \in SUBSET S : Cardinality(t) = 0 => t = {}
      BY <1>2, FS_EmptySet
    <2> HIDE DEF Good
    <2>. QED BY <1>3, <2>1
  <1>5. ASSUME NEW k \in Nat, k \in K PROVE k + 1 \in K
    <2> SUFFICES ASSUME NEW t \in SUBSET S, Cardinality(t) = k + 1 PROVE Good(t, F)
      OBVIOUS
    <2>1. t # {}
      BY FS_EmptySet
    <2>2. PICK l \in t : F[t] = F[t \ {l}] + linkMatrix[l]
      BY <1>1, <2>1 DEF Adds
    <2> DEFINE r == t \ {l}
    <2>3. Cardinality(r) = k /\ r \in SUBSET S
      <3>1. Cardinality(r) = Cardinality(t) - 1
        BY <1>2, FS_RemoveElement
      <3>. QED BY <3>1
    <2>4. Good(r, F)
      <3> HIDE DEF Good
      <3>. QED BY <1>5, <2>3
    <2> HIDE DEF r
    <2>5. U(t) = U(r) \cup o[l] /\ U(r) \cap o[l] = {}
      <3>1. t = r \cup {l} /\ l \notin r /\ l \in S
        BY DEF r
      <3>2. \A x : x \in U(t) <=> x \in U(r) \/ x \in o[l]
        BY <3>1
      <3>3. \A i \in r : o[i] \cap o[l] = {}
        BY <2>3, <3>1
      <3>. QED BY <3>2, <3>3
    <2>6. IsFiniteSet(o[l]) /\ Cardinality(o[l]) \in Nat /\ linkMatrix[l] = Cardinality(o[l])
      BY FS_CardinalityType
    <2> HIDE DEF U
    <2>7. /\ IsFiniteSet(U(t)) /\ Cardinality(U(r)) \in Nat
          /\ Cardinality(U(t)) = Cardinality(U(r)) + Cardinality(o[l]) - Cardinality(U(r) \cap o[l])
      <3>1. IsFiniteSet(U(r))
        BY <2>4
      <3> DEFINE A == U(r)
                 B == o[l]
      <3> HIDE DEF A, B
      <3>2. IsFiniteSet(A) /\ IsFiniteSet(B)
        BY <2>6, <3>1 DEF A, B
      <3>3. /\ IsFiniteSet(A \cup B) /\ Cardinality(A) \in Nat
            /\ Cardinality(A \cup B) = Cardinality(A) + Cardinality(B) - Cardinality(A \cap B)
        BY <3>2, FS_Union, FS_CardinalityType
      <3>. QED BY <2>5, <3>3 DEF A, B
    <2>8. Cardinality(U(r) \cap o[l]) = 0
      BY <2>5, FS_EmptySet
    <2>. QED BY <2>2, <2>4, <2>6, <2>7, <2>8 DEF r
  <1>6. Cardinality(S) \in K
    <2> HIDE DEF K
    <2>. QED BY <1>2, <1>4, <1>5, SetInduction
  <1> HIDE DEF Good
  <1>7. Good(S, F)
    BY <1>6
  <1>. QED BY <1>1, <1>7 DEF Good

LEMMA SumPositive ==
  ASSUME NEW S, IsFiniteSet(S), \A l \in S : linkMatrix[l] \in Nat \ {0}
  PROVE  Sum(S) \in Nat /\ (S # {} => Sum(S) # 0)
  <1> DEFINE Good(t, F) == F[t] \in Nat /\ (t # {} => F[t] # 0)
  <1>1. PICK F : Adds(S, F) /\ Sum(S) = F[S]
    BY SumAdds
  <1> DEFINE K == {k \in Nat : \A t \in SUBSET S : Cardinality(t) = k => Good(t, F)}
  <1>2. \A t \in SUBSET S : IsFiniteSet(t) /\ Cardinality(t) \in Nat
    BY FS_Subset, FS_CardinalityType
  <1>3. 0 \in K
    <2>1. \A t \in SUBSET S : Cardinality(t) = 0 => t = {}
      BY <1>2, FS_EmptySet
    <2>. QED BY <1>1, <2>1 DEF Adds
  <1>4. ASSUME NEW k \in Nat, k \in K PROVE k + 1 \in K
    <2> SUFFICES ASSUME NEW t \in SUBSET S, Cardinality(t) = k + 1 PROVE Good(t, F)
      OBVIOUS
    <2>1. t # {}
      BY FS_EmptySet
    <2>2. PICK l \in t : F[t] = F[t \ {l}] + linkMatrix[l]
      BY <1>1, <2>1 DEF Adds
    <2> DEFINE r == t \ {l}
    <2>3. Cardinality(r) = k /\ r \in SUBSET S
      <3>1. Cardinality(r) = Cardinality(t) - 1
        BY <1>2, FS_RemoveElement
      <3>. QED BY <3>1
    <2>4. F[r] \in Nat
      BY <1>4, <2>3
    <2>5. linkMatrix[l] \in Nat \ {0}
      OBVIOUS
    <2>. QED BY <2>2, <2>4, <2>5
  <1>5. Cardinality(S) \in K
    <2> HIDE DEF K
    <2>. QED BY <1>2, <1>3, <1>4, SetInduction
  <1>. QED BY <1>1, <1>5

-----------------------------------------------------------------------------
(* The reduction to the declared pages.                                    *)

\* The recursive function of the names of declared pages
NamesStep(i, g) ==
    IF i = 0 THEN << >> ELSE IF i \in defset THEN Append(g[i - 1], idinv[i]) ELSE g[i - 1]

LEMMA DeclaredSteps ==
  ASSUME Len(idinv) \in Nat
  PROVE  \A i \in 0..Len(idinv) : DeclaredNames[i] = NamesStep(i, DeclaredNames)
  <1> DEFINE F(n, g) == g = [i \in 0..n |-> NamesStep(i, g)]
             K == {n \in Nat : \E g : F(n, g)}
             z == Len(idinv)
  <1>1. 0 \in K
    <2> DEFINE g == [i \in 0..0 |-> << >>]
    <2>1. \A i \in 0..0 : NamesStep(i, g) = << >>
      BY DEF NamesStep
    <2>2. g = [i \in 0..0 |-> NamesStep(i, g)]
      BY <2>1
    <2>. QED BY <2>2
  <1>2. ASSUME NEW n \in Nat, n \in K PROVE n + 1 \in K
    <2>1. PICK g : g = [i \in 0..n |-> NamesStep(i, g)]
      BY <1>2
    <2> DEFINE h == [i \in 0..(n + 1) |-> NamesStep(i, g)]
    <2>2. \A i \in 0..n : i \in 0..(n + 1) /\ h[i] = g[i]
      BY <2>1
    <2>3. ASSUME NEW i \in 0..(n + 1) PROVE h[i] = NamesStep(i, h)
      <3>1. CASE i = 0
        BY <3>1 DEF NamesStep
      <3>2. CASE i # 0
        <4>1. i - 1 \in 0..n
          BY <3>2
        <4>2. h[i - 1] = g[i - 1]
          BY <2>2, <4>1
        <4>. QED BY <3>2, <4>2 DEF NamesStep
      <3>. QED BY <3>1, <3>2
    <2>4. F(n + 1, h)
      BY <2>3
    <2> HIDE DEF F, h
    <2>. QED BY <2>4
  <1> HIDE DEF K, F
  <1>3. z \in K
    BY <1>1, <1>2, SetInduction
  <1>4. \E g : g = [i \in 0..z |-> NamesStep(i, g)]
    BY <1>3 DEF K, F
  <1>5. DeclaredNames = CHOOSE g : g = [i \in 0..z |-> NamesStep(i, g)]
    BY DEF DeclaredNames, NamesStep
  <1>6. DeclaredNames = [i \in 0..z |-> NamesStep(i, DeclaredNames)]
    BY <1>4, <1>5
  <1>. QED BY <1>6

KeptNames == DeclaredNames[Len(idinv)]

\* The declared pages keep their names; nothing else is named.
LEMMA KeptNamesAre ==
  ASSUME Distinct(idinv)
  PROVE  /\ Distinct(KeptNames)
         /\ \A p \in 1..Len(idinv) : p \in defset => Has(KeptNames, idinv[p])
         /\ \A q \in 1..Len(KeptNames) : \E p \in 1..Len(idinv) : p \in defset /\ KeptNames[q] = idinv[p]
  <1> DEFINE z == Len(idinv)
             D == DeclaredNames
             Good(k) == /\ Distinct(D[k])
                        /\ \A p \in 1..k : p \in defset => Has(D[k], idinv[p])
                        /\ \A q \in 1..Len(D[k]) : \E p \in 1..k : p \in defset /\ D[k][q] = idinv[p]
             K == {k \in Nat : k <= z => Good(k)}
  <1>1. z \in Nat /\ \A p \in 1..z : idinv[p] \in Text
    BY SeqIsFunction DEF Distinct
  <1>2. \A i \in 0..z : D[i] = NamesStep(i, D)
    BY <1>1, DeclaredSteps
  <1> HIDE DEF D, z
  <1>3. 0 \in K
    <2>1. D[0] = << >>
      BY <1>1, <1>2 DEF NamesStep
    <2>. QED BY <2>1, NoNames
  <1>4. ASSUME NEW k \in Nat, k \in K PROVE k + 1 \in K
    <2>0. ASSUME k + 1 <= z PROVE Good(k + 1)
      <3>1. k + 1 \in 0..z /\ k + 1 \in 1..z /\ (k + 1) - 1 = k /\ k + 1 # 0
        BY <1>1, <2>0
      <3>2. Good(k)
        BY <1>1, <1>4, <2>0
      <3>3. D[k + 1] = IF k + 1 \in defset THEN Append(D[k], idinv[k + 1]) ELSE D[k]
        BY <1>2, <3>1 DEF NamesStep
      <3>4. \A p \in 1..(k + 1) : p \in 1..k \/ p = k + 1
        OBVIOUS
      <3>5. CASE k + 1 \notin defset
        <4>1. D[k + 1] = D[k]
          BY <3>3, <3>5
        <4>. QED BY <3>2, <3>4, <3>5, <4>1
      <3>6. CASE k + 1 \in defset
        <4>1. idinv[k + 1] \in Text
          BY <1>1, <3>1
        <4>2. idinv[k + 1] \notin Range(D[k])
          <5> SUFFICES ASSUME idinv[k + 1] \in Range(D[k]) PROVE FALSE
            OBVIOUS
          <5>1. PICK q \in 1..Len(D[k]) : D[k][q] = idinv[k + 1]
            BY <3>2, HasIsInRange DEF Has, Distinct
          <5>2. PICK p \in 1..k : idinv[p] = idinv[k + 1]
            BY <3>2, <5>1
          <5>3. p \in 1..z /\ p # k + 1
            BY <1>1, <3>1
          <5>. QED BY <3>1, <5>2, <5>3 DEF Distinct, z
        <4>3. D[k + 1] = WithName(D[k], idinv[k + 1])
          BY <3>3, <3>6, <4>2 DEF WithName
        <4>4. /\ Distinct(D[k + 1]) /\ Begins(D[k], D[k + 1]) /\ Has(D[k + 1], idinv[k + 1])
          BY <3>2, <4>1, <4>3, NameAdded
        <4>5. \A n : Has(D[k], n) => Has(D[k + 1], n)
          BY SMTT(30), <3>2, <4>4, SeqIsFunction DEF Has, Begins, Distinct
        <4>6. \A q \in 1..Len(D[k + 1]) : D[k + 1][q] = idinv[k + 1] \/ (q \in 1..Len(D[k]) /\ D[k + 1][q] = D[k][q])
          <5> DEFINE w == D[k]
                     x == idinv[k + 1]
                     y == Append(w, x)
          <5>1. w \in Seq(Text)
            BY <3>2 DEF Distinct
          <5>2. D[k + 1] = y
            BY <3>3, <3>6
          <5> HIDE DEF w, x
          <5>3. \A q \in 1..Len(y) : y[q] = x \/ (q \in 1..Len(w) /\ y[q] = w[q])
            BY <4>1, <5>1
          <5>. QED BY <5>2, <5>3 DEF w, x
        <4>7. \A p \in 1..(k + 1) : p \in defset => Has(D[k + 1], idinv[p])
          BY <3>2, <3>4, <4>4, <4>5
        <4>8. \A q \in 1..Len(D[k + 1]) : \E p \in 1..(k + 1) : p \in defset /\ D[k + 1][q] = idinv[p]
          <5>1. \A p \in 1..k : p \in 1..(k + 1)
            OBVIOUS
          <5>2. k + 1 \in 1..(k + 1)
            OBVIOUS
          <5>. QED BY <3>2, <3>6, <4>6, <5>1, <5>2
        <4>. QED BY <4>4, <4>7, <4>8
      <3>. QED BY <3>5, <3>6
    <2> HIDE DEF Good
    <2>. QED BY <2>0
  <1> HIDE DEF K
  <1>5. z \in K
    BY <1>1, <1>3, <1>4, SetInduction
  <1>6. Good(z)
    BY <1>1, <1>5 DEF K
  <1>. QED BY <1>6 DEF KeptNames, D, z

\* The links between declared pages, by the new identifiers
NewLinks ==
    [l \in KeptLinks |-> <<IdOf(KeptNames, idinv[l[1]]), IdOf(KeptNames, idinv[Resolved(l[2])])>>]

\* The links that become one
Joined(n) == {l \in KeptLinks : NewLinks[l] = n}

Rows(L) == {0} \cup {l[1] : l \in L}
Cols(L) == {0} \cup {l[2] : l \in L}

LEMMA ReduceMeans ==
  ASSUME Reduce
  PROVE  /\ phase = "reduce" /\ phase' = "calculate" /\ redirectMap' = Empty
         /\ idinv' = KeptNames /\ defset' = DOMAIN KeptNames
         /\ linkMatrix' = [n \in Range(NewLinks) |-> Sum(Joined(n))]
         /\ maxrow' = Max(Rows(Range(NewLinks))) /\ maxcol' = Max(Cols(Range(NewLinks)))
         /\ UNCHANGED <<input, pos, declVars, dummies, declared>>
  <1> DEFINE new(ns) == [l \in KeptLinks |-> <<IdOf(ns, idinv[l[1]]), IdOf(ns, idinv[Resolved(l[2])])>>]
             Means(ns, w) ==
                 /\ idinv' = ns
                 /\ linkMatrix' = [n \in Range(w) |-> Sum({l \in KeptLinks : w[l] = n})]
                 /\ maxrow' = Max({0} \cup {l[1] : l \in Range(w)})
                 /\ maxcol' = Max({0} \cup {l[2] : l \in Range(w)})
                 /\ defset' = DOMAIN ns
  <1>1. \E ns \in {KeptNames} : \E w \in {new(ns)} : Means(ns, w)
    BY Zenon DEF Reduce, KeptNames
  <1>2. Means(KeptNames, new(KeptNames))
    <2> HIDE DEF Means, new
    <2>. QED BY <1>1
  <1>3. new(KeptNames) = NewLinks
    BY DEF NewLinks
  <1>4. Means(KeptNames, NewLinks)
    <2> HIDE DEF Means, new
    <2>. QED BY <1>2, <1>3
  <1>5. /\ phase = "reduce" /\ phase' = "calculate" /\ redirectMap' = Empty
        /\ UNCHANGED <<input, pos, declVars, dummies, declared>>
    BY DEF Reduce
  <1>. QED BY <1>4, <1>5, Zenon DEF Rows, Cols, Joined

LEMMA NewLinksTyped ==
  ASSUME PageInv
  PROVE  /\ IsFiniteSet(KeptLinks) /\ KeptLinks \subseteq DOMAIN linkMatrix
         /\ NewLinks \in [KeptLinks -> (1..Len(KeptNames)) \X (1..Len(KeptNames))]
         /\ IsFiniteSet(Range(NewLinks))
         /\ Range(NewLinks) \subseteq (1..Len(KeptNames)) \X (1..Len(KeptNames))
  <1> DEFINE n == Len(KeptNames)
             P == (1..n) \X (1..n)
             f(l) == IdOf(KeptNames, idinv[l[1]])
             g(l) == IdOf(KeptNames, idinv[Resolved(l[2])])
  <1>1. KeptLinks \subseteq DOMAIN linkMatrix
    BY DEF KeptLinks
  <1>2. IsFiniteSet(KeptLinks)
    BY <1>1, FS_Subset DEF PageInv, Matrix
  <1>3. ASSUME NEW l \in KeptLinks PROVE f(l) \in 1..n /\ g(l) \in 1..n
    <2>1. l[1] \in defset /\ Resolved(l[2]) \in defset
      BY DEF KeptLinks
    <2>2. l[1] \in 1..Len(idinv) /\ Resolved(l[2]) \in 1..Len(idinv)
      BY <2>1 DEF PageInv
    <2>3. Distinct(KeptNames) /\ Has(KeptNames, idinv[l[1]]) /\ Has(KeptNames, idinv[Resolved(l[2])])
      BY <2>1, <2>2, KeptNamesAre DEF PageInv
    <2>. QED BY <2>3, IdIsPlace
  <1>4. NewLinks = [l \in KeptLinks |-> <<f(l), g(l)>>]
    BY DEF NewLinks
  <1> HIDE DEF f, g
  <1>5. NewLinks \in [KeptLinks -> P]
    BY <1>3, <1>4
  <1> HIDE DEF P
  <1>6. IsFiniteSet(Range(NewLinks)) /\ Range(NewLinks) \subseteq P
    <2>1. IsFiniteSet(Range(NewLinks))
      BY <1>2, <1>5, RangeFinite
    <2>2. Range(NewLinks) \subseteq P
      BY <1>5 DEF Range
    <2>. QED BY <2>1, <2>2
  <1>. QED BY <1>1, <1>2, <1>5, <1>6 DEF P

LEMMA ReduceKeeps ==
  ASSUME PageInv, DummyInv, Reduce
  PROVE  PageInv' /\ DummyInv'
  <1> DEFINE ns == KeptNames
             n == Len(ns)
             R == Range(NewLinks)
  <1>1. /\ phase = "reduce" /\ phase' = "calculate" /\ redirectMap' = Empty
        /\ idinv' = ns /\ defset' = DOMAIN ns
        /\ linkMatrix' = [l \in R |-> Sum(Joined(l))]
        /\ maxrow' = Max(Rows(R)) /\ maxcol' = Max(Cols(R))
        /\ UNCHANGED <<input, pos, declVars, dummies, declared>>
    BY ReduceMeans
  <1>2. Distinct(ns) /\ n \in Nat /\ DOMAIN ns = 1..n
    <2>1. Distinct(ns)
      BY KeptNamesAre DEF PageInv
    <2>. QED BY <2>1, SeqIsFunction DEF Distinct
  <1>3. IsFiniteSet(R) /\ R \subseteq (1..n) \X (1..n)
    BY NewLinksTyped
  <1>4. ASSUME NEW l \in R PROVE Sum(Joined(l)) \in Nat \ {0}
    <2>1. Joined(l) \subseteq KeptLinks /\ KeptLinks \subseteq DOMAIN linkMatrix /\ IsFiniteSet(KeptLinks)
      BY NewLinksTyped DEF Joined
    <2>2. IsFiniteSet(Joined(l)) /\ \A j \in Joined(l) : linkMatrix[j] \in Nat \ {0}
      BY <2>1, FS_Subset DEF PageInv, Matrix
    <2>3. Joined(l) # {}
      <3>1. DOMAIN NewLinks = KeptLinks
        BY DEF NewLinks
      <3>. QED BY <3>1 DEF Range, Joined
    <2>. QED BY <2>2, <2>3, SumPositive
  <1> HIDE DEF ns, n, R
  <1>5. Matrix(linkMatrix', n) /\ DOMAIN linkMatrix' = R
    BY <1>1, <1>3, <1>4 DEF Matrix
  <1>6. maxrow' \in 0..n /\ maxcol' \in 0..n /\ Bounds(linkMatrix', maxrow', maxcol')
    <2> DEFINE A == Rows(R)
               B == Cols(R)
    <2>0. \A l \in R : l[1] \in 1..n /\ l[2] \in 1..n
      BY <1>3
    <2>1. A \in SUBSET (0..n) /\ A # {} /\ B \in SUBSET (0..n) /\ B # {}
      <3>1. \A x \in A : x = 0 \/ \E l \in R : x = l[1]
        BY DEF Rows
      <3>2. \A x \in B : x = 0 \/ \E l \in R : x = l[2]
        BY DEF Cols
      <3>3. 0 \in A /\ 0 \in B
        BY DEF Rows, Cols
      <3> HIDE DEF A, B
      <3>4. \A x \in A : x \in 0..n
        BY <1>2, <2>0, <3>1
      <3>5. \A x \in B : x \in 0..n
        BY <1>2, <2>0, <3>2
      <3>. QED BY <3>3, <3>4, <3>5
    <2>2. /\ Max(A) \in A /\ \A i \in A : i <= Max(A)
          /\ Max(B) \in B /\ \A i \in B : i <= Max(B)
      <3> HIDE DEF A, B
      <3>. QED BY <1>2, <2>1, MaxIsLargest
    <2>3. /\ \A l \in R : l[1] <= Max(A) /\ l[2] <= Max(B)
          /\ Max(A) = 0 \/ \E l \in R : l[1] = Max(A)
          /\ Max(B) = 0 \/ \E l \in R : l[2] = Max(B)
      BY <2>2 DEF Rows, Cols
    <2> HIDE DEF A, B
    <2>4. maxrow' = Max(A) /\ maxcol' = Max(B)
      BY <1>1 DEF A, B
    <2>. QED BY <1>5, <2>1, <2>2, <2>3, <2>4 DEF Bounds
  <1>7. PageInv'
    <2>1. DOMAIN redirectMap' = {}
      BY <1>1, EmptyMatrix
    <2>. QED BY <1>1, <1>2, <1>5, <1>6, <2>1 DEF PageInv, n, declVars
  <1>8. DummyInv'
    BY <1>1 DEF DummyInv
  <1>. QED BY <1>7, <1>8

-----------------------------------------------------------------------------
(* The size of the matrix.                                                 *)

LEMMA RangeOfDummies ==
         Range(Dummies) = (IF maxrow < Len(idinv) THEN {<<1, Len(idinv)>>} ELSE {})
                          \cup (IF maxcol < Len(idinv) THEN {<<Len(idinv), 1>>} ELSE {})
  <1>1. CASE maxrow < Len(idinv) /\ maxcol < Len(idinv)
    BY <1>1 DEF Dummies, Range
  <1>2. CASE maxrow < Len(idinv) /\ ~(maxcol < Len(idinv))
    BY <1>2 DEF Dummies, Range
  <1>3. CASE ~(maxrow < Len(idinv)) /\ maxcol < Len(idinv)
    BY <1>3 DEF Dummies, Range
  <1>4. CASE ~(maxrow < Len(idinv)) /\ ~(maxcol < Len(idinv))
    BY <1>4 DEF Dummies, Range
  <1>. QED BY <1>1, <1>2, <1>3, <1>4

LEMMA CalculateKeeps ==
  ASSUME PageInv, DummyInv, Calculate
  PROVE  PageInv' /\ DummyInv'
  <1>1. /\ phase' = "done" /\ UNCHANGED <<input, pos, declVars, pageVars, declared>>
        /\ idinv # << >> => dummies' = Dummies
    BY DEF Calculate
  <1>2. PageInv'
    BY <1>1 DEF PageInv, pageVars, declVars
  <1>3. Dummies' = Dummies
    BY <1>1 DEF Dummies, pageVars
  <1>4. DummyInv'
    BY <1>1, <1>3 DEF DummyInv, pageVars
  <1>. QED BY <1>2, <1>4

LEMMA PageInvariant == Spec => [](PageInv /\ DummyInv)
  <1>1. Init => PageInv /\ DummyInv
    BY InitInv
  <1>2. PageInv /\ DummyInv /\ [Next]_vars => PageInv' /\ DummyInv'
    <2> SUFFICES ASSUME PageInv, DummyInv, [Next]_vars PROVE PageInv' /\ DummyInv'
      OBVIOUS
    <2>1. CASE StartRule
      BY <2>1, StartRuleKeeps
    <2>2. CASE NameOrEqual
      BY <2>2, NameOrEqualKeeps
    <2>3. CASE Redirect
      BY <2>3, RedirectKeeps
    <2>4. CASE EndRule
      BY <2>4, EndRuleKeeps
    <2>5. CASE EndOfInput
      BY <2>5, EndOfInputKeeps
    <2>6. CASE Reduce
      BY <2>6, ReduceKeeps
    <2>7. CASE Calculate
      BY <2>7, CalculateKeeps
    <2>8. CASE UNCHANGED vars
      BY <2>8 DEF vars, declVars, pageVars, PageInv, DummyInv, Dummies
    <2>9. CASE Ended
      BY <2>8, <2>9 DEF Ended
    <2>. QED BY <2>1, <2>2, <2>3, <2>4, <2>5, <2>6, <2>7, <2>8, <2>9 DEF Next, Step
  <1>. QED BY <1>1, <1>2, PTL DEF Spec

\* The identifiers name pages, no two the same; the matrix counts links
\* between pages within its bounds; a redirect leads to another page.
THEOREM PagesTypeCorrect == Spec => []TypeOK
  <1>1. PageInv => TypeOK
    <2> SUFFICES ASSUME PageInv PROVE TypeOK
      OBVIOUS
    <2>1. Distinct(idinv) /\ Pages = 1..Len(idinv)
      BY SeqIsFunction DEF PageInv, Distinct, Pages
    <2>2. Cardinality(Range(idinv)) = Len(idinv)
      BY <2>1, RangeCounted
    <2>3. \A l \in DOMAIN linkMatrix : linkMatrix[l] > 0 /\ l[1] <= maxrow /\ l[2] <= maxcol
      BY DEF PageInv, Matrix, Bounds
    <2>4. DOMAIN linkMatrix \subseteq Pages \X Pages
      BY <2>1 DEF PageInv, Matrix
    <2>. QED BY <2>1, <2>2, <2>3, <2>4 DEF PageInv, TypeOK
  <1>. QED BY <1>1, PageInvariant, PTL

\* Whatever was declared, the matrix that is calculated with has exactly one
\* row and one column for every page, by a link or by a dummy; no input with a
\* page is exempt, a single page without a link has two dummies at one place.
THEOREM MatrixAlwaysFits == Spec => []MatrixFits
  <1>1. PageInv /\ DummyInv => MatrixFits
    <2> SUFFICES ASSUME PageInv, DummyInv, phase = "done", idinv # << >>,
                        NEW all, all = Elements \cup Range(dummies)
                 PROVE  Max({e[1] : e \in all}) = Len(idinv) /\ Max({e[2] : e \in all}) = Len(idinv)
      BY DEF MatrixFits
    <2> DEFINE n == Len(idinv)
               A == {e[1] : e \in all}
               B == {e[2] : e \in all}
    <2>1. n \in Nat \ {0}
      BY DEF PageInv, Distinct
    <2>2. /\ maxrow \in 0..n /\ maxcol \in 0..n /\ Bounds(linkMatrix, maxrow, maxcol)
          /\ \A l \in DOMAIN linkMatrix : l[1] \in 1..n /\ l[2] \in 1..n
      BY DEF PageInv, Matrix
    <2>3. Range(dummies) = (IF maxrow < n THEN {<<1, n>>} ELSE {}) \cup (IF maxcol < n THEN {<<n, 1>>} ELSE {})
      BY RangeOfDummies DEF DummyInv
    <2> HIDE DEF n
    <2>4. ASSUME NEW e \in all PROVE e[1] \in Nat /\ e[1] <= n /\ e[2] \in Nat /\ e[2] <= n
      <3>1. CASE e \in Elements
        <4>1. PICK l \in DOMAIN linkMatrix : e = <<l[2], l[1]>>
          BY <3>1 DEF Elements
        <4>2. l[1] \in 1..n /\ l[2] \in 1..n
          BY <2>2
        <4>. QED BY <2>1, <4>1, <4>2
      <3>2. CASE e \in Range(dummies)
        BY <2>1, <2>3, <3>2
      <3>. QED BY <3>1, <3>2
    <2>5. n \in A
      <3>1. CASE maxcol < n
        <4>1. <<n, 1>> \in all
          BY <2>3, <3>1
        <4>. QED BY <4>1
      <3>2. CASE ~(maxcol < n)
        <4>1. PICK l \in DOMAIN linkMatrix : l[2] = n
          BY <2>1, <2>2, <3>2 DEF Bounds
        <4>2. <<l[2], l[1]>> \in all
          BY DEF Elements
        <4>. QED BY <4>1, <4>2
      <3>. QED BY <3>1, <3>2
    <2>6. n \in B
      <3>1. CASE maxrow < n
        <4>1. <<1, n>> \in all
          BY <2>3, <3>1
        <4>. QED BY <4>1
      <3>2. CASE ~(maxrow < n)
        <4>1. PICK l \in DOMAIN linkMatrix : l[1] = n
          BY <2>1, <2>2, <3>2 DEF Bounds
        <4>2. <<l[2], l[1]>> \in all
          BY DEF Elements
        <4>. QED BY <4>1, <4>2
      <3>. QED BY <3>1, <3>2
    <2>7. /\ \A i \in A : i \in Nat /\ i <= n
          /\ \A i \in B : i \in Nat /\ i <= n
      BY <2>4
    <2> HIDE DEF A, B
    <2>8. Max(A) = n /\ Max(B) = n
      BY <2>5, <2>6, <2>7, MaxIsBound
    <2>. QED BY <2>8 DEF A, B, n
  <1>. QED BY <1>1, PageInvariant, PTL

-----------------------------------------------------------------------------
(* The links that were declared.                                           *)

Declaration == [name : Name, links : Seq(Name), redirect : Text]

\* The declarations ds as the model reads them: pages declared, redirects of a
\* page, and the links from a page to another, by declaration and place
DeclaredIn(ds, n) == \E i \in 1..Len(ds) : ds[i].name = n /\ ds[i].links # << >>
RedirectsIn(ds, n) == {i \in 1..Len(ds) : ds[i].name = n /\ ds[i].redirect \notin {"", n}}
IsSpot(ds, s, f, t) ==
    /\ s[1] \in 1..Len(ds) /\ ds[s[1]].name = f
    /\ s[2] \in 1..Len(ds[s[1]].links) /\ ds[s[1]].links[s[2]] = t
Spots(ds, f, t) == {s \in Nat \X Nat : IsSpot(ds, s, f, t)}

RuleNamedIn(r, ids) ==
    /\ Has(ids, r.name)
    /\ \A n : Has(r.links, n) => Has(ids, n)
    /\ r.redirect # "" => Has(ids, r.redirect)

CountOf(m, p, q) == IF <<p, q>> \in DOMAIN m THEN m[<<p, q>>] ELSE 0

\* What the parser knows says what the declarations ds say.
PageKnown(ids, def, redir, ds, p) ==
    /\ ids[p] # "" => (p \in def <=> DeclaredIn(ds, ids[p]))
    /\ p \in DOMAIN redir <=> RedirectsIn(ds, ids[p]) # {}
    /\ p \in DOMAIN redir => ids[redir[p]] = ds[Max(RedirectsIn(ds, ids[p]))].redirect

LinkKnown(ids, m, ds, p, q) ==
    /\ IsFiniteSet(Spots(ds, ids[p], ids[q]))
    /\ CountOf(m, p, q) = Cardinality(Spots(ds, ids[p], ids[q]))

Known(ids, def, redir, m, ds) ==
    /\ ds \in Seq(Declaration)
    /\ \A i \in 1..Len(ds) : RuleNamedIn(ds[i], ids)
    /\ \A p \in 1..Len(ids) : PageKnown(ids, def, redir, ds, p)
    /\ \A p, q \in 1..Len(ids) : LinkKnown(ids, m, ds, p, q)

Sized(ids, def, redir, m) ==
    /\ Distinct(ids) /\ def \subseteq 1..Len(ids)
    /\ DOMAIN redir \subseteq 1..Len(ids)
    /\ \A p \in DOMAIN redir : redir[p] \in 1..Len(ids)
    /\ Matrix(m, Len(ids))

LEMMA DeclarationTyped ==
  ASSUME NEW ds \in Seq(Declaration)
  PROVE  /\ Len(ds) \in Nat /\ DOMAIN ds = 1..Len(ds)
         /\ \A i \in 1..Len(ds) : /\ ds[i].name \in Name /\ ds[i].links \in Seq(Name)
                                  /\ ds[i].redirect \in Text
  <1>1. Len(ds) \in Nat /\ DOMAIN ds = 1..Len(ds) /\ \A i \in 1..Len(ds) : ds[i] \in Declaration
    BY SeqIsFunction
  <1>. QED BY <1>1 DEF Declaration

\* A name that no page has appears in no declaration.
LEMMA UnnamedIsNowhere ==
  ASSUME NEW ds \in Seq(Declaration), NEW ids, \A i \in 1..Len(ds) : RuleNamedIn(ds[i], ids),
         NEW n, ~Has(ids, n)
  PROVE  /\ ~DeclaredIn(ds, n) /\ RedirectsIn(ds, n) = {}
         /\ \A t : Spots(ds, n, t) = {} /\ Spots(ds, t, n) = {}
  <1>1. \A i \in 1..Len(ds) : ds[i].name # n
    BY DEF RuleNamedIn
  <1>2. \A i \in 1..Len(ds) : \A j \in 1..Len(ds[i].links) : ds[i].links[j] # n
    BY DEF RuleNamedIn, Has
  <1>. QED BY <1>1, <1>2 DEF DeclaredIn, RedirectsIn, Spots, IsSpot

\* New names change nothing of what is known.
LEMMA KnownWithNames ==
  ASSUME NEW ids, NEW def, NEW redir, NEW m, NEW ds, Sized(ids, def, redir, m),
         Known(ids, def, redir, m, ds), NEW ns, Distinct(ns), Begins(ids, ns)
  PROVE  Known(ns, def, redir, m, ds)
  <1> DEFINE k == Len(ids)
             n == Len(ns)
  <1>1. k \in Nat /\ n \in Nat /\ k <= n /\ \A p \in 1..k : p \in 1..n /\ ns[p] = ids[p]
    BY SeqIsFunction DEF Sized, Distinct, Begins
  <1>2. ds \in Seq(Declaration) /\ \A i \in 1..Len(ds) : RuleNamedIn(ds[i], ids)
    BY DEF Known
  <1>3. ASSUME NEW p \in 1..n, p \notin 1..k PROVE ~Has(ids, ns[p])
    <2>1. \A q \in 1..k : ns[q] # ns[p]
      BY <1>1, <1>3 DEF Distinct
    <2>. QED BY <1>1, <2>1 DEF Has
  <1>4. \A i \in 1..Len(ds) : RuleNamedIn(ds[i], ns)
    <2>1. \A x : Has(ids, x) => Has(ns, x)
      BY <1>1 DEF Has
    <2>. QED BY <1>2, <2>1 DEF RuleNamedIn
  <1> HIDE DEF k, n
  <1>5. ASSUME NEW p \in 1..n PROVE PageKnown(ns, def, redir, ds, p)
    <2>1. CASE p \in 1..k
      <3>1. PageKnown(ids, def, redir, ds, p) /\ ns[p] = ids[p]
        BY <1>1, <2>1 DEF Known, k
      <3>2. p \in DOMAIN redir => ns[redir[p]] = ids[redir[p]]
        BY <1>1 DEF Sized, k
      <3>. QED BY <3>1, <3>2 DEF PageKnown
    <2>2. CASE p \notin 1..k
      <3>1. ~DeclaredIn(ds, ns[p]) /\ RedirectsIn(ds, ns[p]) = {}
        BY <1>2, <1>3, <2>2, UnnamedIsNowhere
      <3>2. p \notin def /\ p \notin DOMAIN redir
        BY <2>2 DEF Sized, k
      <3>. QED BY <3>1, <3>2 DEF PageKnown
    <2>. QED BY <2>1, <2>2
  <1>6. ASSUME NEW p \in 1..n, NEW q \in 1..n PROVE LinkKnown(ns, m, ds, p, q)
    <2>1. CASE p \in 1..k /\ q \in 1..k
      <3>1. LinkKnown(ids, m, ds, p, q) /\ ns[p] = ids[p] /\ ns[q] = ids[q]
        BY <1>1, <2>1 DEF Known, k
      <3>. QED BY <3>1 DEF LinkKnown
    <2>2. CASE ~(p \in 1..k /\ q \in 1..k)
      <3>1. Spots(ds, ns[p], ns[q]) = {}
        BY <1>2, <1>3, <2>2, UnnamedIsNowhere
      <3>2. <<p, q>> \notin DOMAIN m
        BY <2>2 DEF Sized, Matrix, k
      <3>. QED BY <3>1, <3>2, FS_EmptySet DEF LinkKnown, CountOf
    <2>. QED BY <2>1, <2>2
  <1>. QED BY <1>2, <1>4, <1>5, <1>6 DEF Known, n

-----------------------------------------------------------------------------
(* One more declaration.                                                   *)

LEMMA OneMore ==
  ASSUME NEW ds \in Seq(Declaration), NEW r \in Declaration
  PROVE  LET es == Append(ds, r)
             k == Len(ds) + 1
         IN  /\ es \in Seq(Declaration) /\ Len(ds) \in Nat /\ Len(es) = k /\ es[k] = r
             /\ \A i \in 1..Len(ds) : es[i] = ds[i] /\ i \in 1..k /\ i # k
             /\ \A i \in 1..k : i \in 1..Len(ds) \/ i = k
  OBVIOUS

LEMMA DeclaredMore ==
  ASSUME NEW ds \in Seq(Declaration), NEW r \in Declaration, NEW n
  PROVE  DeclaredIn(Append(ds, r), n) <=> DeclaredIn(ds, n) \/ (r.name = n /\ r.links # << >>)
  <1> DEFINE es == Append(ds, r)
             k == Len(ds) + 1
  <1>1. /\ Len(ds) \in Nat /\ Len(es) = k /\ es[k] = r
        /\ \A i \in 1..Len(ds) : es[i] = ds[i] /\ i \in 1..k
        /\ \A i \in 1..k : i \in 1..Len(ds) \/ i = k
    BY OneMore
  <1>2. k \in 1..k
    BY <1>1
  <1> HIDE DEF es, k
  <1>3. DeclaredIn(es, n) <=> DeclaredIn(ds, n) \/ (r.name = n /\ r.links # << >>)
    BY <1>1, <1>2 DEF DeclaredIn
  <1>. QED BY <1>3 DEF es

\* A later redirect of a page takes the place of the earlier ones.
LEMMA RedirectsMore ==
  ASSUME NEW ds \in Seq(Declaration), NEW r \in Declaration, NEW n
  PROVE  LET es == Append(ds, r)
             new == r.name = n /\ r.redirect \notin {"", n}
         IN  /\ RedirectsIn(es, n) # {} <=> RedirectsIn(ds, n) # {} \/ new
             /\ new => es[Max(RedirectsIn(es, n))].redirect = r.redirect
             /\ ~new /\ RedirectsIn(ds, n) # {} =>
                   es[Max(RedirectsIn(es, n))].redirect = ds[Max(RedirectsIn(ds, n))].redirect
  <1> DEFINE es == Append(ds, r)
             k == Len(ds) + 1
             new == r.name = n /\ r.redirect \notin {"", n}
             R == RedirectsIn(ds, n)
             E == RedirectsIn(es, n)
  <1>1. /\ Len(ds) \in Nat /\ Len(es) = k /\ es[k] = r
        /\ \A i \in 1..Len(ds) : es[i] = ds[i] /\ i \in 1..k /\ i # k
        /\ \A i \in 1..k : i \in 1..Len(ds) \/ i = k
    BY OneMore
  <1>2. k \in 1..k /\ k \in Nat
    BY <1>1
  <1> HIDE DEF es, k
  <1>3. E = IF new THEN R \cup {k} ELSE R
    <2>1. \A i : i \in E <=> i \in R \/ (new /\ i = k)
      BY <1>1, <1>2 DEF RedirectsIn
    <2>. QED BY <2>1
  <1>4. R \subseteq 1..Len(ds)
    BY DEF RedirectsIn
  <1> HIDE DEF new, R, E
  <1>5. ASSUME new PROVE Max(E) = k
    <2>1. E = R \cup {k}
      BY <1>3, <1>5
    <2>2. \A i \in E : i \in Nat /\ i <= k
      BY <1>1, <1>2, <1>4, <2>1
    <2>3. k \in E
      BY <2>1
    <2>. QED BY <2>2, <2>3, MaxIsBound
  <1>6. ASSUME ~new, R # {} PROVE Max(E) = Max(R) /\ es[Max(E)] = ds[Max(R)]
    <2>1. E = R
      BY <1>3, <1>6
    <2>2. R \in SUBSET (0..Len(ds))
      BY <1>1, <1>4
    <2>3. Max(R) \in R
      BY <1>1, <1>6, <2>2, MaxIsLargest
    <2>. QED BY <1>1, <1>4, <2>1, <2>3
  <1>. QED BY <1>1, <1>3, <1>5, <1>6 DEF new, es, R, E

\* The places of a sequence of names where a name is
Places(s, t) == {j \in 1..Len(s) : s[j] = t}

LEMMA PlacesFinite ==
  ASSUME NEW s \in Seq(Name), NEW t
  PROVE  IsFiniteSet(Places(s, t)) /\ Cardinality(Places(s, t)) \in Nat
  <1>1. Places(s, t) \subseteq 1..Len(s) /\ IsFiniteSet(1..Len(s))
    BY SeqIsFunction, FS_Interval DEF Places
  <1>. QED BY <1>1, FS_Subset, FS_CardinalityType

LEMMA SpotsMore ==
  ASSUME NEW ds \in Seq(Declaration), NEW r \in Declaration, NEW f, NEW t, IsFiniteSet(Spots(ds, f, t))
  PROVE  LET es == Append(ds, r)
         IN  /\ IsFiniteSet(Spots(es, f, t))
             /\ Cardinality(Spots(es, f, t)) =
                   Cardinality(Spots(ds, f, t)) + (IF r.name = f THEN Cardinality(Places(r.links, t)) ELSE 0)
  <1> DEFINE es == Append(ds, r)
             k == Len(ds) + 1
             J == Places(r.links, t)
             N == {k} \X J
  <1>1. /\ Len(ds) \in Nat /\ Len(es) = k /\ es[k] = r
        /\ \A i \in 1..Len(ds) : es[i] = ds[i] /\ i \in 1..k /\ i # k
        /\ \A i \in 1..k : i \in 1..Len(ds) \/ i = k
    BY OneMore
  <1>2. k \in 1..k /\ k \in Nat
    BY <1>1
  <1>3. r.links \in Seq(Name) /\ Len(r.links) \in Nat
    BY SeqIsFunction DEF Declaration
  <1>4. IsFiniteSet(J) /\ Cardinality(J) \in Nat
    BY <1>3, PlacesFinite
  <1> HIDE DEF es, k
  <1>5. \A s \in Nat \X Nat : IsSpot(es, s, f, t) <=> IsSpot(ds, s, f, t) \/ (r.name = f /\ s[1] = k /\ s[2] \in J)
    BY <1>1, <1>2 DEF IsSpot, Places
  <1>6. \A s \in Nat \X Nat : (s[1] = k /\ s[2] \in J) <=> s \in N
    OBVIOUS
  <1>7. N \subseteq Nat \X Nat
    BY <1>2, <1>3 DEF Places
  <1>8. Spots(es, f, t) = IF r.name = f THEN Spots(ds, f, t) \cup N ELSE Spots(ds, f, t)
    <2> HIDE DEF N, J
    <2>. QED BY <1>5, <1>6, <1>7 DEF Spots
  <1>9. Spots(ds, f, t) \cap N = {}
    <2>1. \A s \in Spots(ds, f, t) : s[1] # k
      BY <1>1 DEF Spots, IsSpot
    <2>2. \A s \in N : s[1] = k
      OBVIOUS
    <2>. QED BY <2>1, <2>2
  <1>10. IsFiniteSet(N) /\ Cardinality(N) = Cardinality(J)
    <2> HIDE DEF J
    <2>1. IsFiniteSet({k}) /\ Cardinality({k}) = 1
      BY FS_Singleton
    <2> DEFINE K == {k}
    <2> HIDE DEF K
    <2>2. IsFiniteSet(K \X J) /\ Cardinality(K \X J) = Cardinality(K) * Cardinality(J)
      BY <1>4, <2>1, FS_Product DEF K
    <2>3. Cardinality(K \X J) = Cardinality(J)
      BY <1>4, <2>1, <2>2 DEF K
    <2>. QED BY <2>2, <2>3 DEF K
  <1> HIDE DEF N, J
  <1>11. CASE r.name = f
    <2> DEFINE A == Spots(ds, f, t)
    <2> HIDE DEF A
    <2>1. IsFiniteSet(A) /\ A \cap N = {} /\ Spots(es, f, t) = A \cup N
      BY <1>8, <1>9, <1>11 DEF A
    <2>2. /\ IsFiniteSet(A \cup N) /\ Cardinality(A) \in Nat
          /\ Cardinality(A \cup N) = Cardinality(A) + Cardinality(N) - Cardinality(A \cap N)
      BY <1>10, <2>1, FS_Union, FS_CardinalityType
    <2>3. Cardinality(A \cap N) = 0
      BY <2>1, FS_EmptySet
    <2>4. Cardinality(A \cup N) = Cardinality(A) + Cardinality(J)
      BY <1>4, <1>10, <2>2, <2>3
    <2>. QED BY <1>11, <2>1, <2>2, <2>4 DEF A, es, J
  <1>12. CASE r.name # f
    <2>1. Spots(es, f, t) = Spots(ds, f, t)
      BY <1>8, <1>12
    <2>2. Cardinality(Spots(ds, f, t)) \in Nat
      BY FS_CardinalityType
    <2>. QED BY <1>12, <2>1, <2>2 DEF es
  <1>. QED BY <1>11, <1>12

-----------------------------------------------------------------------------
(* The end of a rule makes known what it declares.                         *)

\* What is known in a state
LinksKnown == Known(idinv, defset, redirectMap, linkMatrix, declared)

\* The links of a page that lead to a page, whatever redirects they follow
TargetIn(ds, n) ==
    IF ~DeclaredIn(ds, n) /\ RedirectsIn(ds, n) # {} /\ DeclaredIn(ds, ds[Max(RedirectsIn(ds, n))].redirect)
    THEN ds[Max(RedirectsIn(ds, n))].redirect ELSE n

LeadsTo(ds, s, f, t) ==
    /\ s[1] \in 1..Len(ds) /\ ds[s[1]].name = f
    /\ s[2] \in 1..Len(ds[s[1]].links) /\ TargetIn(ds, ds[s[1]].links[s[2]]) = t

OccurrencesIn(ds, f, t) == {s \in Nat \X Nat : LeadsTo(ds, s, f, t)}

Counted(ids, m, ds) ==
    \A p, q \in 1..Len(ids) : CountOf(m, p, q) = Cardinality(OccurrencesIn(ds, ids[p], ids[q]))

\* While the input is read, the counts are those of the links declared; after
\* the reduction, those of the links to declared pages.
LinkInv ==
    /\ declared \in Seq(Declaration)
    /\ phase \in {"parse", "reduce"} => LinksKnown
    /\ phase \in {"calculate", "done"} => Counted(idinv, linkMatrix, declared)

Rule == [name |-> declname, links |-> linknames, redirect |-> redirectname]

LEMMA RuleTyped ==
  ASSUME PageInv, declname # ""
  PROVE  /\ Rule \in Declaration
         /\ Rule.name = declname /\ Rule.links = linknames /\ Rule.redirect = redirectname
  <1>1. declname \in Name /\ linknames \in Seq(Name) /\ redirectname \in Text
    BY DEF PageInv, Name
  <1>. QED BY <1>1 DEF Rule, Declaration

\* A link added is counted for its pages only.
LEMMA CountAdded ==
  ASSUME NEW n \in Nat, NEW m, Matrix(m, n), NEW pairs \in Seq((1..n) \X (1..n)), NEW p, NEW q
  PROVE  /\ CountOf(LinksAdded(m, pairs), p, q) = CountOf(m, p, q) + Times(pairs, <<p, q>>)
         /\ CountOf(m, p, q) \in Nat
  <1> DEFINE l == <<p, q>>
             u == LinksAdded(m, pairs)
  <1>1. /\ DOMAIN u = DOMAIN m \cup Range(pairs)
        /\ l \in DOMAIN u => u[l] = (IF l \in DOMAIN m THEN m[l] ELSE 0) + Times(pairs, l)
    BY DEF LinksAdded, Times
  <1>2. Times(pairs, l) \in Nat /\ (l \in Range(pairs) <=> Times(pairs, l) # 0)
    BY TimesCounted
  <1>3. l \in DOMAIN m => m[l] \in Nat
    BY DEF Matrix
  <1> HIDE DEF u, l
  <1>4. (IF l \in DOMAIN u THEN u[l] ELSE 0) = (IF l \in DOMAIN m THEN m[l] ELSE 0) + Times(pairs, l)
    BY <1>1, <1>2, <1>3
  <1>. QED BY <1>3, <1>4 DEF CountOf, u, l

\* The links of a rule lead where its names are.
LEMMA RulePairsCount ==
  ASSUME PageInv, declname # "", NEW ns, Distinct(ns), Has(ns, declname),
         \A n : Has(linknames, n) => Has(ns, n),
         NEW p \in 1..Len(ns), NEW q \in 1..Len(ns)
  PROVE  Times(RulePairs(ns), <<p, q>>) =
            IF declname = ns[p] THEN Cardinality(Places(linknames, ns[q])) ELSE 0
  <1> DEFINE k == Len(linknames)
             I == {i \in 1..k : RulePairs(ns)[i] = <<p, q>>}
  <1>1. k \in Nat /\ DOMAIN linknames = 1..k
    BY SeqIsFunction DEF PageInv
  <1>2. DOMAIN RulePairs(ns) = 1..k
    BY <1>1 DEF RulePairs
  <1>3. ASSUME NEW i \in 1..k
        PROVE  RulePairs(ns)[i] = <<p, q>> <=> declname = ns[p] /\ linknames[i] = ns[q]
    <2> DEFINE d == IdOf(ns, declname)
               e == IdOf(ns, linknames[i])
    <2>1. Has(ns, linknames[i])
      BY DEF Has
    <2>2. RulePairs(ns)[i] = <<d, e>>
      BY <1>1 DEF RulePairs
    <2>3. d \in 1..Len(ns) /\ ns[d] = declname /\ e \in 1..Len(ns) /\ ns[e] = linknames[i]
      BY <2>1, IdIsPlace
    <2>4. d = p <=> declname = ns[p]
      BY <2>3 DEF Distinct
    <2>5. e = q <=> linknames[i] = ns[q]
      BY <2>3 DEF Distinct
    <2> HIDE DEF d, e
    <2>6. <<d, e>> = <<p, q>> <=> d = p /\ e = q
      OBVIOUS
    <2>. QED BY <2>2, <2>4, <2>5, <2>6
  <1>4. Times(RulePairs(ns), <<p, q>>) = Cardinality(I)
    BY <1>2 DEF Times
  <1>5. I = IF declname = ns[p] THEN Places(linknames, ns[q]) ELSE {}
    BY <1>3 DEF Places
  <1> HIDE DEF I
  <1>. QED BY <1>4, <1>5, FS_EmptySet

LEMMA EndRuleKnown ==
  ASSUME PageInv, LinkInv, EndRule
  PROVE  LinkInv'
  <1> DEFINE ns == Named(idinv, NewNames)
             d == IdOf(ns, declname)
             n == Len(ns)
             pairs == RulePairs(ns)
  <1>1. /\ phase = "parse" /\ phase' = "parse"
        /\ idinv' = ns /\ linkMatrix' = LinksAdded(linkMatrix, pairs)
        /\ defset' = IF linknames = << >> THEN defset ELSE defset \cup {d}
        /\ redirectMap' = IF declname = "" \/ redirectname \in {"", declname} THEN redirectMap
                          ELSE [p \in DOMAIN redirectMap \cup {d} |->
                                   IF p = d THEN IdOf(ns, redirectname) ELSE redirectMap[p]]
    BY EndRuleMeans
  <1>2. declared' = IF declname = "" THEN declared ELSE Append(declared, Rule)
    BY DEF EndRule, Rule
  <1>3. /\ Distinct(ns) /\ Begins(idinv, ns) /\ Has(ns, declname)
        /\ declname # "" => /\ \A x : Has(linknames, x) => Has(ns, x)
                            /\ redirectname # "" => Has(ns, redirectname)
    BY RuleNamed
  <1> HIDE DEF ns
  <1>4. Sized(idinv, defset, redirectMap, linkMatrix)
    BY DEF PageInv, Sized
  <1>5. Known(ns, defset, redirectMap, linkMatrix, declared)
    BY <1>1, <1>3, <1>4, KnownWithNames DEF LinkInv, LinksKnown
  <1>6. n \in Nat /\ Len(idinv) \in Nat /\ Len(idinv) <= n
    BY <1>3, SeqIsFunction DEF Distinct, Begins, PageInv
  <1>7. Matrix(linkMatrix, n)
    <2>1. 1..Len(idinv) \subseteq 1..n
      <3> DEFINE k == Len(idinv)
      <3> HIDE DEF k, n
      <3>1. 1..k \subseteq 1..n
        BY <1>6 DEF k
      <3>. QED BY <3>1 DEF k
    <2>. QED BY <2>1 DEF PageInv, Matrix
  <1>8. pairs \in Seq((1..n) \X (1..n))
    BY <1>3, RulePairsTyped
  <1>9. d \in 1..n /\ ns[d] = declname /\ \A p \in 1..n : ns[p] = declname => p = d
    BY <1>3, IdIsPlace
  <1> HIDE DEF n, d, pairs
  <1>10. \A p, q : CountOf(linkMatrix', p, q) = CountOf(linkMatrix, p, q) + Times(pairs, <<p, q>>)
                   /\ CountOf(linkMatrix, p, q) \in Nat
    <2> SUFFICES ASSUME NEW p, NEW q
                 PROVE  CountOf(linkMatrix', p, q) = CountOf(linkMatrix, p, q) + Times(pairs, <<p, q>>)
                        /\ CountOf(linkMatrix, p, q) \in Nat
      OBVIOUS
    <2>1. /\ CountOf(LinksAdded(linkMatrix, pairs), p, q) = CountOf(linkMatrix, p, q) + Times(pairs, <<p, q>>)
          /\ CountOf(linkMatrix, p, q) \in Nat
      BY <1>6, <1>7, <1>8, CountAdded
    <2>. QED BY <1>1, <2>1
  <1>11. CASE declname = ""
    <2>1. declared' = declared /\ redirectMap' = redirectMap
      BY <1>1, <1>2, <1>11
    <2>2. \A p, q : Times(pairs, <<p, q>>) = 0
      <3>1. pairs = << >> /\ DOMAIN pairs = {}
        BY <1>11, EmptyIsSeq DEF pairs, RulePairs
      <3>2. \A l : {i \in DOMAIN pairs : pairs[i] = l} = {}
        BY <3>1
      <3>. QED BY <3>2, FS_EmptySet DEF Times
    <2>3. \A p, q : CountOf(linkMatrix', p, q) = CountOf(linkMatrix, p, q)
      <3> SUFFICES ASSUME NEW p, NEW q PROVE CountOf(linkMatrix', p, q) = CountOf(linkMatrix, p, q)
        OBVIOUS
      <3>1. CountOf(linkMatrix', p, q) = CountOf(linkMatrix, p, q) + Times(pairs, <<p, q>>)
            /\ CountOf(linkMatrix, p, q) \in Nat /\ Times(pairs, <<p, q>>) = 0
        BY <1>10, <2>2
      <3>. QED BY <3>1
    <2>4. \A p \in 1..n : PageKnown(ns, defset', redirectMap, declared, p)
      <3>1. \A p \in 1..n : ns[p] # "" => (p \in defset' <=> p \in defset)
        BY <1>1, <1>9, <1>11
      <3>. QED BY <1>5, <3>1 DEF Known, PageKnown, n
    <2>5. \A p, q \in 1..n : LinkKnown(ns, linkMatrix', declared, p, q)
      BY <1>5, <2>3 DEF Known, LinkKnown, n
    <2>6. Known(ns, defset', redirectMap, linkMatrix', declared)
      BY <1>5, <2>4, <2>5 DEF Known, n
    <2>. QED BY <1>1, <2>1, <2>6 DEF LinkInv, LinksKnown, Known
  <1>12. CASE declname # ""
    <2> DEFINE es == Append(declared, Rule)
    <2>1. /\ Rule \in Declaration
          /\ Rule.name = declname /\ Rule.links = linknames /\ Rule.redirect = redirectname
      BY <1>12, RuleTyped
    <2>2. declared' = es /\ declared \in Seq(Declaration)
      BY <1>2, <1>5, <1>12 DEF Known
    <2>3. es \in Seq(Declaration) /\ \A i \in 1..Len(es) : RuleNamedIn(es[i], ns)
      <3>1. RuleNamedIn(Rule, ns)
        BY <1>3, <1>12, <2>1 DEF RuleNamedIn
      <3>2. \A i \in 1..Len(declared) : RuleNamedIn(declared[i], ns)
        BY <1>5 DEF Known
      <3>3. /\ es \in Seq(Declaration) /\ Len(es) = Len(declared) + 1 /\ es[Len(declared) + 1] = Rule
            /\ \A i \in 1..Len(declared) : es[i] = declared[i]
            /\ \A i \in 1..(Len(declared) + 1) : i \in 1..Len(declared) \/ i = Len(declared) + 1
        BY <2>1, <2>2, OneMore
      <3> HIDE DEF es
      <3>. QED BY <3>1, <3>2, <3>3
    <2>4. ASSUME NEW p \in 1..n PROVE PageKnown(ns, defset', redirectMap', es, p)
      <3>1. PageKnown(ns, defset, redirectMap, declared, p)
        BY <1>5 DEF Known, n
      <3>2. DeclaredIn(es, ns[p]) <=> DeclaredIn(declared, ns[p]) \/ (declname = ns[p] /\ linknames # << >>)
        BY <2>1, <2>2, DeclaredMore
      <3>3. ns[p] = declname <=> p = d
        BY <1>9
      <3>4. ns[p] # "" => (p \in defset' <=> DeclaredIn(es, ns[p]))
        BY <1>1, <3>1, <3>2, <3>3 DEF PageKnown
      <3> DEFINE new == declname = ns[p] /\ redirectname \notin {"", ns[p]}
      <3>5. /\ RedirectsIn(es, ns[p]) # {} <=> RedirectsIn(declared, ns[p]) # {} \/ new
            /\ new => es[Max(RedirectsIn(es, ns[p]))].redirect = redirectname
            /\ ~new /\ RedirectsIn(declared, ns[p]) # {} =>
                  es[Max(RedirectsIn(es, ns[p]))].redirect = declared[Max(RedirectsIn(declared, ns[p]))].redirect
        <4> DEFINE newRule == Rule.name = ns[p] /\ Rule.redirect \notin {"", ns[p]}
        <4>1. /\ RedirectsIn(es, ns[p]) # {} <=> RedirectsIn(declared, ns[p]) # {} \/ newRule
              /\ newRule => es[Max(RedirectsIn(es, ns[p]))].redirect = Rule.redirect
              /\ ~newRule /\ RedirectsIn(declared, ns[p]) # {} =>
                  es[Max(RedirectsIn(es, ns[p]))].redirect = declared[Max(RedirectsIn(declared, ns[p]))].redirect
          BY <2>1, <2>2, RedirectsMore
        <4>2. (newRule <=> new) /\ Rule.redirect = redirectname
          BY <2>1
        <4> HIDE DEF newRule, new, es
        <4>. QED BY <4>1, <4>2
      <3> HIDE DEF es
      <3>6. CASE redirectname \in {"", declname}
        <4>1. ~new /\ redirectMap' = redirectMap
          BY <1>1, <3>6
        <4>. QED BY <3>1, <3>4, <3>5, <4>1 DEF PageKnown
      <3>7. CASE redirectname \notin {"", declname}
        <4>1. redirectMap' = [x \in DOMAIN redirectMap \cup {d} |->
                                 IF x = d THEN IdOf(ns, redirectname) ELSE redirectMap[x]]
          BY <1>1, <1>12, <3>7
        <4>2. new <=> p = d
          BY <3>3, <3>7
        <4> HIDE DEF new
        <4>3. CASE p = d
          <5>1. ns[IdOf(ns, redirectname)] = redirectname
            BY <1>3, <1>12, <3>7, IdIsPlace
          <5>2. p \in DOMAIN redirectMap' /\ ns[redirectMap'[p]] = redirectname
            BY <4>1, <4>3, <5>1
          <5>. QED BY <3>4, <3>5, <4>2, <4>3, <5>2 DEF PageKnown
        <4>4. CASE p # d
          <5>1. (p \in DOMAIN redirectMap' <=> p \in DOMAIN redirectMap)
                /\ (p \in DOMAIN redirectMap => redirectMap'[p] = redirectMap[p])
            BY <4>1, <4>4
          <5>. QED BY <3>1, <3>4, <3>5, <4>2, <4>4, <5>1 DEF PageKnown
        <4>. QED BY <4>3, <4>4
      <3>. QED BY <3>6, <3>7
    <2>5. ASSUME NEW p \in 1..n, NEW q \in 1..n PROVE LinkKnown(ns, linkMatrix', es, p, q)
      <3>1. /\ IsFiniteSet(Spots(declared, ns[p], ns[q]))
            /\ CountOf(linkMatrix, p, q) = Cardinality(Spots(declared, ns[p], ns[q]))
        BY <1>5 DEF Known, LinkKnown, n
      <3>2. /\ IsFiniteSet(Spots(es, ns[p], ns[q]))
            /\ Cardinality(Spots(es, ns[p], ns[q])) = Cardinality(Spots(declared, ns[p], ns[q]))
                  + (IF declname = ns[p] THEN Cardinality(Places(linknames, ns[q])) ELSE 0)
        BY <2>1, <2>2, <3>1, SpotsMore
      <3>3. Times(pairs, <<p, q>>) = IF declname = ns[p] THEN Cardinality(Places(linknames, ns[q])) ELSE 0
        BY <1>3, <1>12, RulePairsCount DEF n, pairs
      <3>4. CountOf(linkMatrix', p, q) = CountOf(linkMatrix, p, q) + Times(pairs, <<p, q>>)
        BY <1>10
      <3> HIDE DEF es
      <3>. QED BY <3>1, <3>2, <3>3, <3>4 DEF LinkKnown
    <2> HIDE DEF es
    <2>6. Known(ns, defset', redirectMap', linkMatrix', es)
      BY <2>3, <2>4, <2>5 DEF Known, n
    <2>. QED BY <1>1, <2>2, <2>6 DEF LinkInv, LinksKnown, Known
  <1>. QED BY <1>11, <1>12

-----------------------------------------------------------------------------
(* The reduction keeps the counts of links to declared pages.              *)

\* A redirect is followed by the identifiers as it is by the names.
LEMMA ResolvedIsTarget ==
  ASSUME PageInv, LinksKnown, NEW c \in 1..Len(idinv), idinv[c] # ""
  PROVE  Resolved(c) \in 1..Len(idinv) /\ idinv[Resolved(c)] = TargetIn(declared, idinv[c])
  <1> DEFINE n == idinv[c]
             R == RedirectsIn(declared, n)
             t == declared[Max(R)].redirect
  <1>1. /\ c \in defset <=> DeclaredIn(declared, n)
        /\ c \in DOMAIN redirectMap <=> R # {}
        /\ c \in DOMAIN redirectMap => idinv[redirectMap[c]] = t
    BY DEF LinksKnown, Known, PageKnown
  <1>2. c \in DOMAIN redirectMap => redirectMap[c] \in 1..Len(idinv)
    BY DEF PageInv
  <1>3. R # {} => t # ""
    <2>1. Len(declared) \in Nat
      BY DeclarationTyped DEF LinksKnown, Known
    <2> DEFINE z == Len(declared)
    <2>2. R \subseteq 1..z
      BY DEF RedirectsIn
    <2> HIDE DEF z, R
    <2>5. z \in Nat
      BY <2>1 DEF z
    <2>3. R \in SUBSET (1..z)
      BY <2>2
    <2>4. R # {} => Max(R) \in R
      BY <2>5, <2>3, LargestIndex
    <2>. QED BY <2>4 DEF RedirectsIn, R
  <1>4. c \in DOMAIN redirectMap => (redirectMap[c] \in defset <=> DeclaredIn(declared, t))
    BY <1>1, <1>2, <1>3 DEF LinksKnown, Known, PageKnown
  <1> HIDE DEF R, t
  <1>5. TargetIn(declared, n) = IF ~DeclaredIn(declared, n) /\ R # {} /\ DeclaredIn(declared, t) THEN t ELSE n
    BY DEF TargetIn, R, t
  <1>. QED BY <1>1, <1>2, <1>4, <1>5 DEF Resolved

\* The matrix after the reduction
NewMatrix == [n \in Range(NewLinks) |-> Sum(Joined(n))]

LEMMA NewMatrixCounts ==
  ASSUME PageInv, NEW p, NEW q
  PROVE  CountOf(NewMatrix, p, q) = Sum(Joined(<<p, q>>))
  <1> DEFINE n == <<p, q>>
  <1>1. CASE n \in Range(NewLinks)
    BY <1>1 DEF NewMatrix, CountOf
  <1>2. CASE n \notin Range(NewLinks)
    <2>1. Joined(n) = {}
      <3>1. DOMAIN NewLinks = KeptLinks
        BY DEF NewLinks
      <3> HIDE DEF n
      <3>. QED BY <1>2, <3>1 DEF Joined, Range
    <2>2. Sum({}) = 0
      <3>1. IsFiniteSet({})
        BY FS_EmptySet
      <3>2. PICK F : Adds({}, F) /\ Sum({}) = F[{}]
        BY <3>1, SumAdds
      <3>. QED BY <3>2 DEF Adds
    <2>. QED BY <1>2, <2>1, <2>2 DEF NewMatrix, CountOf
  <1>. QED BY <1>1, <1>2

\* A link that becomes one from page p to page q is from the page and leads to
\* a page of the same names.
LEMMA JoinedAre ==
  ASSUME PageInv, NEW p \in 1..Len(KeptNames), NEW q \in 1..Len(KeptNames), NEW l
  PROVE  l \in Joined(<<p, q>>) <=>
            /\ l \in DOMAIN linkMatrix /\ l[1] \in defset /\ Resolved(l[2]) \in defset
            /\ idinv[l[1]] = KeptNames[p] /\ idinv[Resolved(l[2])] = KeptNames[q]
  <1>1. l \in KeptLinks <=> l \in DOMAIN linkMatrix /\ l[1] \in defset /\ Resolved(l[2]) \in defset
    BY DEF KeptLinks
  <1>2. ASSUME l \in KeptLinks
        PROVE  NewLinks[l] = <<p, q>> <=> idinv[l[1]] = KeptNames[p] /\ idinv[Resolved(l[2])] = KeptNames[q]
    <2> DEFINE x == idinv[l[1]]
               y == idinv[Resolved(l[2])]
               i == IdOf(KeptNames, x)
               j == IdOf(KeptNames, y)
    <2>1. l[1] \in 1..Len(idinv) /\ Resolved(l[2]) \in 1..Len(idinv)
      BY <1>1, <1>2 DEF PageInv
    <2>2. Distinct(KeptNames) /\ Has(KeptNames, x) /\ Has(KeptNames, y)
      BY <1>1, <1>2, <2>1, KeptNamesAre DEF PageInv
    <2>3. NewLinks[l] = <<i, j>>
      BY <1>2 DEF NewLinks
    <2>4. /\ i \in 1..Len(KeptNames) /\ KeptNames[i] = x
          /\ j \in 1..Len(KeptNames) /\ KeptNames[j] = y
      BY <2>2, IdIsPlace
    <2> HIDE DEF x, y, i, j
    <2>5. i = p <=> x = KeptNames[p]
      BY <2>2, <2>4 DEF Distinct
    <2>6. j = q <=> y = KeptNames[q]
      BY <2>2, <2>4 DEF Distinct
    <2>7. <<i, j>> = <<p, q>> <=> i = p /\ j = q
      OBVIOUS
    <2>. QED BY <2>3, <2>5, <2>6, <2>7 DEF x, y
  <1>. QED BY <1>1, <1>2 DEF Joined

LEMMA ReducedCount ==
  ASSUME PageInv, LinksKnown
  PROVE  Counted(KeptNames, NewMatrix, declared)
  <1> SUFFICES ASSUME NEW p \in 1..Len(KeptNames), NEW q \in 1..Len(KeptNames)
               PROVE  CountOf(NewMatrix, p, q) = Cardinality(OccurrencesIn(declared, KeptNames[p], KeptNames[q]))
    BY DEF Counted
  <1> DEFINE L == Joined(<<p, q>>)
             S(l) == Spots(declared, idinv[l[1]], idinv[l[2]])
             o == [l \in L |-> S(l)]
             O == OccurrencesIn(declared, KeptNames[p], KeptNames[q])
  <1>1. \A l : l \in L <=> /\ l \in DOMAIN linkMatrix /\ l[1] \in defset /\ Resolved(l[2]) \in defset
                           /\ idinv[l[1]] = KeptNames[p] /\ idinv[Resolved(l[2])] = KeptNames[q]
    BY JoinedAre
  <1>2. IsFiniteSet(L)
    <2>1. L \subseteq KeptLinks
      BY DEF Joined
    <2> HIDE DEF L
    <2>. QED BY <2>1, NewLinksTyped, FS_Subset
  <1> HIDE DEF L
  <1>3. \A l \in DOMAIN linkMatrix : /\ l = <<l[1], l[2]>>
                                    /\ l[1] \in 1..Len(idinv) /\ l[2] \in 1..Len(idinv)
    BY DEF PageInv, Matrix
  <1>4. ASSUME NEW l \in L PROVE IsFiniteSet(S(l)) /\ linkMatrix[l] = Cardinality(S(l))
    <2>1. l \in DOMAIN linkMatrix
      BY <1>1
    <2>2. LinkKnown(idinv, linkMatrix, declared, l[1], l[2])
      BY <1>3, <2>1 DEF LinksKnown, Known
    <2>3. CountOf(linkMatrix, l[1], l[2]) = linkMatrix[l]
      BY <1>3, <2>1 DEF CountOf
    <2>. QED BY <2>2, <2>3 DEF LinkKnown
  <1>5. ASSUME NEW l \in L, NEW k \in L, l # k PROVE S(l) \cap S(k) = {}
    <2> SUFFICES ASSUME NEW s \in S(l), s \in S(k) PROVE FALSE
      OBVIOUS
    <2>1. idinv[l[1]] = idinv[k[1]] /\ idinv[l[2]] = idinv[k[2]]
      BY DEF Spots, IsSpot
    <2>2. l \in DOMAIN linkMatrix /\ k \in DOMAIN linkMatrix
      BY <1>1
    <2>3. l[1] = k[1] /\ l[2] = k[2]
      BY <1>3, <2>1, <2>2 DEF PageInv, Distinct
    <2>. QED BY <1>3, <1>5, <2>2, <2>3
  <1>6. declared \in Seq(Declaration) /\ \A i \in 1..Len(declared) : RuleNamedIn(declared[i], idinv)
    BY DEF LinksKnown, Known
  <1>7. \A i \in 1..Len(declared) : \A j \in 1..Len(declared[i].links) : declared[i].links[j] \in Name
    BY <1>6, DeclarationTyped, SeqIsFunction
  <1>8. ASSUME NEW l \in L, NEW s \in S(l) PROVE s \in O
    <2>1. s \in Nat \X Nat /\ IsSpot(declared, s, idinv[l[1]], idinv[l[2]])
      BY DEF Spots
    <2>2. idinv[l[2]] # "" /\ l[2] \in 1..Len(idinv)
      BY <1>1, <1>3, <1>7, <2>1 DEF IsSpot, Name
    <2>3. TargetIn(declared, idinv[l[2]]) = KeptNames[q]
      BY <1>1, <2>2, ResolvedIsTarget
    <2>4. LeadsTo(declared, s, KeptNames[p], KeptNames[q])
      BY <1>1, <2>1, <2>3 DEF IsSpot, LeadsTo
    <2>. QED BY <2>1, <2>4 DEF OccurrencesIn
  <1>9. ASSUME NEW s \in O PROVE \E l \in L : s \in S(l)
    <2> DEFINE i == s[1]
               f == KeptNames[p]
               n == declared[i].links[s[2]]
               c == IdOf(idinv, n)
    <2>1. /\ s \in Nat \X Nat /\ i \in 1..Len(declared) /\ declared[i].name = f
          /\ s[2] \in 1..Len(declared[i].links) /\ TargetIn(declared, n) = KeptNames[q]
      BY DEF OccurrencesIn, LeadsTo
    <2>2. n \in Name /\ Has(idinv, n)
      BY <1>6, <1>7, <2>1 DEF RuleNamedIn, Has
    <2>3. c \in 1..Len(idinv) /\ idinv[c] = n
      BY <2>2, IdIsPlace DEF PageInv
    <2>4. PICK a \in 1..Len(idinv) : a \in defset /\ idinv[a] = f
      BY KeptNamesAre DEF PageInv
    <2>5. PICK b \in 1..Len(idinv) : b \in defset /\ idinv[b] = KeptNames[q]
      BY KeptNamesAre DEF PageInv
    <2> HIDE DEF i, f, c, n
    <2>6. Resolved(c) = b
      <3>1. Resolved(c) \in 1..Len(idinv) /\ idinv[Resolved(c)] = KeptNames[q]
        BY <2>1, <2>2, <2>3, ResolvedIsTarget DEF Name
      <3>. QED BY <2>5, <3>1 DEF PageInv, Distinct
    <2> DEFINE l == <<a, c>>
    <2>7. s \in Spots(declared, f, n)
      BY <2>1 DEF Spots, IsSpot, i, n
    <2>8. l \in DOMAIN linkMatrix
      <3>1. LinkKnown(idinv, linkMatrix, declared, a, c)
        BY <2>3, <2>4 DEF LinksKnown, Known
      <3>2. Cardinality(Spots(declared, f, n)) # 0
        BY <2>3, <2>4, <2>7, <3>1, FS_EmptySet DEF LinkKnown
      <3>. QED BY <2>3, <2>4, <3>1, <3>2 DEF LinkKnown, CountOf
    <2>9. l[1] = a /\ l[2] = c
      OBVIOUS
    <2> HIDE DEF l
    <2>10. l \in L
      BY <1>1, <2>4, <2>5, <2>6, <2>8, <2>9 DEF f
    <2>. QED BY <2>3, <2>4, <2>7, <2>9, <2>10
  <1> HIDE DEF S, O
  <1>10. UNION {o[l] : l \in L} = O
    <2>1. \A l \in L : o[l] = S(l)
      OBVIOUS
    <2>. QED BY <1>8, <1>9, <2>1
  <1>11. /\ \A l \in L : IsFiniteSet(o[l]) /\ linkMatrix[l] = Cardinality(o[l])
         /\ \A l, k \in L : l # k => o[l] \cap o[k] = {}
    BY <1>4, <1>5
  <1> HIDE DEF o
  <1>12. Sum(L) = Cardinality(UNION {o[l] : l \in L})
    BY <1>2, <1>11, SumCounts
  <1>13. CountOf(NewMatrix, p, q) = Sum(L)
    BY NewMatrixCounts DEF L
  <1>. QED BY <1>10, <1>12, <1>13 DEF O

LEMMA LinkInvKept ==
  ASSUME PageInv, LinkInv, [Next]_vars
  PROVE  LinkInv'
  <1>1. CASE EndRule
    BY <1>1, EndRuleKnown
  <1>2. CASE Reduce
    <2>1. /\ phase = "reduce" /\ phase' = "calculate" /\ idinv' = KeptNames /\ linkMatrix' = NewMatrix
          /\ declared' = declared
      BY <1>2, ReduceMeans DEF NewMatrix
    <2>2. Counted(KeptNames, NewMatrix, declared)
      BY <2>1, ReducedCount DEF LinkInv
    <2>. QED BY <2>1, <2>2 DEF LinkInv
  <1>3. CASE Calculate
    <2>1. phase = "calculate" /\ phase' = "done" /\ UNCHANGED <<pageVars, declared>>
      BY <1>3 DEF Calculate
    <2>. QED BY <2>1 DEF LinkInv, pageVars
  <1>4. CASE /\ phase \in {"parse", "reduce"} /\ phase' \in {"parse", "reduce", "error"}
             /\ UNCHANGED <<pageVars, declared>>
    BY <1>4 DEF LinkInv, LinksKnown, pageVars
  <1>5. CASE StartRule
    BY <1>4, <1>5 DEF StartRule, Reading
  <1>6. CASE NameOrEqual
    BY <1>4, <1>6 DEF NameOrEqual
  <1>7. CASE Redirect
    BY <1>4, <1>7 DEF Redirect, Reading
  <1>8. CASE EndOfInput
    BY <1>4, <1>8 DEF EndOfInput
  <1>9. CASE UNCHANGED vars
    BY <1>9 DEF vars, declVars, pageVars, LinkInv, LinksKnown
  <1>10. CASE Ended
    BY <1>9, <1>10 DEF Ended
  <1>. QED BY <1>1, <1>2, <1>3, <1>5, <1>6, <1>7, <1>8, <1>9, <1>10 DEF Next, Step

LEMMA InitKnown ==
  ASSUME Init
  PROVE  LinkInv
  <1>1. /\ phase = "parse" /\ declared = << >> /\ idinv = << >>
    BY DEF Init
  <1>2. Known(idinv, defset, redirectMap, linkMatrix, declared)
    <2>1. Len(<< >>) = 0 /\ << >> \in Seq(Declaration)
      BY EmptyIsSeq
    <2>. QED BY <1>1, <2>1 DEF Known
  <1>. QED BY <1>1, <1>2 DEF LinkInv, LinksKnown, Known

\* The places that are counted are those the property names.
LEMMA OccurrencesAre ==
  ASSUME declared \in Seq(Declaration), NEW f, NEW t
  PROVE  Occurrences(f, t) = OccurrencesIn(declared, f, t)
  <1>1. /\ DOMAIN declared = 1..Len(declared) /\ Len(declared) \in Nat
        /\ \A i \in 1..Len(declared) : /\ DOMAIN declared[i].links = 1..Len(declared[i].links)
                                       /\ Len(declared[i].links) \in Nat
    BY DeclarationTyped, SeqIsFunction
  <1>2. \A n : /\ IsDeclared(n) <=> DeclaredIn(declared, n)
               /\ Redirects(n) = RedirectsIn(declared, n)
    BY <1>1 DEF IsDeclared, DeclaredIn, Redirects, RedirectsIn
  <1>3. \A n : TargetOf(n) = TargetIn(declared, n)
    BY <1>2 DEF TargetOf, TargetIn
  <1> DEFINE I == {k \in DOMAIN declared : declared[k].name = f}
             J(i) == {j \in DOMAIN declared[i].links : TargetOf(declared[i].links[j]) = t}
  <1>4. \A s : s \in Occurrences(f, t) <=> \E i \in I : s \in {i} \X J(i)
    BY DEF Occurrences
  <1>5. ASSUME NEW s, NEW i \in I, s \in {i} \X J(i) PROVE s \in OccurrencesIn(declared, f, t)
    <2>1. s = <<s[1], s[2]>> /\ s[1] = i /\ s[2] \in J(i)
      BY <1>5
    <2>2. i \in 1..Len(declared) /\ declared[i].name = f /\ s[2] \in 1..Len(declared[i].links)
          /\ TargetIn(declared, declared[i].links[s[2]]) = t
      BY <1>1, <1>3, <2>1
    <2>3. s \in Nat \X Nat
      BY <1>1, <2>1, <2>2
    <2>. QED BY <2>1, <2>2, <2>3 DEF OccurrencesIn, LeadsTo
  <1>6. ASSUME NEW s \in OccurrencesIn(declared, f, t) PROVE s[1] \in I /\ s \in {s[1]} \X J(s[1])
    <2>1. /\ s \in Nat \X Nat /\ s[1] \in 1..Len(declared) /\ declared[s[1]].name = f
          /\ s[2] \in 1..Len(declared[s[1]].links) /\ TargetIn(declared, declared[s[1]].links[s[2]]) = t
      BY DEF OccurrencesIn, LeadsTo
    <2>2. s[1] \in I /\ s[2] \in J(s[1])
      BY <1>1, <1>3, <2>1
    <2>. QED BY <2>1, <2>2
  <1>. QED BY <1>4, <1>5, <1>6

\* Whatever the order of the declarations, every link between declared pages
\* is counted once, for the page its redirect leads to, and no other link is.
THEOREM LinksAlwaysCounted == Spec => []LinksCounted
  <1>1. Init => PageInv /\ DummyInv /\ LinkInv
    BY InitInv, InitKnown
  <1>2. PageInv /\ LinkInv /\ [Next]_vars => LinkInv'
    BY LinkInvKept
  <1>3. PageInv /\ LinkInv => LinksCounted
    <2> SUFFICES ASSUME PageInv, LinkInv, phase \in {"calculate", "done"}, NEW p \in Pages, NEW q \in Pages
                 PROVE  (IF <<p, q>> \in DOMAIN linkMatrix THEN linkMatrix[<<p, q>>] ELSE 0)
                            = Cardinality(Occurrences(idinv[p], idinv[q]))
      BY DEF LinksCounted
    <2>1. p \in 1..Len(idinv) /\ q \in 1..Len(idinv)
      BY SeqIsFunction DEF PageInv, Distinct, Pages
    <2>2. CountOf(linkMatrix, p, q) = Cardinality(OccurrencesIn(declared, idinv[p], idinv[q]))
      BY <2>1 DEF LinkInv, Counted
    <2>3. Occurrences(idinv[p], idinv[q]) = OccurrencesIn(declared, idinv[p], idinv[q])
      BY OccurrencesAre DEF LinkInv
    <2>. QED BY <2>2, <2>3 DEF CountOf
  <1>. QED BY <1>1, <1>2, <1>3, PageInvariant, PTL DEF Spec

=============================================================================
