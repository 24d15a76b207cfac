---------------------- MODULE SentenceKeySearchProofs -----------------------
(***************************************************************************)
(* Proofs about SentenceKeySearch for all fields and all lists of features:*)
(* its type invariant, that a feature stands for the part of the field it  *)
(* is given for, that every solution covers the field, that no split the   *)
(* search gives up is better than the solutions, and that a field that is  *)
(* the name of a feature is found as one.                                  *)
(*                                                                         *)
(* The invariant follows the search: an element continues the one it is    *)
(* linked to, up to separators; a partial split has covered the field up   *)
(* to its position and counts the unresolved elements it leads back to;    *)
(* every buffer of the exploration is the rest of the field but for the    *)
(* kind of its separators; and nothing in the queue is better than the     *)
(* first solution.  What a trace consists of is proved by induction on the *)
(* elements, from the fact that a set of naturals has a least member.      *)
(***************************************************************************)
EXTENDS SentenceKeySearch, FiniteSetTheorems, SequenceTheorems, WellFoundedInduction, TLAPS

-----------------------------------------------------------------------------
(* Least numbers and induction.                                            *)

LEMMA LeastNumber ==
  ASSUME NEW S \in SUBSET Nat, S # {}
  PROVE  \E m \in S : \A n \in S : m <= n
  <1>1. PICK m \in S : \A n \in S : ~ (<<n, m>> \in OpToRel(<, Nat))
    BY WFMin, NatLessThanWellFounded
  <1>2. ASSUME NEW n \in S PROVE m <= n
    <2>1. m \in Nat /\ n \in Nat /\ ~(n < m)
      BY <1>1 DEF OpToRel
    <2>. QED BY <2>1
  <1>. QED BY <1>2

LEMMA MinIsLeast ==
  ASSUME NEW S \in SUBSET Nat, S # {}
  PROVE  Min(S) \in S /\ \A n \in S : Min(S) <= n
  BY LeastNumber DEF Min

LEMMA SetInduction ==
  ASSUME NEW S, 0 \in S, \A n \in Nat : n \in S => n + 1 \in S
  PROVE  \A n \in Nat : n \in S
  <1> SUFFICES ASSUME Nat \ S # {} PROVE FALSE
    OBVIOUS
  <1>1. PICK m \in Nat \ S : \A n \in Nat \ S : m <= n
    BY LeastNumber, Nat \ S \in SUBSET Nat
  <1>2. m # 0 /\ m - 1 \in Nat
    BY <1>1
  <1>3. m - 1 \in S
    BY <1>1, <1>2
  <1>. QED BY <1>1, <1>2, <1>3

-----------------------------------------------------------------------------
(* The elements and their traces.                                          *)

Elem == [featno : Nat, startpos : Nat, endpos : Nat, predidx : Nat \cup {-1}]

\* Every element is linked to one before it.
Linked(es) == es \in Seq(Elem) /\ \A i \in 1..Len(es) : es[i].predidx \in -1..(i - 2)

IsTrace(es, n, t) ==
    t = [i \in -1..(n - 1) |->
            IF i = -1 THEN << >> ELSE Append(t[es[i + 1].predidx], es[i + 1])]

TraceOf(es) == CHOOSE t : IsTrace(es, Len(es), t)

\* What a trace consists of
Walks(es, n, t) ==
    /\ t[-1] = << >>
    /\ \A i \in 1..n : t[i - 1] = Append(t[es[i].predidx], es[i])

LEMMA TraceExtends ==
  ASSUME NEW es, Linked(es), NEW n \in Nat, n + 1 <= Len(es), NEW t, IsTrace(es, n, t)
  PROVE  \E u : IsTrace(es, n + 1, u)
  <1> DEFINE u == [i \in -1..n |-> IF i = n THEN Append(t[es[n + 1].predidx], es[n + 1]) ELSE t[i]]
             NextTrace(g, i) == IF i = -1 THEN << >> ELSE Append(g[es[i + 1].predidx], es[i + 1])
  <1>1. t = [i \in -1..(n - 1) |-> NextTrace(t, i)]
    BY DEF IsTrace
  <1>2. ASSUME NEW i \in -1..n PROVE u[i] = NextTrace(u, i)
    <2>1. CASE i = -1
      <3>1. i \in -1..(n - 1) /\ u[i] = t[i]
        BY <2>1
      <3>2. t[i] = NextTrace(t, i)
        <4> HIDE DEF NextTrace
        <4>. QED BY <1>1, <3>1
      <3>. QED BY <2>1, <3>1, <3>2
    <2>2. CASE i # -1
      <3>1. i \in 0..n /\ i + 1 \in 1..Len(es)
        BY <2>2 DEF Linked
      <3> DEFINE p == es[i + 1].predidx
      <3>2. p \in -1..((i + 1) - 2)
        BY <3>1 DEF Linked
      <3>3. p \in -1..n /\ p # n
        BY <3>1, <3>2
      <3>4. u[p] = t[p]
        BY <3>3
      <3>5. CASE i = n
        BY <2>2, <3>4, <3>5
      <3>6. CASE i # n
        <4>1. i \in -1..(n - 1) /\ u[i] = t[i]
          BY <3>1, <3>6
        <4>2. t[i] = NextTrace(t, i)
          <5> HIDE DEF NextTrace
          <5>. QED BY <1>1, <4>1
        <4>. QED BY <2>2, <3>4, <4>1, <4>2
      <3>. QED BY <3>5, <3>6
    <2>. QED BY <2>1, <2>2
  <1>3. u = [i \in -1..((n + 1) - 1) |-> NextTrace(u, i)]
    <2>1. (n + 1) - 1 = n
      OBVIOUS
    <2> HIDE DEF NextTrace
    <2>2. u = [i \in -1..n |-> NextTrace(u, i)]
      BY <1>2
    <2>. QED BY <2>1, <2>2
  <1>. QED BY <1>3 DEF IsTrace

LEMMA TraceExists ==
  ASSUME NEW es, Linked(es)
  PROVE  \E t : IsTrace(es, Len(es), t)
  <1> DEFINE S == {n \in Nat : n <= Len(es) => \E t : IsTrace(es, n, t)}
  <1>0. Len(es) \in Nat
    BY DEF Linked
  <1>1. 0 \in S
    <2> DEFINE t == [i \in -1..(0 - 1) |-> << >>]
    <2>1. \A i \in -1..(0 - 1) : i = -1
      OBVIOUS
    <2>2. IsTrace(es, 0, t)
      BY <2>1 DEF IsTrace
    <2>. QED BY <2>2
  <1>2. ASSUME NEW n \in Nat, n \in S PROVE n + 1 \in S
    <2> SUFFICES ASSUME n + 1 <= Len(es) PROVE \E t : IsTrace(es, n + 1, t)
      OBVIOUS
    <2>1. \E t : IsTrace(es, n, t)
      BY <1>0, <1>2
    <2>. QED BY <2>1, TraceExtends
  <1> HIDE DEF S
  <1>3. Len(es) \in S
    BY <1>0, <1>1, <1>2, SetInduction
  <1>. QED BY <1>0, <1>3 DEF S

LEMMA TraceWalks ==
  ASSUME NEW es, Linked(es)
  PROVE  Walks(es, Len(es), TraceOf(es))
  <1> DEFINE t == TraceOf(es)
  <1>0. Len(es) \in Nat
    BY DEF Linked
  <1>1. IsTrace(es, Len(es), t)
    BY TraceExists DEF TraceOf
  <1> HIDE DEF t
  <1>2. t[-1] = << >>
    <2>1. -1 \in -1..(Len(es) - 1)
      BY <1>0
    <2>. QED BY <1>1, <2>1 DEF IsTrace
  <1>3. ASSUME NEW i \in 1..Len(es) PROVE t[i - 1] = Append(t[es[i].predidx], es[i])
    <2>1. i - 1 \in -1..(Len(es) - 1) /\ i - 1 # -1 /\ (i - 1) + 1 = i
      BY <1>0
    <2>2. t[i - 1] = Append(t[es[(i - 1) + 1].predidx], es[(i - 1) + 1])
      BY <1>1, <2>1 DEF IsTrace
    <2>. QED BY <2>1, <2>2
  <1>. QED BY <1>2, <1>3 DEF Walks, t

\* Traces are sequences of elements.
LEMMA TraceTyped ==
  ASSUME NEW es, Linked(es)
  PROVE  \A i \in 0..Len(es) : TraceOf(es)[i - 1] \in Seq(Elem)
  <1> DEFINE t == TraceOf(es)
             S == {n \in Nat : \A i \in 0..n : i <= Len(es) => t[i - 1] \in Seq(Elem)}
  <1>0. Len(es) \in Nat /\ Walks(es, Len(es), t) /\ \A i \in 1..Len(es) : es[i] \in Elem
    BY TraceWalks DEF Linked
  <1> HIDE DEF t
  <1>1. 0 \in S
    <2>1. t[0 - 1] = << >>
      <3>1. t[-1] = << >>
        BY <1>0 DEF Walks
      <3>. QED BY <3>1, 0 - 1 = -1
    <2>2. \A i \in 0..0 : t[i - 1] \in Seq(Elem)
      <3>1. << >> \in Seq(Elem)
        OBVIOUS
      <3>2. \A i \in 0..0 : i = 0
        OBVIOUS
      <3>. QED BY <2>1, <3>1, <3>2, Zenon
    <2>. QED BY <2>2
  <1>2. ASSUME NEW n \in Nat, n \in S PROVE n + 1 \in S
    <2> SUFFICES ASSUME n + 1 <= Len(es) PROVE t[(n + 1) - 1] \in Seq(Elem)
      BY <1>2
    <2>1. n + 1 \in 1..Len(es) /\ (n + 1) - 2 = n - 1
      BY <1>0
    <2> DEFINE p == es[n + 1].predidx
    <2>2. p \in -1..(n - 1)
      BY <2>1 DEF Linked
    <2>3. p + 1 \in 0..n /\ (p + 1) - 1 = p /\ p + 1 <= Len(es)
      BY <2>1, <2>2
    <2>4. t[p] \in Seq(Elem)
      <3>1. t[(p + 1) - 1] \in Seq(Elem)
        BY <1>2, <2>3
      <3>. QED BY <2>3, <3>1
    <2>5. t[(n + 1) - 1] = Append(t[p], es[n + 1]) /\ es[n + 1] \in Elem
      BY <1>0, <2>1 DEF Walks
    <2>. QED BY <2>4, <2>5
  <1> HIDE DEF S
  <1>3. Len(es) \in S
    BY <1>0, <1>1, <1>2, SetInduction
  <1>. QED BY <1>0, <1>3 DEF S, t

\* A new element does not change the traces of the others.
LEMMA TraceKept ==
  ASSUME NEW es, Linked(es), NEW fs, Linked(fs), Len(es) <= Len(fs),
         \A i \in 1..Len(es) : fs[i] = es[i]
  PROVE  \A i \in 0..Len(es) : TraceOf(fs)[i - 1] = TraceOf(es)[i - 1]
  <1> DEFINE t == TraceOf(es)
             u == TraceOf(fs)
             S == {n \in Nat : \A i \in 0..n : i <= Len(es) => u[i - 1] = t[i - 1]}
  <1>0. Len(es) \in Nat /\ Walks(es, Len(es), t) /\ Len(fs) \in Nat /\ Walks(fs, Len(fs), u)
    BY TraceWalks DEF Linked
  <1> HIDE DEF t, u
  <1>1. 0 \in S
    <2>1. t[0 - 1] = << >> /\ u[0 - 1] = << >>
      <3>1. t[-1] = << >> /\ u[-1] = << >>
        BY <1>0 DEF Walks
      <3>. QED BY <3>1, 0 - 1 = -1
    <2>2. \A i \in 0..0 : u[i - 1] = t[i - 1]
      BY <2>1
    <2>. QED BY <2>2
  <1>2. ASSUME NEW n \in Nat, n \in S PROVE n + 1 \in S
    <2> SUFFICES ASSUME n + 1 <= Len(es) PROVE u[(n + 1) - 1] = t[(n + 1) - 1]
      BY <1>2
    <2>1. n + 1 \in 1..Len(es) /\ n + 1 \in 1..Len(fs) /\ (n + 1) - 2 = n - 1
      BY <1>0
    <2> DEFINE p == es[n + 1].predidx
    <2>2. p \in -1..(n - 1)
      BY <2>1 DEF Linked
    <2>3. p + 1 \in 0..n /\ (p + 1) - 1 = p /\ p + 1 <= Len(es)
      BY <2>1, <2>2
    <2>4. u[p] = t[p]
      <3>1. u[(p + 1) - 1] = t[(p + 1) - 1]
        BY <1>2, <2>3
      <3>. QED BY <2>3, <3>1
    <2>5. fs[n + 1] = es[n + 1]
      BY <2>1
    <2>6. t[(n + 1) - 1] = Append(t[p], es[n + 1])
      BY <1>0, <2>1 DEF Walks
    <2>7. u[(n + 1) - 1] = Append(u[p], es[n + 1])
      BY <1>0, <2>1, <2>5 DEF Walks
    <2>. QED BY <2>4, <2>6, <2>7
  <1> HIDE DEF S
  <1>3. Len(es) \in S
    BY <1>0, <1>1, <1>2, SetInduction
  <1>. QED BY <1>0, <1>3 DEF S, t, u

-----------------------------------------------------------------------------
(* The unresolved elements of a trace.                                     *)

Unresolved(t) == {j \in DOMAIN t : t[j].featno = 0}

LEMMA UnresolvedFinite ==
  ASSUME NEW t \in Seq(Elem)
  PROVE  IsFiniteSet(Unresolved(t)) /\ Cardinality(Unresolved(t)) \in Nat
  <1>1. Len(t) \in Nat /\ Unresolved(t) \subseteq 1..Len(t)
    BY DEF Unresolved
  <1>2. IsFiniteSet(1..Len(t))
    BY <1>1, FS_Interval
  <1>. QED BY <1>1, <1>2, FS_Subset, FS_CardinalityType

LEMMA UnresolvedGrows ==
  ASSUME NEW t \in Seq(Elem), NEW e \in Elem
  PROVE  Cardinality(Unresolved(Append(t, e)))
           = Cardinality(Unresolved(t)) + (IF e.featno = 0 THEN 1 ELSE 0)
  <1> DEFINE n == Len(t) + 1
  <1>1. /\ n \in Nat /\ Len(Append(t, e)) = n
        /\ \A j \in 1..Len(t) : Append(t, e)[j] = t[j]
        /\ Append(t, e)[n] = e
        /\ DOMAIN Append(t, e) = 1..n /\ DOMAIN t = 1..Len(t)
    OBVIOUS
  <1>2. \A j \in 1..n : j = n \/ j \in 1..Len(t)
    OBVIOUS
  <1>3. n \notin 1..Len(t) /\ n \in 1..n /\ 1..Len(t) \subseteq 1..n
    OBVIOUS
  <1> HIDE DEF n
  <1>4. CASE e.featno = 0
    <2>1. Unresolved(Append(t, e)) = Unresolved(t) \cup {n}
      BY <1>1, <1>2, <1>3, <1>4 DEF Unresolved
    <2>2. n \notin Unresolved(t)
      BY <1>1, <1>3 DEF Unresolved
    <2>. QED BY <1>4, <2>1, <2>2, UnresolvedFinite, FS_AddElement
  <1>5. CASE e.featno # 0
    <2>1. Unresolved(Append(t, e)) = Unresolved(t)
      BY <1>1, <1>2, <1>3, <1>5 DEF Unresolved
    <2>. QED BY <1>5, <2>1, UnresolvedFinite
  <1>. QED BY <1>4, <1>5

EndOf(es, i) == IF i = -1 THEN 0 ELSE es[i + 1].endpos

Unres(es, i) == Cardinality(Unresolved(TraceOf(es)[i]))

Extended(es, fs, e) ==
    /\ Linked(fs) /\ Len(fs) = Len(es) + 1
    /\ \A i \in 1..Len(es) : fs[i] = es[i]
    /\ fs[Len(es) + 1] = e
    /\ \A i \in -1..(Len(es) - 1) : EndOf(fs, i) = EndOf(es, i) /\ Unres(fs, i) = Unres(es, i)
    /\ EndOf(fs, Len(es)) = e.endpos
    /\ Unres(fs, Len(es)) = Unres(es, e.predidx) + (IF e.featno = 0 THEN 1 ELSE 0)

LEMMA NewElement ==
  ASSUME NEW es, Linked(es), NEW e \in Elem, e.predidx \in -1..(Len(es) - 1)
  PROVE  Extended(es, Append(es, e), e)
  <1> DEFINE fs == Append(es, e)
  <1>1. es \in Seq(Elem) /\ Len(es) \in Nat /\ \A i \in 1..Len(es) : es[i].predidx \in -1..(i - 2)
    BY DEF Linked
  <1>2. fs \in Seq(Elem) /\ Len(fs) = Len(es) + 1 /\ fs[Len(es) + 1] = e
    BY <1>1
  <1>3. \A i \in 1..Len(es) : fs[i] = es[i]
    BY <1>1
  <1> HIDE DEF fs
  <1>4. Linked(fs)
    <2>1. ASSUME NEW i \in 1..Len(fs) PROVE fs[i].predidx \in -1..(i - 2)
      <3>1. CASE i = Len(es) + 1
        BY <1>1, <1>2, <3>1
      <3>2. CASE i # Len(es) + 1
        <4>1. i \in 1..Len(es)
          BY <1>1, <1>2, <3>2
        <4>. QED BY <1>1, <1>3, <4>1
      <3>. QED BY <3>1, <3>2
    <2>. QED BY <1>2, <2>1 DEF Linked
  <1>5. \A i \in 0..Len(es) : TraceOf(fs)[i - 1] = TraceOf(es)[i - 1]
    BY <1>1, <1>2, <1>3, <1>4, TraceKept
  <1>6. ASSUME NEW i \in -1..(Len(es) - 1)
        PROVE  TraceOf(fs)[i] = TraceOf(es)[i] /\ TraceOf(es)[i] \in Seq(Elem)
    <2>1. i + 1 \in 0..Len(es) /\ (i + 1) - 1 = i
      BY <1>1
    <2>2. TraceOf(fs)[(i + 1) - 1] = TraceOf(es)[(i + 1) - 1]
      BY <1>5, <2>1
    <2>3. TraceOf(es)[(i + 1) - 1] \in Seq(Elem)
      BY <2>1, TraceTyped
    <2>. QED BY <2>1, <2>2, <2>3
  <1>7. TraceOf(fs)[Len(es)] = Append(TraceOf(es)[e.predidx], e)
    <2>1. Walks(fs, Len(fs), TraceOf(fs))
      BY <1>4, TraceWalks
    <2>2. Len(es) + 1 \in 1..Len(fs) /\ (Len(es) + 1) - 1 = Len(es)
      BY <1>1, <1>2
    <2>3. TraceOf(fs)[(Len(es) + 1) - 1] = Append(TraceOf(fs)[e.predidx], e)
      BY <1>2, <2>1, <2>2 DEF Walks
    <2>. QED BY <1>6, <2>2, <2>3
  <1>8. \A i \in -1..(Len(es) - 1) : Unres(fs, i) = Unres(es, i)
    BY <1>6 DEF Unres
  <1>9. Unres(fs, Len(es)) = Unres(es, e.predidx) + (IF e.featno = 0 THEN 1 ELSE 0)
    BY <1>6, <1>7, UnresolvedGrows DEF Unres
  <1>10. \A i \in -1..(Len(es) - 1) : EndOf(fs, i) = EndOf(es, i)
    <2>1. \A i \in -1..(Len(es) - 1) : i # -1 => i + 1 \in 1..Len(es)
      BY <1>1
    <2>. QED BY <1>3, <2>1 DEF EndOf
  <1>11. EndOf(fs, Len(es)) = e.endpos
    <2>1. Len(es) # -1
      BY <1>1
    <2>. QED BY <1>2, <2>1 DEF EndOf
  <1>. QED BY <1>2, <1>3, <1>4, <1>8, <1>9, <1>10, <1>11 DEF Extended, fs

LEMMA NoElements ==
  /\ Linked(<< >>)
  /\ EndOf(<< >>, -1) = 0 /\ Unres(<< >>, -1) = 0
  <1>1. << >> \in Seq(Elem) /\ Len(<< >>) = 0 /\ \A i \in 1..0 : FALSE
    OBVIOUS
  <1>2. Linked(<< >>)
    BY <1>1 DEF Linked
  <1>3. TraceOf(<< >>)[-1] = << >>
    BY <1>2, TraceWalks DEF Walks
  <1>4. Unresolved(<< >>) = {}
    BY DEF Unresolved
  <1>. QED BY <1>2, <1>3, <1>4, FS_EmptySet DEF EndOf, Unres

-----------------------------------------------------------------------------
(* Gaps: parts of the field without a character of a word.                 *)

Gap(f, a, b) == a <= b /\ \A p \in a..(b - 1) : CharAt(f, p) \in Seps

LEMMA GapsJoin ==
  ASSUME NEW f, NEW a \in Nat, NEW b \in Nat, NEW c \in Nat, Gap(f, a, b), Gap(f, b, c)
  PROVE  Gap(f, a, c)
  <1>1. a <= c
    BY DEF Gap
  <1>2. ASSUME NEW p \in a..(c - 1) PROVE CharAt(f, p) \in Seps
    <2>1. p \in a..(b - 1) \/ p \in b..(c - 1)
      OBVIOUS
    <2>. QED BY <2>1 DEF Gap
  <1>. QED BY <1>1, <1>2 DEF Gap

LEMMA NoGap ==
  ASSUME NEW f, NEW a \in Nat
  PROVE  Gap(f, a, a)
  <1>1. a <= a /\ a..(a - 1) = {}
    OBVIOUS
  <1>. QED BY <1>1 DEF Gap

-----------------------------------------------------------------------------
(* What a trace covers.                                                    *)

LastEnd(t) == IF Len(t) = 0 THEN 0 ELSE t[Len(t)].endpos

Covers(f, t) ==
    \A j \in 1..Len(t) : Gap(f, IF j = 1 THEN 0 ELSE t[j - 1].endpos, t[j].startpos)

LEMMA CoverExtends ==
  ASSUME NEW f, NEW t \in Seq(Elem), NEW e \in Elem, Covers(f, t), Gap(f, LastEnd(t), e.startpos)
  PROVE  Covers(f, Append(t, e)) /\ LastEnd(Append(t, e)) = e.endpos
  <1> DEFINE u == Append(t, e)
             n == Len(t)
  <1>1. n \in Nat /\ Len(u) = n + 1 /\ u[n + 1] = e /\ \A j \in 1..n : u[j] = t[j]
    OBVIOUS
  <1> HIDE DEF u
  <1>2. LastEnd(u) = e.endpos
    BY <1>1 DEF LastEnd
  <1>3. ASSUME NEW j \in 1..Len(u)
        PROVE  Gap(f, IF j = 1 THEN 0 ELSE u[j - 1].endpos, u[j].startpos)
    <2>1. CASE j = n + 1
      <3>1. (IF j = 1 THEN 0 ELSE u[j - 1].endpos) = LastEnd(t)
        <4>1. CASE n = 0
          BY <2>1, <4>1 DEF LastEnd
        <4>2. CASE n # 0
          <5>1. j # 1 /\ j - 1 = n /\ n \in 1..n
            BY <1>1, <2>1, <4>2
          <5>. QED BY <1>1, <4>2, <5>1 DEF LastEnd
        <4>. QED BY <4>1, <4>2
      <3>2. u[j].startpos = e.startpos
        BY <1>1, <2>1
      <3>. QED BY <3>1, <3>2
    <2>2. CASE j # n + 1
      <3>1. j \in 1..n /\ (j # 1 => j - 1 \in 1..n)
        BY <1>1, <2>2
      <3>2. (IF j = 1 THEN 0 ELSE u[j - 1].endpos) = (IF j = 1 THEN 0 ELSE t[j - 1].endpos)
        BY <1>1, <3>1
      <3>3. u[j] = t[j]
        BY <1>1, <3>1
      <3>. QED BY <3>1, <3>2, <3>3 DEF Covers
    <2>. QED BY <2>1, <2>2
  <1>. QED BY <1>2, <1>3 DEF Covers, u

\* Every element follows the one it is linked to.
Chained(f, es) == \A i \in 1..Len(es) : Gap(f, EndOf(es, es[i].predidx), es[i].startpos)

LEMMA TracesCover ==
  ASSUME NEW f, NEW es, Linked(es), Chained(f, es)
  PROVE  \A i \in 0..Len(es) :
            Covers(f, TraceOf(es)[i - 1]) /\ LastEnd(TraceOf(es)[i - 1]) = EndOf(es, i - 1)
  <1> DEFINE t == TraceOf(es)
             Good(i) == Covers(f, t[i]) /\ LastEnd(t[i]) = EndOf(es, i)
             S == {n \in Nat : \A i \in 0..n : i <= Len(es) => Good(i - 1)}
  <1>0. Len(es) \in Nat /\ Walks(es, Len(es), t) /\ \A i \in 1..Len(es) : es[i] \in Elem
    BY TraceWalks DEF Linked
  <1>a. \A i \in 0..Len(es) : t[i - 1] \in Seq(Elem)
    BY TraceTyped
  <1> HIDE DEF t
  <1>1. 0 \in S
    <2>1. t[-1] = << >>
      BY <1>0 DEF Walks
    <2>2. Len(<< >>) = 0 /\ \A j \in 1..0 : FALSE
      OBVIOUS
    <2>3. Good(-1)
      BY <2>1, <2>2 DEF Covers, LastEnd, EndOf
    <2>4. \A i \in 0..0 : i - 1 = -1
      OBVIOUS
    <2> HIDE DEF Good
    <2>. QED BY <2>3, <2>4
  <1>2. ASSUME NEW n \in Nat, n \in S PROVE n + 1 \in S
    <2>1. SUFFICES ASSUME n + 1 <= Len(es) PROVE Good(n)
      <3>1. \A i \in 0..(n + 1) : i \in 0..n \/ (i = n + 1 /\ i - 1 = n)
        OBVIOUS
      <3> HIDE DEF Good
      <3>. QED BY <1>2, <3>1
    <2>2. n + 1 \in 1..Len(es) /\ (n + 1) - 2 = n - 1 /\ n # -1
      BY <1>0, <2>1
    <2> DEFINE p == es[n + 1].predidx
    <2>3. p \in -1..(n - 1)
      BY <2>2 DEF Linked
    <2>4. p + 1 \in 0..n /\ (p + 1) - 1 = p /\ p + 1 <= Len(es)
      BY <2>2, <2>3
    <2>5. Good(p) /\ t[p] \in Seq(Elem)
      <3> HIDE DEF Good
      <3>1. Good((p + 1) - 1)
        BY <1>2, <2>4
      <3>2. p + 1 \in 0..Len(es)
        BY <1>0, <2>4
      <3>3. t[(p + 1) - 1] \in Seq(Elem)
        BY <1>a, <3>2
      <3>. QED BY <2>4, <3>1, <3>3
    <2>6. t[n] = Append(t[p], es[n + 1]) /\ es[n + 1] \in Elem
      <3>1. (n + 1) - 1 = n
        OBVIOUS
      <3>. QED BY <1>0, <2>2, <3>1 DEF Walks
    <2>7. Gap(f, LastEnd(t[p]), es[n + 1].startpos)
      BY <2>2, <2>5 DEF Chained
    <2>8. EndOf(es, n) = es[n + 1].endpos
      BY <2>2 DEF EndOf
    <2>. QED BY <2>5, <2>6, <2>7, <2>8, CoverExtends
  <1> HIDE DEF S
  <1>3. Len(es) \in S
    BY <1>0, <1>1, <1>2, SetInduction
  <1>. QED BY <1>0, <1>3 DEF S, t

-----------------------------------------------------------------------------
(* The key buffer.                                                         *)

Char(f) == Range(f) \cup Seps

\* A key is the rest of the field but for the kind of its separators.
Follows(f, k, p) ==
    /\ k \in Seq(Char(f)) /\ Len(k) = Len(f) - p
    /\ \A i \in 1..Len(k) : k[i] = f[p + i] \/ (k[i] \in Seps /\ f[p + i] \in Seps)

IsField(f) == f \in Seq(Range(f)) /\ End \notin Range(f)

LEMMA FieldChars ==
  ASSUME NEW f, IsField(f)
  PROVE  f \in Seq(Char(f)) /\ End \notin Char(f) /\ Len(f) \in Nat
  <1>1. f \in Seq(Range(f)) /\ Range(f) \subseteq Char(f)
    BY DEF IsField, Char
  <1>2. f \in Seq(Char(f))
    BY <1>1, SeqMonotonic
  <1>3. End \notin Char(f)
    BY KeySearchAssumption DEF IsField, Char
  <1>. QED BY <1>1, <1>2, <1>3

LEMMA RestFollows ==
  ASSUME NEW f, IsField(f), NEW p \in Nat, p <= Len(f)
  PROVE  Follows(f, SubSeq(f, p + 1, Len(f)), p)
  <1> DEFINE k == SubSeq(f, p + 1, Len(f))
  <1>1. f \in Seq(Char(f)) /\ Len(f) \in Nat
    BY FieldChars
  <1>2. k \in Seq(Char(f)) /\ Len(k) = Len(f) - p
    BY <1>1
  <1>3. \A i \in 1..Len(k) : k[i] = f[p + i]
    BY <1>1, <1>2
  <1>. QED BY <1>2, <1>3 DEF Follows

LEMMA CharsOfKey ==
  ASSUME NEW f, IsField(f), NEW p \in Nat, p <= Len(f), NEW k, Follows(f, k, p)
  PROVE  /\ Len(k) \in Nat /\ CharAt(k, Len(k)) = End /\ End \notin Seps
         /\ \A q \in 0..(Len(k) - 1) :
               /\ CharAt(k, q) = k[q + 1] /\ CharAt(k, q) # End /\ p + q < Len(f)
               /\ CharAt(k, q) \in Seps <=> CharAt(f, p + q) \in Seps
         /\ \A q \in Nat : q <= Len(k) /\ CharAt(k, q) \in Seps => q < Len(k)
  <1>1. Len(k) \in Nat /\ Len(f) \in Nat /\ Len(k) = Len(f) - p /\ k \in Seq(Char(f))
    BY FieldChars DEF Follows
  <1>2. CharAt(k, Len(k)) = End /\ End \notin Seps
    BY <1>1, KeySearchAssumption DEF CharAt
  <1>3. ASSUME NEW q \in 0..(Len(k) - 1)
        PROVE  /\ CharAt(k, q) = k[q + 1] /\ CharAt(k, q) # End /\ p + q < Len(f)
               /\ CharAt(k, q) \in Seps <=> CharAt(f, p + q) \in Seps
    <2>1. q + 1 \in 1..Len(k) /\ p + q < Len(f) /\ p + (q + 1) = (p + q) + 1 /\ q < Len(k)
      BY <1>1
    <2>2. k[q + 1] \in Char(f)
      BY <1>1, <2>1
    <2>3. CharAt(k, q) = k[q + 1] /\ CharAt(f, p + q) = f[(p + q) + 1]
      BY <2>1 DEF CharAt
    <2>4. k[q + 1] = f[p + (q + 1)] \/ (k[q + 1] \in Seps /\ f[p + (q + 1)] \in Seps)
      BY <2>1 DEF Follows
    <2>. QED BY <2>1, <2>2, <2>3, <2>4, FieldChars
  <1>4. ASSUME NEW q \in Nat, q <= Len(k), CharAt(k, q) \in Seps PROVE q < Len(k)
    <2>1. q # Len(k)
      BY <1>2, <1>4
    <2>. QED BY <1>1, <1>4, <2>1
  <1>. QED BY <1>1, <1>2, <1>3, <1>4

LEMMA SkipInKey ==
  ASSUME NEW f, IsField(f), NEW p \in Nat, p <= Len(f), NEW k, Follows(f, k, p),
         NEW q \in Nat, q < Len(k)
  PROVE  SkipToken(k, q) \in (q + 1)..Len(k)
  <1> DEFINE from == IF CharAt(k, q) = Space THEN q + 1 ELSE q
             S == {r \in from..Len(k) : CharAt(k, r) \in Seps \cup {End}}
  <1>1. Len(k) \in Nat /\ CharAt(k, Len(k)) = End /\ q \in 0..(Len(k) - 1) /\ CharAt(k, q) # End
    BY CharsOfKey
  <1>2. CASE CharAt(k, q) = Link
    BY <1>1, <1>2 DEF SkipToken
  <1>3. CASE CharAt(k, q) # Link
    <2>1. from \in q..Len(k)
      BY <1>1
    <2>2. S \in SUBSET Nat /\ Len(k) \in S
      BY <1>1, <2>1
    <2>3. Min(S) \in S
      BY <2>2, MinIsLeast
    <2>4. \A r \in S : r # q
      BY <1>1, <1>3 DEF Seps
    <2>5. SkipToken(k, q) = Min(S)
      BY <1>3 DEF SkipToken
    <2>. QED BY <2>1, <2>3, <2>4, <2>5
  <1>. QED BY <1>2, <1>3

LEMMA SuccessorInKey ==
  ASSUME NEW f, IsField(f), NEW p \in Nat, p <= Len(f), NEW k, Follows(f, k, p),
         NEW q \in Nat, q <= Len(k)
  PROVE  /\ Successor(k, q) \in q..Len(k)
         /\ Gap(f, p + q, p + Successor(k, q))
  <1>1. Len(k) \in Nat
    BY CharsOfKey
  <1>2. CASE CharAt(k, q) \in Seps
    <2>1. q < Len(k) /\ q \in 0..(Len(k) - 1)
      BY <1>2, CharsOfKey
    <2>2. CharAt(f, p + q) \in Seps
      BY <1>2, <2>1, CharsOfKey
    <2>3. Successor(k, q) = q + 1
      BY <1>2 DEF Successor
    <2>4. p + q <= p + (q + 1) /\ \A r \in (p + q)..((p + (q + 1)) - 1) : r = p + q
      OBVIOUS
    <2>. QED BY <1>1, <2>1, <2>2, <2>3, <2>4 DEF Gap
  <1>3. CASE CharAt(k, q) \notin Seps
    <2>1. Successor(k, q) = q
      BY <1>3 DEF Successor
    <2>. QED BY <1>1, <2>1, NoGap
  <1>. QED BY <1>2, <1>3

\* A token without a word consists of separators.
LEMMA NoWordGap ==
  ASSUME NEW f, IsField(f), NEW p \in Nat, p <= Len(f), NEW k, Follows(f, k, p),
         NEW q \in Nat, q <= Len(k), ~ IsWord(k, q)
  PROVE  Gap(f, p, p + q)
  <1>1. Len(k) \in Nat
    BY CharsOfKey
  <1>2. ASSUME NEW r \in p..((p + q) - 1) PROVE CharAt(f, r) \in Seps
    <2>1. r - p \in 0..(Len(k) - 1) /\ p + (r - p) = r /\ (r - p) + 1 \in 1..q
      BY <1>1
    <2>2. k[(r - p) + 1] \in Seps
      BY <2>1 DEF IsWord
    <2>3. CharAt(k, r - p) \in Seps
      BY <2>1, <2>2, CharsOfKey
    <2>4. CharAt(f, p + (r - p)) \in Seps
      BY <2>1, <2>3, CharsOfKey
    <2>. QED BY <2>1, <2>4
  <1>3. p <= p + q
    OBVIOUS
  <1>. QED BY <1>2, <1>3 DEF Gap

LEMMA LinkFollows ==
  ASSUME NEW f, IsField(f), NEW p \in Nat, p <= Len(f), NEW k, Follows(f, k, p),
         NEW q \in Nat, q <= Len(k)
  PROVE  Follows(f, LinkAt(k, q), p) /\ Len(LinkAt(k, q)) = Len(k)
  <1>1. CASE CharAt(k, q) = Space
    <2> DEFINE u == [k EXCEPT ![q + 1] = Link]
    <2>1. q < Len(k) /\ q \in 0..(Len(k) - 1) /\ Len(k) \in Nat /\ q + 1 \in 1..Len(k)
      BY <1>1, CharsOfKey DEF Seps
    <2>2. k \in Seq(Char(f)) /\ Len(k) = Len(f) - p /\ Link \in Seps /\ Link \in Char(f) /\ Space \in Seps
      BY DEF Follows, Char, Seps
    <2>3. u \in Seq(Char(f)) /\ Len(u) = Len(k)
      BY <2>1, <2>2
    <2>4. \A i \in 1..Len(k) : u[i] = IF i = q + 1 THEN Link ELSE k[i]
      BY <2>1, <2>2
    <2>5. k[q + 1] = Space
      BY <1>1, <2>1, CharsOfKey
    <2> HIDE DEF u
    <2>6. ASSUME NEW i \in 1..Len(u) PROVE u[i] = f[p + i] \/ (u[i] \in Seps /\ f[p + i] \in Seps)
      <3>1. k[i] = f[p + i] \/ (k[i] \in Seps /\ f[p + i] \in Seps)
        BY <2>3 DEF Follows
      <3>. QED BY <2>2, <2>3, <2>4, <2>5, <3>1
    <2>7. Follows(f, u, p)
      BY <2>2, <2>3, <2>6 DEF Follows
    <2>. QED BY <1>1, <2>3, <2>7 DEF LinkAt, u
  <1>2. CASE CharAt(k, q) # Space
    BY <1>2 DEF LinkAt
  <1>. QED BY <1>1, <1>2

LEMMA DeviationInKey ==
  ASSUME NEW f, IsField(f), NEW p \in Nat, p <= Len(f), NEW k, Follows(f, k, p),
         NEW q \in Nat, q <= Len(k), NEW n \in Nat, n <= Len(k)
  PROVE  Deviation(k, q, n) \in q..Len(k)
  <1> DEFINE S == {r \in q..Len(k) :
                     /\ (r = q \/ CharAt(k, r) \in Seps \cup {End} \/ CharAt(k, r - 1) = Link)
                     /\ (r >= n \/ CharAt(k, r) = Space)}
  <1>1. Len(k) \in Nat /\ CharAt(k, Len(k)) = End
    BY CharsOfKey
  <1>2. S \in SUBSET Nat /\ Len(k) \in S
    BY <1>1
  <1>3. Min(S) \in S
    BY <1>2, MinIsLeast
  <1>. QED BY <1>3 DEF Deviation

-----------------------------------------------------------------------------
(* The features found.                                                     *)

\* The part of the field is the name, but for a link the name ends with.
Named(f, ns, e) ==
    e.featno # 0 =>
        \/ EqualField(SubSeq(f, e.startpos + 1, e.endpos), ns[e.featno])
        \/ e.endpos = Len(f) /\ EqualField(Append(SubSeq(f, e.startpos + 1, e.endpos), Link), ns[e.featno])

NamesTyped(ns) ==
    /\ Len(ns) \in Nat /\ DOMAIN ns = 1..Len(ns)
    /\ \A i \in 1..Len(ns) : ns[i] \in Seq(Range(ns[i])) /\ ns[i] # << >>

LEMMA FrontOfName ==
  ASSUME NEW S, NEW s \in Seq(S), Len(s) >= 1
  PROVE  LET c == SubSeq(s, 1, Len(s) - 1)
         IN  Len(c) = Len(s) - 1 /\ \A i \in 1..(Len(s) - 1) : c[i] = s[i]
  <1> DEFINE n == Len(s)
             c == SubSeq(s, 1, n - 1)
  <1>1. n \in Nat /\ n >= 1 /\ \A i \in 1..(n - 1) : s[i] \in S
    OBVIOUS
  <1>2. /\ Len(c) = IF 1 <= n - 1 THEN (n - 1) - 1 + 1 ELSE 0
        /\ \A i \in 1..((n - 1) - 1 + 1) : c[i] = s[1 + i - 1]
    BY <1>1, SubSeqProperties
  <1> HIDE DEF c, n
  <1>3. Len(c) = n - 1
    BY <1>1, <1>2
  <1>4. ASSUME NEW i \in 1..(n - 1) PROVE c[i] = s[i]
    <2>1. i \in 1..((n - 1) - 1 + 1) /\ 1 + i - 1 = i
      BY <1>1
    <2>. QED BY <1>2, <2>1
  <1>. QED BY <1>3, <1>4 DEF c, n

LEMMA FeatureFits ==
  ASSUME IsField(field), NamesTyped(names), NEW p \in Nat, p < Len(field),
         NEW x \in DOMAIN names, KeyLen(x, p) # -1
  PROVE  /\ KeyLen(x, p) \in 1..(Len(field) - p)
         /\ \/ EqualField(SubSeq(field, p + 1, p + KeyLen(x, p)), names[x])
            \/ /\ p + KeyLen(x, p) = Len(field)
               /\ EqualField(Append(SubSeq(field, p + 1, p + KeyLen(x, p)), Link), names[x])
  <1> DEFINE rest == SubSeq(field, p + 1, Len(field))
             n == Len(names[x])
             First1 == /\ n <= Len(rest) /\ EqualField(SubSeq(rest, 1, n), names[x])
                       /\ (n = Len(rest) \/ CharAt(field, n) \in Seps \/ CharAt(field, n - 1) \in Seps)
             Second == /\ n = Len(rest) + 1 /\ EqualField(rest, SubSeq(names[x], 1, n - 1))
                       /\ names[x][n] = Link
  <1>1. KeyLen(x, p) = IF First1 THEN n ELSE IF Second THEN n - 1 ELSE -1
    BY DEF KeyLen
  <1>2. field \in Seq(Char(field)) /\ Len(field) \in Nat
    BY FieldChars
  <1>3. x \in 1..Len(names) /\ names[x] \in Seq(Range(names[x])) /\ names[x] # << >>
    BY DEF NamesTyped
  <1>4. n \in Nat /\ n >= 1
    BY <1>3
  <1>5. rest \in Seq(Char(field)) /\ Len(rest) = Len(field) - p /\ Len(rest) >= 1
    BY <1>2
  <1>6. CASE First1
    <2>1. KeyLen(x, p) = n
      BY <1>1, <1>6
    <2>2. SubSeq(rest, 1, n) = SubSeq(field, p + 1, p + n)
      BY <1>2, <1>4, <1>5, <1>6
    <2>3. n <= Len(rest) /\ EqualField(SubSeq(rest, 1, n), names[x])
      BY <1>6
    <2>4. n \in 1..(Len(field) - p)
      BY <1>4, <1>5, <2>3
    <2>5. EqualField(SubSeq(field, p + 1, p + n), names[x])
      <3> HIDE DEF rest, n
      <3>. QED BY <2>2, <2>3
    <2> HIDE DEF rest, n
    <2>. QED BY <2>1, <2>4, <2>5
  <1>7. CASE ~First1 /\ Second
    <2>1. KeyLen(x, p) = n - 1 /\ n - 1 = Len(rest)
      BY <1>1, <1>4, <1>5, <1>7
    <2>2. p + (n - 1) = Len(field) /\ SubSeq(field, p + 1, p + (n - 1)) = rest
      BY <1>2, <1>5, <2>1
    <2> DEFINE a == SubSeq(names[x], 1, n - 1)
               b == Append(rest, Link)
    <2>3. Len(a) = n - 1 /\ \A i \in 1..(n - 1) : a[i] = names[x][i]
      BY <1>3, <1>4, FrontOfName
    <2>4. Len(b) = n /\ DOMAIN b = 1..n /\ b[n] = Link /\ \A i \in 1..(n - 1) : b[i] = rest[i]
      BY <1>4, <1>5, <2>1
    <2>5. DOMAIN rest = 1..(n - 1)
      BY <1>5, <2>1
    <2>6. EqualField(rest, a) /\ names[x][n] = Link
      BY <1>7
    <2> HIDE DEF a, b
    <2>7. \A i \in 1..n : b[i] = names[x][i] \/ {b[i], names[x][i]} = Seps
      <3>1. \A i \in 1..n : i = n \/ i \in 1..(n - 1)
        BY <1>4
      <3>. QED BY <2>3, <2>4, <2>5, <2>6, <3>1 DEF EqualField
    <2>8. EqualField(b, names[x])
      BY <2>4, <2>7 DEF EqualField
    <2>. QED BY <1>4, <1>5, <2>1, <2>2, <2>8 DEF b
  <1>. QED BY <1>1, <1>6, <1>7

LEMMA LoadedFits ==
  ASSUME IsField(field), NamesTyped(names), NEW p \in Nat, p < Len(field), NEW k, NEW q,
         NEW r \in Loaded(k, q, p)
  PROVE  /\ r.featno \in 1..Len(names) /\ r.featno # 0
         /\ r.keylen \in 1..(Len(field) - p)
         /\ \/ EqualField(SubSeq(field, p + 1, p + r.keylen), names[r.featno])
            \/ /\ p + r.keylen = Len(field)
               /\ EqualField(Append(SubSeq(field, p + 1, p + r.keylen), Link), names[r.featno])
  <1> DEFINE fit == {x \in (q..Len(k)) \X (DOMAIN names) :
                       x[2] = Hit(SubSeq(k, 1, x[1])) /\ KeyLen(x[2], p) # -1}
  <1>1. PICK x \in fit : r = [featno |-> x[2], keylen |-> KeyLen(x[2], p)]
    BY DEF Loaded
  <1>2. x[2] \in DOMAIN names /\ KeyLen(x[2], p) # -1 /\ r.featno = x[2] /\ r.keylen = KeyLen(x[2], p)
    BY <1>1
  <1>3. x[2] \in 1..Len(names) /\ x[2] # 0
    BY <1>2 DEF NamesTyped
  <1>. QED BY <1>2, <1>3, FeatureFits

-----------------------------------------------------------------------------
(* The element taken from the queue.                                       *)

LEMMA SameElement ==
  ASSUME NEW a \in QueueElement, NEW b \in QueueElement,
         a.nofUnresolved = b.nofUnresolved, a.pos = b.pos, a.size = b.size, a.predidx = b.predidx
  PROVE  a = b
  <1>1. \A q \in QueueElement :
           q = [nofUnresolved |-> q.nofUnresolved, pos |-> q.pos, predidx |-> q.predidx, size |-> q.size]
    BY DEF QueueElement
  <1>. QED BY <1>1, Zenon

LEMMA LexicallyFirst ==
  ASSUME NEW m \in QueueElement, NEW o \in QueueElement, NEW len \in Nat,
         m.nofUnresolved <= o.nofUnresolved,
         o.nofUnresolved = m.nofUnresolved => len - m.pos <= len - o.pos,
         o.nofUnresolved = m.nofUnresolved /\ len - m.pos = len - o.pos => m.size <= o.size,
         o.nofUnresolved = m.nofUnresolved /\ len - m.pos = len - o.pos /\ m.size = o.size
            => m.predidx + 1 <= o.predidx + 1
  PROVE  o = m \/ Precedes(m, o)
  <1>1. \A q \in QueueElement : /\ q.nofUnresolved \in Nat /\ q.pos \in Nat /\ q.size \in Nat
                                 /\ q.predidx \in Nat \cup {-1}
    BY DEF QueueElement
  <1>2. /\ m.nofUnresolved \in Nat /\ m.pos \in Nat /\ m.size \in Nat /\ m.predidx \in Int
        /\ o.nofUnresolved \in Nat /\ o.pos \in Nat /\ o.size \in Nat /\ o.predidx \in Int
    BY <1>1
  <1>3. \/ Precedes(m, o)
        \/ /\ m.nofUnresolved = o.nofUnresolved /\ m.pos = o.pos
           /\ m.size = o.size /\ m.predidx = o.predidx
    BY <1>2 DEF Precedes
  <1>. QED BY <1>3, SameElement

LEMMA FirstLeads ==
  ASSUME queue \subseteq QueueElement, queue # {}, Len(field) \in Nat,
         \A q \in queue : q.pos <= Len(field)
  PROVE  First \in queue /\ \A o \in queue : First.nofUnresolved <= o.nofUnresolved
  <1> DEFINE A1 == {q.nofUnresolved : q \in queue}
  <1>1. PICK a \in A1 : \A n \in A1 : a <= n
    <2>1. A1 \in SUBSET Nat /\ A1 # {}
      BY DEF QueueElement
    <2>. QED BY <2>1, LeastNumber
  <1> DEFINE Q1 == {q \in queue : q.nofUnresolved = a}
             A2 == {Len(field) - q.pos : q \in Q1}
  <1>2. PICK b \in A2 : \A n \in A2 : b <= n
    <2>1. A2 \in SUBSET Nat
      BY DEF QueueElement
    <2>2. A2 # {}
      BY <1>1
    <2>. QED BY <2>1, <2>2, LeastNumber
  <1> DEFINE Q2 == {q \in Q1 : Len(field) - q.pos = b}
             A3 == {q.size : q \in Q2}
  <1>3. PICK c \in A3 : \A n \in A3 : c <= n
    <2>1. A3 \in SUBSET Nat
      BY DEF QueueElement
    <2>2. A3 # {}
      BY <1>2
    <2>. QED BY <2>1, <2>2, LeastNumber
  <1> DEFINE Q3 == {q \in Q2 : q.size = c}
             A4 == {q.predidx + 1 : q \in Q3}
  <1>4. PICK d \in A4 : \A n \in A4 : d <= n
    <2>1. A4 \in SUBSET Nat
      <3>1. ASSUME NEW q \in queue PROVE q.predidx + 1 \in Nat
        <4>1. q.predidx \in Nat \cup {-1}
          BY DEF QueueElement
        <4>. QED BY <4>1
      <3>. QED BY <3>1
    <2>2. A4 # {}
      BY <1>3
    <2>. QED BY <2>1, <2>2, LeastNumber
  <1>5. PICK m \in Q3 : d = m.predidx + 1
    BY <1>4
  <1>6. ASSUME NEW o \in queue PROVE o = m \/ Precedes(m, o)
    <2>1. m \in QueueElement /\ o \in QueueElement
      BY <1>5
    <2>2. m.nofUnresolved = a /\ Len(field) - m.pos = b /\ m.size = c /\ d = m.predidx + 1
      BY <1>5
    <2>3. a <= o.nofUnresolved
      BY <1>1
    <2>4. o.nofUnresolved = a => b <= Len(field) - o.pos
      BY <1>2
    <2>5. o.nofUnresolved = a /\ b = Len(field) - o.pos => c <= o.size
      BY <1>3
    <2>6. o.nofUnresolved = a /\ b = Len(field) - o.pos /\ c = o.size => d <= o.predidx + 1
      BY <1>4
    <2> HIDE DEF A1, A2, A3, A4, Q1, Q2, Q3
    <2>. QED BY <2>1, <2>2, <2>3, <2>4, <2>5, <2>6, LexicallyFirst
  <1>7. m \in queue
    BY <1>5
  <1> HIDE DEF A1, A2, A3, A4, Q1, Q2, Q3
  <1>8. First \in queue /\ \A o \in queue : o = First \/ Precedes(First, o)
    BY <1>6, <1>7 DEF First
  <1>9. ASSUME NEW o \in queue PROVE First.nofUnresolved <= o.nofUnresolved
    <2>1. First.nofUnresolved \in Nat /\ o.nofUnresolved \in Nat
      BY <1>8 DEF QueueElement
    <2>2. o = First \/ Precedes(First, o)
      BY <1>8
    <2>. QED BY <2>1, <2>2 DEF Precedes
  <1>. QED BY <1>8, <1>9

-----------------------------------------------------------------------------
(* The inductive invariant.                                                *)

Solution == [idx : Nat \cup {-1}, nofUnresolved : Nat]

Typed ==
    /\ field \in Fields /\ names \in NameLists
    /\ phase \in {"queue", "expand", "done"}
    /\ queue \subseteq QueueElement /\ cur \in QueueElement
    /\ Linked(elemar) /\ solutions \in Seq(Solution)
    /\ minsize \in Nat \cup {-1}

\* An element covers a part of the field that follows the one it is linked to.
Placed(f, ns, es, e) ==
    /\ e.featno <= Len(ns)
    /\ e.startpos < e.endpos /\ e.endpos <= Len(f)
    /\ Gap(f, EndOf(es, e.predidx), e.startpos)
    /\ Named(f, ns, e)

AllPlaced(f, ns, es) == \A i \in 1..Len(es) : Placed(f, ns, es, es[i])

\* A partial split has covered the field up to its position.
Queued(f, es, q) ==
    /\ q.pos <= Len(f) /\ q.predidx < Len(es)
    /\ Gap(f, EndOf(es, q.predidx), q.pos)
    /\ q.nofUnresolved = Unres(es, q.predidx)

QueueInv ==
    /\ \A q \in queue : Queued(field, elemar, q)
    /\ phase = "expand" => Queued(field, elemar, cur) /\ cur.pos < Len(field)

\* A solution has covered all of it.
Solved(f, es, s) ==
    /\ s.idx < Len(es)
    /\ Gap(f, EndOf(es, s.idx), Len(f))
    /\ s.nofUnresolved = Unres(es, s.idx)

SolutionInv == \A i \in 1..Len(solutions) : Solved(field, elemar, solutions[i])

\* The buffers are the rest of the field from the position explored.
Buffers(f, p) ==
    {s \in [key : Seq(Char(f)), kitr : Nat] : Follows(f, s.key, p) /\ s.kitr <= Len(s.key)}

KeyInv ==
    IF phase = "expand"
    THEN /\ Follows(field, key, cur.pos) /\ kitr \in Nat /\ kitr <= Len(key)
         /\ stack \in Seq(Buffers(field, cur.pos))
    ELSE key = << >> /\ kitr = 0 /\ stack = << >>

\* Nothing that is still to come is better than the solutions there are.
NotBetter(q) == solutions # << >> => q.nofUnresolved >= solutions[1].nofUnresolved

BestInv ==
    /\ \A i \in 1..Len(solutions) : solutions[i].nofUnresolved = solutions[1].nofUnresolved
    /\ \A q \in queue : NotBetter(q)
    /\ phase = "expand" => NotBetter(cur)
    /\ phase = "done" => \A q \in queue : q.nofUnresolved > solutions[1].nofUnresolved

KeySearchInv ==
    Typed /\ AllPlaced(field, names, elemar) /\ QueueInv /\ SolutionInv /\ KeyInv /\ BestInv

LEMMA Arguments ==
  ASSUME Typed
  PROVE  IsField(field) /\ NamesTyped(names) /\ Len(field) \in Nat
  <1>1. IsField(field)
    BY KeySearchAssumption DEF Typed, IsField
  <1>2. NamesTyped(names)
    <2>1. names \in Seq(Range(names))
      BY KeySearchAssumption DEF Typed
    <2>2. Len(names) \in Nat /\ DOMAIN names = 1..Len(names)
      BY <2>1
    <2>3. \A i \in DOMAIN names : names[i] \in Seq(Range(names[i])) /\ names[i] # << >>
      BY KeySearchAssumption DEF Typed
    <2>. QED BY <2>2, <2>3 DEF NamesTyped
  <1>. QED BY <1>1, <1>2, FieldChars

-----------------------------------------------------------------------------
(* A new element.                                                          *)

ElementOf(q, x, n) ==
    [featno |-> x, startpos |-> q.pos, endpos |-> q.pos + n, predidx |-> q.predidx]

\* What follows the new element es ends with
Follower(f, es, q, x, n, o) ==
    /\ o \in QueueElement /\ o.predidx = Len(es)
    /\ o.pos <= Len(f) /\ Gap(f, q.pos + n, o.pos)
    /\ o.nofUnresolved = q.nofUnresolved + (IF x = 0 THEN 1 ELSE 0)

Kept(f, es, fs) ==
    /\ \A o \in QueueElement : Queued(f, es, o) => Queued(f, fs, o)
    /\ \A s \in Solution : Solved(f, es, s) => Solved(f, fs, s)

LEMMA ElementAdded ==
  ASSUME NEW f, NEW ns, NEW es, Linked(es), AllPlaced(f, ns, es),
         NEW q \in QueueElement, Queued(f, es, q), Len(f) \in Nat,
         NEW n \in Nat, n >= 1, q.pos + n <= Len(f), NEW x \in Nat, x <= Len(ns),
         Named(f, ns, ElementOf(q, x, n)),
         NEW fs, fs = Append(es, ElementOf(q, x, n))
  PROVE  /\ Linked(fs) /\ AllPlaced(f, ns, fs) /\ Kept(f, es, fs)
         /\ \A o : Follower(f, es, q, x, n, o) => Queued(f, fs, o)
  <1> DEFINE e == ElementOf(q, x, n)
  <1>1. /\ q.pos \in Nat /\ q.predidx \in Nat \cup {-1} /\ q.nofUnresolved \in Nat
        /\ q.predidx < Len(es) /\ Len(es) \in Nat
    BY DEF QueueElement, Queued, Linked
  <1>2. /\ e \in Elem /\ e.predidx = q.predidx /\ e.featno = x /\ e.startpos = q.pos
        /\ e.endpos = q.pos + n /\ e.predidx \in -1..(Len(es) - 1)
    BY SMTT(30), <1>1 DEF ElementOf, Elem
  <1> HIDE DEF e
  <1>3. Extended(es, fs, e)
    BY <1>2, NewElement DEF e
  <1>4. Linked(fs) /\ Len(fs) = Len(es) + 1
    BY <1>3 DEF Extended
  <1>5. AllPlaced(f, ns, fs)
    <2>1. ASSUME NEW i \in 1..Len(es) PROVE Placed(f, ns, fs, fs[i])
      <3>1. fs[i] = es[i] /\ Placed(f, ns, es, es[i])
        BY <1>3 DEF Extended, AllPlaced
      <3>2. es[i].predidx \in -1..(Len(es) - 1)
        <4>1. es[i].predidx \in -1..(i - 2)
          BY DEF Linked
        <4>. QED BY SMTT(30), <1>1, <4>1
      <3>3. EndOf(fs, es[i].predidx) = EndOf(es, es[i].predidx)
        BY <1>3, <3>2 DEF Extended
      <3>. QED BY <3>1, <3>3 DEF Placed
    <2>2. Placed(f, ns, fs, fs[Len(es) + 1])
      <3>1. fs[Len(es) + 1] = e /\ EndOf(fs, q.predidx) = EndOf(es, q.predidx)
        BY <1>2, <1>3 DEF Extended
      <3>2. Gap(f, EndOf(fs, e.predidx), e.startpos)
        BY <1>2, <3>1 DEF Queued
      <3>3. e.featno <= Len(ns) /\ e.startpos < e.endpos /\ e.endpos <= Len(f)
        BY <1>1, <1>2
      <3>4. Named(f, ns, e)
        BY DEF e
      <3>. QED BY <3>1, <3>2, <3>3, <3>4 DEF Placed
    <2>3. \A i \in 1..Len(fs) : i \in 1..Len(es) \/ i = Len(es) + 1
      BY <1>1, <1>4
    <2>. QED BY <2>1, <2>2, <2>3 DEF AllPlaced
  <1>6. ASSUME NEW o \in QueueElement, Queued(f, es, o) PROVE Queued(f, fs, o)
    <2>1. o.predidx \in -1..(Len(es) - 1) /\ o.predidx < Len(fs)
      BY SMTT(30), <1>1, <1>4, <1>6 DEF QueueElement, Queued
    <2>2. EndOf(fs, o.predidx) = EndOf(es, o.predidx) /\ Unres(fs, o.predidx) = Unres(es, o.predidx)
      BY <1>3, <2>1 DEF Extended
    <2>. QED BY <1>6, <2>1, <2>2 DEF Queued
  <1>7. ASSUME NEW s \in Solution, Solved(f, es, s) PROVE Solved(f, fs, s)
    <2>1. s.idx \in -1..(Len(es) - 1) /\ s.idx < Len(fs)
      BY <1>1, <1>4, <1>7 DEF Solution, Solved
    <2>2. EndOf(fs, s.idx) = EndOf(es, s.idx) /\ Unres(fs, s.idx) = Unres(es, s.idx)
      BY <1>3, <2>1 DEF Extended
    <2>. QED BY <1>7, <2>1, <2>2 DEF Solved
  <1>8. ASSUME NEW o, Follower(f, es, q, x, n, o) PROVE Queued(f, fs, o)
    <2>1. EndOf(fs, Len(es)) = q.pos + n
      BY <1>2, <1>3 DEF Extended
    <2>2. Unres(fs, Len(es)) = q.nofUnresolved + (IF x = 0 THEN 1 ELSE 0)
      BY <1>2, <1>3 DEF Extended, Queued
    <2>3. o.predidx < Len(fs)
      BY <1>1, <1>4, <1>8 DEF Follower
    <2>. QED BY <1>8, <2>1, <2>2, <2>3 DEF Follower, Queued
  <1>. QED BY <1>4, <1>5, <1>6, <1>7, <1>8 DEF Kept

-----------------------------------------------------------------------------
(* The steps.                                                              *)

LEMMA ContinueKeepsKey ==
  ASSUME IsField(field), NEW p \in Nat, p <= Len(field), NEW k, Follows(field, k, p),
         NEW q \in Nat, q <= Len(k), NEW n \in Nat, n <= Len(k),
         NEW saved \in Seq(Buffers(field, p)), Continue(k, q, n, saved)
  PROVE  /\ Follows(field, key', p) /\ kitr' \in Nat /\ kitr' <= Len(key')
         /\ stack' \in Seq(Buffers(field, p))
  <1> DEFINE d == Deviation(k, q, n)
             k1 == IF d < n THEN LinkAt(k, d) ELSE k
             s1 == [key |-> k, kitr |-> d]
             s2 == [key |-> k1, kitr |-> n]
             B == Buffers(field, p)
  <1>1. d \in q..Len(k) /\ d \in Nat /\ d <= Len(k) /\ Len(k) \in Nat
    BY DeviationInKey, CharsOfKey
  <1>2. Follows(field, k1, p) /\ Len(k1) = Len(k)
    BY <1>1, LinkFollows
  <1>3. Follows(field, LinkAt(k1, n), p) /\ Len(LinkAt(k1, n)) = Len(k1)
    BY <1>2, LinkFollows
  <1>4. s1 \in B /\ s2 \in B
    <2>1. k \in Seq(Char(field)) /\ k1 \in Seq(Char(field))
      BY <1>2 DEF Follows
    <2> HIDE DEF d, k1
    <2>. QED BY <1>1, <1>2, <2>1 DEF Buffers
  <1>5. /\ key' = LinkAt(k1, n) /\ kitr' = n
        /\ stack' = saved \o (IF d = n THEN << >> ELSE <<s1>>)
                          \o (IF CharAt(k1, n) = Space THEN <<s2>> ELSE << >>)
    BY DEF Continue
  <1> HIDE DEF d, k1, s1, s2, B
  <1>6. /\ (IF d = n THEN << >> ELSE <<s1>>) \in Seq(B)
        /\ (IF CharAt(k1, n) = Space THEN <<s2>> ELSE << >>) \in Seq(B)
    BY <1>4
  <1>7. saved \in Seq(B)
    BY DEF B
  <1>8. stack' \in Seq(B)
    BY <1>5, <1>6, <1>7, ConcatProperties, Zenon
  <1>. QED BY <1>2, <1>3, <1>5, <1>8 DEF B

LEMMA InitKeeps ==
  ASSUME Init
  PROVE  KeySearchInv
  <1> DEFINE q == [nofUnresolved |-> 0, pos |-> 0, predidx |-> -1, size |-> 0]
  <1>1. q \in QueueElement
    BY DEF QueueElement
  <1>2. cur = q /\ queue = {q} /\ elemar = << >> /\ solutions = << >> /\ minsize = -1 /\ phase = "queue"
    BY DEF Init
  <1>3. Typed
    <2>1. << >> \in Seq(Solution)
      OBVIOUS
    <2> HIDE DEF q
    <2>. QED BY <1>1, <1>2, <2>1, NoElements DEF Init, Typed
  <1>4. Len(<< >>) = 0 /\ \A i \in 1..0 : FALSE
    OBVIOUS
  <1>5. AllPlaced(field, names, elemar) /\ SolutionInv
    BY <1>2, <1>4 DEF AllPlaced, SolutionInv
  <1>6. QueueInv
    <2>1. Gap(field, 0, 0) /\ Len(field) \in Nat
      BY <1>3, NoGap, Arguments
    <2>2. q.pos = 0 /\ q.predidx = -1 /\ q.nofUnresolved = 0
      OBVIOUS
    <2> HIDE DEF q
    <2>3. Queued(field, << >>, q)
      BY <1>4, <2>1, <2>2, NoElements DEF Queued
    <2>. QED BY <1>2, <2>3 DEF QueueInv
  <1>7. KeyInv
    BY DEF Init, KeyInv
  <1>8. BestInv
    BY <1>2, <1>4 DEF BestInv, NotBetter
  <1>. QED BY <1>3, <1>5, <1>6, <1>7, <1>8 DEF KeySearchInv

\* The element taken
Taken(q) ==
    /\ q \in queue /\ q \in QueueElement /\ Queued(field, elemar, q) /\ NotBetter(q)
    /\ \A o \in queue : q.nofUnresolved <= o.nofUnresolved
    /\ solutions # << >> => q.nofUnresolved = solutions[1].nofUnresolved
    /\ q.pos \in Nat /\ q.nofUnresolved \in Nat /\ q.size \in Nat /\ q.predidx \in Nat \cup {-1}

LEMMA FirstTaken ==
  ASSUME KeySearchInv, HasMore
  PROVE  Taken(First)
  <1>1. queue # {} /\ queue \subseteq QueueElement /\ \A q \in queue : q.pos <= Len(field)
    BY DEF HasMore, KeySearchInv, Typed, QueueInv, Queued
  <1>2. Len(field) \in Nat
    BY Arguments DEF KeySearchInv
  <1>3. First \in queue /\ \A o \in queue : First.nofUnresolved <= o.nofUnresolved
    BY <1>1, <1>2, FirstLeads
  <1> DEFINE q == First
  <1>4. q \in QueueElement /\ Queued(field, elemar, q) /\ NotBetter(q)
    BY <1>1, <1>3 DEF KeySearchInv, QueueInv, BestInv
  <1>5. solutions # << >> => solutions[1].nofUnresolved >= q.nofUnresolved
    BY DEF HasMore
  <1> HIDE DEF q
  <1>6. q.pos \in Nat /\ q.nofUnresolved \in Nat /\ q.size \in Nat /\ q.predidx \in Nat \cup {-1}
    BY <1>4 DEF QueueElement
  <1>7. solutions # << >> => q.nofUnresolved = solutions[1].nofUnresolved
    <2> SUFFICES ASSUME solutions # << >> PROVE q.nofUnresolved = solutions[1].nofUnresolved
      OBVIOUS
    <2>1. solutions[1] \in Solution
      <3>1. solutions \in Seq(Solution)
        BY DEF KeySearchInv, Typed
      <3>. QED BY <3>1
    <2>2. solutions[1].nofUnresolved \in Nat
      BY <2>1 DEF Solution
    <2>. QED BY <1>4, <1>5, <1>6, <2>2 DEF NotBetter
  <1>. QED BY <1>3, <1>4, <1>6, <1>7 DEF Taken, q

LEMMA DropKeeps ==
  ASSUME KeySearchInv, Drop
  PROVE  KeySearchInv'
  <1>1. queue' \subseteq queue /\ phase = "queue"
    BY DEF Drop, Taking
  <1>2. UNCHANGED <<field, names, phase, elemar, solutions, minsize, cur, key, kitr, stack>>
    BY DEF Drop
  <1>3. Typed' /\ AllPlaced(field, names, elemar)' /\ SolutionInv' /\ KeyInv'
    BY <1>1, <1>2 DEF KeySearchInv, Typed, SolutionInv, KeyInv
  <1>4. QueueInv'
    BY <1>1, <1>2 DEF KeySearchInv, QueueInv
  <1>5. BestInv'
    BY <1>1, <1>2 DEF KeySearchInv, BestInv, NotBetter
  <1>. QED BY <1>3, <1>4, <1>5 DEF KeySearchInv

LEMMA CompleteKeeps ==
  ASSUME KeySearchInv, Complete
  PROVE  KeySearchInv'
  <1> DEFINE q == First
             s == [idx |-> q.predidx, nofUnresolved |-> q.nofUnresolved]
  <1>1. /\ phase = "queue" /\ HasMore /\ q.pos = Len(field) /\ queue' = queue \ {q}
        /\ minsize' = IF minsize = -1 \/ minsize > q.size THEN q.size ELSE minsize
        /\ solutions' = Append(solutions, s)
        /\ UNCHANGED <<field, names, phase, elemar, cur, key, kitr, stack>>
    BY DEF Complete, Taking
  <1>2. Taken(q)
    BY <1>1, FirstTaken
  <1>3. s.idx = q.predidx /\ s.nofUnresolved = q.nofUnresolved
    OBVIOUS
  <1>4. s \in Solution
    BY <1>2 DEF Solution, Taken
  <1> HIDE DEF q, s
  <1>5. solutions \in Seq(Solution) /\ minsize \in Nat \cup {-1}
    BY DEF KeySearchInv, Typed
  <1>6. /\ solutions' \in Seq(Solution) /\ Len(solutions') = Len(solutions) + 1
        /\ \A i \in 1..Len(solutions) : solutions'[i] = solutions[i]
        /\ solutions'[Len(solutions) + 1] = s /\ solutions' # << >> /\ Len(solutions) \in Nat
    BY <1>1, <1>4, <1>5
  <1>7. \A i \in 1..Len(solutions') : i \in 1..Len(solutions) \/ i = Len(solutions) + 1
    BY <1>6
  <1>8. Typed'
    <2>1. minsize' \in Nat \cup {-1}
      BY <1>1, <1>2, <1>5 DEF Taken
    <2>. QED BY <1>1, <1>6, <2>1 DEF KeySearchInv, Typed
  <1>9. SolutionInv'
    <2>1. Solved(field, elemar, s)
      BY <1>1, <1>2, <1>3 DEF Taken, Queued, Solved
    <2>2. ASSUME NEW i \in 1..Len(solutions') PROVE Solved(field, elemar, solutions'[i])
      BY <1>6, <1>7, <2>1 DEF KeySearchInv, SolutionInv
    <2>. QED BY <1>1, <2>2 DEF SolutionInv
  <1>10. QueueInv' /\ KeyInv' /\ AllPlaced(field, names, elemar)'
    BY <1>1 DEF KeySearchInv, QueueInv, KeyInv
  <1>11. BestInv'
    <2>1. solutions'[1].nofUnresolved = q.nofUnresolved
      <3>1. CASE solutions = << >>
        BY <1>3, <1>6, <3>1
      <3>2. CASE solutions # << >>
        <4>1. 1 \in 1..Len(solutions)
          BY <1>5, <3>2
        <4>. QED BY <1>2, <1>6, <3>2, <4>1 DEF Taken
      <3>. QED BY <3>1, <3>2
    <2>2. ASSUME NEW i \in 1..Len(solutions') PROVE solutions'[i].nofUnresolved = q.nofUnresolved
      <3>1. CASE i = Len(solutions) + 1
        BY <1>3, <1>6, <3>1
      <3>2. CASE i \in 1..Len(solutions)
        <4>1. solutions # << >>
          BY <1>6, <3>2
        <4>2. solutions[i].nofUnresolved = solutions[1].nofUnresolved
          BY <3>2 DEF KeySearchInv, BestInv
        <4>. QED BY <1>2, <1>6, <3>2, <4>1, <4>2 DEF Taken
      <3>. QED BY <1>7, <3>1, <3>2
    <2>3. \A o \in queue' : o.nofUnresolved >= q.nofUnresolved
      <3>1. ASSUME NEW o \in queue PROVE o.nofUnresolved >= q.nofUnresolved
        <4>1. q.nofUnresolved <= o.nofUnresolved
          BY <1>2 DEF Taken
        <4>. QED BY <4>1
      <3>. QED BY <1>1, <3>1
    <2>. QED BY <1>1, <2>1, <2>2, <2>3 DEF BestInv, NotBetter
  <1>. QED BY <1>8, <1>9, <1>10, <1>11 DEF KeySearchInv

LEMMA GrowthKeeps ==
  ASSUME KeySearchInv,
         NEW q \in QueueElement, Queued(field, elemar, q), NotBetter(q),
         NEW n \in Nat, n >= 1, q.pos + n <= Len(field), NEW x \in Nat, x <= Len(names),
         Named(field, names, ElementOf(q, x, n)), elemar' = Append(elemar, ElementOf(q, x, n)),
         NEW more, queue' \subseteq queue \cup more,
         \A o \in more : \/ o \in QueueElement /\ Queued(field, elemar, o) /\ NotBetter(o)
                         \/ Follower(field, elemar, q, x, n, o),
         NEW c \in QueueElement, cur' = c,
         phase' \in {"queue", "expand"},
         phase' = "expand" => Queued(field, elemar, c) /\ NotBetter(c) /\ c.pos < Len(field),
         UNCHANGED <<field, names, solutions, minsize>>, KeyInv'
  PROVE  KeySearchInv'
  <1>1. Typed /\ AllPlaced(field, names, elemar) /\ QueueInv /\ SolutionInv /\ BestInv
    BY DEF KeySearchInv
  <1>2. /\ Linked(elemar') /\ AllPlaced(field, names, elemar') /\ Kept(field, elemar, elemar')
        /\ \A o : Follower(field, elemar, q, x, n, o) => Queued(field, elemar', o)
    <2>1. Linked(elemar) /\ Len(field) \in Nat
      BY <1>1, Arguments DEF Typed
    <2>. QED BY <1>1, <2>1, ElementAdded
  <1>3. ASSUME NEW o \in more
        PROVE  o \in QueueElement /\ Queued(field, elemar', o) /\ NotBetter(o)
    <2>1. CASE o \in QueueElement /\ Queued(field, elemar, o) /\ NotBetter(o)
      BY <1>2, <2>1 DEF Kept
    <2>2. CASE Follower(field, elemar, q, x, n, o)
      <3>1. o \in QueueElement /\ Queued(field, elemar', o)
        BY <1>2, <2>2 DEF Follower
      <3>2. NotBetter(o)
        <4> SUFFICES ASSUME solutions # << >> PROVE o.nofUnresolved >= solutions[1].nofUnresolved
          BY DEF NotBetter
        <4>1. solutions[1] \in Solution
          BY <1>1 DEF Typed
        <4>2. q.nofUnresolved \in Nat /\ solutions[1].nofUnresolved \in Nat
          BY <4>1 DEF QueueElement, Solution
        <4>3. q.nofUnresolved >= solutions[1].nofUnresolved
          BY DEF NotBetter
        <4>4. o.nofUnresolved = q.nofUnresolved + (IF x = 0 THEN 1 ELSE 0)
          BY <2>2 DEF Follower
        <4>. QED BY <4>2, <4>3, <4>4
      <3>. QED BY <3>1, <3>2
    <2>. QED BY <1>3, <2>1, <2>2
  <1>4. ASSUME NEW o \in queue
        PROVE  o \in QueueElement /\ Queued(field, elemar', o) /\ NotBetter(o)
    <2>1. o \in QueueElement /\ Queued(field, elemar, o) /\ NotBetter(o)
      BY <1>1 DEF Typed, QueueInv, BestInv
    <2>. QED BY <1>2, <2>1 DEF Kept
  <1>5. \A o \in queue' : o \in QueueElement /\ Queued(field, elemar', o) /\ NotBetter(o)
    BY <1>3, <1>4
  <1>6. Typed'
    BY <1>1, <1>2, <1>5 DEF Typed
  <1>7. QueueInv'
    <2>1. phase' = "expand" => Queued(field, elemar', c)
      BY <1>2 DEF Kept
    <2>. QED BY <1>5, <2>1 DEF QueueInv
  <1>8. SolutionInv'
    <2>1. ASSUME NEW i \in 1..Len(solutions) PROVE Solved(field, elemar', solutions[i])
      <3>1. Solved(field, elemar, solutions[i])
        BY <1>1 DEF SolutionInv
      <3>2. solutions[i] \in Solution
        BY <1>1 DEF Typed
      <3>. QED BY <1>2, <3>1, <3>2 DEF Kept
    <2>. QED BY <2>1 DEF SolutionInv
  <1>9. BestInv'
    BY <1>1, <1>5 DEF BestInv, NotBetter
  <1>. QED BY <1>2, <1>6, <1>7, <1>8, <1>9 DEF KeySearchInv

\* A feature found at a position, as the element that is made of it
LEMMA FeatureNamed ==
  ASSUME Typed, NEW q \in QueueElement, q.pos < Len(field), NEW k, NEW t,
         NEW r \in Loaded(k, t, q.pos)
  PROVE  /\ r.featno \in Nat /\ r.featno <= Len(names) /\ r.featno # 0
         /\ r.keylen \in Nat /\ r.keylen >= 1 /\ q.pos + r.keylen <= Len(field)
         /\ Named(field, names, ElementOf(q, r.featno, r.keylen))
  <1>1. IsField(field) /\ NamesTyped(names) /\ Len(field) \in Nat
    BY Arguments
  <1>2. q.pos \in Nat
    BY DEF QueueElement
  <1> DEFINE e == ElementOf(q, r.featno, r.keylen)
  <1>3. /\ r.featno \in 1..Len(names) /\ r.featno # 0
        /\ r.keylen \in 1..(Len(field) - q.pos)
        /\ \/ EqualField(SubSeq(field, q.pos + 1, q.pos + r.keylen), names[r.featno])
           \/ /\ q.pos + r.keylen = Len(field)
              /\ EqualField(Append(SubSeq(field, q.pos + 1, q.pos + r.keylen), Link), names[r.featno])
    BY <1>1, <1>2, LoadedFits
  <1>4. e.featno = r.featno /\ e.startpos = q.pos /\ e.endpos = q.pos + r.keylen
    BY DEF ElementOf
  <1> HIDE DEF e
  <1>5. Named(field, names, e)
    BY <1>3, <1>4 DEF Named
  <1>6. Len(names) \in Nat
    BY <1>1 DEF NamesTyped
  <1>. QED BY <1>1, <1>2, <1>3, <1>5, <1>6 DEF e

LEMMA FollowingFollows ==
  ASSUME KeySearchInv, NEW q \in QueueElement, Queued(field, elemar, q),
         NEW k, Follows(field, k, q.pos), NEW n \in Nat, n <= Len(k),
         NEW x \in Nat, NEW u, u = IF x = 0 THEN 1 ELSE 0
  PROVE  Follower(field, elemar, q, x, n, Following(q, u, k, n))
  <1> DEFINE o == Following(q, u, k, n)
  <1>1. IsField(field) /\ Len(field) \in Nat /\ Len(elemar) \in Nat
    BY Arguments DEF KeySearchInv, Typed, Linked
  <1>2. q.pos \in Nat /\ q.pos <= Len(field) /\ q.nofUnresolved \in Nat /\ q.size \in Nat
    BY DEF QueueElement, Queued
  <1>3. Successor(k, n) \in n..Len(k) /\ Gap(field, q.pos + n, q.pos + Successor(k, n))
    BY <1>1, <1>2, SuccessorInKey
  <1>4. Len(k) = Len(field) - q.pos
    BY DEF Follows
  <1>5. /\ o.nofUnresolved = q.nofUnresolved + u /\ o.pos = q.pos + Successor(k, n)
        /\ o.predidx = Len(elemar)
    BY DEF Following
  <1>6. u \in Nat
    OBVIOUS
  <1>7. o \in QueueElement
    <2>1. q.nofUnresolved + u \in Nat /\ q.pos + Successor(k, n) \in Nat /\ q.size + 1 \in Nat
      BY SMTT(30), <1>1, <1>2, <1>3, <1>4, <1>6
    <2>. QED BY <1>1, <2>1 DEF Following, QueueElement
  <1>8. o.pos <= Len(field)
    BY <1>1, <1>2, <1>3, <1>4, <1>5
  <1> HIDE DEF o
  <1>. QED BY <1>3, <1>5, <1>7, <1>8 DEF Follower, o

\* A queue element moved over separators
LEMMA MovedQueued ==
  ASSUME KeySearchInv, NEW q \in QueueElement, Queued(field, elemar, q), NotBetter(q),
         NEW n \in Nat, q.pos + n <= Len(field), Gap(field, q.pos, q.pos + n)
  PROVE  LET o == [q EXCEPT !.pos = @ + n]
         IN  o \in QueueElement /\ Queued(field, elemar, o) /\ NotBetter(o)
  <1> DEFINE o == [q EXCEPT !.pos = @ + n]
  <1>1. q.pos \in Nat /\ q.predidx \in Nat \cup {-1} /\ q.predidx < Len(elemar)
    BY DEF QueueElement, Queued
  <1>2. /\ o.pos = q.pos + n /\ o.nofUnresolved = q.nofUnresolved
        /\ o.predidx = q.predidx /\ o \in QueueElement
    BY <1>1 DEF QueueElement
  <1> HIDE DEF o
  <1>3. EndOf(elemar, q.predidx) \in Nat
    <2>1. elemar \in Seq(Elem) /\ Len(elemar) \in Nat
      BY DEF KeySearchInv, Typed, Linked
    <2>2. q.predidx # -1 => q.predidx + 1 \in 1..Len(elemar)
      BY <1>1, <2>1
    <2>3. q.predidx # -1 => elemar[q.predidx + 1] \in Elem
      BY <2>1, <2>2
    <2>. QED BY <2>3 DEF EndOf, Elem
  <1>4. Gap(field, EndOf(elemar, q.predidx), q.pos)
    BY DEF Queued
  <1>5. Gap(field, EndOf(elemar, q.predidx), q.pos + n)
    <2>1. q.pos + n \in Nat
      BY <1>1
    <2>. QED BY <1>1, <1>3, <1>4, <2>1, GapsJoin
  <1>6. Queued(field, elemar, o)
    BY <1>2, <1>5 DEF Queued
  <1>7. NotBetter(o)
    BY <1>2 DEF NotBetter
  <1>. QED BY <1>2, <1>6, <1>7 DEF o

\* The key set up for the element taken
LEMMA FirstKey ==
  ASSUME KeySearchInv, Taking, First.pos < Len(field)
  PROVE  /\ Taken(First) /\ IsField(field) /\ Len(field) \in Nat
         /\ Follows(field, Rest, First.pos) /\ Len(Rest) = Len(field) - First.pos
         /\ Token \in 1..Len(Rest) /\ Len(Rest) \in Nat
         /\ ~ IsWord(Rest, Token) => Gap(field, First.pos, First.pos + Token)
  <1>1. IsField(field) /\ Len(field) \in Nat /\ Taken(First)
    BY Arguments, FirstTaken DEF KeySearchInv, Taking
  <1> DEFINE q == First
  <1>2. q.pos \in Nat /\ q.pos < Len(field)
    BY <1>1 DEF Taken
  <1> HIDE DEF q
  <1>3. Follows(field, SubSeq(field, q.pos + 1, Len(field)), q.pos)
    BY <1>1, <1>2, RestFollows
  <1>4. Rest = SubSeq(field, q.pos + 1, Len(field))
    BY DEF Rest, q
  <1>5. Follows(field, Rest, q.pos)
    BY <1>3, <1>4
  <1>6. Len(Rest) = Len(field) - q.pos
    BY <1>5 DEF Follows
  <1>7. Token \in 1..Len(Rest) /\ Len(Rest) \in Nat
    <2>1. 0 < Len(Rest) /\ 0 \in Nat /\ 0 + 1 = 1 /\ Len(Rest) \in Nat
      BY <1>1, <1>2, <1>6
    <2>2. SkipToken(Rest, 0) \in (0 + 1)..Len(Rest)
      BY <1>1, <1>2, <1>5, <2>1, SkipInKey
    <2>. QED BY <2>1, <2>2 DEF Token
  <1>8. ~ IsWord(Rest, Token) => Gap(field, q.pos, q.pos + Token)
    BY <1>1, <1>2, <1>5, <1>7, NoWordGap
  <1>. QED BY <1>1, <1>5, <1>6, <1>7, <1>8 DEF q

LEMMA ExploreKeeps ==
  ASSUME KeySearchInv, Explore
  PROVE  KeySearchInv'
  <1>1. Taking /\ First.pos < Len(field) /\ phase' = "expand" /\ UNCHANGED <<field, names, solutions, minsize>>
    BY DEF Explore
  <1> DEFINE k == Rest
             p == Token
             q == First
  <1>2. PICK r \in Loaded(k, p, q.pos) :
          /\ cur' = q
          /\ queue' = (queue \ {q}) \cup {Following(q, 0, k, r.keylen)}
                      \cup IF IsWord(k, p) THEN {} ELSE {[q EXCEPT !.pos = @ + p]}
          /\ elemar' = Append(elemar, Element(q, r.featno, r.keylen))
          /\ Continue(k, p, r.keylen, << >>)
    BY DEF Explore
  <1>3. /\ Taken(q) /\ IsField(field) /\ Len(field) \in Nat
        /\ Follows(field, k, q.pos) /\ Len(k) = Len(field) - q.pos
        /\ p \in 1..Len(k) /\ Len(k) \in Nat
        /\ ~ IsWord(k, p) => Gap(field, q.pos, q.pos + p)
        /\ q.pos < Len(field)
    BY <1>1, FirstKey
  <1> HIDE DEF k, p, q
  <1>4. /\ q \in QueueElement /\ Queued(field, elemar, q) /\ NotBetter(q)
        /\ q.pos \in Nat /\ q.pos <= Len(field)
    BY <1>3 DEF Taken
  <1>5. /\ r.featno \in Nat /\ r.featno <= Len(names) /\ r.featno # 0
        /\ r.keylen \in Nat /\ r.keylen >= 1 /\ q.pos + r.keylen <= Len(field)
        /\ Named(field, names, ElementOf(q, r.featno, r.keylen))
    BY <1>3, <1>4, FeatureNamed DEF KeySearchInv
  <1>6. r.keylen <= Len(k) /\ p \in Nat /\ p <= Len(k) /\ q.pos + p <= Len(field)
    BY <1>3, <1>4, <1>5
  <1> DEFINE next == Following(q, 0, k, r.keylen)
             more == {next} \cup IF IsWord(k, p) THEN {} ELSE {[q EXCEPT !.pos = @ + p]}
  <1>7. Follower(field, elemar, q, r.featno, r.keylen, next)
    <2>1. 0 = IF r.featno = 0 THEN 1 ELSE 0
      BY <1>5
    <2>. QED BY <1>3, <1>4, <1>5, <1>6, <2>1, FollowingFollows
  <1>8. \A o \in more : \/ o \in QueueElement /\ Queued(field, elemar, o) /\ NotBetter(o)
                        \/ Follower(field, elemar, q, r.featno, r.keylen, o)
    <2>1. CASE IsWord(k, p)
      <3> HIDE DEF next
      <3>. QED BY <1>7, <2>1
    <2>2. CASE ~ IsWord(k, p)
      <3> DEFINE m == [q EXCEPT !.pos = @ + p]
      <3>1. m \in QueueElement /\ Queued(field, elemar, m) /\ NotBetter(m)
        BY <1>3, <1>4, <1>6, <2>2, MovedQueued
      <3> HIDE DEF next, m
      <3>2. more = {next, m}
        BY <2>2 DEF m
      <3>. QED BY <1>7, <3>1, <3>2
    <2>. QED BY <2>1, <2>2
  <1>9. KeyInv'
    <2>1. << >> \in Seq(Buffers(field, q.pos))
      OBVIOUS
    <2>2. /\ Follows(field, key', q.pos) /\ kitr' \in Nat /\ kitr' <= Len(key')
          /\ stack' \in Seq(Buffers(field, q.pos))
      BY <1>2, <1>3, <1>4, <1>5, <1>6, <2>1, ContinueKeepsKey
    <2>. QED BY <1>1, <1>2, <2>2 DEF KeyInv
  <1>10. queue' \subseteq queue \cup more
    <2> HIDE DEF next
    <2>1. queue' = (queue \ {q}) \cup {next} \cup IF IsWord(k, p) THEN {} ELSE {[q EXCEPT !.pos = @ + p]}
      BY <1>2 DEF next
    <2>. QED BY <2>1
  <1> HIDE DEF next, more
  <1>11. elemar' = Append(elemar, ElementOf(q, r.featno, r.keylen))
    BY <1>2 DEF Element, ElementOf
  <1>. QED BY <1>1, <1>2, <1>3, <1>4, <1>5, <1>8, <1>9, <1>10, <1>11, GrowthKeeps

LEMMA UnknownKeeps ==
  ASSUME KeySearchInv, Unknown
  PROVE  KeySearchInv'
  <1> DEFINE k == Rest
             p == Token
             q == First
  <1>1. /\ Taking /\ q.pos < Len(field)
        /\ IF IsWord(k, p)
           THEN /\ queue' = (queue \ {q}) \cup {Following(q, 1, k, p)}
                /\ elemar' = Append(elemar, Element(q, 0, p))
           ELSE /\ queue' = (queue \ {q}) \cup {[q EXCEPT !.pos = @ + Successor(k, p)]}
                /\ UNCHANGED elemar
        /\ UNCHANGED <<field, names, phase, solutions, minsize, cur, key, kitr, stack>>
    BY DEF Unknown
  <1>2. /\ Taken(q) /\ IsField(field) /\ Len(field) \in Nat
        /\ Follows(field, k, q.pos) /\ Len(k) = Len(field) - q.pos
        /\ p \in 1..Len(k) /\ Len(k) \in Nat
        /\ ~ IsWord(k, p) => Gap(field, q.pos, q.pos + p)
    BY <1>1, FirstKey
  <1> HIDE DEF k, p, q
  <1>3. /\ q \in QueueElement /\ Queued(field, elemar, q) /\ NotBetter(q)
        /\ q.pos \in Nat /\ q.pos <= Len(field)
    BY <1>1, <1>2 DEF Taken
  <1>4. p \in Nat /\ p >= 1 /\ p <= Len(k) /\ q.pos + p <= Len(field) /\ phase = "queue"
    BY <1>1, <1>2, <1>3 DEF Taking
  <1>5. /\ Typed /\ AllPlaced(field, names, elemar) /\ QueueInv /\ SolutionInv /\ KeyInv /\ BestInv
        /\ cur \in QueueElement
    BY DEF KeySearchInv, Typed
  <1>6. KeyInv'
    BY <1>1, <1>4, <1>5 DEF KeyInv
  <1>7. CASE IsWord(k, p)
    <2> DEFINE next == Following(q, 1, k, p)
               more == {next}
    <2>1. Follower(field, elemar, q, 0, p, next)
      BY <1>2, <1>3, <1>4, FollowingFollows
    <2>2. Len(names) \in Nat
      BY <1>5, Arguments DEF NamesTyped
    <2>3. Named(field, names, ElementOf(q, 0, p))
      BY DEF Named, ElementOf
    <2> HIDE DEF next
    <2>4. queue' \subseteq queue \cup more
      BY <1>1, <1>7 DEF next
    <2>5. elemar' = Append(elemar, ElementOf(q, 0, p))
      BY <1>1, <1>7 DEF Element, ElementOf
    <2>6. \A o \in more : \/ o \in QueueElement /\ Queued(field, elemar, o) /\ NotBetter(o)
                          \/ Follower(field, elemar, q, 0, p, o)
      BY <2>1
    <2>7. 0 <= Len(names) /\ phase' \in {"queue", "expand"} /\ phase' # "expand" /\ cur' = cur
      BY <1>1, <1>4, <2>2
    <2>8. UNCHANGED <<field, names, solutions, minsize>>
      BY <1>1
    <2> HIDE DEF more
    <2>. QED BY <1>3, <1>4, <1>5, <1>6, <2>3, <2>4, <2>5, <2>6, <2>7, <2>8, GrowthKeeps
  <1>8. CASE ~ IsWord(k, p)
    <2> DEFINE n == Successor(k, p)
               m == [q EXCEPT !.pos = @ + n]
    <2>1. n \in p..Len(k) /\ Gap(field, q.pos + p, q.pos + n)
      BY <1>2, <1>3, <1>4, SuccessorInKey
    <2> HIDE DEF n
    <2>2. n \in Nat /\ q.pos + n <= Len(field)
      BY <1>2, <1>3, <1>4, <2>1
    <2>3. Gap(field, q.pos, q.pos + n)
      <3>1. q.pos + p \in Nat /\ q.pos + n \in Nat
        BY <1>3, <1>4, <2>2
      <3>. QED BY <1>2, <1>3, <1>8, <2>1, <3>1, GapsJoin
    <2>4. m \in QueueElement /\ Queued(field, elemar, m) /\ NotBetter(m)
      BY <1>3, <2>2, <2>3, MovedQueued
    <2>5. queue' = (queue \ {q}) \cup {m} /\ UNCHANGED elemar
      BY <1>1, <1>8 DEF n
    <2> HIDE DEF m
    <2>6. \A o \in queue' : o \in QueueElement /\ Queued(field, elemar, o) /\ NotBetter(o)
      BY <1>5, <2>4, <2>5 DEF Typed, QueueInv, BestInv
    <2>7. Typed' /\ AllPlaced(field, names, elemar)' /\ SolutionInv'
      BY <1>1, <1>5, <2>5, <2>6 DEF Typed, SolutionInv
    <2>8. QueueInv'
      BY <1>1, <1>4, <2>5, <2>6 DEF QueueInv
    <2>9. BestInv'
      BY <1>1, <1>4, <1>5, <2>6 DEF BestInv, NotBetter
    <2>. QED BY <1>6, <2>7, <2>8, <2>9 DEF KeySearchInv
  <1>. QED BY <1>7, <1>8

LEMMA ExpandKeeps ==
  ASSUME KeySearchInv, Expand
  PROVE  KeySearchInv'
  <1> DEFINE p == SkipToken(key, kitr)
  <1>1. phase = "expand" /\ UNCHANGED <<field, names, phase, solutions, minsize, cur>>
    BY DEF Expand
  <1>2. PICK r \in LoadedNext :
          /\ queue' = queue \cup {Following(cur, 0, key, r.keylen)}
          /\ elemar' = Append(elemar, Element(cur, r.featno, r.keylen))
          /\ Continue(key, p, r.keylen, stack)
    BY DEF Expand
  <1>3. kitr < Len(key) /\ r \in Loaded(key, p, cur.pos)
    BY <1>2 DEF LoadedNext
  <1> HIDE DEF p
  <1>4. /\ Typed /\ AllPlaced(field, names, elemar) /\ QueueInv /\ SolutionInv /\ KeyInv /\ BestInv
        /\ cur \in QueueElement /\ IsField(field) /\ Len(field) \in Nat
    BY Arguments DEF KeySearchInv, Typed
  <1>5. /\ Queued(field, elemar, cur) /\ cur.pos < Len(field) /\ NotBetter(cur)
        /\ cur.pos \in Nat /\ cur.pos <= Len(field)
    BY <1>1, <1>4 DEF QueueInv, BestInv, Queued, QueueElement
  <1>6. /\ Follows(field, key, cur.pos) /\ kitr \in Nat /\ stack \in Seq(Buffers(field, cur.pos))
    BY <1>1, <1>4 DEF KeyInv
  <1>7. p \in (kitr + 1)..Len(key)
    BY <1>3, <1>4, <1>5, <1>6, SkipInKey DEF p
  <1>8. Len(key) \in Nat /\ Len(key) = Len(field) - cur.pos /\ p \in Nat /\ p <= Len(key)
    BY <1>4, <1>5, <1>6, <1>7, CharsOfKey DEF Follows
  <1>9. /\ r.featno \in Nat /\ r.featno <= Len(names) /\ r.featno # 0
        /\ r.keylen \in Nat /\ r.keylen >= 1 /\ cur.pos + r.keylen <= Len(field)
        /\ Named(field, names, ElementOf(cur, r.featno, r.keylen))
    BY <1>3, <1>4, <1>5, FeatureNamed
  <1>10. r.keylen <= Len(key)
    BY <1>4, <1>5, <1>8, <1>9
  <1> DEFINE next == Following(cur, 0, key, r.keylen)
             more == {next}
  <1>11. Follower(field, elemar, cur, r.featno, r.keylen, next)
    <2>1. 0 = IF r.featno = 0 THEN 1 ELSE 0
      BY <1>9
    <2>. QED BY <1>4, <1>5, <1>6, <1>9, <1>10, <2>1, FollowingFollows
  <1> HIDE DEF next
  <1>12. KeyInv'
    <2>1. /\ Follows(field, key', cur.pos) /\ kitr' \in Nat /\ kitr' <= Len(key')
          /\ stack' \in Seq(Buffers(field, cur.pos))
      BY <1>2, <1>4, <1>5, <1>6, <1>8, <1>9, <1>10, ContinueKeepsKey
    <2>. QED BY <1>1, <2>1 DEF KeyInv
  <1>13. queue' \subseteq queue \cup more
    BY <1>2 DEF next
  <1>14. elemar' = Append(elemar, ElementOf(cur, r.featno, r.keylen))
    BY <1>2 DEF Element, ElementOf
  <1>15. \A o \in more : \/ o \in QueueElement /\ Queued(field, elemar, o) /\ NotBetter(o)
                         \/ Follower(field, elemar, cur, r.featno, r.keylen, o)
    BY <1>11
  <1>16. cur' = cur /\ phase' \in {"queue", "expand"} /\ UNCHANGED <<field, names, solutions, minsize>>
    BY <1>1
  <1> HIDE DEF more
  <1>. QED BY <1>4, <1>5, <1>9, <1>12, <1>13, <1>14, <1>15, <1>16, GrowthKeeps

LEMMA BacktrackKeeps ==
  ASSUME KeySearchInv, Backtrack
  PROVE  KeySearchInv'
  <1>1. /\ phase = "expand" /\ stack # << >>
        /\ key' = stack[Len(stack)].key /\ kitr' = stack[Len(stack)].kitr
        /\ stack' = SubSeq(stack, 1, Len(stack) - 1)
        /\ UNCHANGED <<field, names, phase, queue, elemar, solutions, minsize, cur>>
    BY DEF Backtrack
  <1> DEFINE B == Buffers(field, cur.pos)
  <1>2. stack \in Seq(B)
    BY <1>1 DEF KeySearchInv, KeyInv
  <1> HIDE DEF B
  <1>3. stack[Len(stack)] \in B /\ stack' \in Seq(B)
    BY <1>1, <1>2
  <1>4. KeyInv'
    BY <1>1, <1>3 DEF KeyInv, Buffers, B
  <1>5. Typed' /\ AllPlaced(field, names, elemar)' /\ QueueInv' /\ SolutionInv' /\ BestInv'
    BY <1>1 DEF KeySearchInv, Typed, QueueInv, SolutionInv, BestInv, NotBetter
  <1>. QED BY <1>4, <1>5 DEF KeySearchInv

LEMMA ExpandEndsKeeps ==
  ASSUME KeySearchInv, ExpandEnds
  PROVE  KeySearchInv'
  <1>1. /\ phase = "expand" /\ stack = << >> /\ phase' = "queue" /\ key' = << >> /\ kitr' = 0
        /\ UNCHANGED <<field, names, queue, elemar, solutions, minsize, cur, stack>>
    BY DEF ExpandEnds
  <1>2. Typed' /\ AllPlaced(field, names, elemar)' /\ QueueInv' /\ SolutionInv'
    BY <1>1 DEF KeySearchInv, Typed, QueueInv, SolutionInv
  <1>3. KeyInv' /\ BestInv'
    BY <1>1 DEF KeySearchInv, KeyInv, BestInv, NotBetter
  <1>. QED BY <1>2, <1>3 DEF KeySearchInv

LEMMA ScanEndsKeeps ==
  ASSUME KeySearchInv, ScanEnds
  PROVE  KeySearchInv'
  <1>1. /\ phase = "queue" /\ ~ HasMore /\ phase' = "done"
        /\ UNCHANGED <<field, names, queue, elemar, solutions, minsize, cur, key, kitr, stack>>
    BY DEF ScanEnds
  <1>2. Typed' /\ AllPlaced(field, names, elemar)' /\ QueueInv' /\ SolutionInv' /\ KeyInv'
    BY <1>1 DEF KeySearchInv, Typed, QueueInv, SolutionInv, KeyInv
  <1>3. ASSUME NEW q \in queue PROVE q.nofUnresolved > solutions[1].nofUnresolved
    <2>1. solutions # << >> /\ ~ (solutions[1].nofUnresolved >= First.nofUnresolved)
      BY <1>1, <1>3 DEF HasMore
    <2>2. queue \subseteq QueueElement /\ \A o \in queue : o.pos <= Len(field)
      BY DEF KeySearchInv, Typed, QueueInv, Queued
    <2>3. Len(field) \in Nat
      BY Arguments DEF KeySearchInv
    <2>4. First \in queue /\ First.nofUnresolved <= q.nofUnresolved
      BY <1>3, <2>2, <2>3, FirstLeads
    <2>5. First.nofUnresolved \in Nat /\ q.nofUnresolved \in Nat
      BY <1>3, <2>2, <2>4 DEF QueueElement
    <2>6. solutions[1].nofUnresolved \in Nat
      <3>1. solutions[1] \in Solution
        BY <2>1 DEF KeySearchInv, Typed
      <3>. QED BY <3>1 DEF Solution
    <2>. QED BY <2>1, <2>4, <2>5, <2>6
  <1>4. BestInv'
    BY <1>1, <1>3 DEF KeySearchInv, BestInv, NotBetter
  <1>. QED BY <1>2, <1>4 DEF KeySearchInv

LEMMA StepKeeps ==
  ASSUME KeySearchInv, [Next]_vars
  PROVE  KeySearchInv'
  <1>1. CASE UNCHANGED vars
    BY <1>1 DEF vars, KeySearchInv, Typed, QueueInv, SolutionInv, KeyInv, BestInv, NotBetter
  <1>2. CASE Step
    BY <1>2, DropKeeps, CompleteKeeps, ExploreKeeps, UnknownKeeps, ExpandKeeps, BacktrackKeeps,
       ExpandEndsKeeps, ScanEndsKeeps DEF Step
  <1>3. CASE Returned
    BY <1>1, <1>3 DEF Returned
  <1>. QED BY <1>1, <1>2, <1>3 DEF Next

LEMMA InvAlways == Spec => []KeySearchInv
  BY InitKeeps, StepKeeps, PTL DEF Spec

-----------------------------------------------------------------------------
(* A field that is the name of a feature.  The split with this feature     *)
(* alone is never lost: the search has not begun, or the unchanged field   *)
(* is still to be continued from a position before its end, or the feature *)
(* was found and its split is in the queue or among the solutions.         *)

IsName == field # << >> /\ \E f \in DOMAIN names : names[f] = field

Start == [nofUnresolved |-> 0, pos |-> 0, predidx |-> -1, size |-> 0]

\* The queue element that follows the feature, as element i
AfterWhole(f, i) == [nofUnresolved |-> 0, pos |-> Len(f), predidx |-> i, size |-> 1]

IsWhole(f, e) == e.featno # 0 /\ e.startpos = 0 /\ e.endpos = Len(f) /\ e.predidx = -1

Waiting == Start \in queue /\ phase # "done"

Ahead(k, p) == k = field /\ p < Len(field)

AheadIn(st) == \E i \in 1..Len(st) : Ahead(st[i].key, st[i].kitr)

Sought == phase = "expand" /\ cur = Start /\ (Ahead(key, kitr) \/ AheadIn(stack))

Offered ==
    \E i \in 1..Len(elemar) :
        /\ IsWhole(field, elemar[i])
        /\ \/ AfterWhole(field, i - 1) \in queue /\ phase # "done"
           \/ \E j \in 1..Len(solutions) : solutions[j].idx = i - 1

WholeInv == IsName => Waiting \/ Sought \/ Offered

\* The whole key is a prefix of the name, and the name is the first with it.
LEMMA WholeLoaded ==
  ASSUME Typed, IsName, NEW t \in Nat, t <= Len(field)
  PROVE  Loaded(field, t, 0) # {}
  <1>1. /\ IsField(field) /\ NamesTyped(names) /\ Len(field) \in Nat /\ field # << >>
        /\ field \in Seq(Char(field)) /\ Len(field) >= 1
    <2>1. IsField(field) /\ NamesTyped(names) /\ Len(field) \in Nat /\ field \in Seq(Char(field))
      BY Arguments, FieldChars
    <2>. QED BY <2>1 DEF IsName
  <1>2. PICK f \in DOMAIN names : names[f] = field
    BY DEF IsName
  <1> DEFINE n == Len(field)
             found == {i \in DOMAIN names : IsPrefix(field, names[i])}
             fit == {x \in (t..n) \X (DOMAIN names) :
                        x[2] = Hit(SubSeq(field, 1, x[1])) /\ KeyLen(x[2], 0) # -1}
  <1>3. SubSeq(field, 1, n) = field
    BY <1>1
  <1>4. Hit(field) = f
    <2>1. f \in found
      <3>1. IsPrefix(field, field)
        BY <1>1 DEF IsPrefix
      <3>. QED BY <1>2, <3>1
    <2>2. \A i \in found : f <= i
      BY <1>2, NameOrderAssumption DEF Typed
    <2>3. found \in SUBSET Nat
      BY <1>1 DEF NamesTyped
    <2> HIDE DEF found
    <2>4. Min(found) = f
      <3>1. Min(found) \in found /\ \A i \in found : Min(found) <= i
        BY <2>1, <2>3, MinIsLeast
      <3>2. Min(found) \in Nat /\ f \in Nat /\ Min(found) <= f /\ f <= Min(found)
        BY <2>1, <2>2, <2>3, <3>1
      <3>. QED BY <3>2
    <2>. QED BY <2>1, <2>4 DEF Hit, found
  <1>5. KeyLen(f, 0) = n
    <2>1. SubSeq(field, 0 + 1, n) = field
      BY <1>3
    <2>2. EqualField(field, field)
      BY DEF EqualField
    <2>3. n <= n
      BY <1>1
    <2> HIDE DEF n
    <2>4. /\ Len(names[f]) = n /\ Len(SubSeq(field, 0 + 1, n)) = n
          /\ EqualField(SubSeq(SubSeq(field, 0 + 1, n), 1, n), names[f])
      BY <1>2, <1>3, <2>1, <2>2 DEF n
    <2>. QED BY <2>3, <2>4 DEF KeyLen, n
  <1>6. <<n, f>> \in fit
    <2>1. n \in t..n /\ KeyLen(f, 0) # -1
      BY <1>1, <1>5
    <2>. QED BY <1>2, <1>3, <1>4, <2>1
  <1> DEFINE A == {x[1] : x \in fit}
  <1>7. PICK a \in A : \A b \in A : a <= b
    <2>1. A \in SUBSET Nat
      BY <1>1
    <2>2. A # {}
      BY <1>6
    <2> HIDE DEF A
    <2>. QED BY <2>1, <2>2, LeastNumber
  <1>8. PICK y \in fit : a = y[1]
    BY <1>7
  <1>9. \A z \in fit : y[1] <= z[1]
    BY <1>7, <1>8
  <1>10. [featno |-> y[2], keylen |-> KeyLen(y[2], 0)] \in Loaded(field, t, 0)
    <2>1. y \in {x \in fit : \A z \in fit : x[1] <= z[1]}
      BY <1>8, <1>9
    <2>. QED BY <2>1 DEF Loaded
  <1>. QED BY <1>10

\* What st holds is in tt as well.
Holds(tt, st) == \A i \in 1..Len(st) : \E j \in 1..Len(tt) : tt[j] = st[i]

LEMMA ConcatHolds ==
  ASSUME NEW B, NEW a \in Seq(B), NEW C, NEW b \in Seq(C)
  PROVE  a \o b \in Seq(B \cup C) /\ Holds(a \o b, a) /\ Holds(a \o b, b)
  <1> DEFINE D == B \cup C
             m == a \o b
  <1>1. a \in Seq(D) /\ b \in Seq(D)
    BY SeqMonotonic, B \subseteq D, C \subseteq D
  <1> HIDE DEF D
  <1>2. /\ m \in Seq(D) /\ Len(m) = Len(a) + Len(b) /\ Len(a) \in Nat /\ Len(b) \in Nat
        /\ \A i \in 1..Len(a) + Len(b) : m[i] = IF i <= Len(a) THEN a[i] ELSE b[i - Len(a)]
    BY <1>1, ConcatProperties
  <1> HIDE DEF m
  <1>3. ASSUME NEW i \in 1..Len(a) PROVE i \in 1..Len(m) /\ m[i] = a[i]
    BY <1>2
  <1>4. ASSUME NEW i \in 1..Len(b)
        PROVE  Len(a) + i \in 1..Len(m) /\ m[Len(a) + i] = b[i]
    <2>1. /\ Len(a) + i \in 1..(Len(a) + Len(b)) /\ ~(Len(a) + i <= Len(a))
          /\ (Len(a) + i) - Len(a) = i
      BY <1>2
    <2>. QED BY <1>2, <2>1
  <1>. QED BY <1>2, <1>3, <1>4 DEF Holds, D, m

LEMMA HoldsThrough ==
  ASSUME NEW x, NEW y, NEW z, Holds(x, y), Holds(y, z)
  PROVE  Holds(x, z)
  <1> SUFFICES ASSUME NEW i \in 1..Len(z) PROVE \E j \in 1..Len(x) : x[j] = z[i]
    BY DEF Holds
  <1>1. PICK k \in 1..Len(y) : y[k] = z[i]
    BY DEF Holds
  <1>2. PICK j \in 1..Len(x) : x[j] = y[k]
    BY DEF Holds
  <1>. QED BY <1>1, <1>2

LEMMA Single ==
  ASSUME NEW s
  PROVE  /\ << >> \in Seq({s}) /\ <<s>> \in Seq({s})
         /\ 1 \in 1..Len(<<s>>) /\ <<s>>[1] = s
  OBVIOUS

LEMMA Stacked ==
  ASSUME NEW B, NEW saved \in Seq(B), NEW C, NEW a \in Seq(C), NEW D, NEW b \in Seq(D)
  PROVE  LET st == (saved \o a) \o b
         IN  Holds(st, saved) /\ Holds(st, a) /\ Holds(st, b)
  <1> DEFINE m == saved \o a
             st == m \o b
  <1>1. m \in Seq(B \cup C) /\ Holds(m, saved) /\ Holds(m, a)
    BY ConcatHolds
  <1> HIDE DEF m
  <1>2. Holds(st, m) /\ Holds(st, b)
    BY <1>1, ConcatHolds
  <1> HIDE DEF st
  <1>3. Holds(st, saved) /\ Holds(st, a)
    BY <1>1, <1>2, HoldsThrough
  <1>. QED BY <1>2, <1>3 DEF st, m

\* When the field is continued after a shorter feature, the field itself is
\* saved, or it is what is continued.
LEMMA ContinueKeepsAhead ==
  ASSUME IsField(field), NEW q \in Nat, q <= Len(field), NEW n \in Nat, n < Len(field),
         NEW B, NEW saved \in Seq(B), Continue(field, q, n, saved)
  PROVE  Ahead(key', kitr') \/ AheadIn(stack')
  <1> DEFINE d == Deviation(field, q, n)
             k1 == IF d < n THEN LinkAt(field, d) ELSE field
             s1 == [key |-> field, kitr |-> d]
             s2 == [key |-> k1, kitr |-> n]
             a == IF d = n THEN << >> ELSE <<s1>>
             b == IF CharAt(k1, n) = Space THEN <<s2>> ELSE << >>
  <1>1. key' = LinkAt(k1, n) /\ kitr' = n /\ stack' = (saved \o a) \o b
    BY DEF Continue
  <1>2. d \in Nat
    <2>1. Follows(field, field, 0)
      <3>1. field \in Seq(Char(field)) /\ Len(field) \in Nat
        BY FieldChars
      <3>2. Len(field) = Len(field) - 0 /\ \A i \in 1..Len(field) : field[i] = field[0 + i]
        BY <3>1
      <3>. QED BY <3>1, <3>2 DEF Follows
    <2>2. n <= Len(field) /\ 0 <= Len(field) /\ Len(field) \in Nat
      BY FieldChars
    <2>3. d \in q..Len(field)
      BY <2>1, <2>2, DeviationInKey
    <2>. QED BY <2>3
  <1>3. /\ s1.key = field /\ s1.kitr = d /\ s2.key = k1 /\ s2.kitr = n
        /\ d < n \/ k1 = field
    OBVIOUS
  <1> HIDE DEF d, k1, s1, s2
  <1>4. /\ a \in Seq({s1}) /\ b \in Seq({s2})
        /\ d # n => 1 \in 1..Len(a) /\ a[1] = s1
        /\ CharAt(k1, n) = Space => 1 \in 1..Len(b) /\ b[1] = s2
    BY Single, Zenon
  <1> HIDE DEF a, b
  <1>5. Holds(stack', a) /\ Holds(stack', b)
    BY <1>1, <1>4, Stacked
  <1>6. CASE d < n
    <2>1. d # n /\ d < Len(field)
      BY <1>2, <1>6, FieldChars
    <2>. QED BY <1>3, <1>4, <1>5, <2>1 DEF AheadIn, Ahead, Holds
  <1>7. CASE k1 = field /\ CharAt(field, n) = Space
    BY <1>3, <1>4, <1>5, <1>7 DEF AheadIn, Ahead, Holds
  <1>8. CASE k1 = field /\ CharAt(field, n) # Space
    BY <1>1, <1>8 DEF LinkAt, Ahead
  <1>. QED BY <1>3, <1>6, <1>7, <1>8

\* What was saved before stays saved.
LEMMA ContinueKeepsSaved ==
  ASSUME NEW k, NEW q, NEW n, NEW B, NEW saved \in Seq(B), AheadIn(saved),
         Continue(k, q, n, saved)
  PROVE  AheadIn(stack')
  <1> DEFINE d == Deviation(k, q, n)
             k1 == IF d < n THEN LinkAt(k, d) ELSE k
             s1 == [key |-> k, kitr |-> d]
             s2 == [key |-> k1, kitr |-> n]
             a == IF d = n THEN << >> ELSE <<s1>>
             b == IF CharAt(k1, n) = Space THEN <<s2>> ELSE << >>
  <1>1. stack' = (saved \o a) \o b
    BY DEF Continue
  <1> HIDE DEF d, k1, s1, s2
  <1>2. a \in Seq({s1}) /\ b \in Seq({s2})
    BY Single, Zenon
  <1> HIDE DEF a, b
  <1>3. Holds(stack', saved)
    BY <1>1, <1>2, Stacked
  <1>. QED BY <1>3, Zenon DEF AheadIn, Holds

\* The feature found for the whole field
LEMMA WholeOffered ==
  ASSUME Typed, IsName, NEW k, Follows(field, k, 0), NEW x, x # 0,
         elemar' = Append(elemar, Element(Start, x, Len(field))),
         Following(Start, 0, k, Len(field)) \in queue', phase' # "done", field' = field
  PROVE  Offered'
  <1> DEFINE e == Element(Start, x, Len(field))
             o == Following(Start, 0, k, Len(field))
             l == Len(elemar) + 1
  <1>1. elemar \in Seq(Elem) /\ Len(elemar) \in Nat /\ IsField(field) /\ Len(field) \in Nat
    BY Arguments DEF Typed, Linked
  <1>2. Start.pos = 0 /\ Start.predidx = -1 /\ Start.size = 0 /\ Start.nofUnresolved = 0
    BY DEF Start
  <1>3. IsWhole(field, e)
    BY <1>1, <1>2 DEF IsWhole, Element
  <1>4. o = AfterWhole(field, l - 1)
    <2>1. Len(k) = Len(field) /\ CharAt(k, Len(k)) = End /\ End \notin Seps
      <3>1. Len(k) = Len(field) - 0
        BY DEF Follows
      <3>2. CharAt(k, Len(k)) = End /\ End \notin Seps
        BY <1>1, CharsOfKey
      <3>. QED BY <1>1, <3>1, <3>2
    <2>2. Successor(k, Len(field)) = Len(field)
      BY <2>1 DEF Successor
    <2>3. /\ Start.nofUnresolved + 0 = 0 /\ Start.pos + Successor(k, Len(field)) = Len(field)
          /\ Start.size + 1 = 1 /\ l - 1 = Len(elemar)
      BY <1>1, <1>2, <2>2
    <2>. QED BY <2>3 DEF Following, AfterWhole
  <1> HIDE DEF e, o
  <1>5. l \in 1..Len(elemar') /\ elemar'[l] = e
    <2>1. elemar' = Append(elemar, e)
      BY DEF e
    <2>. QED BY <1>1, <2>1
  <1>6. AfterWhole(field, l - 1) \in queue'
    <2>1. o \in queue'
      BY DEF o
    <2>. QED BY <1>4, <2>1
  <1>7. IsWhole(field, elemar'[l])
    BY <1>3, <1>5
  <1>. QED BY <1>5, <1>6, <1>7 DEF Offered

\* What was found stays offered while the queue grows.
LEMMA OfferedKept ==
  ASSUME Typed, Offered, field' = field, phase' # "done", NEW e,
         elemar' = elemar \/ elemar' = Append(elemar, e),
         \A i : AfterWhole(field, i) \in queue => AfterWhole(field, i) \in queue',
         solutions' = solutions
  PROVE  Offered'
  <1>1. elemar \in Seq(Elem)
    BY DEF Typed, Linked
  <1>2. PICK i \in 1..Len(elemar) :
          /\ IsWhole(field, elemar[i])
          /\ \/ AfterWhole(field, i - 1) \in queue
             \/ \E j \in 1..Len(solutions) : solutions[j].idx = i - 1
    BY DEF Offered
  <1>3. i \in 1..Len(elemar') /\ elemar'[i] = elemar[i]
    BY <1>1
  <1>. QED BY <1>2, <1>3 DEF Offered

\* The first element of the queue has at least as few unresolved elements as
\* any other: the search does not end before one without is taken.
LEMMA EmptyUnlessTaken ==
  ASSUME KeySearchInv, NEW q \in queue, q.nofUnresolved = 0
  PROVE  HasMore
  <1>1. queue # {} /\ queue \subseteq QueueElement /\ \A o \in queue : o.pos <= Len(field)
    BY DEF KeySearchInv, Typed, QueueInv, Queued
  <1>2. Len(field) \in Nat
    BY Arguments DEF KeySearchInv
  <1>3. First \in queue /\ First.nofUnresolved <= 0
    BY <1>1, <1>2, FirstLeads
  <1>4. First.nofUnresolved = 0
    <2>1. First.nofUnresolved \in Nat
      BY <1>1, <1>3 DEF QueueElement
    <2>. QED BY <1>3, <2>1
  <1>5. solutions # << >> => solutions[1].nofUnresolved >= 0
    <2>1. solutions \in Seq(Solution)
      BY DEF KeySearchInv, Typed
    <2>2. solutions # << >> => solutions[1] \in Solution
      BY <2>1
    <2>. QED BY <2>2 DEF Solution
  <1>. QED BY <1>1, <1>4, <1>5 DEF HasMore

\* A split of at most one element is never too long.
LEMMA ShortKept ==
  ASSUME Typed, NEW q, q.size \in {0, 1}
  PROVE  ~ TooLong(q)
  <1>1. minsize \in Nat \cup {-1}
    BY DEF Typed
  <1>. QED BY <1>1 DEF TooLong

LEMMA WholeSizes ==
  /\ Start.size = 0 /\ Start.nofUnresolved = 0 /\ Start.pos = 0
  /\ \A i : /\ AfterWhole(field, i).size = 1 /\ AfterWhole(field, i).nofUnresolved = 0
            /\ AfterWhole(field, i).pos = Len(field) /\ AfterWhole(field, i).predidx = i
  BY DEF Start, AfterWhole

LEMMA WholeAtStart ==
  ASSUME Init
  PROVE  WholeInv
  BY DEF Init, WholeInv, Waiting, Start

LEMMA DropKeepsWhole ==
  ASSUME KeySearchInv, WholeInv, Drop
  PROVE  WholeInv'
  <1>1. /\ phase = "queue" /\ TooLong(First) /\ queue' = queue \ {First} /\ phase' = phase
        /\ UNCHANGED <<field, names, elemar, solutions>>
    BY DEF Drop, Taking
  <1>2. Typed
    BY DEF KeySearchInv
  <1>3. First.size \notin {0, 1}
    BY <1>1, <1>2, ShortKept
  <1>4. First # Start /\ \A i : First # AfterWhole(field, i)
    BY <1>3, WholeSizes
  <1> SUFFICES ASSUME IsName' PROVE Waiting' \/ Offered'
    BY DEF WholeInv
  <1>5. Waiting \/ Offered
    BY <1>1 DEF WholeInv, IsName, Sought
  <1>6. CASE Waiting
    BY <1>1, <1>4, <1>6 DEF Waiting, Start
  <1>7. CASE Offered
    <2>1. \A i : AfterWhole(field, i) \in queue => AfterWhole(field, i) \in queue'
      BY <1>1, <1>4
    <2>. QED BY <1>1, <1>2, <1>7, <2>1, OfferedKept
  <1>. QED BY <1>5, <1>6, <1>7

LEMMA CompleteKeepsWhole ==
  ASSUME KeySearchInv, WholeInv, Complete
  PROVE  WholeInv'
  <1> DEFINE s == [idx |-> First.predidx, nofUnresolved |-> First.nofUnresolved]
  <1>1. /\ phase = "queue" /\ First.pos = Len(field) /\ queue' = queue \ {First} /\ phase' = phase
        /\ solutions' = Append(solutions, s)
        /\ UNCHANGED <<field, names, elemar>>
    BY DEF Complete, Taking
  <1>2. solutions \in Seq(Solution) /\ field \in Seq(Char(field))
    BY Arguments, FieldChars DEF KeySearchInv, Typed
  <1> SUFFICES ASSUME IsName' PROVE Waiting' \/ Offered'
    BY DEF WholeInv
  <1>3. Waiting \/ Offered
    BY <1>1 DEF WholeInv, IsName, Sought
  <1>4. s.idx = First.predidx
    OBVIOUS
  <1> HIDE DEF s
  <1>5. Len(solutions) + 1 \in 1..Len(solutions') /\ solutions'[Len(solutions) + 1] = s
        /\ \A j \in 1..Len(solutions) : j \in 1..Len(solutions') /\ solutions'[j] = solutions[j]
    BY <1>1, <1>2
  <1>6. CASE Waiting
    <2>1. Len(field) # 0
      BY <1>1, <1>2 DEF IsName
    <2>2. First # Start
      BY <1>1, <2>1, WholeSizes
    <2>. QED BY <1>1, <1>6, <2>2 DEF Waiting, Start
  <1>7. CASE Offered
    <2>1. PICK i \in 1..Len(elemar) :
            /\ IsWhole(field, elemar[i])
            /\ \/ AfterWhole(field, i - 1) \in queue
               \/ \E j \in 1..Len(solutions) : solutions[j].idx = i - 1
      BY <1>7 DEF Offered
    <2>2. CASE AfterWhole(field, i - 1) = First
      <3>1. s.idx = i - 1
        BY <1>4, <2>2, WholeSizes
      <3>. QED BY <1>1, <1>5, <2>1, <3>1 DEF Offered
    <2>3. CASE AfterWhole(field, i - 1) \in queue /\ AfterWhole(field, i - 1) # First
      BY <1>1, <2>1, <2>3 DEF Offered
    <2>4. CASE \E j \in 1..Len(solutions) : solutions[j].idx = i - 1
      BY <1>1, <1>5, <2>1, <2>4 DEF Offered
    <2>. QED BY <2>1, <2>2, <2>3, <2>4
  <1>. QED BY <1>3, <1>6, <1>7

LEMMA ExploreKeepsWhole ==
  ASSUME KeySearchInv, WholeInv, Explore
  PROVE  WholeInv'
  <1>1. /\ Taking /\ phase = "queue" /\ First.pos < Len(field) /\ phase' = "expand"
        /\ UNCHANGED <<field, names, solutions>>
    BY DEF Explore, Taking
  <1> DEFINE k == Rest
             p == Token
             q == First
  <1>2. PICK r \in Loaded(k, p, q.pos) :
          /\ cur' = q
          /\ queue' = (queue \ {q}) \cup {Following(q, 0, k, r.keylen)}
                      \cup IF IsWord(k, p) THEN {} ELSE {[q EXCEPT !.pos = @ + p]}
          /\ elemar' = Append(elemar, Element(q, r.featno, r.keylen))
          /\ Continue(k, p, r.keylen, << >>)
    BY DEF Explore
  <1>3. /\ Taken(q) /\ IsField(field) /\ Len(field) \in Nat /\ Follows(field, k, q.pos)
        /\ p \in 1..Len(k) /\ Len(k) = Len(field) - q.pos /\ q.pos < Len(field)
    BY <1>1, FirstKey
  <1>4. Typed /\ k = SubSeq(field, q.pos + 1, Len(field))
    BY DEF KeySearchInv, Rest
  <1> HIDE DEF k, p, q
  <1>5. q \in QueueElement /\ q.pos \in Nat
    BY <1>3 DEF Taken
  <1>6. /\ r.featno # 0 /\ r.keylen \in Nat /\ r.keylen >= 1 /\ q.pos + r.keylen <= Len(field)
    BY <1>3, <1>4, <1>5, FeatureNamed
  <1>7. \A i : AfterWhole(field, i) # q
    <2>1. \A i : AfterWhole(field, i).pos = Len(field)
      BY WholeSizes
    <2>. QED BY <1>3, <1>5, <2>1
  <1> SUFFICES ASSUME IsName' PROVE Waiting' \/ Sought' \/ Offered'
    BY DEF WholeInv
  <1>8. IsName /\ (Waiting \/ Offered)
    BY <1>1 DEF WholeInv, IsName, Sought
  <1>9. CASE Offered
    <2>1. \A i : AfterWhole(field, i) \in queue => AfterWhole(field, i) \in queue'
      BY <1>2, <1>7
    <2>. QED BY <1>1, <1>2, <1>4, <1>9, <2>1, OfferedKept
  <1>10. CASE Waiting /\ q # Start
    BY <1>1, <1>2, <1>10 DEF Waiting, Start
  <1>11. CASE q = Start
    <2>1. q.pos = 0 /\ q.pos + 1 = 1 /\ Start.pos = 0
      BY <1>11, WholeSizes
    <2>2. k = field /\ Follows(field, k, 0)
      BY <1>3, <1>4, <2>1, FieldChars
    <2>3. CASE r.keylen = Len(field)
      <3>1. elemar' = Append(elemar, Element(Start, r.featno, Len(field)))
        BY <1>2, <1>11, <2>3
      <3>2. Following(Start, 0, k, Len(field)) \in queue'
        BY <1>2, <1>11, <2>3
      <3>. QED BY <1>1, <1>4, <1>6, <1>8, <2>2, <3>1, <3>2, WholeOffered
    <2>4. CASE r.keylen # Len(field)
      <3>1. r.keylen < Len(field)
        BY <1>3, <1>6, <2>1, <2>4
      <3>2. p \in Nat /\ p <= Len(field)
        BY <1>3, <2>2
      <3>3. << >> \in Seq({}) /\ Continue(field, p, r.keylen, << >>)
        BY <1>2, <2>2
      <3>4. Ahead(key', kitr') \/ AheadIn(stack')
        BY <1>3, <1>6, <3>1, <3>2, <3>3, ContinueKeepsAhead
      <3>. QED BY <1>1, <1>2, <1>11, <3>4 DEF Sought, Ahead, AheadIn, Start
    <2>. QED BY <2>3, <2>4
  <1>. QED BY <1>8, <1>9, <1>10, <1>11

LEMMA UnknownKeepsWhole ==
  ASSUME KeySearchInv, WholeInv, Unknown
  PROVE  WholeInv'
  <1> DEFINE q == First
  <1>1. /\ Taking /\ phase = "queue" /\ q.pos < Len(field) /\ Loaded(Rest, Token, q.pos) = {}
        /\ queue \ {q} \subseteq queue'
        /\ \/ elemar' = Append(elemar, Element(q, 0, Token))
           \/ elemar' = elemar
        /\ UNCHANGED <<field, names, phase, solutions>>
    BY DEF Unknown, Taking
  <1>2. /\ Taken(q) /\ Len(field) \in Nat /\ IsField(field)
        /\ Token \in 1..Len(Rest) /\ Len(Rest) = Len(field) - q.pos
    BY <1>1, FirstKey
  <1>3. Rest = SubSeq(field, q.pos + 1, Len(field)) /\ Typed
    BY DEF Rest, KeySearchInv
  <1> HIDE DEF q
  <1>4. q.pos \in Nat
    BY <1>2 DEF Taken
  <1> SUFFICES ASSUME IsName' PROVE Waiting' \/ Offered'
    BY DEF WholeInv
  <1>5. IsName /\ (Waiting \/ Offered)
    BY <1>1 DEF WholeInv, IsName, Sought
  <1>6. q # Start
    <2> SUFFICES ASSUME q = Start PROVE FALSE
      OBVIOUS
    <2>1. q.pos = 0 /\ q.pos + 1 = 1
      BY WholeSizes
    <2>2. Rest = field
      BY <1>2, <1>3, <2>1, FieldChars
    <2>3. Token \in Nat /\ Token <= Len(field)
      BY <1>2, <2>2
    <2>4. Loaded(field, Token, 0) # {}
      BY <1>3, <1>5, <2>3, WholeLoaded
    <2>. QED BY <1>1, <2>1, <2>2, <2>4
  <1>7. CASE Waiting
    BY <1>1, <1>6, <1>7 DEF Waiting, Start
  <1>8. CASE Offered
    <2>1. \A i : AfterWhole(field, i).pos = Len(field)
      BY WholeSizes
    <2>2. \A i : AfterWhole(field, i) # q
      BY <1>1, <1>2, <1>4, <2>1
    <2>3. \A i : AfterWhole(field, i) \in queue => AfterWhole(field, i) \in queue'
      BY <1>1, <2>2
    <2>4. phase' # "done"
      BY <1>1
    <2>. QED BY <1>1, <1>3, <1>8, <2>3, <2>4, OfferedKept
  <1>. QED BY <1>5, <1>7, <1>8

\* A key that is still the field and has more finds the feature or a part of it.
LEMMA AheadHasNext ==
  ASSUME KeySearchInv, IsName, phase = "expand", cur = Start, Ahead(key, kitr)
  PROVE  LoadedNext # {}
  <1>1. /\ Typed /\ IsField(field) /\ Len(field) \in Nat /\ cur.pos = 0
        /\ Follows(field, key, cur.pos) /\ kitr \in Nat
    BY Arguments, WholeSizes DEF KeySearchInv, KeyInv, Typed
  <1>2. key = field /\ kitr < Len(key)
    BY DEF Ahead
  <1>3. SkipToken(key, kitr) \in (kitr + 1)..Len(key)
    BY <1>1, <1>2, SkipInKey
  <1>4. SkipToken(key, kitr) \in Nat /\ SkipToken(key, kitr) <= Len(field)
    BY <1>1, <1>2, <1>3
  <1>5. Loaded(field, SkipToken(key, kitr), 0) # {}
    BY <1>1, <1>4, WholeLoaded
  <1>. QED BY <1>1, <1>2, <1>5 DEF LoadedNext

LEMMA ExpandKeepsWhole ==
  ASSUME KeySearchInv, WholeInv, Expand
  PROVE  WholeInv'
  <1> DEFINE p == SkipToken(key, kitr)
  <1>1. phase = "expand" /\ UNCHANGED <<field, names, phase, solutions, cur>>
    BY DEF Expand
  <1>2. PICK r \in LoadedNext :
          /\ queue' = queue \cup {Following(cur, 0, key, r.keylen)}
          /\ elemar' = Append(elemar, Element(cur, r.featno, r.keylen))
          /\ Continue(key, p, r.keylen, stack)
    BY DEF Expand
  <1>3. kitr < Len(key) /\ r \in Loaded(key, p, cur.pos)
    BY <1>2 DEF LoadedNext
  <1>4. /\ Typed /\ cur \in QueueElement /\ IsField(field) /\ Len(field) \in Nat
        /\ cur.pos < Len(field) /\ cur.pos \in Nat
        /\ Follows(field, key, cur.pos) /\ kitr \in Nat /\ stack \in Seq(Buffers(field, cur.pos))
    BY <1>1, Arguments DEF KeySearchInv, Typed, QueueInv, KeyInv, QueueElement
  <1>5. p \in (kitr + 1)..Len(key) /\ Len(key) = Len(field) - cur.pos
    <2>1. cur.pos <= Len(field) /\ Len(key) = Len(field) - cur.pos
      BY <1>4 DEF Follows
    <2>2. SkipToken(key, kitr) \in (kitr + 1)..Len(key)
      BY <1>3, <1>4, <2>1, SkipInKey
    <2>. QED BY <2>1, <2>2
  <1> HIDE DEF p
  <1>6. r.featno # 0 /\ r.keylen \in Nat /\ cur.pos + r.keylen <= Len(field)
    BY <1>3, <1>4, FeatureNamed
  <1> SUFFICES ASSUME IsName' PROVE Waiting' \/ Sought' \/ Offered'
    BY DEF WholeInv
  <1>7. IsName /\ (Waiting \/ Sought \/ Offered) /\ phase' # "done"
    BY <1>1 DEF WholeInv, IsName
  <1>8. CASE Waiting
    BY <1>1, <1>2, <1>8 DEF Waiting, Start
  <1>9. CASE Offered
    <2>1. \A i : AfterWhole(field, i) \in queue => AfterWhole(field, i) \in queue'
      BY <1>2
    <2>. QED BY <1>1, <1>2, <1>4, <1>7, <1>9, <2>1, OfferedKept
  <1>10. CASE Sought
    <2>1. cur = Start /\ cur.pos = 0 /\ Follows(field, key, 0) /\ Start' = Start
      BY <1>4, <1>10, WholeSizes DEF Sought, Start
    <2>2. CASE r.keylen = Len(field)
      <3>1. elemar' = Append(elemar, Element(Start, r.featno, Len(field)))
        BY <1>2, <2>1, <2>2
      <3>2. Following(Start, 0, key, Len(field)) \in queue'
        BY <1>2, <2>1, <2>2
      <3>. QED BY <1>1, <1>4, <1>6, <1>7, <2>1, <3>1, <3>2, WholeOffered
    <2>3. CASE AheadIn(stack)
      <3>1. AheadIn(stack')
        BY <1>2, <1>4, <2>3, ContinueKeepsSaved
      <3>. QED BY <1>1, <2>1, <3>1 DEF Sought, Ahead, AheadIn
    <2>4. CASE Ahead(key, kitr) /\ r.keylen # Len(field)
      <3>1. key = field /\ r.keylen < Len(field) /\ p \in Nat /\ p <= Len(field)
        <4>1. key = field
          BY <2>4 DEF Ahead
        <4>. QED BY <1>4, <1>5, <1>6, <2>1, <2>4, <4>1
      <3>2. Continue(field, p, r.keylen, stack)
        BY <1>2, <3>1
      <3>3. Ahead(key', kitr') \/ AheadIn(stack')
        BY <1>4, <1>6, <3>1, <3>2, ContinueKeepsAhead
      <3>. QED BY <1>1, <2>1, <3>3 DEF Sought, Ahead, AheadIn
    <2>. QED BY <1>10, <2>2, <2>3, <2>4 DEF Sought
  <1>. QED BY <1>7, <1>8, <1>9, <1>10

LEMMA BacktrackKeepsWhole ==
  ASSUME KeySearchInv, WholeInv, Backtrack
  PROVE  WholeInv'
  <1>1. /\ phase = "expand" /\ LoadedNext = {} /\ stack # << >>
        /\ key' = stack[Len(stack)].key /\ kitr' = stack[Len(stack)].kitr
        /\ stack' = SubSeq(stack, 1, Len(stack) - 1)
        /\ UNCHANGED <<field, names, phase, queue, elemar, solutions, cur>>
    BY DEF Backtrack
  <1> SUFFICES ASSUME IsName' PROVE Waiting' \/ Sought' \/ Offered'
    BY DEF WholeInv
  <1>2. IsName /\ (Waiting \/ Sought \/ Offered)
    BY <1>1 DEF WholeInv, IsName
  <1>3. CASE Waiting \/ Offered
    BY <1>1, <1>3 DEF Waiting, Start, Offered
  <1>4. CASE Sought
    <2>1. cur = Start /\ (Ahead(key, kitr) \/ AheadIn(stack))
      BY <1>4 DEF Sought
    <2>2. ~ Ahead(key, kitr)
      BY <1>1, <1>2, <2>1, AheadHasNext
    <2>3. PICK i \in 1..Len(stack) : Ahead(stack[i].key, stack[i].kitr)
      BY <2>1, <2>2 DEF AheadIn
    <2> DEFINE B == Buffers(field, cur.pos)
    <2>4. stack \in Seq(B)
      BY <1>1 DEF KeySearchInv, KeyInv
    <2> HIDE DEF B
    <2>5. CASE i = Len(stack)
      BY <1>1, <2>1, <2>3, <2>5 DEF Sought, Ahead, Start
    <2>6. CASE i # Len(stack)
      <3>1. i \in 1..Len(stack') /\ stack'[i] = stack[i]
        BY <1>1, <2>4, <2>6
      <3>2. AheadIn(stack')
        BY <2>3, <3>1 DEF AheadIn
      <3>. QED BY <1>1, <2>1, <3>2 DEF Sought, Ahead, AheadIn, Start
    <2>. QED BY <2>5, <2>6
  <1>. QED BY <1>2, <1>3, <1>4

LEMMA ExpandEndsKeepsWhole ==
  ASSUME KeySearchInv, WholeInv, ExpandEnds
  PROVE  WholeInv'
  <1>1. /\ phase = "expand" /\ LoadedNext = {} /\ stack = << >> /\ phase' = "queue"
        /\ UNCHANGED <<field, names, queue, elemar, solutions>>
    BY DEF ExpandEnds
  <1> SUFFICES ASSUME IsName' PROVE Waiting' \/ Offered'
    BY DEF WholeInv
  <1>2. IsName /\ (Waiting \/ Sought \/ Offered)
    BY <1>1 DEF WholeInv, IsName
  <1>3. ~ Sought
    <2>1. ~ AheadIn(stack)
      BY <1>1 DEF AheadIn
    <2>. QED BY <1>1, <1>2, <2>1, AheadHasNext DEF Sought
  <1>. QED BY <1>1, <1>2, <1>3 DEF Waiting, Start, Offered

LEMMA ScanEndsKeepsWhole ==
  ASSUME KeySearchInv, WholeInv, ScanEnds
  PROVE  WholeInv'
  <1>1. /\ phase = "queue" /\ ~ HasMore
        /\ UNCHANGED <<field, names, elemar, solutions>>
    BY DEF ScanEnds
  <1> SUFFICES ASSUME IsName' PROVE Offered'
    BY DEF WholeInv
  <1>2. Waiting \/ Offered
    BY <1>1 DEF WholeInv, IsName, Sought
  <1>3. \A q \in queue : q.nofUnresolved # 0
    BY <1>1, EmptyUnlessTaken
  <1>4. Start \notin queue /\ \A i : AfterWhole(field, i) \notin queue
    BY <1>3, WholeSizes
  <1>5. Offered
    BY <1>2, <1>4 DEF Waiting
  <1>. QED BY <1>1, <1>4, <1>5 DEF Offered

LEMMA StepKeepsWhole ==
  ASSUME KeySearchInv, WholeInv, [Next]_vars
  PROVE  WholeInv'
  <1>1. CASE UNCHANGED vars
    BY <1>1 DEF vars, WholeInv, IsName, Waiting, Start, Sought, Ahead, AheadIn, Offered
  <1>2. CASE Step
    BY <1>2, DropKeepsWhole, CompleteKeepsWhole, ExploreKeepsWhole, UnknownKeepsWhole,
       ExpandKeepsWhole, BacktrackKeepsWhole, ExpandEndsKeepsWhole, ScanEndsKeepsWhole DEF Step
  <1>3. CASE Returned
    BY <1>1, <1>3 DEF Returned
  <1>. QED BY <1>1, <1>2, <1>3 DEF Next

LEMMA WholeAlways == Spec => []WholeInv
  BY InvAlways, WholeAtStart, StepKeepsWhole, PTL DEF Spec

-----------------------------------------------------------------------------
(* The properties.                                                         *)

\* The search stays within its types: elements lie in the field, are linked
\* backwards only and number stored features; positions are in their buffers.
THEOREM KeySearchTypeCorrect == Spec => []TypeOK
  <1>1. ASSUME KeySearchInv PROVE TypeOK
    <2>0. /\ Typed /\ AllPlaced(field, names, elemar) /\ QueueInv /\ SolutionInv /\ KeyInv
          /\ elemar \in Seq(Elem) /\ Len(elemar) \in Nat /\ solutions \in Seq(Solution)
          /\ Len(names) \in Nat
      BY <1>1, Arguments DEF KeySearchInv, Typed, Linked, NamesTyped
    <2>1. ASSUME NEW i \in DOMAIN elemar
          PROVE  /\ elemar[i].featno \in 0..Len(names)
                 /\ elemar[i].startpos < elemar[i].endpos /\ elemar[i].endpos <= Len(field)
                 /\ elemar[i].predidx \in -1..(i - 2)
      <3>1. i \in 1..Len(elemar)
        BY <2>0, <2>1
      <3>2. elemar[i] \in Elem /\ Placed(field, names, elemar, elemar[i])
        BY <2>0, <3>1 DEF AllPlaced
      <3>3. elemar[i].featno \in Nat /\ elemar[i].featno <= Len(names)
        BY <3>2 DEF Elem, Placed
      <3>4. elemar[i].predidx \in -1..(i - 2)
        BY <2>0, <3>1 DEF Typed, Linked
      <3>. QED BY <2>0, <3>2, <3>3, <3>4 DEF Placed
    <2>2. ASSUME NEW i \in DOMAIN solutions PROVE solutions[i].idx \in -1..(Len(elemar) - 1)
      <3>1. i \in 1..Len(solutions) /\ solutions[i] \in Solution
        BY <2>0, <2>2
      <3>2. solutions[i].idx < Len(elemar) /\ solutions[i].idx \in Nat \cup {-1}
        BY <2>0, <3>1 DEF SolutionInv, Solved, Solution
      <3>. QED BY <2>0, <3>2
    <2>3. \A q \in queue : q.pos <= Len(field) /\ q.predidx < Len(elemar)
      BY <2>0 DEF QueueInv, Queued
    <2>4. kitr \in 0..Len(key) /\ \A i \in DOMAIN stack : stack[i].kitr \in 0..Len(stack[i].key)
      <3>1. CASE phase = "expand"
        <4>1. Len(key) \in Nat /\ kitr \in Nat /\ kitr <= Len(key)
          BY <2>0, <3>1 DEF KeyInv, Follows
        <4> DEFINE B == Buffers(field, cur.pos)
        <4>2. stack \in Seq(B)
          BY <2>0, <3>1 DEF KeyInv
        <4>3. \A s \in B : s.kitr \in Nat /\ s.kitr <= Len(s.key) /\ Len(s.key) \in Nat
          BY DEF Buffers
        <4> HIDE DEF B
        <4>4. \A i \in DOMAIN stack : stack[i] \in B
          BY <4>2
        <4>. QED BY <4>1, <4>3, <4>4
      <3>2. CASE phase # "expand"
        <4>1. key = << >> /\ kitr = 0 /\ stack = << >>
          BY <2>0, <3>2 DEF KeyInv
        <4>. QED BY <4>1
      <3>. QED BY <3>1, <3>2
    <2>. QED BY <2>0, <2>1, <2>2, <2>3, <2>4 DEF TypeOK, Typed
  <1>. QED BY <1>1, InvAlways, PTL

\* Whatever separators the exploration replaces, a feature is given only for a
\* part of the field that its name is equal to (isEqualField).
THEOREM FeaturesNamed == Spec => []ElementsNamed
  <1>1. ASSUME KeySearchInv PROVE ElementsNamed
    <2> SUFFICES ASSUME NEW i \in DOMAIN elemar PROVE Named(field, names, elemar[i])
      BY DEF ElementsNamed, Named
    <2>1. elemar \in Seq(Elem) /\ AllPlaced(field, names, elemar)
      BY <1>1 DEF KeySearchInv, Typed, Linked
    <2>2. i \in 1..Len(elemar)
      BY <2>1
    <2>. QED BY <2>1, <2>2 DEF AllPlaced, Placed
  <1>. QED BY <1>1, InvAlways, PTL

\* The function the properties read the solutions with
LEMMA TraceIsTrace ==
  Trace = TraceOf(elemar)
  BY DEF Trace, TraceOf, IsTrace

\* The elements of a solution follow each other over the whole field, and only
\* separators are left out.
THEOREM SolutionsCover == Spec => []SolutionsCoverField
  <1>1. ASSUME KeySearchInv, NEW i \in DOMAIN solutions
        PROVE  LET t == Trace[solutions[i].idx]
                   ends == <<0>> \o [j \in DOMAIN t |-> t[j].endpos]
                   starts == Append([j \in DOMAIN t |-> t[j].startpos], Len(field))
               IN  \A j \in DOMAIN ends : ends[j] <= starts[j] /\ OnlySeps(ends[j], starts[j])
    <2> DEFINE t == Trace[solutions[i].idx]
               a == [j \in DOMAIN t |-> t[j].endpos]
               b == [j \in DOMAIN t |-> t[j].startpos]
               ends == <<0>> \o a
               starts == Append(b, Len(field))
    <2>1. /\ Linked(elemar) /\ Len(elemar) \in Nat /\ AllPlaced(field, names, elemar)
          /\ solutions[i] \in Solution /\ Solved(field, elemar, solutions[i]) /\ Len(field) \in Nat
      <3>1. Typed /\ SolutionInv /\ AllPlaced(field, names, elemar) /\ solutions \in Seq(Solution)
        BY <1>1 DEF KeySearchInv, Typed
      <3>2. i \in 1..Len(solutions) /\ solutions[i] \in Solution
        BY <1>1, <3>1
      <3>. QED BY <3>1, <3>2, Arguments DEF Typed, SolutionInv, Linked
    <2>2. solutions[i].idx + 1 \in 0..Len(elemar) /\ (solutions[i].idx + 1) - 1 = solutions[i].idx
      <3>1. solutions[i].idx \in Nat \cup {-1} /\ solutions[i].idx < Len(elemar)
        BY <2>1 DEF Solution, Solved
      <3>. QED BY <2>1, <3>1
    <2>3. Chained(field, elemar)
      BY <2>1 DEF AllPlaced, Placed, Chained
    <2>4. /\ t \in Seq(Elem) /\ Covers(field, t)
          /\ LastEnd(t) = EndOf(elemar, solutions[i].idx)
      <3> DEFINE n == solutions[i].idx + 1
      <3> HIDE DEF n
      <3>1. /\ TraceOf(elemar)[n - 1] \in Seq(Elem) /\ Covers(field, TraceOf(elemar)[n - 1])
            /\ LastEnd(TraceOf(elemar)[n - 1]) = EndOf(elemar, n - 1)
        <4>1. n \in 0..Len(elemar)
          BY <2>2 DEF n
        <4>. QED BY <2>1, <2>3, <4>1, TracesCover, TraceTyped
      <3>. QED BY <2>2, <3>1, TraceIsTrace DEF n
    <2>5. Gap(field, LastEnd(t), Len(field))
      BY <2>1, <2>4 DEF Solved
    <2> HIDE DEF t
    <2>6. Len(t) \in Nat /\ DOMAIN t = 1..Len(t) /\ \A j \in 1..Len(t) : t[j] \in Elem
      BY <2>4
    <2>7. \A j \in 1..Len(t) : t[j].endpos \in Nat /\ t[j].startpos \in Nat
      BY <2>6 DEF Elem
    <2>8. /\ a \in Seq(Nat) /\ Len(a) = Len(t) /\ \A j \in 1..Len(t) : a[j] = t[j].endpos
          /\ b \in Seq(Nat) /\ Len(b) = Len(t) /\ \A j \in 1..Len(t) : b[j] = t[j].startpos
      BY <2>6, <2>7
    <2> HIDE DEF a, b
    <2>9. DOMAIN ends = 1..(Len(t) + 1)
      BY <2>6, <2>8
    <2>10. ASSUME NEW j \in 1..(Len(t) + 1)
           PROVE  ends[j] = IF j = 1 THEN 0 ELSE t[j - 1].endpos
      <3>1. CASE j = 1
        BY <2>8, <3>1
      <3>2. CASE j # 1
        <4>1. j - 1 \in 1..Len(t)
          BY <2>6, <3>2
        <4>2. ends[j] = a[j - 1]
          BY <2>6, <2>8, <3>2
        <4>. QED BY <2>8, <3>2, <4>1, <4>2
      <3>. QED BY <3>1, <3>2
    <2>11. ASSUME NEW j \in 1..(Len(t) + 1)
           PROVE  starts[j] = IF j = Len(t) + 1 THEN Len(field) ELSE t[j].startpos
      <3>1. CASE j = Len(t) + 1
        BY <2>8, <3>1
      <3>2. CASE j # Len(t) + 1
        <4>1. j \in 1..Len(t)
          BY <2>6, <3>2
        <4>. QED BY <2>8, <3>2, <4>1
      <3>. QED BY <3>1, <3>2
    <2> HIDE DEF ends, starts
    <2>12. ASSUME NEW j \in 1..(Len(t) + 1) PROVE Gap(field, ends[j], starts[j])
      <3>1. CASE j = Len(t) + 1
        <4>1. ends[j] = LastEnd(t)
          <5>1. CASE Len(t) = 0
            BY <2>10, <3>1, <5>1 DEF LastEnd
          <5>2. CASE Len(t) # 0
            <6>1. j # 1 /\ j - 1 = Len(t)
              BY <2>6, <3>1, <5>2
            <6>. QED BY <2>10, <5>2, <6>1 DEF LastEnd
          <5>. QED BY <5>1, <5>2
        <4>. QED BY <2>5, <2>11, <3>1, <4>1
      <3>2. CASE j # Len(t) + 1
        <4>1. j \in 1..Len(t)
          BY <2>6, <3>2
        <4>. QED BY <2>4, <2>10, <2>11, <3>2, <4>1 DEF Covers
      <3>. QED BY <3>1, <3>2
    <2>13. \A j \in DOMAIN ends : ends[j] <= starts[j] /\ OnlySeps(ends[j], starts[j])
      BY <2>9, <2>12 DEF Gap, OnlySeps
    <2>. QED BY <2>13 DEF ends, starts, a, b, t
  <1>2. KeySearchInv => SolutionsCoverField
    BY <1>1 DEF SolutionsCoverField
  <1>. QED BY <1>2, InvAlways, PTL

\* Every solution has the least number of unresolved elements, and when the
\* search ends every split left in the queue has more.
THEOREM BestSolutions == Spec => []FewestUnresolved
  <1>1. ASSUME KeySearchInv PROVE FewestUnresolved
    <2>1. Typed /\ SolutionInv /\ BestInv /\ solutions \in Seq(Solution)
      BY <1>1 DEF KeySearchInv, Typed
    <2>2. ASSUME NEW i \in DOMAIN solutions
          PROVE  LET t == Trace[solutions[i].idx]
                 IN  /\ solutions[i].nofUnresolved = Cardinality({j \in DOMAIN t : t[j].featno = 0})
                     /\ solutions[i].nofUnresolved = solutions[1].nofUnresolved
      <3>1. i \in 1..Len(solutions)
        BY <2>1, <2>2
      <3>2. solutions[i].nofUnresolved = Unres(elemar, solutions[i].idx)
        BY <2>1, <3>1 DEF SolutionInv, Solved
      <3>3. solutions[i].nofUnresolved = solutions[1].nofUnresolved
        BY <2>1, <3>1 DEF BestInv
      <3>. QED BY <3>2, <3>3, TraceIsTrace DEF Unres, Unresolved
    <2>3. phase = "done" => \A q \in queue : q.nofUnresolved > solutions[1].nofUnresolved
      BY <2>1 DEF BestInv
    <2>. QED BY <2>2, <2>3 DEF FewestUnresolved
  <1>. QED BY <1>1, InvAlways, PTL

\* A field that is the name of a feature is found as one feature when the
\* search ends: no saved key of the exploration is lost, and the split with
\* this feature alone is neither dropped nor left behind.
THEOREM WholeFound == Spec => []WholeFieldFound
  <1>1. ASSUME KeySearchInv, WholeInv, phase = "done", IsName
        PROVE  \E i \in DOMAIN solutions :
                  LET t == Trace[solutions[i].idx]
                  IN  Len(t) = 1 /\ t[1].featno # 0 /\ t[1].startpos = 0 /\ t[1].endpos = Len(field)
    <2>1. Offered
      BY <1>1 DEF WholeInv, Waiting, Sought
    <2>2. PICK i \in 1..Len(elemar), j \in 1..Len(solutions) :
             IsWhole(field, elemar[i]) /\ solutions[j].idx = i - 1
      BY <1>1, <2>1 DEF Offered
    <2>3. Linked(elemar) /\ solutions \in Seq(Solution)
      BY <1>1 DEF KeySearchInv, Typed
    <2>4. /\ TraceOf(elemar)[-1] = << >>
          /\ TraceOf(elemar)[i - 1] = Append(TraceOf(elemar)[elemar[i].predidx], elemar[i])
      BY <2>3, TraceWalks DEF Walks
    <2> DEFINE t == Trace[solutions[j].idx]
    <2>5. t = Append(<< >>, elemar[i])
      <3>1. elemar[i].predidx = -1
        BY <2>2 DEF IsWhole
      <3>2. t = TraceOf(elemar)[i - 1]
        BY <2>2, TraceIsTrace
      <3>. QED BY <2>4, <3>1, <3>2
    <2> HIDE DEF t
    <2>6. Len(t) = 1 /\ t[1] = elemar[i]
      BY <2>5
    <2>7. Len(t) = 1 /\ t[1].featno # 0 /\ t[1].startpos = 0 /\ t[1].endpos = Len(field)
      BY <2>2, <2>6 DEF IsWhole
    <2>8. j \in DOMAIN solutions
      BY <2>3
    <2>. QED BY <2>7, <2>8 DEF t
  <1>2. KeySearchInv /\ WholeInv => WholeFieldFound
    BY <1>1 DEF WholeFieldFound, IsName
  <1>. QED BY <1>2, InvAlways, WholeAlways, PTL
=============================================================================
