------------------------- MODULE VectorStoreProofs -------------------------
(***************************************************************************)
(* Proofs that the transactions of VectorTransaction implement the store   *)
(* of VectorStore, and that the redundant parts of the database (counters, *)
(* relations, LSH values) agree with its vectors and names.                *)
(***************************************************************************)
EXTENDS VectorTransactionProofs

-----------------------------------------------------------------------------
(* The local tables.                                                       *)

\* getOrCreate keeps the index of every known symbol.
LEMMA SymbolAdded ==
    ASSUME NEW S, NEW tab \in Seq(S), NEW key \in S
    PROVE  /\ \A i \in 1 .. Len(tab) : GetOrCreate(tab, key)[i] = tab[i]
           /\ Len(GetOrCreate(tab, key)) \in {Len(tab), Len(tab) + 1}
           /\ GetOrCreate(tab, key)[SymbolIndex(GetOrCreate(tab, key), key)] = key
           /\ \A i \in 1 .. Len(GetOrCreate(tab, key)) :
                i > Len(tab) => i = SymbolIndex(GetOrCreate(tab, key), key)
<1>1. Len(tab) \in Nat /\ DOMAIN tab = 1 .. Len(tab)
  BY LenProperties
<1>2. CASE \E i \in DOMAIN tab : tab[i] = key
  <2>1. GetOrCreate(tab, key) = tab
    BY <1>2 DEF GetOrCreate
  <2>2. SymbolIndex(tab, key) \in DOMAIN tab /\ tab[SymbolIndex(tab, key)] = key
    BY <1>2 DEF SymbolIndex
  <2>3. QED
    BY <1>1, <1>2, <2>1, <2>2
<1>3. CASE ~ \E i \in DOMAIN tab : tab[i] = key
  <2> DEFINE new == Append(tab, key)
  <2>1. GetOrCreate(tab, key) = new
    BY <1>3 DEF GetOrCreate
  <2>2. /\ Len(new) = Len(tab) + 1
        /\ \A i \in 1 .. Len(tab) : new[i] = tab[i]
        /\ new[Len(tab) + 1] = key /\ new \in Seq(S)
    BY AppendProperties
  <2> HIDE DEF new
  <2>3. DOMAIN new = 1 .. Len(tab) + 1
    BY <2>2, LenProperties
  <2>4. \A i \in DOMAIN new : new[i] = key <=> i = Len(tab) + 1
    BY <1>1, <1>3, <2>2, <2>3
  <2>5. SymbolIndex(new, key) = Len(tab) + 1
    BY <1>1, <2>3, <2>4 DEF SymbolIndex
  <2>6. QED
    BY <1>1, <2>1, <2>2, <2>5
<1>4. QED
  BY <1>2, <1>3

\* A slot is added exactly for a new type.
LEMMA SlotsAdded ==
    ASSUME NEW x \in Trans, vecar[x] \in Elements, NEW tab, Len(tab) \in Nat,
           Len(tab) \in {Len(vecar[x]), Len(vecar[x]) + 1}
    PROVE  /\ TypeSlots(x, tab) \in Elements
           /\ Len(TypeSlots(x, tab)) = Len(tab)
           /\ \A i \in 1 .. Len(vecar[x]) : TypeSlots(x, tab)[i] = vecar[x][i]
           /\ \A i \in 1 .. Len(tab) : i > Len(vecar[x]) => TypeSlots(x, tab)[i] = << >>
<1>1. Len(vecar[x]) \in Nat
  BY ElementType
<1>2. CASE Len(tab) > Len(vecar[x])
  <2>1. TypeSlots(x, tab) = Append(vecar[x], << >>)
    BY <1>2 DEF TypeSlots
  <2>2. << >> \in Seq(VectorDef) /\ vecar[x] \in Seq(Seq(VectorDef))
    BY DEF Elements
  <2>3. /\ Append(vecar[x], << >>) \in Seq(Seq(VectorDef))
        /\ Len(Append(vecar[x], << >>)) = Len(vecar[x]) + 1
        /\ \A i \in 1 .. Len(vecar[x]) : Append(vecar[x], << >>)[i] = vecar[x][i]
        /\ Append(vecar[x], << >>)[Len(vecar[x]) + 1] = << >>
    BY <2>2, AppendProperties
  <2>4. \A i \in 1 .. Len(tab) : i > Len(vecar[x]) => i = Len(vecar[x]) + 1
    BY <1>1, <1>2
  <2>5. QED
    BY <1>1, <1>2, <2>1, <2>3, <2>4 DEF Elements
<1>3. CASE Len(tab) = Len(vecar[x])
  BY <1>1, <1>3 DEF TypeSlots
<1>4. QED
  BY <1>1, <1>2, <1>3

\* An element is added to the end of the slot of its type.
LEMMA ElementAdded ==
    ASSUME NEW slots \in Elements, NEW tid \in 1 .. Len(slots), NEW e \in VectorDef,
           NEW new, new = [slots EXCEPT ![tid] = Append(@, e)]
    PROVE  /\ new \in Elements /\ Len(new) = Len(slots)
           /\ \A i \in 1 .. Len(slots) : i # tid => new[i] = slots[i]
           /\ Len(new[tid]) = Len(slots[tid]) + 1
           /\ \A j \in 1 .. Len(slots[tid]) : new[tid][j] = slots[tid][j]
           /\ new[tid][Len(slots[tid]) + 1] = e
<1>1. /\ Len(slots) \in Nat /\ DOMAIN slots = 1 .. Len(slots)
      /\ slots \in [1 .. Len(slots) -> Seq(VectorDef)]
      /\ slots[tid] \in Seq(VectorDef)
  BY LenProperties DEF Elements
<1>2. /\ Append(slots[tid], e) \in Seq(VectorDef)
      /\ Len(Append(slots[tid], e)) = Len(slots[tid]) + 1
      /\ \A j \in 1 .. Len(slots[tid]) : Append(slots[tid], e)[j] = slots[tid][j]
      /\ Append(slots[tid], e)[Len(slots[tid]) + 1] = e
  BY <1>1, AppendProperties
<1>3. new \in [1 .. Len(slots) -> Seq(VectorDef)]
  BY <1>1, <1>2
<1>4. new \in Seq(Seq(VectorDef)) /\ Len(new) = Len(slots)
  <2>1. new \in Seq(Seq(VectorDef))
    BY <1>1, <1>3, SeqDef
  <2>2. DOMAIN new = 1 .. Len(slots) /\ DOMAIN new = 1 .. Len(new) /\ Len(new) \in Nat
    BY <1>3, <2>1, LenProperties
  <2>3. QED
    BY <1>1, <2>1, <2>2
<1>5. new[tid] = Append(slots[tid], e) /\ \A i \in 1 .. Len(slots) : i # tid => new[i] = slots[i]
  BY <1>1
<1>6. QED
  BY <1>2, <1>4, <1>5 DEF Elements

\* What defineElement does to the tables of its transaction: tid and fid are
\* the local identifiers of type and feature, n elements of the type have been
\* defined before.
ElementDefined(x, t, f, v, tid, fid, n) ==
    /\ tid \in 1 .. Len(typetab'[x]) /\ typetab'[x][tid] = t
    /\ fid \in 1 .. Len(nametab'[x]) /\ nametab'[x][fid] = f
    /\ Len(typetab[x]) <= Len(typetab'[x])
    /\ Len(nametab[x]) <= Len(nametab'[x])
    /\ \A i \in 1 .. Len(typetab[x]) : typetab'[x][i] = typetab[x][i]
    /\ \A j \in 1 .. Len(nametab[x]) : nametab'[x][j] = nametab[x][j]
    /\ \A i \in 1 .. Len(typetab'[x]) : i > Len(typetab[x]) => i = tid
    /\ \A j \in 1 .. Len(nametab'[x]) : j > Len(nametab[x]) => j = fid
    /\ {typetab'[x][i] : i \in 1 .. Len(typetab'[x])}
         = {typetab[x][i] : i \in 1 .. Len(typetab[x])} \cup {t}
    /\ Len(vecar'[x]) = Len(typetab'[x])
    /\ \A i \in 1 .. Len(typetab[x]) : i # tid => vecar'[x][i] = vecar[x][i]
    /\ n = IF tid <= Len(typetab[x]) THEN Len(vecar[x][tid]) ELSE 0
    /\ Len(vecar'[x][tid]) = n + 1
    /\ \A j \in 1 .. n : vecar'[x][tid][j] = vecar[x][tid][j]
    /\ vecar'[x][tid][n + 1] = [id |-> fid, vec |-> v]
    /\ relations'[x] = relations[x] \cup {<<fid, tid>>}
    /\ defs'[x] = WithElement(defs[x], t, f, v)

LEMMA DefineElementTables ==
    ASSUME TypeInv, NEW x \in Trans, NEW t \in Types, NEW f \in Feats,
           NEW v \in Vecs \cup {Absent}, DefineElement(x, t, f, v),
           Len(typetab[x]) = Len(vecar[x])
    PROVE  \E tid, fid, n \in Nat : ElementDefined(x, t, f, v, tid, fid, n)
<1> DEFINE ttab == GetOrCreate(typetab[x], t)
           ntab == GetOrCreate(nametab[x], f)
           tid == SymbolIndex(ttab, t)
           fid == SymbolIndex(ntab, f)
           slots == TypeSlots(x, ttab)
           e == [id |-> fid, vec |-> v]
           new == [slots EXCEPT ![tid] = Append(@, e)]
           n == Len(slots[tid])
<1>1. /\ typetab \in [Trans -> Seq(Types)] /\ nametab \in [Trans -> Seq(Feats)]
      /\ vecar \in [Trans -> Elements] /\ relations \in [Trans -> SUBSET (Nat \X Nat)]
      /\ defs \in [Trans -> Definitions]
  BY DEF TypeInv, TypeOK, Elements
<1>2. /\ typetab[x] \in Seq(Types) /\ Len(typetab[x]) \in Nat
      /\ nametab[x] \in Seq(Feats) /\ Len(nametab[x]) \in Nat
      /\ vecar[x] \in Elements
  BY <1>1, LenProperties
<1>3. /\ ttab \in Seq(Types) /\ Len(ttab) \in Nat /\ tid \in 1 .. Len(ttab) /\ ttab[tid] = t
      /\ Len(typetab[x]) <= Len(ttab)
      /\ Len(ttab) \in {Len(typetab[x]), Len(typetab[x]) + 1}
      /\ \A i \in 1 .. Len(typetab[x]) : ttab[i] = typetab[x][i]
      /\ \A i \in 1 .. Len(ttab) : i > Len(typetab[x]) => i = tid
      /\ {ttab[i] : i \in 1 .. Len(ttab)} = {typetab[x][i] : i \in 1 .. Len(typetab[x])} \cup {t}
  <2>1. /\ ttab \in Seq(Types) /\ Len(typetab[x]) <= Len(ttab) /\ tid \in 1 .. Len(ttab)
    BY <1>2, SymbolTable
  <2>2. /\ \A i \in 1 .. Len(typetab[x]) : ttab[i] = typetab[x][i]
        /\ Len(ttab) \in {Len(typetab[x]), Len(typetab[x]) + 1}
        /\ ttab[tid] = t
        /\ \A i \in 1 .. Len(ttab) : i > Len(typetab[x]) => i = tid
    BY <1>2, SymbolAdded
  <2> HIDE DEF ttab, tid
  <2>3. Len(ttab) \in Nat
    BY <2>1, LenProperties
  <2>4. {ttab[i] : i \in 1 .. Len(ttab)} = {typetab[x][i] : i \in 1 .. Len(typetab[x])} \cup {t}
    <3>1. \A i \in 1 .. Len(ttab) : i <= Len(typetab[x]) => i \in 1 .. Len(typetab[x])
      BY <1>2
    <3>2. \A i \in 1 .. Len(typetab[x]) : i \in 1 .. Len(ttab)
      BY <1>2, <2>1, <2>3
    <3>3. \A i \in 1 .. Len(ttab) : i <= Len(typetab[x]) \/ i > Len(typetab[x])
      BY <1>2
    <3>4. QED
      BY <2>1, <2>2, <3>1, <3>2, <3>3
  <2>5. QED
    BY <2>1, <2>2, <2>3, <2>4
<1>4. /\ ntab \in Seq(Feats) /\ Len(ntab) \in Nat /\ fid \in 1 .. Len(ntab) /\ ntab[fid] = f
      /\ Len(nametab[x]) <= Len(ntab)
      /\ \A j \in 1 .. Len(nametab[x]) : ntab[j] = nametab[x][j]
      /\ \A j \in 1 .. Len(ntab) : j > Len(nametab[x]) => j = fid
  <2>1. /\ ntab \in Seq(Feats) /\ Len(nametab[x]) <= Len(ntab) /\ fid \in 1 .. Len(ntab)
    BY <1>2, SymbolTable
  <2>2. /\ \A j \in 1 .. Len(nametab[x]) : ntab[j] = nametab[x][j]
        /\ ntab[fid] = f
        /\ \A j \in 1 .. Len(ntab) : j > Len(nametab[x]) => j = fid
    BY <1>2, SymbolAdded
  <2> HIDE DEF ntab, fid
  <2>3. Len(ntab) \in Nat
    BY <2>1, LenProperties
  <2>4. QED
    BY <2>1, <2>2, <2>3
<1>5. /\ typetab' = [typetab EXCEPT ![x] = ttab]
      /\ nametab' = [nametab EXCEPT ![x] = ntab]
      /\ vecar' = [vecar EXCEPT ![x] = new]
      /\ relations' = [relations EXCEPT ![x] = @ \cup {<<fid, tid>>}]
      /\ defs' = [defs EXCEPT ![x] = WithElement(@, t, f, v)]
  BY DEF DefineElement
<1> HIDE DEF ttab, ntab, tid, fid
<1>6. /\ slots \in Elements /\ Len(slots) = Len(ttab)
      /\ \A i \in 1 .. Len(vecar[x]) : slots[i] = vecar[x][i]
      /\ \A i \in 1 .. Len(ttab) : i > Len(vecar[x]) => slots[i] = << >>
  BY <1>2, <1>3, SlotsAdded
<1> HIDE DEF slots
<1>7. e \in VectorDef
  BY <1>4 DEF VectorDef
<1> HIDE DEF e
<1>8. /\ new \in Elements /\ Len(new) = Len(slots)
      /\ \A i \in 1 .. Len(slots) : i # tid => new[i] = slots[i]
      /\ Len(new[tid]) = n + 1
      /\ \A j \in 1 .. n : new[tid][j] = slots[tid][j]
      /\ new[tid][n + 1] = e
  BY <1>3, <1>6, <1>7, ElementAdded
<1> HIDE DEF new
<1>9. n = IF tid <= Len(typetab[x]) THEN Len(vecar[x][tid]) ELSE 0
  <2>1. CASE tid <= Len(typetab[x])
    BY <1>2, <1>3, <1>6, <2>1
  <2>2. CASE ~ (tid <= Len(typetab[x]))
    <3>1. slots[tid] = << >>
      BY <1>2, <1>3, <1>6, <2>2
    <3>2. QED
      BY <2>2, <3>1
  <2>3. QED
    BY <2>1, <2>2
<1>10. n \in Nat
  BY <1>3, <1>6, ElementType
<1> HIDE DEF n
<1>11. \A i \in 1 .. Len(typetab[x]) : i # tid => new[i] = vecar[x][i]
  BY <1>2, <1>3, <1>6, <1>8
<1>12. \A j \in 1 .. n : new[tid][j] = vecar[x][tid][j]
  <2>1. CASE tid <= Len(typetab[x])
    BY <1>2, <1>3, <1>6, <1>8, <2>1
  <2>2. CASE ~ (tid <= Len(typetab[x]))
    BY <1>9, <2>2
  <2>3. QED
    BY <2>1, <2>2
<1>13. /\ typetab'[x] = ttab /\ nametab'[x] = ntab /\ vecar'[x] = new
       /\ relations'[x] = relations[x] \cup {<<fid, tid>>}
       /\ defs'[x] = WithElement(defs[x], t, f, v)
  BY <1>1, <1>5
<1>14. ElementDefined(x, t, f, v, tid, fid, n)
  <2>1. {typetab'[x][i] : i \in 1 .. Len(typetab'[x])}
          = {typetab[x][i] : i \in 1 .. Len(typetab[x])} \cup {t}
    BY SMTT(30), <1>3, <1>13
  <2>2. /\ tid \in 1 .. Len(typetab'[x]) /\ typetab'[x][tid] = t
        /\ Len(typetab[x]) <= Len(typetab'[x])
        /\ \A i \in 1 .. Len(typetab[x]) : typetab'[x][i] = typetab[x][i]
        /\ \A i \in 1 .. Len(typetab'[x]) : i > Len(typetab[x]) => i = tid
    BY <1>3, <1>13
  <2>3. /\ fid \in 1 .. Len(nametab'[x]) /\ nametab'[x][fid] = f
        /\ Len(nametab[x]) <= Len(nametab'[x])
        /\ \A j \in 1 .. Len(nametab[x]) : nametab'[x][j] = nametab[x][j]
        /\ \A j \in 1 .. Len(nametab'[x]) : j > Len(nametab[x]) => j = fid
    BY <1>4, <1>13
  <2>4. /\ Len(vecar'[x]) = Len(typetab'[x])
        /\ \A i \in 1 .. Len(typetab[x]) : i # tid => vecar'[x][i] = vecar[x][i]
        /\ Len(vecar'[x][tid]) = n + 1
        /\ \A j \in 1 .. n : vecar'[x][tid][j] = vecar[x][tid][j]
        /\ vecar'[x][tid][n + 1] = [id |-> fid, vec |-> v]
    BY <1>6, <1>8, <1>11, <1>12, <1>13 DEF e
  <2>5. QED
    BY <2>1, <2>2, <2>3, <2>4, <1>9, <1>13 DEF ElementDefined
<1>15. tid \in Nat /\ fid \in Nat
  BY <1>3, <1>4
<1>16. QED
  BY <1>10, <1>14, <1>15

-----------------------------------------------------------------------------
(* One slot of m_vecar per local type, whatever callers do.                *)

LEMMA SlotsStep == TypeInv /\ NoLogicError /\ [Next]_vars => NoLogicError'
<1> SUFFICES ASSUME TypeInv, NoLogicError, [Next]_vars PROVE NoLogicError'
  OBVIOUS
<1>1. /\ typetab \in [Trans -> Seq(Types)] /\ vecar \in [Trans -> Seq(Seq(VectorDef))]
      /\ \A x \in Trans : Len(typetab[x]) = Len(vecar[x])
  BY DEF TypeInv, TypeOK, NoLogicError
<1>2. CASE UNCHANGED <<typetab, vecar>>
  BY <1>1, <1>2 DEF NoLogicError
<1>3. ASSUME NEW x \in Trans,
             \A y \in Trans \ {x} : typetab'[y] = typetab[y] /\ vecar'[y] = vecar[y],
             Len(typetab'[x]) = Len(vecar'[x])
      PROVE  NoLogicError'
  BY <1>1, <1>3 DEF NoLogicError
<1>4. ASSUME NEW x \in Trans, NEW t \in Types, DefineFeatureType(x, t)
      PROVE  NoLogicError'
  <2> DEFINE tab == GetOrCreate(typetab[x], t)
  <2>1. /\ typetab' = [typetab EXCEPT ![x] = tab]
        /\ vecar' = [vecar EXCEPT ![x] = TypeSlots(x, tab)]
    BY <1>4 DEF DefineFeatureType
  <2>2. tab \in Seq(Types) /\ Len(tab) \in Nat /\ Len(tab) \in {Len(typetab[x]), Len(typetab[x]) + 1}
    BY <1>1, SymbolTable, SymbolAdded, LenProperties
  <2> HIDE DEF tab
  <2>3. Len(TypeSlots(x, tab)) = Len(tab)
    BY <1>1, <2>2, SlotsAdded DEF Elements
  <2>4. QED
    BY <1>1, <1>3, <2>1, <2>3
<1>5. ASSUME NEW x \in Trans, NEW t \in Types, NEW f \in Feats, NEW v \in Vecs \cup {Absent},
             DefineElement(x, t, f, v)
      PROVE  NoLogicError'
  <2>1. Len(vecar'[x]) = Len(typetab'[x])
    BY <1>1, <1>5, DefineElementTables DEF ElementDefined
  <2>2. \A y \in Trans \ {x} : typetab'[y] = typetab[y] /\ vecar'[y] = vecar[y]
    BY <1>1, <1>5 DEF DefineElement
  <2>3. QED
    BY <1>3, <2>1, <2>2
<1>6. ASSUME NEW x \in Trans, ResetLocals(x)
      PROVE  NoLogicError'
  BY <1>1, <1>3, <1>6 DEF ResetLocals
<1>7. ASSUME NEW x \in Trans, NumbersFit(x), typetab' = typetab, NEW k, NEW any \in AnyNumber(x),
             vecar' = [vecar EXCEPT ![x] = Renumbered(x, FeatNumbers(db, nametab[x]), any, k)]
      PROVE  NoLogicError'
  <2>1. /\ vecar[x] \in Elements /\ any \in {1} \cup Featnos /\ Len(nametab[x]) \in Nat
        /\ FeatNumbers(db, nametab[x]) \in [1 .. Len(nametab[x]) -> Featnos]
    BY <1>1, <1>7, FeatNumbersType, LenProperties
      DEF Elements, AnyNumber, NumbersFit, TypeInv, TypeOK
  <2>2. Len(Renumbered(x, FeatNumbers(db, nametab[x]), any, k)) = Len(vecar[x])
    BY <2>1, RenumberedType
  <2>3. QED
    BY <1>1, <1>3, <1>7, <2>2
<1>8. ASSUME NEW x \in Trans, PrepareCommit(x)
      PROVE  NoLogicError'
  <2>1. PICK any \in AnyNumber(x) :
          vecar' = [vecar EXCEPT ![x] =
                      Renumbered(x, FeatNumbers(db, nametab[x]), any, Len(typetab[x]))]
    BY <1>8 DEF PrepareCommit
  <2>2. NumbersFit(x) /\ typetab' = typetab
    BY <1>8 DEF PrepareCommit
  <2>3. QED
    BY <1>7, <2>1, <2>2
<1>9. ASSUME NEW x \in Trans, CommitThrows(x)
      PROVE  NoLogicError'
  <2>1. CASE UNCHANGED <<vecar, batch>>
    BY <1>2, <1>9, <2>1 DEF CommitThrows
  <2>2. CASE \E k \in 0 .. Len(typetab[x]), any \in AnyNumber(x) :
               vecar' = [vecar EXCEPT ![x] = Renumbered(x, FeatNumbers(db, nametab[x]), any, k)]
    <3>1. NumbersFit(x) /\ typetab' = typetab
      BY <1>9 DEF CommitThrows
    <3>2. QED
      BY <1>7, <2>2, <3>1
  <2>3. QED
    BY <1>9, <2>1, <2>2 DEF CommitThrows
<1>10. ASSUME NEW x \in Trans, Clear(x) \/ CommitFails(x)
       PROVE  NoLogicError'
  BY <1>2, <1>10 DEF Clear, CommitFails
<1>11. ASSUME NEW x \in Trans, Rollback(x) \/ CommitSucceeds(x)
       PROVE  NoLogicError'
  BY <1>6, <1>11 DEF Rollback, CommitSucceeds
<1>12. CASE UNCHANGED vars
  BY <1>2, <1>12 DEF vars
<1>13. QED
  BY <1>4, <1>5, <1>8, <1>9, <1>10, <1>11, <1>12 DEF Next, Step

\* No commit ends with the "logic error in vector transaction: array sizes do
\* not match", whatever its caller did before: also after a failed commit
\* that has renumbered a part of the elements, and with clear.
THEOREM NeverLogicError == Spec => []NoLogicError
<1>1. Init => NoLogicError
  BY DEF Init, NoLogicError
<1>2. QED
  BY TypeInit, TypeStep, <1>1, SlotsStep, PTL DEF Spec

-----------------------------------------------------------------------------
(* The tables of an open transaction say what its caller defined.  The     *)
(* tables of a transaction whose commit failed may have been renumbered.   *)

\* The last vector given to the local feature id in the elements of a type;
\* v = Absent: no vector.
LastVector(s, id, v) ==
    \/ /\ v = Absent
       /\ \A j \in DOMAIN s : s[j].id = id => s[j].vec = Absent
    \/ /\ v # Absent
       /\ \E j \in DOMAIN s :
            /\ s[j].id = id /\ s[j].vec = v
            /\ \A k \in DOMAIN s : k > j /\ s[k].id = id => s[k].vec = Absent

SlotsBounded(x) == \A i \in DOMAIN vecar[x] : Len(vecar[x][i]) <= MaxElements

ElementsRelated(x) ==
    \A i \in DOMAIN vecar[x] : \A j \in DOMAIN vecar[x][i] :
        <<vecar[x][i][j].id, i>> \in relations[x]

TypesFaithful(x) == defs[x].types = {typetab[x][i] : i \in 1 .. Len(typetab[x])}

RelationsFaithful(x) ==
    defs[x].elems = {<<typetab[x][r[2]], nametab[x][r[1]]>> : r \in relations[x]}

VectorsFaithful(x) ==
    /\ \A e \in Types \X Feats : defs[x].vec[e] # Absent => e \in defs[x].elems
    /\ \A i \in 1 .. Len(typetab[x]), j \in 1 .. Len(nametab[x]) :
         LastVector(vecar[x][i], j, defs[x].vec[<<typetab[x][i], nametab[x][j]>>])

Faithful(x) ==
    /\ Len(typetab[x]) = Len(vecar[x])
    /\ SlotsBounded(x)
    /\ ElementsRelated(x)
    /\ defs[x].clear = FALSE
    /\ TypesFaithful(x)
    /\ RelationsFaithful(x)
    /\ VectorsFaithful(x)

OpenFaithful == \A x \in Trans : pc[x] = "open" => Faithful(x)

\* The guard of defineElement bounds the elements of every type.
LEMMA SlotBound ==
    ASSUME NEW elems \in Elements, NEW i \in 1 .. Len(elems), Len(elems[i]) <= MaxElements
    PROVE  /\ Cardinality(Positions(elems)) \in Nat
           /\ Len(elems[i]) <= Cardinality(Positions(elems))
<1> DEFINE n == Len(elems[i])
           P == Positions(elems)
           g == [j \in 1 .. n |-> <<i, j>>]
<1>1. /\ Len(elems) \in Nat /\ DOMAIN elems = 1 .. Len(elems)
      /\ n \in Nat /\ DOMAIN elems[i] = 1 .. n /\ MaxElements \in Nat
  BY ElementType, TransAssumption
<1>2. IsFiniteSet(1 .. Len(elems)) /\ IsFiniteSet(1 .. MaxElements)
  BY <1>1, FS_Interval
<1>3. IsFiniteSet((1 .. Len(elems)) \X (1 .. MaxElements))
  BY <1>2, FS_Product
<1>4. P \in SUBSET ((1 .. Len(elems)) \X (1 .. MaxElements))
  BY <1>1 DEF Positions
<1>5. \A j \in 1 .. n : <<i, j>> \in P
  BY <1>1 DEF Positions
<1> HIDE DEF P, n
<1>6. g \in Injection(1 .. n, P)
  BY <1>5 DEF Injection, IsInjective
<1>7. IsFiniteSet(P)
  BY <1>3, <1>4, FS_Subset
<1>8. Cardinality(1 .. n) <= Cardinality(P)
  BY <1>6, <1>7, FS_Injection
<1>9. Cardinality(1 .. n) = n
  BY <1>1, FS_Interval
<1>10. Cardinality(P) \in Nat
  BY <1>7, FS_CardinalityType
<1>11. QED
  BY <1>8, <1>9, <1>10 DEF P, n

\* A new element gives its feature a new last vector if it has one.
LEMMA LastVectorAppend ==
    ASSUME NEW s, NEW n \in Nat, DOMAIN s = 1 .. n, NEW new, DOMAIN new = 1 .. n + 1,
           \A j \in 1 .. n : new[j] = s[j],
           NEW fid, NEW v, new[n + 1] = [id |-> fid, vec |-> v],
           NEW id, NEW w, LastVector(s, id, w)
    PROVE  LastVector(new, id, IF fid = id /\ v # Absent THEN v ELSE w)
<1>1. new[n + 1].id = fid /\ new[n + 1].vec = v
  OBVIOUS
<1>2. \A j \in 1 .. n + 1 : j \in 1 .. n \/ j = n + 1
  OBVIOUS
<1>3. n + 1 \in 1 .. n + 1 /\ \A j \in 1 .. n : j \in 1 .. n + 1 /\ ~ (j > n + 1)
  OBVIOUS
<1>4. CASE fid = id /\ v # Absent
  <2>1. \A k \in 1 .. n + 1 : ~ (k > n + 1)
    OBVIOUS
  <2>2. LastVector(new, id, v)
    BY <1>1, <1>3, <1>4, <2>1 DEF LastVector
  <2>3. QED
    BY <1>4, <2>2
<1>5. CASE ~ (fid = id /\ v # Absent)
  <2>1. CASE w = Absent
    <3>1. \A j \in 1 .. n : s[j].id = id => s[j].vec = Absent
      BY <2>1 DEF LastVector
    <3>2. \A j \in 1 .. n + 1 : new[j].id = id => new[j].vec = Absent
      BY <1>1, <1>2, <1>5, <3>1
    <3>3. LastVector(new, id, w)
      BY <2>1, <3>2 DEF LastVector
    <3>4. QED
      BY <1>5, <3>3
  <2>2. CASE w # Absent
    <3>1. PICK j \in 1 .. n :
            /\ s[j].id = id /\ s[j].vec = w
            /\ \A k \in 1 .. n : k > j /\ s[k].id = id => s[k].vec = Absent
      BY <2>2 DEF LastVector
    <3>2. new[j].id = id /\ new[j].vec = w /\ j \in 1 .. n + 1
      BY <1>3, <3>1
    <3>3. \A k \in 1 .. n + 1 : k > j /\ new[k].id = id => new[k].vec = Absent
      BY <1>1, <1>2, <1>5, <3>1
    <3>4. LastVector(new, id, w)
      BY <2>2, <3>2, <3>3 DEF LastVector
    <3>5. QED
      BY <1>5, <3>4
  <2>3. QED
    BY <2>1, <2>2
<1>6. QED
  BY <1>4, <1>5

\* The tables extended by new symbols say the same: nothing has been defined
\* for a new symbol.
LEMMA TablesExtended ==
    ASSUME TypeInv, NEW x \in Trans, Faithful(x),
           NEW ttab \in Seq(Types), NEW ntab \in Seq(Feats),
           Len(typetab[x]) <= Len(ttab), Len(nametab[x]) <= Len(ntab),
           \A i \in 1 .. Len(typetab[x]) : ttab[i] = typetab[x][i],
           \A j \in 1 .. Len(nametab[x]) : ntab[j] = nametab[x][j],
           \A i, j \in 1 .. Len(ttab) : ttab[i] = ttab[j] => i = j,
           \A i, j \in 1 .. Len(ntab) : ntab[i] = ntab[j] => i = j
    PROVE  /\ defs[x].elems = {<<ttab[r[2]], ntab[r[1]]>> : r \in relations[x]}
           /\ \A i \in 1 .. Len(ttab), j \in 1 .. Len(ntab) :
                LastVector(IF i <= Len(typetab[x]) THEN vecar[x][i] ELSE << >>, j,
                           defs[x].vec[<<ttab[i], ntab[j]>>])
<1>1. /\ Len(typetab[x]) \in Nat /\ Len(nametab[x]) \in Nat
      /\ Len(ttab) \in Nat /\ Len(ntab) \in Nat
      /\ DOMAIN ttab = 1 .. Len(ttab) /\ DOMAIN ntab = 1 .. Len(ntab)
      /\ \A i \in 1 .. Len(ttab) : ttab[i] \in Types
      /\ \A j \in 1 .. Len(ntab) : ntab[j] \in Feats
  BY LenProperties DEF TypeInv, TypeOK
<1>2. \A r \in relations[x] : /\ r[1] \in 1 .. Len(nametab[x]) /\ r[2] \in 1 .. Len(typetab[x])
                              /\ r = <<r[1], r[2]>>
  BY DEF TypeInv, RelationsInRange
<1>3. \A r \in relations[x] : /\ ttab[r[2]] = typetab[x][r[2]] /\ ntab[r[1]] = nametab[x][r[1]]
                              /\ r[1] \in 1 .. Len(ntab) /\ r[2] \in 1 .. Len(ttab)
  BY <1>1, <1>2
<1>4. defs[x].elems = {<<typetab[x][r[2]], nametab[x][r[1]]>> : r \in relations[x]}
  BY DEF Faithful, RelationsFaithful
<1>5. defs[x].elems = {<<ttab[r[2]], ntab[r[1]]>> : r \in relations[x]}
  <2>1. \A r \in relations[x] :
          <<ttab[r[2]], ntab[r[1]]>> = <<typetab[x][r[2]], nametab[x][r[1]]>>
    BY <1>3
  <2>2. ASSUME NEW e PROVE e \in defs[x].elems <=> \E r \in relations[x] : e = <<ttab[r[2]], ntab[r[1]]>>
    <3>1. e \in defs[x].elems <=> \E r \in relations[x] : e = <<typetab[x][r[2]], nametab[x][r[1]]>>
      BY <1>4
    <3>2. QED
      BY <2>1, <3>1, Zenon
  <2>3. QED
    BY <2>2
<1>6. /\ Len(vecar[x]) = Len(typetab[x]) /\ DOMAIN vecar[x] = 1 .. Len(vecar[x])
      /\ \A i \in DOMAIN vecar[x] : \A j \in DOMAIN vecar[x][i] :
           <<vecar[x][i][j].id, i>> \in relations[x]
  <2>1. vecar[x] \in Elements
    BY DEF TypeInv, TypeOK, Elements
  <2>2. QED
    BY <2>1, ElementType DEF Faithful, ElementsRelated
<1>7. ASSUME NEW i \in 1 .. Len(ttab), NEW j \in 1 .. Len(ntab)
      PROVE  LastVector(IF i <= Len(typetab[x]) THEN vecar[x][i] ELSE << >>, j,
                        defs[x].vec[<<ttab[i], ntab[j]>>])
  <2>1. CASE i <= Len(typetab[x]) /\ j <= Len(nametab[x])
    <3>1. i \in 1 .. Len(typetab[x]) /\ j \in 1 .. Len(nametab[x])
      BY <1>1, <2>1
    <3>2. LastVector(vecar[x][i], j, defs[x].vec[<<typetab[x][i], nametab[x][j]>>])
      BY <3>1 DEF Faithful, VectorsFaithful
    <3>3. QED
      BY <2>1, <3>1, <3>2
  <2>2. CASE ~ (i <= Len(typetab[x]) /\ j <= Len(nametab[x]))
    <3>1. <<j, i>> \notin relations[x]
      BY <1>1, <1>2, <2>2
    <3>2. <<ttab[i], ntab[j]>> \notin defs[x].elems
      <4> SUFFICES ASSUME <<ttab[i], ntab[j]>> \in defs[x].elems PROVE FALSE
        OBVIOUS
      <4>1. PICK r \in relations[x] : <<ttab[i], ntab[j]>> = <<ttab[r[2]], ntab[r[1]]>>
        BY <1>5
      <4>2. r[1] = j /\ r[2] = i
        BY <1>3, <4>1
      <4>3. QED
        BY <1>2, <3>1, <4>2
    <3>3. defs[x].vec[<<ttab[i], ntab[j]>>] = Absent
      BY <1>1, <3>2 DEF Faithful, VectorsFaithful
    <3>4. CASE i <= Len(typetab[x])
      <4>1. i \in DOMAIN vecar[x]
        BY <1>1, <1>6, <3>4
      <4>2. \A k \in DOMAIN vecar[x][i] : vecar[x][i][k].id # j
        BY <1>6, <3>1, <4>1
      <4>3. LastVector(vecar[x][i], j, Absent)
        BY <4>2 DEF LastVector
      <4>4. QED
        BY <3>3, <3>4, <4>3
    <3>5. CASE ~ (i <= Len(typetab[x]))
      <4>1. LastVector(<< >>, j, Absent)
        BY DEF LastVector
      <4>2. QED
        BY <3>3, <3>5, <4>1
    <3>6. QED
      BY <3>4, <3>5
  <2>3. QED
    BY <2>1, <2>2
<1>8. QED
  BY <1>5, <1>7

LEMMA FaithfulDefineElement ==
    ASSUME TypeInv, TypeInv', DistinctSymbols', NEW x \in Trans, NEW t \in Types, NEW f \in Feats,
           NEW v \in Vecs \cup {Absent}, DefineElement(x, t, f, v), Faithful(x)
    PROVE  Faithful(x)'
<1>1. Len(typetab[x]) = Len(vecar[x])
  BY DEF Faithful
<1>2. PICK tid \in Nat, fid \in Nat, n \in Nat : ElementDefined(x, t, f, v, tid, fid, n)
  BY <1>1, DefineElementTables
<1> DEFINE ttab == typetab'[x]
           ntab == nametab'[x]
           new == vecar'[x]
           old(i) == IF i <= Len(typetab[x]) THEN vecar[x][i] ELSE << >>
<1>3. /\ ttab \in Seq(Types) /\ ntab \in Seq(Feats) /\ new \in Elements /\ vecar[x] \in Elements
      /\ Len(typetab[x]) \in Nat /\ Len(nametab[x]) \in Nat
      /\ Len(ttab) \in Nat /\ DOMAIN ttab = 1 .. Len(ttab)
      /\ Len(ntab) \in Nat /\ DOMAIN ntab = 1 .. Len(ntab)
      /\ \A i \in 1 .. Len(ttab) : ttab[i] \in Types
      /\ \A j \in 1 .. Len(ntab) : ntab[j] \in Feats
  BY SMTT(30), LenProperties DEF TypeInv, TypeOK, Elements
<1>4. /\ \A i, j \in 1 .. Len(ttab) : ttab[i] = ttab[j] => i = j
      /\ \A i, j \in 1 .. Len(ntab) : ntab[i] = ntab[j] => i = j
  BY <1>3 DEF DistinctSymbols
<1>5. /\ Len(typetab[x]) <= Len(ttab) /\ Len(nametab[x]) <= Len(ntab)
      /\ \A i \in 1 .. Len(typetab[x]) : ttab[i] = typetab[x][i]
      /\ \A j \in 1 .. Len(nametab[x]) : ntab[j] = nametab[x][j]
  BY <1>2 DEF ElementDefined
<1>6. /\ tid \in 1 .. Len(ttab) /\ ttab[tid] = t
      /\ fid \in 1 .. Len(ntab) /\ ntab[fid] = f
      /\ \A i \in 1 .. Len(ttab) : i > Len(typetab[x]) => i = tid
      /\ {ttab[i] : i \in 1 .. Len(ttab)} = {typetab[x][i] : i \in 1 .. Len(typetab[x])} \cup {t}
  BY <1>2 DEF ElementDefined
<1>7. /\ Len(new) = Len(ttab)
      /\ \A i \in 1 .. Len(typetab[x]) : i # tid => new[i] = vecar[x][i]
      /\ n = IF tid <= Len(typetab[x]) THEN Len(vecar[x][tid]) ELSE 0
      /\ Len(new[tid]) = n + 1
      /\ \A j \in 1 .. n : new[tid][j] = vecar[x][tid][j]
      /\ new[tid][n + 1] = [id |-> fid, vec |-> v]
  BY <1>2 DEF ElementDefined
<1>8. /\ relations'[x] = relations[x] \cup {<<fid, tid>>}
      /\ defs'[x] = WithElement(defs[x], t, f, v)
  BY <1>2 DEF ElementDefined
<1>9. /\ defs'[x].types = defs[x].types \cup {t}
      /\ defs'[x].elems = defs[x].elems \cup {<<t, f>>}
      /\ defs'[x].vec = IF v = Absent THEN defs[x].vec ELSE [defs[x].vec EXCEPT ![<<t, f>>] = v]
      /\ defs'[x].clear = defs[x].clear
  BY <1>8 DEF WithElement
<1>10. defs[x].vec \in [Types \X Feats -> Vecs \cup {Absent}]
  BY DEF TypeInv, TypeOK, Definitions
<1>11. /\ defs[x].elems = {<<ttab[r[2]], ntab[r[1]]>> : r \in relations[x]}
       /\ \A i \in 1 .. Len(ttab), j \in 1 .. Len(ntab) :
            LastVector(old(i), j, defs[x].vec[<<ttab[i], ntab[j]>>])
  BY <1>3, <1>4, <1>5, TablesExtended
<1>12. /\ DOMAIN new = 1 .. Len(ttab)
       /\ DOMAIN vecar[x] = 1 .. Len(typetab[x])
       /\ \A i \in 1 .. Len(ttab) : DOMAIN new[i] = 1 .. Len(new[i]) /\ Len(new[i]) \in Nat
       /\ \A i \in 1 .. Len(typetab[x]) : DOMAIN vecar[x][i] = 1 .. Len(vecar[x][i])
                                          /\ Len(vecar[x][i]) \in Nat
  BY <1>1, <1>3, <1>7, ElementType
<1> HIDE DEF ttab, ntab, new
<1>13. ASSUME NEW i \in 1 .. Len(ttab), i # tid
       PROVE  i \in 1 .. Len(typetab[x]) /\ new[i] = vecar[x][i] /\ old(i) = vecar[x][i]
  <2>1. i \in 1 .. Len(typetab[x])
    BY <1>3, <1>6, <1>13
  <2>2. QED
    BY <1>7, <1>13, <2>1
<1>14. DOMAIN old(tid) = 1 .. n /\ \A j \in 1 .. n : new[tid][j] = old(tid)[j]
  <2>1. CASE tid <= Len(typetab[x])
    <3>1. tid \in 1 .. Len(typetab[x])
      BY <1>3, <1>6, <2>1
    <3>2. QED
      BY <1>7, <1>12, <2>1, <3>1
  <2>2. CASE ~ (tid <= Len(typetab[x]))
    <3>1. n = 0 /\ old(tid) = << >>
      BY <1>7, <2>2
    <3>2. QED
      BY <3>1
  <2>3. QED
    BY <2>1, <2>2
<1>15. tid \in 1 .. Len(typetab[x]) \/ n = 0
  BY <1>3, <1>6, <1>7
<1> HIDE DEF old
<1>16. SlotsBounded(x)'
  <2>1. \A i \in 1 .. Len(typetab[x]) : Len(vecar[x][i]) <= MaxElements
    BY <1>12 DEF Faithful, SlotsBounded
  <2>2. Cardinality(Positions(vecar[x])) < MaxElements /\ MaxElements \in Nat
    BY TransAssumption DEF DefineElement
  <2>3. n + 1 <= MaxElements
    <3>1. CASE tid \in 1 .. Len(typetab[x])
      <4>1. n = Len(vecar[x][tid])
        BY <1>3, <1>7, <3>1
      <4>2. /\ Cardinality(Positions(vecar[x])) \in Nat
            /\ Len(vecar[x][tid]) <= Cardinality(Positions(vecar[x]))
        BY <1>1, <1>3, <2>1, <3>1, SlotBound
      <4>3. QED
        BY <2>2, <4>1, <4>2
    <3>2. CASE n = 0 /\ ~ (tid \in 1 .. Len(typetab[x]))
      <4>1. IsFiniteSet(Positions(vecar[x]))
        <5>1. IsFiniteSet(1 .. Len(typetab[x])) /\ IsFiniteSet(1 .. MaxElements)
          <6>1. Len(typetab[x]) \in Int /\ MaxElements \in Int /\ 1 \in Int
            BY <1>3, <2>2
          <6>2. QED
            BY <6>1, FS_Interval
        <5>2. IsFiniteSet((1 .. Len(typetab[x])) \X (1 .. MaxElements))
          BY <5>1, FS_Product
        <5>3. Positions(vecar[x]) \in SUBSET ((1 .. Len(typetab[x])) \X (1 .. MaxElements))
          BY <1>12 DEF Positions
        <5>4. QED
          BY <5>2, <5>3, FS_Subset
      <4>2. Cardinality(Positions(vecar[x])) \in Nat
        BY <4>1, FS_CardinalityType
      <4>3. QED
        BY <2>2, <3>2, <4>2
    <3>3. QED
      BY <1>15, <3>1, <3>2
  <2>4. \A i \in 1 .. Len(ttab) : Len(new[i]) <= MaxElements
    BY <1>7, <1>13, <2>1, <2>3
  <2>5. QED
    BY <1>12, <2>4 DEF SlotsBounded, new
<1>17. ElementsRelated(x)'
  <2>1. \A i \in 1 .. Len(typetab[x]) : \A j \in DOMAIN vecar[x][i] :
          <<vecar[x][i][j].id, i>> \in relations[x]
    BY <1>12 DEF Faithful, ElementsRelated
  <2>2. ASSUME NEW i \in 1 .. Len(ttab), NEW j \in DOMAIN new[i]
        PROVE  <<new[i][j].id, i>> \in relations'[x]
    <3>1. CASE i # tid
      BY <1>8, <1>13, <2>1, <3>1
    <3>2. CASE i = tid
      <4>1. j \in 1 .. n \/ j = n + 1
        <5>1. DOMAIN new[tid] = 1 .. Len(new[tid]) /\ Len(new[tid]) = n + 1
          BY <1>6, <1>7, <1>12
        <5>2. QED
          BY <3>2, <5>1
      <4>2. CASE j = n + 1
        BY <1>7, <1>8, <3>2, <4>2
      <4>3. CASE j \in 1 .. n
        <5>1. tid \in 1 .. Len(typetab[x])
          BY <1>15, <4>3
        <5>2. n = Len(vecar[x][tid])
          BY <1>3, <1>7, <5>1
        <5>3. <<vecar[x][tid][j].id, tid>> \in relations[x]
          BY <1>12, <2>1, <4>3, <5>1, <5>2
        <5>4. QED
          BY <1>7, <1>8, <3>2, <4>3, <5>3
      <4>4. QED
        BY <4>1, <4>2, <4>3
    <3>3. QED
      BY <3>1, <3>2
  <2>3. QED
    BY <1>12, <2>2 DEF ElementsRelated, new
<1>18. TypesFaithful(x)'
  <2>1. defs[x].types = {typetab[x][i] : i \in 1 .. Len(typetab[x])}
    BY DEF Faithful, TypesFaithful
  <2>2. defs'[x].types = {ttab[i] : i \in 1 .. Len(ttab)}
    BY <1>6, <1>9, <2>1
  <2>3. QED
    BY <2>2 DEF TypesFaithful, ttab
<1>19. RelationsFaithful(x)'
  <2>1. defs'[x].elems = {<<ttab[r[2]], ntab[r[1]]>> : r \in relations'[x]}
    <3>1. defs[x].elems = {<<ttab[r[2]], ntab[r[1]]>> : r \in relations[x]}
      BY <1>11
    <3>2. \A r : r = <<fid, tid>> => <<ttab[r[2]], ntab[r[1]]>> = <<t, f>>
      BY <1>6
    <3>3. defs'[x].elems = defs[x].elems \cup {<<t, f>>}
      BY <1>9
    <3>4. relations'[x] = relations[x] \cup {<<fid, tid>>}
      BY <1>8
    <3>5. QED
      BY <3>1, <3>2, <3>3, <3>4
  <2>2. QED
    BY <2>1 DEF RelationsFaithful, ttab, ntab
<1>20. VectorsFaithful(x)'
  <2>1. \A e \in Types \X Feats : defs'[x].vec[e] # Absent => e \in defs'[x].elems
    BY <1>9, <1>10 DEF Faithful, VectorsFaithful
  <2>2. ASSUME NEW i \in 1 .. Len(ttab), NEW j \in 1 .. Len(ntab)
        PROVE  LastVector(new[i], j, defs'[x].vec[<<ttab[i], ntab[j]>>])
    <3> DEFINE w == defs[x].vec[<<ttab[i], ntab[j]>>]
    <3>1. LastVector(old(i), j, w)
      BY <1>11
    <3>2. <<ttab[i], ntab[j]>> \in Types \X Feats
      BY <1>3
    <3>3. defs'[x].vec[<<ttab[i], ntab[j]>>]
            = IF i = tid /\ j = fid /\ v # Absent THEN v ELSE w
      <4>1. <<ttab[i], ntab[j]>> = <<t, f>> <=> i = tid /\ j = fid
        BY <1>4, <1>6
      <4>2. QED
        BY <1>9, <1>10, <3>2, <4>1
    <3> HIDE DEF w
    <3>4. CASE i # tid
      BY <1>13, <3>1, <3>3, <3>4
    <3>5. CASE i = tid
      <4>1. LastVector(old(tid), j, w)
        BY <3>1, <3>5
      <4>2. DOMAIN new[tid] = 1 .. n + 1
        BY <1>6, <1>7, <1>12
      <4>3. new[tid][n + 1] = [id |-> fid, vec |-> v]
        BY <1>7
      <4>4. LastVector(new[tid], j, IF fid = j /\ v # Absent THEN v ELSE w)
        <5> DEFINE s == old(tid)
                   r == new[tid]
        <5>1. /\ DOMAIN s = 1 .. n /\ DOMAIN r = 1 .. n + 1
              /\ \A k \in 1 .. n : r[k] = s[k]
              /\ r[n + 1] = [id |-> fid, vec |-> v] /\ LastVector(s, j, w)
          BY <1>14, <4>1, <4>2, <4>3
        <5> HIDE DEF s, r
        <5>2. LastVector(r, j, IF fid = j /\ v # Absent THEN v ELSE w)
          BY <5>1, LastVectorAppend
        <5>3. QED
          BY <5>2 DEF r
      <4>5. (IF fid = j /\ v # Absent THEN v ELSE w) = defs'[x].vec[<<ttab[i], ntab[j]>>]
        BY <3>3, <3>5
      <4>6. QED
        BY <3>5, <4>4, <4>5
    <3>6. QED
      BY <3>4, <3>5
  <2>3. QED
    BY <2>1, <2>2 DEF VectorsFaithful, ttab, ntab, new
<1>21. Len(typetab'[x]) = Len(vecar'[x])
  BY <1>7 DEF ttab, new
<1>22. defs'[x].clear = FALSE
  BY <1>9 DEF Faithful
<1>23. QED
  BY <1>16, <1>17, <1>18, <1>19, <1>20, <1>21, <1>22 DEF Faithful

LEMMA FaithfulDefineFeatureType ==
    ASSUME TypeInv, TypeInv', DistinctSymbols', NEW x \in Trans, NEW t \in Types,
           DefineFeatureType(x, t), Faithful(x)
    PROVE  Faithful(x)'
<1> DEFINE ttab == GetOrCreate(typetab[x], t)
           new == TypeSlots(x, ttab)
           old(i) == IF i <= Len(typetab[x]) THEN vecar[x][i] ELSE << >>
<1>1. /\ typetab[x] \in Seq(Types) /\ Len(typetab[x]) \in Nat
      /\ vecar[x] \in Elements /\ Len(typetab[x]) = Len(vecar[x])
  BY LenProperties DEF TypeInv, TypeOK, Elements, Faithful
<1>2. /\ Len(typetab[x]) <= Len(ttab) /\ ttab \in Seq(Types)
      /\ Len(ttab) \in {Len(typetab[x]), Len(typetab[x]) + 1}
      /\ \A i \in 1 .. Len(typetab[x]) : ttab[i] = typetab[x][i]
  <2>1. Len(typetab[x]) <= Len(ttab) /\ ttab \in Seq(Types)
    BY <1>1, SymbolTable
  <2>2. /\ Len(ttab) \in {Len(typetab[x]), Len(typetab[x]) + 1}
        /\ \A i \in 1 .. Len(typetab[x]) : ttab[i] = typetab[x][i]
    BY <1>1, SymbolAdded
  <2>3. QED
    BY <2>1, <2>2
<1>3. /\ SymbolIndex(ttab, t) \in 1 .. Len(ttab)
      /\ ttab[SymbolIndex(ttab, t)] = t
      /\ \A i \in 1 .. Len(ttab) : i > Len(typetab[x]) => i = SymbolIndex(ttab, t)
  <2>1. SymbolIndex(ttab, t) \in 1 .. Len(ttab)
    BY <1>1, SymbolTable
  <2>2. /\ ttab[SymbolIndex(ttab, t)] = t
        /\ \A i \in 1 .. Len(ttab) : i > Len(typetab[x]) => i = SymbolIndex(ttab, t)
    BY <1>1, SymbolAdded
  <2>3. QED
    BY <2>1, <2>2
<1>4. /\ typetab' = [typetab EXCEPT ![x] = ttab]
      /\ vecar' = [vecar EXCEPT ![x] = new]
      /\ defs' = [defs EXCEPT ![x].types = @ \cup {t}]
      /\ UNCHANGED <<nametab, relations>>
  BY DEF DefineFeatureType
<1> HIDE DEF ttab
<1>5. Len(ttab) \in Nat
  BY <1>2, LenProperties
<1>6. /\ new \in Elements /\ Len(new) = Len(ttab)
      /\ \A i \in 1 .. Len(vecar[x]) : new[i] = vecar[x][i]
      /\ \A i \in 1 .. Len(ttab) : i > Len(vecar[x]) => new[i] = << >>
  BY <1>1, <1>2, <1>5, SlotsAdded
<1> HIDE DEF new
<1>7. /\ typetab'[x] = ttab /\ vecar'[x] = new /\ nametab'[x] = nametab[x]
      /\ relations'[x] = relations[x]
      /\ defs'[x].types = defs[x].types \cup {t}
      /\ defs'[x].elems = defs[x].elems /\ defs'[x].vec = defs[x].vec
      /\ defs'[x].clear = defs[x].clear
  <2>1. /\ typetab \in [Trans -> Seq(Types)] /\ vecar \in [Trans -> Seq(Seq(VectorDef))]
        /\ defs \in [Trans -> Definitions]
    BY DEF TypeInv, TypeOK
  <2>2. typetab'[x] = ttab /\ vecar'[x] = new /\ UNCHANGED <<nametab, relations>>
    BY <1>4, <2>1
  <2>3. defs'[x] = [defs[x] EXCEPT !.types = @ \cup {t}]
    BY <1>4, <2>1
  <2>4. /\ defs'[x].types = defs[x].types \cup {t} /\ defs'[x].elems = defs[x].elems
        /\ defs'[x].vec = defs[x].vec /\ defs'[x].clear = defs[x].clear
    BY <2>1, <2>3 DEF Definitions
  <2>5. QED
    BY <2>2, <2>4
<1>8. /\ \A i, j \in 1 .. Len(ttab) : ttab[i] = ttab[j] => i = j
      /\ \A i, j \in 1 .. Len(nametab[x]) : nametab[x][i] = nametab[x][j] => i = j
      /\ nametab[x] \in Seq(Feats) /\ Len(nametab[x]) \in Nat
  <2>1. nametab[x] \in Seq(Feats) /\ DOMAIN nametab[x] = 1 .. Len(nametab[x]) /\ Len(nametab[x]) \in Nat
    BY LenProperties DEF TypeInv, TypeOK
  <2>2. DOMAIN ttab = 1 .. Len(ttab)
    BY <1>2, LenProperties
  <2>3. QED
    BY <1>7, <2>1, <2>2 DEF DistinctSymbols
<1>9. /\ defs[x].elems = {<<ttab[r[2]], nametab[x][r[1]]>> : r \in relations[x]}
      /\ \A i \in 1 .. Len(ttab), j \in 1 .. Len(nametab[x]) :
           LastVector(old(i), j, defs[x].vec[<<ttab[i], nametab[x][j]>>])
  <2> DEFINE ntab == nametab[x]
  <2>1. /\ ntab \in Seq(Feats) /\ Len(nametab[x]) <= Len(ntab)
        /\ \A j \in 1 .. Len(nametab[x]) : ntab[j] = nametab[x][j]
        /\ \A i, j \in 1 .. Len(ntab) : ntab[i] = ntab[j] => i = j
    BY <1>8
  <2> HIDE DEF ntab
  <2>2. /\ defs[x].elems = {<<ttab[r[2]], ntab[r[1]]>> : r \in relations[x]}
        /\ \A i \in 1 .. Len(ttab), j \in 1 .. Len(ntab) :
             LastVector(old(i), j, defs[x].vec[<<ttab[i], ntab[j]>>])
    BY <1>2, <1>8, <2>1, TablesExtended
  <2>3. QED
    BY <2>2 DEF ntab
<1>10. \A i \in 1 .. Len(ttab) : new[i] = old(i)
  <2>1. ASSUME NEW i \in 1 .. Len(ttab) PROVE new[i] = old(i)
    <3>1. CASE i <= Len(typetab[x])
      BY <1>1, <1>6, <3>1
    <3>2. CASE ~ (i <= Len(typetab[x]))
      BY <1>1, <1>6, <3>2
    <3>3. QED
      BY <3>1, <3>2
  <2>2. QED
    BY <2>1
<1>11. /\ DOMAIN new = 1 .. Len(ttab) /\ DOMAIN vecar[x] = 1 .. Len(typetab[x])
  <2>1. DOMAIN new = 1 .. Len(new)
    BY <1>6, ElementType
  <2>2. DOMAIN vecar[x] = 1 .. Len(vecar[x])
    BY <1>1, ElementType
  <2>3. QED
    BY <1>1, <1>6, <2>1, <2>2
<1>12. SlotsBounded(x)' /\ ElementsRelated(x)'
  <2>1. ASSUME NEW i \in DOMAIN new
        PROVE  /\ Len(new[i]) <= MaxElements
               /\ \A j \in DOMAIN new[i] : <<new[i][j].id, i>> \in relations[x]
    <3>1. CASE i <= Len(typetab[x])
      <4>1. i \in DOMAIN vecar[x] /\ new[i] = vecar[x][i]
        BY <1>1, <1>6, <1>11, <2>1, <3>1
      <4>2. QED
        BY <4>1 DEF Faithful, SlotsBounded, ElementsRelated
    <3>2. CASE ~ (i <= Len(typetab[x]))
      <4>1. new[i] = << >>
        BY <1>1, <1>6, <1>11, <2>1, <3>2
      <4>2. QED
        BY <4>1, TransAssumption
    <3>3. QED
      BY <3>1, <3>2
  <2>2. QED
    BY <1>7, <2>1 DEF SlotsBounded, ElementsRelated
<1>13. TypesFaithful(x)'
  <2>1. defs[x].types = {typetab[x][i] : i \in 1 .. Len(typetab[x])}
    BY DEF Faithful, TypesFaithful
  <2>2. {ttab[i] : i \in 1 .. Len(ttab)} = {typetab[x][i] : i \in 1 .. Len(typetab[x])} \cup {t}
    <3>1. \A i \in 1 .. Len(ttab) : i \in 1 .. Len(typetab[x]) \/ ttab[i] = t
      BY <1>1, <1>3, <1>5
    <3>2. \A i \in 1 .. Len(typetab[x]) : i \in 1 .. Len(ttab)
      BY <1>1, <1>2, <1>5
    <3>3. QED
      BY <1>2, <1>3, <3>1, <3>2
  <2>3. QED
    BY <1>7, <2>1, <2>2 DEF TypesFaithful
<1>14. RelationsFaithful(x)'
  BY <1>7, <1>9 DEF RelationsFaithful
<1>15. VectorsFaithful(x)'
  <2>1. \A e \in Types \X Feats : defs'[x].vec[e] # Absent => e \in defs'[x].elems
    BY <1>7 DEF Faithful, VectorsFaithful
  <2> HIDE DEF old
  <2>2. \A i \in 1 .. Len(ttab), j \in 1 .. Len(nametab[x]) :
           LastVector(new[i], j, defs[x].vec[<<ttab[i], nametab[x][j]>>])
    BY <1>9, <1>10
  <2>3. QED
    BY <1>7, <2>1, <2>2 DEF VectorsFaithful
<1>16. QED
  BY <1>6, <1>7, <1>12, <1>13, <1>14, <1>15 DEF Faithful

\* The tables of a transaction in which nothing has been defined.
LEMMA FaithfulEmpty ==
    ASSUME NEW x \in Trans, typetab[x] = << >>, nametab[x] = << >>, vecar[x] = << >>,
           relations[x] = {}, defs[x] = NoDefinitions
    PROVE  Faithful(x)
BY DEF Faithful, SlotsBounded, ElementsRelated, TypesFaithful, RelationsFaithful,
       VectorsFaithful, NoDefinitions

LEMMA FaithfulReset ==
    ASSUME TypeInv, NEW x \in Trans, ResetLocals(x)
    PROVE  Faithful(x)'
<1>1. /\ typetab'[x] = << >> /\ nametab'[x] = << >> /\ vecar'[x] = << >>
      /\ relations'[x] = {} /\ defs'[x] = NoDefinitions
  BY DEF TypeInv, TypeOK, ResetLocals
<1>2. QED
  BY <1>1 DEF Faithful, SlotsBounded, ElementsRelated, TypesFaithful, RelationsFaithful,
              VectorsFaithful, NoDefinitions

\* The tables of the transactions that do not take the step.
LEMMA FaithfulFrame ==
    ASSUME NEW x \in Trans, Faithful(x), typetab'[x] = typetab[x], nametab'[x] = nametab[x],
           vecar'[x] = vecar[x], relations'[x] = relations[x], defs'[x] = defs[x]
    PROVE  Faithful(x)'
BY DEF Faithful, SlotsBounded, ElementsRelated, TypesFaithful, RelationsFaithful, VectorsFaithful

LEMMA FaithfulInit == Init => OpenFaithful
BY FaithfulEmpty DEF Init, OpenFaithful

\* A step of one transaction leaves the tables of all others alone.
LEMMA OtherTables ==
    ASSUME TypeInv, NEW x \in Trans, Step(x), NEW y \in Trans, y # x
    PROVE  /\ typetab'[y] = typetab[y] /\ nametab'[y] = nametab[y] /\ vecar'[y] = vecar[y]
           /\ relations'[y] = relations[y] /\ defs'[y] = defs[y] /\ pc'[y] = pc[y]
           /\ batch'[y] = batch[y]
<1>1. /\ typetab \in [Trans -> Seq(Types)] /\ nametab \in [Trans -> Seq(Feats)]
      /\ vecar \in [Trans -> Seq(Seq(VectorDef))]
      /\ relations \in [Trans -> SUBSET (Nat \X Nat)]
      /\ defs \in [Trans -> Definitions] /\ batch \in [Trans -> Batch]
      /\ pc \in [Trans -> {"open", "prepared", "failed"}]
  BY DEF TypeInv, TypeOK
<1>2. ASSUME NEW t \in Types, DefineFeatureType(x, t) PROVE
           /\ typetab'[y] = typetab[y] /\ nametab'[y] = nametab[y] /\ vecar'[y] = vecar[y]
           /\ relations'[y] = relations[y] /\ defs'[y] = defs[y] /\ pc'[y] = pc[y]
           /\ batch'[y] = batch[y]
  BY <1>1, <1>2 DEF DefineFeatureType
<1>3. ASSUME NEW t \in Types, NEW f \in Feats, NEW v \in Vecs \cup {Absent},
             DefineElement(x, t, f, v) PROVE
           /\ typetab'[y] = typetab[y] /\ nametab'[y] = nametab[y] /\ vecar'[y] = vecar[y]
           /\ relations'[y] = relations[y] /\ defs'[y] = defs[y] /\ pc'[y] = pc[y]
           /\ batch'[y] = batch[y]
  BY <1>1, <1>3 DEF DefineElement
<1>4. ASSUME ResetLocals(x) PROVE
           /\ typetab'[y] = typetab[y] /\ nametab'[y] = nametab[y] /\ vecar'[y] = vecar[y]
           /\ relations'[y] = relations[y] /\ defs'[y] = defs[y]
  BY <1>1, <1>4 DEF ResetLocals
<1>5. CASE Clear(x) \/ CommitFails(x)
  <2>1. CASE Clear(x)
    <3>1. /\ UNCHANGED <<pc, typetab, nametab, vecar, relations>>
          /\ batch' = [batch EXCEPT ![x] = Cleared(@, db)]
          /\ defs' = [defs EXCEPT ![x].clear = TRUE]
      BY <2>1 DEF Clear
    <3>2. QED
      BY <1>1, <3>1
  <2>2. CASE CommitFails(x)
    BY <1>1, <2>2 DEF CommitFails
  <2>3. QED
    BY <1>5, <2>1, <2>2
<1>6. CASE Rollback(x) \/ CommitSucceeds(x)
  BY <1>1, <1>4, <1>6 DEF Rollback, CommitSucceeds
<1>7. CASE PrepareCommit(x) \/ CommitThrows(x)
  BY <1>1, <1>7 DEF PrepareCommit, CommitThrows
<1>8. QED
  BY <1>2, <1>3, <1>5, <1>6, <1>7 DEF Step

LEMMA FaithfulStep == Usage = {} /\ NumbersInv /\ OpenFaithful /\ [Next]_vars => OpenFaithful'
<1> SUFFICES ASSUME Usage = {}, NumbersInv, OpenFaithful, [Next]_vars PROVE OpenFaithful'
  OBVIOUS
<1>1. /\ TypeInv /\ TypeInv' /\ DistinctSymbols'
      /\ pc \in [Trans -> {"open", "prepared", "failed"}]
  BY NumbersStep DEF NumbersInv, TypeInv, TypeOK
<1>2. CASE UNCHANGED vars
  BY <1>2, FaithfulFrame DEF vars, OpenFaithful
<1>3. ASSUME NEW x \in Trans, Step(x), pc'[x] = "open" => Faithful(x)'
      PROVE  OpenFaithful'
  <2>1. ASSUME NEW y \in Trans, y # x, pc'[y] = "open" PROVE Faithful(y)'
    BY <1>1, <1>3, <2>1, OtherTables, FaithfulFrame DEF OpenFaithful
  <2>2. QED
    BY <1>3, <2>1 DEF OpenFaithful
<1>4. ASSUME NEW x \in Trans, Step(x)
      PROVE  pc'[x] = "open" => Faithful(x)'
  <2>1. ASSUME NEW t \in Types, DefineFeatureType(x, t) PROVE Faithful(x)'
    <3>1. pc[x] = "open"
      BY <2>1 DEF DefineFeatureType, MayDefine
    <3>2. QED
      BY <1>1, <2>1, <3>1, FaithfulDefineFeatureType DEF OpenFaithful
  <2>2. ASSUME NEW t \in Types, NEW f \in Feats, NEW v \in Vecs \cup {Absent},
               DefineElement(x, t, f, v) PROVE Faithful(x)'
    <3>1. pc[x] = "open"
      BY <2>2 DEF DefineElement, MayDefine
    <3>2. QED
      BY <1>1, <2>2, <3>1, FaithfulDefineElement DEF OpenFaithful
  <2>3. ~ Clear(x)
    BY DEF Clear
  <2>4. CASE Rollback(x) \/ CommitSucceeds(x)
    BY <1>1, <2>4, FaithfulReset DEF Rollback, CommitSucceeds
  <2>5. CASE PrepareCommit(x) \/ CommitThrows(x) \/ CommitFails(x)
    BY <1>1, <2>5 DEF PrepareCommit, CommitThrows, CommitFails
  <2>6. QED
    BY <1>4, <2>1, <2>2, <2>3, <2>4, <2>5 DEF Step
<1>5. QED
  BY <1>2, <1>3, <1>4 DEF Next

-----------------------------------------------------------------------------
(* The numbers of a commit.                                                *)

\* The new symbols use up every number they are counted for.
LEMMA AllocatedOnto ==
    ASSUME NEW n \in Nat, NEW known \in [1 .. n -> Nat], NEW counter \in Nat,
           NEW c \in counter + 1 .. counter + NofNew(known)
    PROVE  \E i \in 1 .. n : known[i] = 0 /\ Allocated(known, counter)[i] = c
<1> DEFINE Z == {i \in 1 .. n : known[i] = 0}
           k == NofNew(known)
           N == counter + 1 .. counter + k
           nums == Allocated(known, counter)
           g == [i \in Z |-> nums[i]]
<1>1. /\ k \in Nat
      /\ \A i \in 1 .. n : known[i] = 0 => nums[i] \in N
      /\ \A i, j \in 1 .. n : (known[i] = 0 /\ known[j] = 0 /\ nums[i] = nums[j]) => i = j
  BY AllocatedNumbers
<1>2. Cardinality(Z) = k
  <2>1. DOMAIN known = 1 .. n
    OBVIOUS
  <2>2. QED
    BY <2>1 DEF NofNew
<1>3. c \in N
  OBVIOUS
<1> HIDE DEF k, nums
<1>4. g \in Injection(Z, N)
  BY <1>1 DEF Injection, IsInjective
<1>5. IsFiniteSet(N) /\ Cardinality(N) = k
  <2>1. counter + 1 \in Int /\ counter + k \in Int
    BY <1>1
  <2>2. IsFiniteSet(N) /\ Cardinality(N) = IF counter + 1 > counter + k
                                             THEN 0 ELSE (counter + k) - (counter + 1) + 1
    <3> DEFINE a == counter + 1
               b == counter + k
    <3>1. a \in Int /\ b \in Int
      BY <2>1
    <3> HIDE DEF a, b
    <3>2. IsFiniteSet(a .. b) /\ Cardinality(a .. b) = IF a > b THEN 0 ELSE b - a + 1
      BY <3>1, FS_Interval
    <3>3. QED
      BY <3>2 DEF a, b
  <2>3. QED
    BY <1>1, <2>2
<1> HIDE DEF Z, N, g
<1>6. g \in Surjection(Z, N)
  BY <1>2, <1>4, <1>5, FS_Injection
<1>7. PICK i \in Z : g[i] = c
  BY <1>3, <1>6 DEF Surjection
<1>8. QED
  BY <1>7 DEF Z, g, nums

\* The numbers given to new symbols are, each once, those above the counter.
NewNumbersUsed(n, known, counter) ==
    /\ NofNew(known) \in Nat
    /\ \A i \in 1 .. n : known[i] = 0 =>
         Allocated(known, counter)[i] \in counter + 1 .. counter + NofNew(known)
    /\ \A i, j \in 1 .. n :
         (known[i] = 0 /\ known[j] = 0
           /\ Allocated(known, counter)[i] = Allocated(known, counter)[j]) => i = j
    /\ \A c \in counter + 1 .. counter + NofNew(known) :
         \E i \in 1 .. n : known[i] = 0 /\ Allocated(known, counter)[i] = c

LEMMA AllocatedUsed ==
    ASSUME NEW n \in Nat, NEW known \in [1 .. n -> Nat], NEW counter \in Nat
    PROVE  NewNumbersUsed(n, known, counter)
<1>1. /\ NofNew(known) \in Nat
      /\ \A i \in 1 .. n : known[i] = 0 =>
           Allocated(known, counter)[i] \in counter + 1 .. counter + NofNew(known)
      /\ \A i, j \in 1 .. n :
           (known[i] = 0 /\ known[j] = 0
             /\ Allocated(known, counter)[i] = Allocated(known, counter)[j]) => i = j
  BY AllocatedNumbers
<1>2. \A c \in counter + 1 .. counter + NofNew(known) :
        \E i \in 1 .. n : known[i] = 0 /\ Allocated(known, counter)[i] = c
  BY AllocatedOnto
<1>3. QED
  BY <1>1, <1>2 DEF NewNumbersUsed

\* The maps no and na are nos and names after the symbols of tab have got the
\* numbers nums: a symbol keeps its number or gets one that was not in use,
\* and nothing else changes.
NumbersGiven(m, tab, nums, nos, names, no, na) ==
    /\ \A i \in 1 .. Len(tab) :
         nums[i] \in 1 .. m /\ no[tab[i]] = nums[i] /\ na[nums[i]] = tab[i]
    /\ \A i \in 1 .. Len(tab) :
         \/ nos[tab[i]] = Absent /\ names[nums[i]] = Absent
         \/ nos[tab[i]] = nums[i] /\ names[nums[i]] = tab[i]
    /\ \A s \in DOMAIN nos : (\A i \in 1 .. Len(tab) : tab[i] # s) => no[s] = nos[s]
    /\ \A n \in 1 .. m : (\A i \in 1 .. Len(tab) : nums[i] # n) => na[n] = names[n]
    /\ \A n \in 1 .. m : names[n] # Absent => na[n] = names[n]

\* The symbols tab, of which the database knows known, may get numbers.
NumbersReady(S, m, tab, L, known, counter, nos, names) ==
    /\ m \in Nat /\ Absent \notin S /\ Keep \notin S
    /\ tab \in Seq(S) /\ L \in Nat /\ Len(tab) = L
    /\ \A i, j \in DOMAIN tab : tab[i] = tab[j] => i = j
    /\ nos \in [S -> (1 .. m) \cup {Absent}]
    /\ names \in [1 .. m -> S \cup {Absent}]
    /\ counter \in Nat
    /\ known \in [1 .. L -> Nat]
    /\ \A i \in 1 .. L : known[i] = IndexValue(nos[tab[i]])
    /\ counter + NofNew(known) <= m
    /\ InverseMaps(nos, names) /\ BelowCounter(names, counter)

LEMMA CommitGivesNumbers ==
    ASSUME NEW S, NEW m, NEW tab, NEW L, NEW known, NEW counter, NEW nos, NEW names,
           NumbersReady(S, m, tab, L, known, counter, nos, names),
           NEW nums, nums = Allocated(known, counter), NEW no, NEW na,
           no = MapOverlay(WrittenNumbers([s \in S |-> Keep], tab, known, nums), nos),
           na = MapOverlay(WrittenNames([n \in 1 .. m |-> Keep], tab, known, nums), names)
    PROVE  /\ NumbersGiven(m, tab, nums, nos, names, no, na)
           /\ {n \in 1 .. m : names[n] # Absent} = 1 .. counter =>
                {n \in 1 .. m : na[n] # Absent} = 1 .. counter + NofNew(known)
<1> DEFINE bnos == WrittenNumbers([s \in S |-> Keep], tab, known, nums)
           bnames == WrittenNames([n \in 1 .. m |-> Keep], tab, known, nums)
           top == counter + NofNew(known)
<1>a. /\ m \in Nat /\ Absent \notin S /\ Keep \notin S
      /\ tab \in Seq(S) /\ L \in Nat /\ Len(tab) = L
      /\ \A i, j \in DOMAIN tab : tab[i] = tab[j] => i = j
      /\ nos \in [S -> (1 .. m) \cup {Absent}]
      /\ names \in [1 .. m -> S \cup {Absent}]
      /\ counter \in Nat
      /\ known \in [1 .. L -> Nat]
      /\ \A i \in 1 .. L : known[i] = IndexValue(nos[tab[i]])
      /\ counter + NofNew(known) <= m
      /\ InverseMaps(nos, names) /\ BelowCounter(names, counter)
  BY DEF NumbersReady
<1>b. no = MapOverlay(bnos, nos) /\ na = MapOverlay(bnames, names)
  OBVIOUS
<1> USE <1>a
<1>0. Absent # Keep /\ Absent \notin Nat /\ Keep \notin Nat
  BY MarkersAssumption
<1>1. /\ Len(tab) \in Nat /\ DOMAIN tab = 1 .. Len(tab)
      /\ \A i \in 1 .. Len(tab) : tab[i] \in S
  BY LenProperties
<1> HIDE DEF bnos, bnames
<1>2. /\ NofNew(known) \in Nat
      /\ \A i \in 1 .. L : known[i] = 0 => nums[i] \in counter + 1 .. top
      /\ \A i, j \in 1 .. L : (known[i] = 0 /\ known[j] = 0 /\ nums[i] = nums[j]) => i = j
      /\ \A c \in counter + 1 .. top : \E i \in 1 .. L : known[i] = 0 /\ nums[i] = c
  <2>1. NewNumbersUsed(L, known, counter)
    BY AllocatedUsed
  <2>2. QED
    BY <2>1 DEF NewNumbersUsed, top
<1>3. \A i \in 1 .. Len(tab) : known[i] # 0 => nums[i] = known[i]
  BY DEF Allocated
<1>4. /\ bnos = [s \in S |->
                    IF \E i \in DOMAIN tab : tab[i] = s /\ known[i] = 0
                    THEN nums[CHOOSE i \in DOMAIN tab : tab[i] = s /\ known[i] = 0]
                    ELSE Keep]
      /\ bnames = [n \in 1 .. m |->
                    IF \E i \in DOMAIN tab : nums[i] = n /\ known[i] = 0
                    THEN tab[CHOOSE i \in DOMAIN tab : nums[i] = n /\ known[i] = 0]
                    ELSE Keep]
  BY DEF WrittenNumbers, WrittenNames, bnos, bnames
<1>5. /\ no = [s \in S |-> IF bnos[s] = Keep THEN nos[s] ELSE bnos[s]]
      /\ na = [n \in 1 .. m |-> IF bnames[n] = Keep THEN names[n] ELSE bnames[n]]
  BY <1>b DEF MapOverlay, Overlay
<1>6. top \in Nat /\ top <= m /\ counter <= top
  BY <1>2
<1> HIDE DEF top
<1>7. ASSUME NEW i \in 1 .. Len(tab), known[i] = 0
      PROVE  /\ nums[i] \in 1 .. m /\ nums[i] > counter
             /\ no[tab[i]] = nums[i] /\ na[nums[i]] = tab[i]
             /\ nos[tab[i]] = Absent /\ names[nums[i]] = Absent
  <2>1. nums[i] \in 1 .. m /\ nums[i] > counter /\ nums[i] # Keep
    BY <1>0, <1>2, <1>6, <1>7
  <2>2. no[tab[i]] = nums[i]
    <3>1. (CHOOSE j \in DOMAIN tab : tab[j] = tab[i] /\ known[j] = 0) = i
      BY <1>1, <1>7
    <3>2. bnos[tab[i]] = nums[i]
      BY <1>1, <1>4, <1>7, <3>1
    <3>3. QED
      BY <1>1, <1>5, <2>1, <3>2
  <2>3. na[nums[i]] = tab[i]
    <3>1. (CHOOSE j \in DOMAIN tab : nums[j] = nums[i] /\ known[j] = 0) = i
      BY <1>1, <1>2, <1>7
    <3>2. bnames[nums[i]] = tab[i]
      BY <1>1, <1>4, <1>7, <2>1, <3>1
    <3>3. tab[i] # Keep
      BY <1>1
    <3>4. QED
      BY <1>5, <2>1, <3>2, <3>3
  <2>4. nos[tab[i]] = Absent
    <3>1. nos[tab[i]] \in (1 .. m) \cup {Absent} /\ IndexValue(nos[tab[i]]) = 0
      BY <1>1, <1>7
    <3>2. QED
      BY <3>1 DEF IndexValue
  <2>5. names[nums[i]] = Absent
    BY <2>1 DEF BelowCounter
  <2>6. QED
    BY <2>1, <2>2, <2>3, <2>4, <2>5
<1>8. ASSUME NEW n \in 1 .. m, n <= counter \/ \A i \in 1 .. Len(tab) : nums[i] # n
      PROVE  na[n] = names[n]
  <2>1. ~ \E i \in DOMAIN tab : nums[i] = n /\ known[i] = 0
    BY <1>1, <1>7, <1>8
  <2>2. QED
    BY <1>4, <1>5, <2>1
<1>9. ASSUME NEW i \in 1 .. Len(tab), known[i] # 0
      PROVE  /\ nums[i] \in 1 .. m
             /\ no[tab[i]] = nums[i] /\ na[nums[i]] = tab[i]
             /\ nos[tab[i]] = nums[i] /\ names[nums[i]] = tab[i]
  <2>1. tab[i] \in S /\ nos[tab[i]] \in (1 .. m) \cup {Absent}
    BY <1>1
  <2>2. nos[tab[i]] # Absent /\ nos[tab[i]] = nums[i]
    BY <1>3, <1>9, <2>1 DEF IndexValue
  <2>3. nums[i] \in 1 .. m
    BY <2>1, <2>2
  <2>4. names[nums[i]] = tab[i]
    BY <2>1, <2>2 DEF InverseMaps
  <2>5. no[tab[i]] = nums[i]
    <3>1. ~ \E j \in DOMAIN tab : tab[j] = tab[i] /\ known[j] = 0
      BY <1>1, <1>9
    <3>2. QED
      BY <1>4, <1>5, <2>1, <2>2, <3>1
  <2>6. nums[i] <= counter
    <3>1. names[nums[i]] # Absent
      BY <2>1, <2>4
    <3>2. QED
      BY <2>3, <3>1 DEF BelowCounter
  <2>7. na[nums[i]] = names[nums[i]]
    BY <1>8, <2>3, <2>6
  <2>8. QED
    BY <2>2, <2>3, <2>4, <2>5, <2>7
<1>10. \A s \in S : (\A i \in 1 .. Len(tab) : tab[i] # s) => no[s] = nos[s]
  <2>1. ASSUME NEW s \in S, \A i \in 1 .. Len(tab) : tab[i] # s
        PROVE  no[s] = nos[s]
    <3>1. ~ \E i \in DOMAIN tab : tab[i] = s /\ known[i] = 0
      BY <1>1, <2>1
    <3>2. bnos[s] = Keep
      BY <1>4, <3>1
    <3>3. QED
      BY <1>5, <3>2
  <2>2. QED
    BY <2>1
<1>11. \A n \in 1 .. m : names[n] # Absent => n <= counter /\ na[n] = names[n]
  <2>1. \A n \in 1 .. m : names[n] # Absent => n <= counter
    BY DEF BelowCounter
  <2>2. QED
    BY <1>8, <2>1
<1>12. DOMAIN nos = S
  OBVIOUS
<1>13. NumbersGiven(m, tab, nums, nos, names, no, na)
  BY <1>7, <1>8, <1>9, <1>10, <1>11, <1>12 DEF NumbersGiven
<1>14. ASSUME {n \in 1 .. m : names[n] # Absent} = 1 .. counter
       PROVE  {n \in 1 .. m : na[n] # Absent} = 1 .. top
  <2>1. ASSUME NEW n \in 1 .. m, na[n] # Absent PROVE n \in 1 .. top
    <3>1. CASE names[n] # Absent
      BY <1>6, <1>11, <3>1
    <3>2. CASE names[n] = Absent
      <4>1. PICK i \in 1 .. Len(tab) : nums[i] = n
        BY <1>8, <2>1, <3>2
      <4>2. known[i] = 0
        BY <1>1, <1>9, <3>2, <4>1
      <4>3. QED
        BY <1>2, <1>6, <4>1, <4>2
    <3>3. QED
      BY <3>1, <3>2
  <2>2. ASSUME NEW n \in 1 .. top PROVE n \in 1 .. m /\ na[n] # Absent
    <3>1. n \in 1 .. m
      BY <1>6
    <3>2. CASE n \in 1 .. counter
      BY ZenonT(30), <1>11, <1>14, <3>1, <3>2
    <3>3. CASE n \in counter + 1 .. top
      <4>1. PICK i \in 1 .. Len(tab) : known[i] = 0 /\ nums[i] = n
        BY <1>2, <3>3
      <4>2. QED
        BY <1>1, <1>7, <3>1, <4>1
    <3>4. QED
      BY <1>6, <3>2, <3>3
  <2>3. QED
    BY <2>1, <2>2
<1>15. QED
  BY <1>13, <1>14 DEF top

-----------------------------------------------------------------------------
(* The vectors of a commit.                                                *)

\* el are the elements elems of k features with the numbers fn instead of the
\* local feature identifiers; tn are the numbers of their m types.
ElementsNumbered(elems, el, m, k, tn, fn) ==
    /\ m \in Nat /\ k \in Nat
    /\ elems \in Elements /\ el \in Elements /\ Len(elems) = m /\ Len(el) = m
    /\ tn \in [1 .. m -> Typenos] /\ fn \in [1 .. k -> Featnos]
    /\ \A i, j \in 1 .. m : tn[i] = tn[j] => i = j
    /\ \A i, j \in 1 .. k : fn[i] = fn[j] => i = j
    /\ \A i \in 1 .. m : Len(el[i]) = Len(elems[i]) /\ Len(elems[i]) <= MaxElements
    /\ \A i \in 1 .. m : \A j \in 1 .. Len(elems[i]) :
         /\ elems[i][j].id \in 1 .. k
         /\ el[i][j].id = fn[elems[i][j].id]
         /\ el[i][j].vec = elems[i][j].vec

\* What is written under the numbers of a type and a feature.
LEMMA NumberedWrites ==
    ASSUME NEW elems, NEW el, NEW m, NEW k, NEW tn, NEW fn,
           ElementsNumbered(elems, el, m, k, tn, fn),
           NEW n \in Typenos, NEW f \in Featnos
    PROVE  /\ \A p \in Writes(el, tn, m, n, f) :
                /\ p[1] \in 1 .. m /\ p[2] \in 1 .. Len(elems[p[1]])
                /\ tn[p[1]] = n /\ fn[elems[p[1]][p[2]].id] = f
                /\ elems[p[1]][p[2]].vec # Absent
           /\ \A i \in 1 .. m : \A j \in 1 .. Len(elems[i]) :
                tn[i] = n /\ fn[elems[i][j].id] = f /\ elems[i][j].vec # Absent
                  => <<i, j>> \in Writes(el, tn, m, n, f)
<1>1. /\ DOMAIN el = 1 .. m
      /\ \A i \in 1 .. m : DOMAIN el[i] = 1 .. Len(elems[i]) /\ Len(elems[i]) \in Nat
  <2>1. /\ el \in Elements /\ elems \in Elements /\ Len(el) = m /\ Len(elems) = m
        /\ \A i \in 1 .. m : Len(el[i]) = Len(elems[i])
    BY DEF ElementsNumbered
  <2>2. DOMAIN el = 1 .. Len(el) /\ \A i \in DOMAIN el : DOMAIN el[i] = 1 .. Len(el[i])
    BY <2>1, ElementType
  <2>3. DOMAIN elems = 1 .. Len(elems) /\ \A i \in DOMAIN elems : Len(elems[i]) \in Nat
    BY <2>1, ElementType
  <2>4. QED
    BY <2>1, <2>2, <2>3
<1>2. /\ m \in Nat
      /\ \A i \in 1 .. m : Len(elems[i]) <= MaxElements
      /\ \A i \in 1 .. m : \A j \in 1 .. Len(elems[i]) :
           el[i][j].id = fn[elems[i][j].id] /\ el[i][j].vec = elems[i][j].vec
  BY DEF ElementsNumbered
<1>3. MaxElements \in Nat
  BY TransAssumption
<1>4. ASSUME NEW p \in Writes(el, tn, m, n, f)
      PROVE  /\ p[1] \in 1 .. m /\ p[2] \in 1 .. Len(elems[p[1]])
             /\ tn[p[1]] = n /\ fn[elems[p[1]][p[2]].id] = f
             /\ elems[p[1]][p[2]].vec # Absent
  <2>1. /\ p[1] \in DOMAIN el /\ p[2] \in DOMAIN el[p[1]]
        /\ tn[p[1]] = n /\ el[p[1]][p[2]].id = f /\ el[p[1]][p[2]].vec # Absent
    BY DEF Writes, Positions
  <2>2. p[1] \in 1 .. m /\ p[2] \in 1 .. Len(elems[p[1]])
    BY <1>1, <2>1
  <2>3. QED
    BY <1>2, <2>1, <2>2
<1>5. ASSUME NEW i \in 1 .. m, NEW j \in 1 .. Len(elems[i]),
             tn[i] = n, fn[elems[i][j].id] = f, elems[i][j].vec # Absent
      PROVE  <<i, j>> \in Writes(el, tn, m, n, f)
  <2>1. i \in DOMAIN el /\ j \in DOMAIN el[i] /\ j \in 1 .. MaxElements /\ i <= m
    BY <1>1, <1>2, <1>3
  <2>2. <<i, j>> \in Positions(el)
    BY <2>1 DEF Positions
  <2>3. el[i][j].id = f /\ el[i][j].vec # Absent
    BY <1>2, <1>5
  <2>4. QED
    BY <1>5, <2>1, <2>2, <2>3 DEF Writes
<1>6. QED
  BY <1>4, <1>5

LEMMA WrittenNone ==
    ASSUME NEW map, NEW elems, NEW tnos, NEW k, NEW key \in DOMAIN map,
           Writes(elems, tnos, k, key[1], key[2]) = {}
    PROVE  WrittenVectors(map, elems, tnos, k)[key] = map[key]
BY DEF WrittenVectors

LEMMA WrittenLast ==
    ASSUME NEW map, NEW elems, NEW tnos, NEW k, NEW key \in DOMAIN map,
           NEW w, w = Writes(elems, tnos, k, key[1], key[2]),
           NEW p \in w, \A q \in w : Later(p, q),
           \A r \in w : Later(r, p) => r = p
    PROVE  WrittenVectors(map, elems, tnos, k)[key] = elems[p[1]][p[2]].vec
<1>1. WrittenVectors(map, elems, tnos, k)[key] =
        LET u == Writes(elems, tnos, k, key[1], key[2])
        IN  IF u = {} THEN map[key]
            ELSE LET last == CHOOSE r \in u : \A q \in u : Later(r, q)
                 IN  elems[last[1]][last[2]].vec
  BY Zenon DEF WrittenVectors
<1>2. (CHOOSE r \in w : \A q \in w : Later(r, q)) = p
  OBVIOUS
<1>3. w # {}
  OBVIOUS
<1> DEFINE last == CHOOSE r \in w : \A q \in w : Later(r, q)
<1>4. WrittenVectors(map, elems, tnos, k)[key] =
        IF w = {} THEN map[key] ELSE elems[last[1]][last[2]].vec
  BY <1>1, Zenon
<1>5. last = p
  BY <1>2
<1> HIDE DEF last
<1>6. QED
  BY <1>3, <1>4, <1>5

\* A commit writes the last vector of every element that has one.
LEMMA LastVectorWritten ==
    ASSUME NEW elems, NEW el, NEW m, NEW k, NEW tn, NEW fn,
           ElementsNumbered(elems, el, m, k, tn, fn), NEW map,
           DOMAIN map = Typenos \X Featnos,
           NEW i \in 1 .. m, NEW j \in 1 .. k, NEW v, LastVector(elems[i], j, v)
    PROVE  WrittenVectors(map, el, tn, m)[<<tn[i], fn[j]>>] =
             IF v = Absent THEN map[<<tn[i], fn[j]>>] ELSE v
<1> DEFINE w == Writes(el, tn, m, tn[i], fn[j])
           last == CHOOSE p \in w : \A q \in w : Later(p, q)
<1>1. /\ m \in Nat /\ k \in Nat
      /\ tn[i] \in Typenos /\ fn[j] \in Featnos
      /\ \A a \in 1 .. m : tn[a] = tn[i] => a = i
      /\ \A a \in 1 .. k : fn[a] = fn[j] => a = j
      /\ \A a \in 1 .. m : \A b \in 1 .. Len(elems[a]) :
           elems[a][b].id \in 1 .. k /\ el[a][b].vec = elems[a][b].vec
  BY DEF ElementsNumbered
<1>2. Len(elems[i]) \in Nat /\ DOMAIN elems[i] = 1 .. Len(elems[i])
  <2>1. elems \in Elements /\ i \in 1 .. Len(elems)
    BY DEF ElementsNumbered
  <2>2. QED
    BY <2>1, ElementType
<1>3. /\ \A p \in w : /\ p[1] \in 1 .. m /\ p[2] \in 1 .. Len(elems[p[1]])
                      /\ tn[p[1]] = tn[i] /\ fn[elems[p[1]][p[2]].id] = fn[j]
                      /\ elems[p[1]][p[2]].vec # Absent
      /\ \A a \in 1 .. m : \A b \in 1 .. Len(elems[a]) :
           tn[a] = tn[i] /\ fn[elems[a][b].id] = fn[j] /\ elems[a][b].vec # Absent
             => <<a, b>> \in w
  BY <1>1, NumberedWrites
<1> DEFINE key == <<tn[i], fn[j]>>
<1>4. key \in DOMAIN map /\ w = Writes(el, tn, m, key[1], key[2])
  BY <1>1
<1> HIDE DEF w, key
<1>5. \A p \in w : /\ p[1] = i /\ p[2] \in 1 .. Len(elems[i])
                   /\ elems[i][p[2]].id = j /\ elems[i][p[2]].vec # Absent
  <2> SUFFICES ASSUME NEW p \in w
               PROVE  /\ p[1] = i /\ p[2] \in 1 .. Len(elems[i])
                      /\ elems[i][p[2]].id = j /\ elems[i][p[2]].vec # Absent
    OBVIOUS
  <2>1. /\ p[1] \in 1 .. m /\ p[2] \in 1 .. Len(elems[p[1]])
        /\ tn[p[1]] = tn[i] /\ fn[elems[p[1]][p[2]].id] = fn[j]
        /\ elems[p[1]][p[2]].vec # Absent
    BY <1>3
  <2>2. p[1] = i
    BY <1>1, <2>1
  <2>3. elems[i][p[2]].id \in 1 .. k
    BY <1>1, <2>1, <2>2
  <2>4. elems[i][p[2]].id = j
    BY <1>1, <2>1, <2>2, <2>3
  <2>5. QED
    BY <2>1, <2>2, <2>4
<1>6. CASE v = Absent
  <2>1. \A b \in 1 .. Len(elems[i]) : elems[i][b].id = j => elems[i][b].vec = Absent
    BY <1>2, <1>6 DEF LastVector
  <2>2. w = {}
    BY <1>5, <2>1
  <2>3. WrittenVectors(map, el, tn, m)[key] = map[key]
    <3>1. key \in DOMAIN map
      BY <1>4
    <3>2. Writes(el, tn, m, key[1], key[2]) = {}
      BY <1>4, <2>2
    <3>3. QED
      BY <3>1, <3>2, WrittenNone
  <2>4. QED
    BY <1>6, <2>3 DEF key
<1>7. CASE v # Absent
  <2>1. PICK b \in 1 .. Len(elems[i]) :
          /\ elems[i][b].id = j /\ elems[i][b].vec = v
          /\ \A c \in 1 .. Len(elems[i]) : c > b /\ elems[i][c].id = j => elems[i][c].vec = Absent
    BY <1>2, <1>7 DEF LastVector
  <2> DEFINE p == <<i, b>>
  <2>2. p \in w
    BY <1>3, <1>7, <2>1
  <2>3. \A q \in w : Later(p, q)
    <3>1. ASSUME NEW q \in w PROVE q[1] = i /\ b >= q[2]
      BY <1>2, <1>5, <2>1
    <3>2. QED
      BY <3>1 DEF Later
  <2>4. ASSUME NEW r \in w, Later(r, p) PROVE r = p
    <3>1. r = <<r[1], r[2]>>
      BY DEF w, Writes, Positions
    <3>2. r[1] = i /\ r[2] \in 1 .. Len(elems[i])
          /\ elems[i][r[2]].id = j /\ elems[i][r[2]].vec # Absent
      BY <1>5
    <3>3. r[2] >= b
      BY <2>4, <3>2 DEF Later
    <3>4. ~ (r[2] > b)
      BY <2>1, <3>2
    <3>5. r[2] = b
      BY <3>2, <3>3, <3>4
    <3>6. QED
      BY <3>1, <3>2, <3>5
  <2>5. p[1] = i /\ p[2] = b
    OBVIOUS
  <2> HIDE DEF p
  <2>6. WrittenVectors(map, el, tn, m)[key] = el[p[1]][p[2]].vec
    BY <1>4, <2>2, <2>3, <2>4, WrittenLast
  <2>7. el[i][b].vec = v
    BY <1>1, <2>1
  <2>8. QED
    BY <1>7, <2>5, <2>6, <2>7 DEF key
<1>8. QED
  BY <1>6, <1>7

\* It writes nothing under other numbers.
LEMMA OtherVectorsKept ==
    ASSUME NEW elems, NEW el, NEW m, NEW k, NEW tn, NEW fn,
           ElementsNumbered(elems, el, m, k, tn, fn), NEW map,
           DOMAIN map = Typenos \X Featnos,
           NEW n \in Typenos, NEW f \in Featnos,
           ~ \E i \in 1 .. m, j \in 1 .. k : tn[i] = n /\ fn[j] = f
    PROVE  WrittenVectors(map, el, tn, m)[<<n, f>>] = map[<<n, f>>]
<1>1. \A p \in Writes(el, tn, m, n, f) :
         /\ p[1] \in 1 .. m /\ p[2] \in 1 .. Len(elems[p[1]])
         /\ tn[p[1]] = n /\ fn[elems[p[1]][p[2]].id] = f
  BY NumberedWrites
<1>2. \A a \in 1 .. m : \A b \in 1 .. Len(elems[a]) : elems[a][b].id \in 1 .. k
  BY DEF ElementsNumbered
<1>3. Writes(el, tn, m, n, f) = {}
  BY <1>1, <1>2
<1> DEFINE key == <<n, f>>
<1>4. key \in DOMAIN map /\ Writes(el, tn, m, key[1], key[2]) = {}
  BY <1>3
<1> HIDE DEF key
<1>5. WrittenVectors(map, el, tn, m)[key] = map[key]
  BY <1>4, WrittenNone
<1>6. QED
  BY <1>5 DEF key

\* The features that have a vector of the type n.
WithVector(vec, n) == {f \in Featnos : vec[<<n, f>>] # Absent}

\* dv are the vectors dold with the last ones of the elements s of the type n.
RowGiven(s, k, n, fn, vd, dold, dv) ==
    /\ \A j \in 1 .. k : LastVector(s, j, vd[j])
    /\ \A j \in 1 .. k : dv[<<n, fn[j]>>] = IF vd[j] = Absent THEN dold[<<n, fn[j]>>] ELSE vd[j]
    /\ \A f \in Featnos : (\A j \in 1 .. k : fn[j] # f) => dv[<<n, f>>] = dold[<<n, f>>]

\* The features with a vector after a commit are those that had one and those
\* counted as new.
LEMMA NewVectorsCounted ==
    ASSUME NEW elems, NEW el, NEW m, NEW k, NEW tn, NEW fn,
           ElementsNumbered(elems, el, m, k, tn, fn),
           NEW d \in Database, NEW i \in 1 .. m, NEW vd, NEW dv,
           RowGiven(elems[i], k, tn[i], fn, vd, d.vec, dv)
    PROVE  Cardinality(WithVector(dv, tn[i])) =
             Cardinality(WithVector(d.vec, tn[i])) + Cardinality(NewVectors(d, el[i], tn[i]))
<1> DEFINE old == {f \in Featnos : d.vec[<<tn[i], f>>] # Absent}
           now == {f \in Featnos : dv[<<tn[i], f>>] # Absent}
           new == NewVectors(d, el[i], tn[i])
<1>0. /\ \A j \in 1 .. k : LastVector(elems[i], j, vd[j])
      /\ \A j \in 1 .. k : dv[<<tn[i], fn[j]>>] =
                              IF vd[j] = Absent THEN d.vec[<<tn[i], fn[j]>>] ELSE vd[j]
      /\ \A f \in Featnos : (\A j \in 1 .. k : fn[j] # f)
                                 => dv[<<tn[i], f>>] = d.vec[<<tn[i], f>>]
  BY DEF RowGiven
<1> USE <1>0
<1>1. /\ k \in Nat /\ fn \in [1 .. k -> Featnos]
      /\ \A a, b \in 1 .. k : fn[a] = fn[b] => a = b
      /\ \A b \in 1 .. Len(elems[i]) :
           /\ elems[i][b].id \in 1 .. k
           /\ el[i][b].id = fn[elems[i][b].id] /\ el[i][b].vec = elems[i][b].vec
  BY DEF ElementsNumbered
<1>2. DOMAIN el[i] = 1 .. Len(elems[i]) /\ DOMAIN elems[i] = 1 .. Len(elems[i])
  <2>1. /\ elems \in Elements /\ el \in Elements /\ Len(elems) = m /\ Len(el) = m
        /\ Len(el[i]) = Len(elems[i])
    BY DEF ElementsNumbered
  <2>2. DOMAIN el[i] = 1 .. Len(el[i])
    BY <2>1, ElementType
  <2>3. DOMAIN elems[i] = 1 .. Len(elems[i])
    BY <2>1, ElementType
  <2>4. QED
    BY <2>1, <2>2, <2>3
<1>3. new = {el[i][b].id : b \in {b \in 1 .. Len(elems[i]) :
                el[i][b].vec # Absent /\ d.vec[<<tn[i], el[i][b].id>>] = Absent}}
  BY <1>2 DEF NewVectors
<1> HIDE DEF new
<1>4. \A f \in new : \E b \in 1 .. Len(elems[i]) :
         /\ f = fn[elems[i][b].id] /\ elems[i][b].vec # Absent
         /\ d.vec[<<tn[i], f>>] = Absent
  <2>1. ASSUME NEW f \in new
        PROVE  \E b \in 1 .. Len(elems[i]) :
                 /\ f = fn[elems[i][b].id] /\ elems[i][b].vec # Absent
                 /\ d.vec[<<tn[i], f>>] = Absent
    <3>1. PICK b \in 1 .. Len(elems[i]) :
            /\ f = el[i][b].id /\ el[i][b].vec # Absent
            /\ d.vec[<<tn[i], el[i][b].id>>] = Absent
      BY <1>3
    <3>2. el[i][b].id = fn[elems[i][b].id] /\ el[i][b].vec = elems[i][b].vec
      BY <1>1
    <3>3. f = fn[elems[i][b].id] /\ elems[i][b].vec # Absent /\ d.vec[<<tn[i], f>>] = Absent
      BY <3>1, <3>2
    <3>4. QED
      BY <3>3
  <2>2. QED
    BY <2>1
<1>5. \A b \in 1 .. Len(elems[i]) :
         elems[i][b].vec # Absent /\ d.vec[<<tn[i], fn[elems[i][b].id]>>] = Absent
           => fn[elems[i][b].id] \in new
  <2>1. ASSUME NEW b \in 1 .. Len(elems[i]), elems[i][b].vec # Absent,
               d.vec[<<tn[i], fn[elems[i][b].id]>>] = Absent
        PROVE  fn[elems[i][b].id] \in new
    <3>1. el[i][b].id = fn[elems[i][b].id] /\ el[i][b].vec = elems[i][b].vec
      BY <1>1
    <3>2. el[i][b].vec # Absent /\ d.vec[<<tn[i], el[i][b].id>>] = Absent
      BY <2>1, <3>1
    <3>3. el[i][b].id \in new
      BY <1>3, <3>2
    <3>4. QED
      BY <3>1, <3>3
  <2>2. QED
    BY <2>1
<1>6. \A j \in 1 .. k : vd[j] # Absent <=>
                          \E b \in 1 .. Len(elems[i]) : elems[i][b].id = j /\ elems[i][b].vec # Absent
  BY <1>2 DEF LastVector
<1>7. ASSUME NEW f \in new PROVE f \in now /\ f \notin old
  <2>1. PICK b \in 1 .. Len(elems[i]) : /\ f = fn[elems[i][b].id] /\ elems[i][b].vec # Absent
                                        /\ d.vec[<<tn[i], f>>] = Absent
    BY <1>4
  <2> DEFINE j == elems[i][b].id
  <2>2. j \in 1 .. k /\ vd[j] # Absent /\ fn[j] = f /\ f \in Featnos
    BY <1>1, <1>6, <2>1
  <2> HIDE DEF j
  <2>3. dv[<<tn[i], f>>] = vd[j]
    BY <2>2
  <2>4. QED
    BY <2>1, <2>2, <2>3
<1>8. ASSUME NEW f \in old PROVE f \in now
  <2>1. CASE \E j \in 1 .. k : fn[j] = f
    <3>1. PICK j \in 1 .. k : fn[j] = f
      BY <2>1
    <3>2. dv[<<tn[i], f>>] = IF vd[j] = Absent THEN d.vec[<<tn[i], f>>] ELSE vd[j]
      BY <3>1
    <3>3. QED
      BY <3>2
  <2>2. CASE ~ \E j \in 1 .. k : fn[j] = f
    BY <2>2
  <2>3. QED
    BY <2>1, <2>2
<1>9. ASSUME NEW f \in now, f \notin old PROVE f \in new
  <2>1. d.vec[<<tn[i], f>>] = Absent /\ dv[<<tn[i], f>>] # Absent
    BY <1>9
  <2>2. PICK j \in 1 .. k : fn[j] = f
    BY <2>1
  <2>3. dv[<<tn[i], f>>] = IF vd[j] = Absent THEN d.vec[<<tn[i], f>>] ELSE vd[j]
    BY <2>2
  <2>4. vd[j] # Absent
    BY <2>1, <2>3
  <2>5. PICK b \in 1 .. Len(elems[i]) : elems[i][b].id = j /\ elems[i][b].vec # Absent
    BY <1>6, <2>4
  <2>6. QED
    BY <1>5, <2>1, <2>2, <2>5
<1>10. IsFiniteSet(Featnos)
  BY FS_Interval, BoundsAssumption DEF Featnos
<1>11. new \subseteq Featnos
  BY <1>7
<1>12. old \subseteq Featnos /\ now = old \cup new /\ old \cap new = {}
  BY <1>7, <1>8, <1>9
<1> HIDE DEF old, now
<1>13. IsFiniteSet(old) /\ IsFiniteSet(new)
  BY <1>10, <1>11, <1>12, FS_Subset
<1>14. Cardinality(old \cup new) = Cardinality(old) + Cardinality(new) - Cardinality(old \cap new)
  BY <1>13, FS_Union
<1>15. Cardinality({}) = 0 /\ Cardinality(old) \in Nat /\ Cardinality(new) \in Nat
  BY <1>13, FS_CardinalityType, FS_EmptySet
<1>16. Cardinality(now) = Cardinality(old) + Cardinality(new)
  <2>1. Cardinality(now) = Cardinality(old) + Cardinality(new) - Cardinality({})
    BY <1>12, <1>14
  <2> DEFINE a == Cardinality(old)
             b == Cardinality(new)
             z == Cardinality({})
  <2>2. a \in Nat /\ b \in Nat /\ z = 0 /\ Cardinality(now) = a + b - z
    BY <1>15, <2>1
  <2> HIDE DEF a, b, z
  <2>3. Cardinality(now) = a + b
    BY <2>2
  <2>4. QED
    BY <2>3 DEF a, b
<1>17. QED
  BY <1>16 DEF old, now, new, WithVector

\* The counter of a type with elements in the transaction is written once.
LEMMA CountWritten ==
    ASSUME NEW map, NEW d, NEW el, NEW known, NEW m \in Nat, NEW tn,
           \A a, b \in 1 .. m : tn[a] = tn[b] => a = b,
           NEW i \in 1 .. m, NEW n \in DOMAIN map, n = tn[i]
    PROVE  WrittenCounts(map, d, el, known, tn, m)[n] = NewNofVectors(d, el[i], n, known[i] = 0)
<1> DEFINE ts == {a \in 1 .. m : tn[a] = n}
           last == CHOOSE a \in ts : \A b \in ts : b <= a
<1>1. WrittenCounts(map, d, el, known, tn, m)[n] =
        IF ts = {} THEN map[n] ELSE NewNofVectors(d, el[last], n, known[last] = 0)
  BY Zenon DEF WrittenCounts
<1>2. ts = {i}
  OBVIOUS
<1>3. last = i
  <2>1. i \in ts /\ \A b \in ts : b <= i
    BY <1>2
  <2>2. \A a \in ts : a = i
    BY <1>2
  <2> HIDE DEF ts
  <2>3. QED
    BY <2>1, <2>2
<1> HIDE DEF ts, last
<1>4. QED
  BY <1>1, <1>2, <1>3

LEMMA CountKept ==
    ASSUME NEW map, NEW d, NEW el, NEW known, NEW m, NEW tn,
           NEW n \in DOMAIN map, \A a \in 1 .. m : tn[a] # n
    PROVE  WrittenCounts(map, d, el, known, tn, m)[n] = map[n]
<1>1. {a \in 1 .. m : tn[a] = n} = {}
  OBVIOUS
<1>2. QED
  BY <1>1 DEF WrittenCounts

\* w is map with the vectors of a commit.
VectorsWritten(elems, m, k, tn, fn, map, w) ==
    /\ \A i \in 1 .. m, j \in 1 .. k : \A v : LastVector(elems[i], j, v) =>
         w[<<tn[i], fn[j]>>] = IF v = Absent THEN map[<<tn[i], fn[j]>>] ELSE v
    /\ \A n \in Typenos, f \in Featnos :
         (~ \E i \in 1 .. m, j \in 1 .. k : tn[i] = n /\ fn[j] = f) => w[<<n, f>>] = map[<<n, f>>]

LEMMA CommitWritesVectors ==
    ASSUME NEW elems, NEW el, NEW m, NEW k, NEW tn, NEW fn,
           ElementsNumbered(elems, el, m, k, tn, fn), NEW map,
           DOMAIN map = Typenos \X Featnos
    PROVE  VectorsWritten(elems, m, k, tn, fn, map, WrittenVectors(map, el, tn, m))
<1> DEFINE w == WrittenVectors(map, el, tn, m)
<1>1. ASSUME NEW i \in 1 .. m, NEW j \in 1 .. k, NEW v, LastVector(elems[i], j, v)
      PROVE  w[<<tn[i], fn[j]>>] = IF v = Absent THEN map[<<tn[i], fn[j]>>] ELSE v
  BY <1>1, LastVectorWritten
<1>2. ASSUME NEW n \in Typenos, NEW f \in Featnos,
             ~ \E i \in 1 .. m, j \in 1 .. k : tn[i] = n /\ fn[j] = f
      PROVE  w[<<n, f>>] = map[<<n, f>>]
  BY <1>2, OtherVectorsKept
<1> HIDE DEF w
<1>3. VectorsWritten(elems, m, k, tn, fn, map, w)
  BY <1>1, <1>2 DEF VectorsWritten
<1>4. QED
  BY <1>3 DEF w

-----------------------------------------------------------------------------
(* What a commit makes of the database, seen from the interface.           *)

\* What a lookup by name or number finds after symbols have got numbers.
SymbolsFound(S, m, tab, nums, nos, names, no, na) ==
    /\ \A i \in 1 .. Len(tab) : /\ tab[i] \in S /\ nums[i] \in 1 .. m
                                /\ no[tab[i]] = nums[i] /\ na[nums[i]] = tab[i]
    /\ \A s \in S : nos[s] # Absent => nos[s] \in 1 .. m /\ no[s] = nos[s] /\ names[nos[s]] = s
    /\ \A s \in S : no[s] # Absent =>
         /\ no[s] \in 1 .. m /\ na[no[s]] = s
         /\ nos[s] # Absent \/ \E i \in 1 .. Len(tab) : tab[i] = s
    /\ \A n \in 1 .. m : names[n] # Absent => names[n] \in S /\ na[n] = names[n] /\ nos[names[n]] = n
    /\ \A n \in 1 .. m : na[n] # Absent => na[n] \in S /\ no[na[n]] = n

LEMMA GivenFound ==
    ASSUME NEW S, NEW m \in Nat, Absent \notin S, NEW tab \in Seq(S),
           NEW nos \in [S -> (1 .. m) \cup {Absent}],
           NEW names \in [1 .. m -> S \cup {Absent}],
           NEW no \in [S -> (1 .. m) \cup {Absent}],
           NEW na \in [1 .. m -> S \cup {Absent}], NEW nums,
           InverseMaps(nos, names), NumbersGiven(m, tab, nums, nos, names, no, na)
    PROVE  SymbolsFound(S, m, tab, nums, nos, names, no, na)
<1>1. Absent \notin Nat
  BY MarkersAssumption
<1>2. \A i \in 1 .. Len(tab) : tab[i] \in S
  BY LenProperties
<1>3. \A i \in 1 .. Len(tab) :
         nums[i] \in 1 .. m /\ no[tab[i]] = nums[i] /\ na[nums[i]] = tab[i]
  BY DEF NumbersGiven
<1>4. \A i \in 1 .. Len(tab) :
         \/ nos[tab[i]] = Absent /\ names[nums[i]] = Absent
         \/ nos[tab[i]] = nums[i] /\ names[nums[i]] = tab[i]
  BY DEF NumbersGiven
<1>5. \A s \in S : (\A i \in 1 .. Len(tab) : tab[i] # s) => no[s] = nos[s]
  BY DEF NumbersGiven
<1>6. /\ \A n \in 1 .. m : (\A i \in 1 .. Len(tab) : nums[i] # n) => na[n] = names[n]
      /\ \A n \in 1 .. m : names[n] # Absent => na[n] = names[n]
  BY DEF NumbersGiven
<1>7. /\ \A s \in S : nos[s] # Absent => nos[s] \in 1 .. m /\ names[nos[s]] = s
      /\ \A n \in 1 .. m : names[n] # Absent => names[n] \in S /\ nos[names[n]] = n
  BY DEF InverseMaps
<1>8. ASSUME NEW s \in S, nos[s] # Absent PROVE no[s] = nos[s]
  BY <1>3, <1>4, <1>5, <1>8
<1>9. ASSUME NEW s \in S, no[s] # Absent
      PROVE  /\ no[s] \in 1 .. m /\ na[no[s]] = s
             /\ nos[s] # Absent \/ \E i \in 1 .. Len(tab) : tab[i] = s
  <2>1. no[s] \in 1 .. m
    BY <1>9
  <2>2. CASE \E i \in 1 .. Len(tab) : tab[i] = s
    BY <1>3, <2>1, <2>2
  <2>3. CASE ~ \E i \in 1 .. Len(tab) : tab[i] = s
    <3>1. no[s] = nos[s] /\ nos[s] # Absent
      BY <1>5, <1>9, <2>3
    <3>2. nos[s] \in 1 .. m /\ names[nos[s]] = s
      BY <1>7, <3>1
    <3>3. na[nos[s]] = s
      BY <1>6, <3>2
    <3>4. QED
      BY <2>1, <3>1, <3>3
  <2>4. QED
    BY <2>2, <2>3
<1>10. ASSUME NEW n \in 1 .. m, na[n] # Absent
       PROVE  na[n] \in S /\ no[na[n]] = n
  <2>1. na[n] \in S
    BY <1>10
  <2>2. CASE \E i \in 1 .. Len(tab) : nums[i] = n
    BY <1>3, <2>1, <2>2
  <2>3. CASE ~ \E i \in 1 .. Len(tab) : nums[i] = n
    <3>1. na[n] = names[n] /\ nos[na[n]] = n
      BY <1>6, <1>7, <1>10, <2>3
    <3>2. nos[na[n]] # Absent
      BY <1>1, <3>1
    <3>3. no[na[n]] = nos[na[n]]
      BY <1>8, <2>1, <3>2
    <3>4. QED
      BY <2>1, <3>1, <3>3
  <2>4. QED
    BY <2>2, <2>3
<1>11. QED
  BY <1>2, <1>3, <1>6, <1>7, <1>8, <1>9, <1>10 DEF SymbolsFound

\* The database d is consistent: its counters count what is stored, every
\* vector has its LSH value and its relation, every relation two names.
NamesCounted(d) ==
    /\ {n \in Typenos : d.typename[n] # Absent} = 1 .. ReadNofTypeno(d)
    /\ {n \in Featnos : d.featname[n] # Absent} = 1 .. ReadNofFeatno(d)

VectorsCounted(d) ==
    \A n \in Typenos :
        ReadNofVectors(d, n) = Cardinality({f \in Featnos : d.vec[<<n, f>>] # Absent})

VectorsRelated(d) ==
    \A n \in Typenos, f \in Featnos :
        d.vec[<<n, f>>] # Absent => n \in ReadFeatureTypeRelations(d, f)

RelationsNamed(d) ==
    \A f \in Featnos : \A n \in ReadFeatureTypeRelations(d, f) :
        d.typename[n] # Absent /\ d.featname[f] # Absent

Consistent(d) ==
    /\ NamesCounted(d)
    /\ VectorsCounted(d)
    /\ d.simhash = d.vec
    /\ VectorsRelated(d)
    /\ RelationsNamed(d)

\* The database D is the database after the definitions of x, with the
\* numbers tn of its types and fn of its features.
VectorsGiven(x, D, tn, fn) ==
    /\ \A i \in 1 .. Len(typetab[x]), j \in 1 .. Len(nametab[x]) :
         LET v == defs[x].vec[<<typetab[x][i], nametab[x][j]>>]
         IN  D.vec[<<tn[i], fn[j]>>] = IF v = Absent THEN db.vec[<<tn[i], fn[j]>>] ELSE v
    /\ \A n \in Typenos, f \in Featnos :
         (~ \E i \in 1 .. Len(typetab[x]), j \in 1 .. Len(nametab[x]) : tn[i] = n /\ fn[j] = f)
           => D.vec[<<n, f>>] = db.vec[<<n, f>>]

RelationsGiven(x, D, tn, fn) ==
    \A f \in Featnos :
        ReadFeatureTypeRelations(D, f) =
            ReadFeatureTypeRelations(db, f)
                \cup {tn[r[2]] : r \in {r \in relations[x] : fn[r[1]] = f}}

Committed(x, D, tn, fn) ==
    /\ D \in Database
    /\ NumbersGiven(MaxTypeno, typetab[x], tn, db.typeno, db.typename, D.typeno, D.typename)
    /\ NumbersGiven(MaxFeatno, nametab[x], fn, db.featno, db.featname, D.featno, D.featname)
    /\ VectorsGiven(x, D, tn, fn)
    /\ RelationsGiven(x, D, tn, fn)

TypesFound(x, D, tn) ==
    SymbolsFound(Types, MaxTypeno, typetab[x], tn, db.typeno, db.typename, D.typeno, D.typename)

FeatsFound(x, D, fn) ==
    SymbolsFound(Feats, MaxFeatno, nametab[x], fn, db.featno, db.featname, D.featno, D.featname)

LEMMA CommittedFound ==
    ASSUME NumbersInv, NEW x \in Trans, NEW D, NEW tn, NEW fn, Committed(x, D, tn, fn)
    PROVE  TypesFound(x, D, tn) /\ FeatsFound(x, D, fn)
<1>1. db \in Database /\ D \in Database /\ typetab[x] \in Seq(Types) /\ nametab[x] \in Seq(Feats)
  BY DEF NumbersInv, TypeInv, TypeOK, Committed
<1>2. /\ db.typeno \in [Types -> (1 .. MaxTypeno) \cup {Absent}]
      /\ db.typename \in [1 .. MaxTypeno -> Types \cup {Absent}]
      /\ D.typeno \in [Types -> (1 .. MaxTypeno) \cup {Absent}]
      /\ D.typename \in [1 .. MaxTypeno -> Types \cup {Absent}]
  BY <1>1 DEF Database, Typenos
<1>3. /\ db.featno \in [Feats -> (1 .. MaxFeatno) \cup {Absent}]
      /\ db.featname \in [1 .. MaxFeatno -> Feats \cup {Absent}]
      /\ D.featno \in [Feats -> (1 .. MaxFeatno) \cup {Absent}]
      /\ D.featname \in [1 .. MaxFeatno -> Feats \cup {Absent}]
  BY <1>1 DEF Database, Featnos
<1>4. InverseMaps(db.typeno, db.typename) /\ InverseMaps(db.featno, db.featname)
  BY DEF NumbersInv, NumbersInverse
<1>5. Absent \notin Types /\ Absent \notin Feats
  BY MarkersAssumption
<1>6. /\ NumbersGiven(MaxTypeno, typetab[x], tn, db.typeno, db.typename, D.typeno, D.typename)
      /\ NumbersGiven(MaxFeatno, nametab[x], fn, db.featno, db.featname, D.featno, D.featname)
  BY DEF Committed
<1>7. TypesFound(x, D, tn)
  BY <1>1, <1>2, <1>4, <1>5, <1>6, BoundsAssumption, GivenFound DEF TypesFound
<1>8. FeatsFound(x, D, fn)
  BY <1>1, <1>3, <1>4, <1>5, <1>6, BoundsAssumption, GivenFound DEF FeatsFound
<1>9. QED
  BY <1>7, <1>8

LEMMA CommittedRelations ==
    ASSUME NumbersInv, Consistent(db), NEW x \in Trans, Faithful(x),
           NEW D, NEW tn, NEW fn, Committed(x, D, tn, fn)
    PROVE  VectorsRelated(D) /\ RelationsNamed(D)
<1>1. TypesFound(x, D, tn) /\ FeatsFound(x, D, fn)
  BY CommittedFound
<1>2. /\ DOMAIN typetab[x] = 1 .. Len(typetab[x]) /\ DOMAIN nametab[x] = 1 .. Len(nametab[x])
      /\ \A i \in 1 .. Len(typetab[x]) : typetab[x][i] \in Types
      /\ \A j \in 1 .. Len(nametab[x]) : nametab[x][j] \in Feats
  <2>1. typetab[x] \in Seq(Types) /\ nametab[x] \in Seq(Feats)
    BY DEF NumbersInv, TypeInv, TypeOK
  <2>2. QED
    BY <2>1, LenProperties
<1>3. relations[x] \in SUBSET ((1 .. Len(nametab[x])) \X (1 .. Len(typetab[x])))
  BY DEF NumbersInv, TypeInv, RelationsInRange
<1>4. \A f \in Featnos :
        ReadFeatureTypeRelations(D, f) =
            ReadFeatureTypeRelations(db, f)
                \cup {tn[r[2]] : r \in {r \in relations[x] : fn[r[1]] = f}}
  BY DEF Committed, RelationsGiven
<1>5. /\ \A i \in 1 .. Len(typetab[x]), j \in 1 .. Len(nametab[x]) :
           defs[x].vec[<<typetab[x][i], nametab[x][j]>>] # Absent => <<j, i>> \in relations[x]
  <2> SUFFICES ASSUME NEW i \in 1 .. Len(typetab[x]), NEW j \in 1 .. Len(nametab[x]),
                      defs[x].vec[<<typetab[x][i], nametab[x][j]>>] # Absent
               PROVE  <<j, i>> \in relations[x]
    OBVIOUS
  <2>1. <<typetab[x][i], nametab[x][j]>> \in Types \X Feats
    BY <1>2
  <2>2. <<typetab[x][i], nametab[x][j]>> \in defs[x].elems
    BY <2>1 DEF Faithful, VectorsFaithful
  <2>3. PICK r \in relations[x] :
          <<typetab[x][i], nametab[x][j]>> = <<typetab[x][r[2]], nametab[x][r[1]]>>
    BY <2>2 DEF Faithful, RelationsFaithful
  <2>4. typetab[x][i] = typetab[x][r[2]] /\ nametab[x][j] = nametab[x][r[1]]
    BY <2>3
  <2>5. r[2] \in 1 .. Len(typetab[x]) /\ r[1] \in 1 .. Len(nametab[x]) /\ r = <<r[1], r[2]>>
    BY <1>3
  <2>6. r[2] = i /\ r[1] = j
    BY <1>2, <2>4, <2>5 DEF NumbersInv, DistinctSymbols
  <2>7. QED
    BY <2>5, <2>6
<1>6. VectorsRelated(D)
  <2> SUFFICES ASSUME NEW n \in Typenos, NEW f \in Featnos, D.vec[<<n, f>>] # Absent
               PROVE  n \in ReadFeatureTypeRelations(D, f)
    BY DEF VectorsRelated
  <2>1. CASE db.vec[<<n, f>>] # Absent
    <3>1. n \in ReadFeatureTypeRelations(db, f)
      BY <2>1 DEF Consistent, VectorsRelated
    <3>2. QED
      BY <1>4, <3>1
  <2>2. CASE db.vec[<<n, f>>] = Absent
    <3>1. PICK i \in 1 .. Len(typetab[x]), j \in 1 .. Len(nametab[x]) : tn[i] = n /\ fn[j] = f
      BY <2>2 DEF Committed, VectorsGiven
    <3>2. defs[x].vec[<<typetab[x][i], nametab[x][j]>>] # Absent
      BY <2>2, <3>1 DEF Committed, VectorsGiven
    <3>3. <<j, i>> \in {r \in relations[x] : fn[r[1]] = f}
      BY <1>5, <3>1, <3>2
    <3>4. n \in {tn[r[2]] : r \in {r \in relations[x] : fn[r[1]] = f}}
      BY <3>1, <3>3
    <3>5. QED
      BY <1>4, <3>4
  <2>3. QED
    BY <2>1, <2>2
<1>7. RelationsNamed(D)
  <2> SUFFICES ASSUME NEW f \in Featnos, NEW n \in ReadFeatureTypeRelations(D, f)
               PROVE  D.typename[n] # Absent /\ D.featname[f] # Absent
    BY DEF RelationsNamed
  <2>1. CASE n \in ReadFeatureTypeRelations(db, f)
    <3>1. db.typename[n] # Absent /\ db.featname[f] # Absent
      BY <2>1 DEF Consistent, RelationsNamed
    <3>2. n \in Typenos
      <4>1. db \in Database
        BY DEF NumbersInv, TypeInv, TypeOK
      <4>2. QED
        BY <2>1, <4>1, ReadTypes
    <3>3. D.typename[n] = db.typename[n]
      BY <1>1, <3>1, <3>2 DEF TypesFound, SymbolsFound, Typenos
    <3>4. D.featname[f] = db.featname[f]
      BY <1>1, <3>1 DEF FeatsFound, SymbolsFound, Featnos
    <3>5. QED
      BY <3>1, <3>3, <3>4
  <2>2. CASE n \notin ReadFeatureTypeRelations(db, f)
    <3>1. PICK r \in relations[x] : fn[r[1]] = f /\ n = tn[r[2]]
      BY <1>4, <2>2
    <3>2. r[2] \in 1 .. Len(typetab[x]) /\ r[1] \in 1 .. Len(nametab[x])
      BY <1>3
    <3>3. D.typename[n] = typetab[x][r[2]] /\ typetab[x][r[2]] \in Types
      BY <1>1, <3>1, <3>2 DEF TypesFound, SymbolsFound
    <3>4. D.featname[f] = nametab[x][r[1]] /\ nametab[x][r[1]] \in Feats
      BY <1>1, <3>1, <3>2 DEF FeatsFound, SymbolsFound
    <3>5. QED
      BY <3>3, <3>4, MarkersAssumption
  <2>3. QED
    BY <2>1, <2>2
<1>8. QED
  BY <1>6, <1>7

\* The store as its readers see it is the store before the commit after the
\* definitions of x.
LEMMA CommittedTypes ==
    ASSUME NumbersInv, NEW x \in Trans, Faithful(x),
           NEW D, NEW tn, NEW fn, Committed(x, D, tn, fn)
    PROVE  StoredTypes(D) = StoredTypes(db) \cup defs[x].types
<1>1. TypesFound(x, D, tn)
  BY CommittedFound
<1>2. defs[x].types = {typetab[x][i] : i \in 1 .. Len(typetab[x])}
  BY DEF Faithful, TypesFaithful
<1>3. ASSUME NEW t \in StoredTypes(D) PROVE t \in StoredTypes(db) \cup defs[x].types
  <2>1. t \in Types /\ D.typeno[t] # Absent
    BY DEF StoredTypes
  <2>2. db.typeno[t] # Absent \/ \E i \in 1 .. Len(typetab[x]) : typetab[x][i] = t
    BY <1>1, <2>1 DEF TypesFound, SymbolsFound
  <2>3. QED
    BY <1>2, <2>1, <2>2 DEF StoredTypes
<1>4. ASSUME NEW t \in StoredTypes(db) PROVE t \in StoredTypes(D)
  BY <1>1 DEF StoredTypes, TypesFound, SymbolsFound
<1>5. ASSUME NEW t \in defs[x].types PROVE t \in StoredTypes(D)
  <2>1. PICK i \in 1 .. Len(typetab[x]) : t = typetab[x][i]
    BY <1>2
  <2>2. t \in Types /\ D.typeno[t] = tn[i] /\ tn[i] \in 1 .. MaxTypeno
    BY <1>1, <2>1 DEF TypesFound, SymbolsFound
  <2>3. D.typeno[t] # Absent
    BY <2>2, MarkersAssumption, BoundsAssumption
  <2>4. QED
    BY <2>2, <2>3 DEF StoredTypes
<1>6. QED
  BY <1>3, <1>4, <1>5

\* A type listed for a feature, by the numbers of both.
LEMMA FeatureTypesByNumber ==
    ASSUME NEW d \in Database, NEW t \in Types, NEW f \in Feats
    PROVE  t \in FeatureTypes(d, f) <=>
             /\ d.featno[f] # Absent
             /\ \E n \in ReadFeatureTypeRelations(d, d.featno[f]) : d.typename[n] = t
<1>1. d.featno[f] \in Featnos \cup {Absent}
  BY DEF Database
<1>2. ReadFeatno(d, f) = 0 <=> d.featno[f] = Absent
  BY <1>1, MarkersAssumption, BoundsAssumption DEF ReadFeatno, IndexValue, Featnos
<1>3. FeatureTypenos(d, f) =
        IF d.featno[f] = Absent THEN {} ELSE ReadFeatureTypeRelations(d, d.featno[f])
  BY <1>2 DEF FeatureTypenos
<1>4. QED
  BY <1>3 DEF FeatureTypes

LEMMA CommittedElements ==
    ASSUME NumbersInv, Consistent(db), NEW x \in Trans, Faithful(x),
           NEW D, NEW tn, NEW fn, Committed(x, D, tn, fn),
           NEW t \in Types, NEW f \in Feats
    PROVE  t \in FeatureTypes(D, f) <=>
             t \in FeatureTypes(db, f) \/ <<t, f>> \in defs[x].elems
<1>1. TypesFound(x, D, tn) /\ FeatsFound(x, D, fn)
  BY CommittedFound
<1>2. db \in Database /\ D \in Database
  BY DEF NumbersInv, TypeInv, TypeOK, Committed
<1>3. relations[x] \in SUBSET ((1 .. Len(nametab[x])) \X (1 .. Len(typetab[x])))
  BY DEF NumbersInv, TypeInv, RelationsInRange
<1>4. \A g \in Featnos :
        ReadFeatureTypeRelations(D, g) =
            ReadFeatureTypeRelations(db, g)
                \cup {tn[r[2]] : r \in {r \in relations[x] : fn[r[1]] = g}}
  BY DEF Committed, RelationsGiven
<1>5. defs[x].elems = {<<typetab[x][r[2]], nametab[x][r[1]]>> : r \in relations[x]}
  BY DEF Faithful, RelationsFaithful
<1>6. \A g \in Featnos : ReadFeatureTypeRelations(db, g) \subseteq Typenos
  BY <1>2, ReadTypes
<1>7. ASSUME t \in FeatureTypes(db, f) PROVE t \in FeatureTypes(D, f)
  <2>1. PICK n \in ReadFeatureTypeRelations(db, db.featno[f]) :
          db.featno[f] # Absent /\ db.typename[n] = t
    BY <1>2, <1>7, FeatureTypesByNumber
  <2>2. D.featno[f] = db.featno[f] /\ db.featno[f] \in Featnos
    BY <1>1, <2>1 DEF FeatsFound, SymbolsFound, Featnos
  <2>3. n \in Typenos
    BY <1>6, <2>2
  <2>4. D.typename[n] = t
    BY <1>1, <2>1, <2>3, MarkersAssumption DEF TypesFound, SymbolsFound, Typenos
  <2>5. n \in ReadFeatureTypeRelations(D, D.featno[f])
    BY <1>4, <2>2
  <2>6. QED
    BY <1>2, <2>1, <2>2, <2>4, <2>5, FeatureTypesByNumber
<1>8. ASSUME <<t, f>> \in defs[x].elems PROVE t \in FeatureTypes(D, f)
  <2>1. PICK r \in relations[x] : <<t, f>> = <<typetab[x][r[2]], nametab[x][r[1]]>>
    BY <1>5, <1>8
  <2>2. t = typetab[x][r[2]] /\ f = nametab[x][r[1]]
    BY <2>1
  <2>3. r[1] \in 1 .. Len(nametab[x]) /\ r[2] \in 1 .. Len(typetab[x])
    BY <1>3
  <2>4. D.featno[f] = fn[r[1]] /\ fn[r[1]] \in Featnos
    BY <1>1, <2>2, <2>3 DEF FeatsFound, SymbolsFound, Featnos
  <2>5. D.typename[tn[r[2]]] = t
    BY <1>1, <2>2, <2>3 DEF TypesFound, SymbolsFound
  <2>6. tn[r[2]] \in ReadFeatureTypeRelations(D, D.featno[f])
    BY <1>4, <2>4
  <2>7. D.featno[f] # Absent
    BY <2>4, MarkersAssumption, BoundsAssumption DEF Featnos
  <2>8. QED
    BY <1>2, <2>5, <2>6, <2>7, FeatureTypesByNumber
<1>9. ASSUME t \in FeatureTypes(D, f)
      PROVE  t \in FeatureTypes(db, f) \/ <<t, f>> \in defs[x].elems
  <2> DEFINE g == D.featno[f]
  <2>1. PICK n \in ReadFeatureTypeRelations(D, g) : g # Absent /\ D.typename[n] = t
    BY <1>2, <1>9, FeatureTypesByNumber
  <2>2. g \in Featnos /\ D.featname[g] = f
    BY <1>1, <2>1 DEF FeatsFound, SymbolsFound, Featnos
  <2> HIDE DEF g
  <2>3. CASE n \in ReadFeatureTypeRelations(db, g)
    <3>1. db.typename[n] # Absent /\ db.featname[g] # Absent /\ n \in Typenos
      BY <1>6, <2>2, <2>3 DEF Consistent, RelationsNamed
    <3>2. D.typename[n] = db.typename[n]
      BY <1>1, <3>1 DEF TypesFound, SymbolsFound, Typenos
    <3>3. D.featname[g] = db.featname[g] /\ db.featno[db.featname[g]] = g
      BY <1>1, <2>2, <3>1 DEF FeatsFound, SymbolsFound, Featnos
    <3>4. db.featno[f] = g /\ g # Absent /\ db.typename[n] = t
      BY <2>1, <2>2, <3>2, <3>3
    <3>5. t \in FeatureTypes(db, f)
      BY <1>2, <2>3, <3>4, FeatureTypesByNumber
    <3>6. QED
      BY <3>5
  <2>4. CASE n \notin ReadFeatureTypeRelations(db, g)
    <3>1. PICK r \in relations[x] : fn[r[1]] = g /\ n = tn[r[2]]
      BY <1>4, <2>2, <2>4
    <3>2. r[1] \in 1 .. Len(nametab[x]) /\ r[2] \in 1 .. Len(typetab[x])
      BY <1>3
    <3>3. D.typename[n] = typetab[x][r[2]]
      BY <1>1, <3>1, <3>2 DEF TypesFound, SymbolsFound
    <3>4. D.featname[g] = nametab[x][r[1]]
      BY <1>1, <3>1, <3>2 DEF FeatsFound, SymbolsFound
    <3>5. t = typetab[x][r[2]] /\ f = nametab[x][r[1]]
      BY <2>1, <2>2, <3>3, <3>4
    <3>6. QED
      BY <1>5, <3>5
  <2>5. QED
    BY <2>3, <2>4
<1>10. QED
  BY <1>7, <1>8, <1>9

\* A vector found, by the numbers of type and feature.
LEMMA VectorByNumber ==
    ASSUME NEW d \in Database, NEW t \in Types, NEW f \in Feats
    PROVE  FeatureVector(d, t, f) =
             IF d.typeno[t] = Absent \/ d.featno[f] = Absent THEN Absent
             ELSE d.vec[<<d.typeno[t], d.featno[f]>>]
<1>1. d.featno[f] \in Featnos \cup {Absent} /\ d.typeno[t] \in Typenos \cup {Absent}
  BY DEF Database
<1>2. ReadFeatno(d, f) = 0 <=> d.featno[f] = Absent
  BY <1>1, MarkersAssumption, BoundsAssumption DEF ReadFeatno, IndexValue, Featnos
<1>3. ReadTypeno(d, t) = 0 <=> d.typeno[t] = Absent
  BY <1>1, MarkersAssumption, BoundsAssumption DEF ReadTypeno, IndexValue, Typenos
<1>4. QED
  BY <1>2, <1>3 DEF FeatureVector

LEMMA CommittedVectors ==
    ASSUME NumbersInv, Consistent(db), NEW x \in Trans, Faithful(x),
           NEW D, NEW tn, NEW fn, Committed(x, D, tn, fn),
           NEW t \in Types, NEW f \in Feats
    PROVE  FeatureVector(D, t, f) =
             IF defs[x].vec[<<t, f>>] = Absent THEN FeatureVector(db, t, f)
             ELSE defs[x].vec[<<t, f>>]
<1>1. TypesFound(x, D, tn) /\ FeatsFound(x, D, fn)
  BY CommittedFound
<1>2. db \in Database /\ D \in Database
  BY DEF NumbersInv, TypeInv, TypeOK, Committed
<1>3. relations[x] \in SUBSET ((1 .. Len(nametab[x])) \X (1 .. Len(typetab[x])))
  BY DEF NumbersInv, TypeInv, RelationsInRange
<1>4. /\ \A i \in 1 .. Len(typetab[x]), j \in 1 .. Len(nametab[x]) :
           D.vec[<<tn[i], fn[j]>>] =
             IF defs[x].vec[<<typetab[x][i], nametab[x][j]>>] = Absent
             THEN db.vec[<<tn[i], fn[j]>>]
             ELSE defs[x].vec[<<typetab[x][i], nametab[x][j]>>]
      /\ \A n \in Typenos, g \in Featnos :
           (~ \E i \in 1 .. Len(typetab[x]), j \in 1 .. Len(nametab[x]) : tn[i] = n /\ fn[j] = g)
             => D.vec[<<n, g>>] = db.vec[<<n, g>>]
  BY DEF Committed, VectorsGiven
<1>5. CASE defs[x].vec[<<t, f>>] # Absent
  <2>1. <<t, f>> \in Types \X Feats
    OBVIOUS
  <2>2. <<t, f>> \in defs[x].elems
    BY <1>5, <2>1 DEF Faithful, VectorsFaithful
  <2>3. PICK r \in relations[x] : <<t, f>> = <<typetab[x][r[2]], nametab[x][r[1]]>>
    BY <2>2 DEF Faithful, RelationsFaithful
  <2>4. t = typetab[x][r[2]] /\ f = nametab[x][r[1]]
    BY <2>3
  <2>5. r[1] \in 1 .. Len(nametab[x]) /\ r[2] \in 1 .. Len(typetab[x])
    BY <1>3
  <2>6. D.featno[f] = fn[r[1]] /\ fn[r[1]] \in Featnos
    BY <1>1, <2>4, <2>5 DEF FeatsFound, SymbolsFound, Featnos
  <2>7. D.typeno[t] = tn[r[2]] /\ tn[r[2]] \in Typenos
    BY <1>1, <2>4, <2>5 DEF TypesFound, SymbolsFound, Typenos
  <2>8. D.vec[<<tn[r[2]], fn[r[1]]>>] = defs[x].vec[<<t, f>>]
    BY <1>4, <1>5, <2>4, <2>5
  <2>9. D.typeno[t] # Absent /\ D.featno[f] # Absent
    BY <2>6, <2>7, MarkersAssumption, BoundsAssumption DEF Typenos, Featnos
  <2>10. FeatureVector(D, t, f) = D.vec[<<D.typeno[t], D.featno[f]>>]
    BY <1>2, <2>9, VectorByNumber
  <2>11. QED
    BY <1>5, <2>6, <2>7, <2>8, <2>10
<1>6. CASE defs[x].vec[<<t, f>>] = Absent
  <2> DEFINE n == D.typeno[t]
             g == D.featno[f]
  <2>1. CASE n # Absent /\ g # Absent
    <3>1. n \in Typenos /\ D.typename[n] = t
      BY <1>1, <2>1 DEF TypesFound, SymbolsFound, Typenos
    <3>2. g \in Featnos /\ D.featname[g] = f
      BY <1>1, <2>1 DEF FeatsFound, SymbolsFound, Featnos
    <3>3. FeatureVector(D, t, f) = D.vec[<<n, g>>]
      BY <1>2, <2>1, VectorByNumber
    <3> HIDE DEF n, g
    <3>4. D.vec[<<n, g>>] = db.vec[<<n, g>>]
      <4>1. CASE \E i \in 1 .. Len(typetab[x]), j \in 1 .. Len(nametab[x]) : tn[i] = n /\ fn[j] = g
        <5>1. PICK i \in 1 .. Len(typetab[x]), j \in 1 .. Len(nametab[x]) : tn[i] = n /\ fn[j] = g
          BY <4>1
        <5>2. typetab[x][i] = t
          BY <1>1, <3>1, <5>1 DEF TypesFound, SymbolsFound
        <5>3. nametab[x][j] = f
          BY <1>1, <3>2, <5>1 DEF FeatsFound, SymbolsFound
        <5>4. QED
          BY <1>4, <1>6, <5>1, <5>2, <5>3
      <4>2. CASE ~ \E i \in 1 .. Len(typetab[x]), j \in 1 .. Len(nametab[x]) : tn[i] = n /\ fn[j] = g
        BY <1>4, <3>1, <3>2, <4>2
      <4>3. QED
        BY <4>1, <4>2
    <3>5. CASE db.typeno[t] # Absent /\ db.featno[f] # Absent
      <4>1. db.typeno[t] = n
        BY <1>1, <3>5 DEF TypesFound, SymbolsFound, n
      <4>2. db.featno[f] = g
        BY <1>1, <3>5 DEF FeatsFound, SymbolsFound, g
      <4>3. FeatureVector(db, t, f) = db.vec[<<n, g>>]
        BY <1>2, <3>5, <4>1, <4>2, VectorByNumber
      <4>4. QED
        BY <1>6, <3>3, <3>4, <4>3
    <3>6. CASE ~ (db.typeno[t] # Absent /\ db.featno[f] # Absent)
      <4>1. FeatureVector(db, t, f) = Absent
        BY ZenonT(30), <1>2, <3>6, VectorByNumber
      <4>2. db.vec[<<n, g>>] = Absent
        <5> SUFFICES ASSUME db.vec[<<n, g>>] # Absent PROVE FALSE
          OBVIOUS
        <5>1. n \in ReadFeatureTypeRelations(db, g)
          BY <3>1, <3>2 DEF Consistent, VectorsRelated
        <5>2. db.typename[n] # Absent /\ db.featname[g] # Absent
          BY <3>2, <5>1 DEF Consistent, RelationsNamed
        <5>3. db.typeno[t] = n
          BY <1>1, <3>1, <5>2 DEF TypesFound, SymbolsFound, Typenos
        <5>4. db.featno[f] = g
          BY <1>1, <3>2, <5>2 DEF FeatsFound, SymbolsFound, Featnos
        <5>5. QED
          BY <2>1, <3>6, <5>3, <5>4
      <4>3. QED
        BY <1>6, <3>3, <3>4, <4>1, <4>2
    <3>7. QED
      BY <3>5, <3>6
  <2>2. CASE n = Absent \/ g = Absent
    <3>1. FeatureVector(D, t, f) = Absent
      BY <1>2, <2>2, VectorByNumber
    <3>2. db.typeno[t] # Absent => n # Absent
      BY <1>1 DEF TypesFound, SymbolsFound
    <3>3. db.featno[f] # Absent => g # Absent
      BY <1>1 DEF FeatsFound, SymbolsFound
    <3>4. FeatureVector(db, t, f) = Absent
      BY ZenonT(30), <1>2, <2>2, <3>2, <3>3, VectorByNumber
    <3>5. QED
      BY <1>6, <3>1, <3>4
  <2>3. QED
    BY <2>1, <2>2
<1>7. QED
  BY <1>5, <1>6

\* A commit takes the store to the store after its definitions.
LEMMA CommittedStore ==
    ASSUME NumbersInv, Consistent(db), NEW x \in Trans, Faithful(x),
           NEW D, NEW tn, NEW fn, Committed(x, D, tn, fn)
    PROVE  StoreOf(D) = Store!After(StoreOf(db), defs[x])
<1>1. StoredTypes(D) = StoredTypes(db) \cup defs[x].types
  BY CommittedTypes
<1>2. \A t \in Types, f \in Feats :
        t \in FeatureTypes(D, f) <=> t \in FeatureTypes(db, f) \/ <<t, f>> \in defs[x].elems
  BY CommittedElements
<1>3. \A t \in Types, f \in Feats :
        FeatureVector(D, t, f) =
          IF defs[x].vec[<<t, f>>] = Absent THEN FeatureVector(db, t, f)
          ELSE defs[x].vec[<<t, f>>]
  BY CommittedVectors
<1>4. defs[x].clear = FALSE
  BY DEF Faithful
<1>5. defs[x].elems \subseteq Types \X Feats
  BY DEF NumbersInv, TypeInv, TypeOK, Definitions
<1>6. StoreOf(D).elems = StoreOf(db).elems \cup defs[x].elems
  <2>1. ASSUME NEW e \in Types \X Feats
        PROVE  e[1] \in FeatureTypes(D, e[2]) <=>
                 e[1] \in FeatureTypes(db, e[2]) \/ e \in defs[x].elems
    <3>1. e[1] \in Types /\ e[2] \in Feats /\ e = <<e[1], e[2]>>
      OBVIOUS
    <3>2. QED
      BY <1>2, <3>1
  <2>2. QED
    BY <1>5, <2>1 DEF StoreOf
<1>7. StoreOf(D).vec = [e \in Types \X Feats |->
                          IF defs[x].vec[e] = Absent THEN StoreOf(db).vec[e] ELSE defs[x].vec[e]]
  <2>1. ASSUME NEW e \in Types \X Feats
        PROVE  FeatureVector(D, e[1], e[2]) =
                 IF defs[x].vec[e] = Absent THEN FeatureVector(db, e[1], e[2]) ELSE defs[x].vec[e]
    <3>1. e[1] \in Types /\ e[2] \in Feats /\ e = <<e[1], e[2]>>
      OBVIOUS
    <3>2. QED
      BY <1>3, <3>1
  <2>2. QED
    BY <2>1 DEF StoreOf
<1>8. StoreOf(D).types = StoreOf(db).types \cup defs[x].types
  BY <1>1 DEF StoreOf
<1>9. StoreOf(D) = [types |-> StoreOf(D).types, elems |-> StoreOf(D).elems, vec |-> StoreOf(D).vec]
  BY DEF StoreOf
<1>10. Store!After(StoreOf(db), defs[x]) =
         [ types |-> StoreOf(db).types \cup defs[x].types,
           elems |-> StoreOf(db).elems \cup defs[x].elems,
           vec   |-> [e \in Types \X Feats |->
                        IF defs[x].vec[e] = Absent THEN StoreOf(db).vec[e] ELSE defs[x].vec[e]] ]
  BY <1>4 DEF Store!After
<1>11. QED
  BY <1>6, <1>7, <1>8, <1>9, <1>10

-----------------------------------------------------------------------------
(* A prepared commit.                                                      *)

LEMMA GivenOnce ==
    ASSUME NEW m, NEW tab, NEW nums, NEW nos, NEW names, NEW no, NEW na,
           NumbersGiven(m, tab, nums, nos, names, no, na),
           \A i, j \in 1 .. Len(tab) : tab[i] = tab[j] => i = j
    PROVE  \A i, j \in 1 .. Len(tab) : nums[i] = nums[j] => i = j
<1>1. \A i \in 1 .. Len(tab) : na[nums[i]] = tab[i]
  BY DEF NumbersGiven
<1>2. QED
  BY <1>1

LEMMA NumberedAt ==
    ASSUME NEW s, NEW fn, NEW any, NEW j \in DOMAIN s, s[j] \in VectorDef,
           s[j].id \in DOMAIN fn
    PROVE  Numbered(s, fn, any)[j].id = fn[s[j].id] /\ Numbered(s, fn, any)[j].vec = s[j].vec
<1> DEFINE q == s[j]
<1>1. Numbered(s, fn, any)[j] = [s[j] EXCEPT !.id = IF s[j].id \in DOMAIN fn THEN fn[s[j].id] ELSE any]
  BY DEF Numbered
<1>2. Numbered(s, fn, any)[j] = [q EXCEPT !.id = fn[q.id]] /\ q \in VectorDef
  BY <1>1
<1> HIDE DEF q
<1>3. Numbered(s, fn, any)[j].id = fn[q.id] /\ Numbered(s, fn, any)[j].vec = q.vec
  BY <1>2 DEF VectorDef
<1>4. QED
  BY <1>3 DEF q

LEMMA ElementsRenumbered ==
    ASSUME NumbersInv, NEW x \in Trans, Faithful(x),
           NEW tn \in [1 .. Len(typetab[x]) -> Typenos],
           NEW fn \in [1 .. Len(nametab[x]) -> Featnos],
           \A i, j \in 1 .. Len(typetab[x]) : tn[i] = tn[j] => i = j,
           \A i, j \in 1 .. Len(nametab[x]) : fn[i] = fn[j] => i = j,
           NEW any \in {1} \cup Featnos
    PROVE  ElementsNumbered(vecar[x], Renumbered(x, fn, any, Len(typetab[x])),
                            Len(typetab[x]), Len(nametab[x]), tn, fn)
<1> DEFINE e == vecar[x]
           m == Len(typetab[x])
           k == Len(nametab[x])
           el == Renumbered(x, fn, any, m)
<1>1. m \in Nat /\ k \in Nat /\ e \in Elements
  <2>1. /\ typetab[x] \in Seq(Types) /\ nametab[x] \in Seq(Feats)
        /\ vecar[x] \in Seq(Seq(VectorDef))
    BY DEF NumbersInv, TypeInv, TypeOK
  <2>2. QED
    BY <2>1, LenProperties DEF Elements
<1>2. Len(e) = m
  BY DEF Faithful
<1>3. el \in Elements /\ Len(el) = Len(e)
  BY <1>1, RenumberedType
<1>4. /\ DOMAIN e = 1 .. m
      /\ \A i \in 1 .. m : /\ Len(e[i]) \in Nat /\ DOMAIN e[i] = 1 .. Len(e[i])
                           /\ \A j \in 1 .. Len(e[i]) : e[i][j] \in VectorDef
  BY <1>1, <1>2, ElementType
<1>5. \A i \in 1 .. m : el[i] = Numbered(e[i], fn, any)
  <2>1. \A i \in 1 .. m : i <= m
    BY <1>1
  <2>2. QED
    BY <1>4, <2>1 DEF Renumbered
<1>6. \A i \in 1 .. m : Len(el[i]) = Len(e[i]) /\ Len(e[i]) <= MaxElements
  <2>1. ASSUME NEW i \in 1 .. m PROVE Len(el[i]) = Len(e[i])
    <3>1. DOMAIN el[i] = 1 .. Len(e[i])
      BY <1>4, <1>5 DEF Numbered
    <3>2. DOMAIN el[i] = 1 .. Len(el[i]) /\ Len(el[i]) \in Nat
      BY <1>2, <1>3, ElementType
    <3> HIDE DEF el, e
    <3>3. QED
      BY <1>4, <3>1, <3>2
  <2>2. QED
    BY <1>4, <2>1 DEF Faithful, SlotsBounded
<1>7. ASSUME NEW i \in 1 .. m, NEW j \in 1 .. Len(e[i])
      PROVE  e[i][j].id \in 1 .. k /\ el[i][j].id = fn[e[i][j].id] /\ el[i][j].vec = e[i][j].vec
  <2>1. i \in DOMAIN e /\ j \in DOMAIN e[i] /\ e[i][j] \in VectorDef
    BY <1>4
  <2>2. <<e[i][j].id, i>> \in relations[x]
    BY <2>1 DEF Faithful, ElementsRelated
  <2>3. e[i][j].id \in 1 .. k
    BY <2>2 DEF NumbersInv, TypeInv, RelationsInRange
  <2> DEFINE s == e[i]
  <2>4. j \in DOMAIN s /\ s[j] \in VectorDef /\ s[j].id \in DOMAIN fn
    BY <2>1, <2>3
  <2>5. el[i] = Numbered(s, fn, any)
    BY <1>5
  <2> HIDE DEF s, el
  <2>6. Numbered(s, fn, any)[j].id = fn[s[j].id] /\ Numbered(s, fn, any)[j].vec = s[j].vec
    BY SMTT(30), <2>4, NumberedAt
  <2>7. QED
    BY <2>3, <2>5, <2>6 DEF s
<1> HIDE DEF e, m, k, el
<1>8. ElementsNumbered(e, el, m, k, tn, fn)
  <2>1. tn \in [1 .. m -> Typenos] /\ fn \in [1 .. k -> Featnos]
    BY DEF m, k
  <2>2. /\ \A i, j \in 1 .. m : tn[i] = tn[j] => i = j
        /\ \A i, j \in 1 .. k : fn[i] = fn[j] => i = j
    BY DEF m, k
  <2>3. QED
    BY <1>1, <1>2, <1>3, <1>6, <1>7, <2>1, <2>2 DEF ElementsNumbered
<1>9. QED
  BY <1>8 DEF e, el, m, k

\* The relations read after the ones written have been committed.
LEMMA RelationsRead ==
    ASSUME NEW d \in Database, NEW D, NEW rels, NEW tn, NEW fn,
           \A r \in rels : tn[r[2]] \in Typenos,
           D.rel = MapOverlay(WrittenRelations([n \in Featnos |-> Keep], d, rels, tn, fn), d.rel),
           NEW f \in Featnos
    PROVE  ReadFeatureTypeRelations(D, f) =
             ReadFeatureTypeRelations(d, f) \cup {tn[r[2]] : r \in {r \in rels : fn[r[1]] = f}}
<1> DEFINE added == {tn[r[2]] : r \in {r \in rels : fn[r[1]] = f}}
           w == WrittenRelations([n \in Featnos |-> Keep], d, rels, tn, fn)
<1>1. w[f] = IF \E r \in rels : fn[r[1]] = f
             THEN ReadFeatureTypeRelations(d, f) \cup added ELSE Keep
  BY DEF WrittenRelations, MergedRelations
<1>2. added \subseteq Typenos /\ ReadFeatureTypeRelations(d, f) \subseteq Typenos
  <2>1. added \subseteq Typenos
    OBVIOUS
  <2>2. QED
    BY <2>1, ReadTypes
<1>3. (~ \E r \in rels : fn[r[1]] = f) => added = {}
  OBVIOUS
<1>4. D.rel[f] = IF w[f] = Keep THEN d.rel[f] ELSE w[f]
  <2>1. DOMAIN d.rel = Featnos
    BY DEF Database
  <2>2. QED
    BY <2>1 DEF MapOverlay, Overlay
<1> HIDE DEF w, added
<1>5. CASE \E r \in rels : fn[r[1]] = f
  <2>1. w[f] = ReadFeatureTypeRelations(d, f) \cup added
    BY <1>1, <1>5
  <2>2. w[f] \in SUBSET (1 .. MaxTypeno)
    BY <1>2, <2>1 DEF Typenos
  <2>3. w[f] # Keep /\ w[f] # Absent
    BY <2>2, MarkersAssumption
  <2>4. QED
    BY <1>4, <2>1, <2>3 DEF ReadFeatureTypeRelations, added
<1>6. CASE ~ \E r \in rels : fn[r[1]] = f
  <2>1. D.rel[f] = d.rel[f] /\ added = {}
    BY <1>1, <1>3, <1>4, <1>6
  <2>2. QED
    BY <2>1 DEF ReadFeatureTypeRelations, added
<1>7. QED
  BY <1>5, <1>6

LEMMA TypesGiven ==
    ASSUME NumbersInv, NEW x \in Trans, NumbersFit(x), NEW kt, NEW tn,
           kt = KnownTypes(db, typetab[x]), tn = TypeNumbers(db, typetab[x]), NEW no, NEW na,
           no = MapOverlay(WrittenNumbers([t \in Types |-> Keep], typetab[x], kt, tn), db.typeno),
           na = MapOverlay(WrittenNames([n \in Typenos |-> Keep], typetab[x], kt, tn), db.typename)
    PROVE  /\ NumbersGiven(MaxTypeno, typetab[x], tn, db.typeno, db.typename, no, na)
           /\ {n \in Typenos : db.typename[n] # Absent} = 1 .. ReadNofTypeno(db) =>
                {n \in Typenos : na[n] # Absent} = 1 .. ReadNofTypeno(db) + NofNew(kt)
<1> DEFINE L == Len(typetab[x])
           tab == typetab[x]
           c == ReadNofTypeno(db)
<1>1. db \in Database /\ tab \in Seq(Types)
  BY DEF NumbersInv, TypeInv, TypeOK
<1>2. L \in Nat /\ Len(tab) = L
  BY <1>1, LenProperties
<1>3. kt \in [1 .. L -> Nat] /\ c \in Nat
  BY <1>1, TypeNumbersType, ReadTypes DEF NumbersFit
<1>4. \A i \in 1 .. L : kt[i] = IndexValue(db.typeno[tab[i]])
  BY <1>1, LenProperties DEF KnownTypes, ReadTypeno
<1>5. c + NofNew(kt) <= MaxTypeno
  BY DEF NumbersFit
<1>6. tn = Allocated(kt, c)
  BY DEF TypeNumbers
<1>7. /\ db.typeno \in [Types -> (1 .. MaxTypeno) \cup {Absent}]
      /\ db.typename \in [1 .. MaxTypeno -> Types \cup {Absent}]
  BY <1>1 DEF Database, Typenos
<1>8. \A i, j \in DOMAIN tab : tab[i] = tab[j] => i = j
  BY DEF NumbersInv, DistinctSymbols
<1>9. InverseMaps(db.typeno, db.typename) /\ BelowCounter(db.typename, c)
  BY DEF NumbersInv, NumbersInverse, CountersAbove
<1>10. Absent \notin Types /\ Keep \notin Types /\ MaxTypeno \in Nat
  BY MarkersAssumption, BoundsAssumption
<1>11. /\ no = MapOverlay(WrittenNumbers([t \in Types |-> Keep], tab, kt, Allocated(kt, c)), db.typeno)
       /\ na = MapOverlay(WrittenNames([n \in 1 .. MaxTypeno |-> Keep], tab, kt, Allocated(kt, c)),
                          db.typename)
  BY <1>6 DEF Typenos
<1> HIDE DEF L, tab, c
<1>12. /\ NumbersGiven(MaxTypeno, tab, Allocated(kt, c), db.typeno, db.typename, no, na)
       /\ {n \in 1 .. MaxTypeno : db.typename[n] # Absent} = 1 .. c =>
            {n \in 1 .. MaxTypeno : na[n] # Absent} = 1 .. c + NofNew(kt)
  <2>1. NumbersReady(Types, MaxTypeno, tab, L, kt, c, db.typeno, db.typename)
    BY <1>1, <1>2, <1>3, <1>4, <1>5, <1>7, <1>8, <1>9, <1>10 DEF NumbersReady
  <2>2. QED
    BY <1>6, <1>11, <2>1, CommitGivesNumbers
<1>13. QED
  BY <1>6, <1>12 DEF L, tab, c, Typenos

LEMMA FeatsGiven ==
    ASSUME NumbersInv, NEW x \in Trans, NumbersFit(x), NEW kf, NEW fn,
           kf = KnownFeats(db, nametab[x]), fn = FeatNumbers(db, nametab[x]), NEW no, NEW na,
           no = MapOverlay(WrittenNumbers([f \in Feats |-> Keep], nametab[x], kf, fn), db.featno),
           na = MapOverlay(WrittenNames([n \in Featnos |-> Keep], nametab[x], kf, fn), db.featname)
    PROVE  /\ NumbersGiven(MaxFeatno, nametab[x], fn, db.featno, db.featname, no, na)
           /\ {n \in Featnos : db.featname[n] # Absent} = 1 .. ReadNofFeatno(db) =>
                {n \in Featnos : na[n] # Absent} = 1 .. ReadNofFeatno(db) + NofNew(kf)
<1> DEFINE L == Len(nametab[x])
           tab == nametab[x]
           c == ReadNofFeatno(db)
<1>1. db \in Database /\ tab \in Seq(Feats)
  BY DEF NumbersInv, TypeInv, TypeOK
<1>2. L \in Nat /\ Len(tab) = L
  BY <1>1, LenProperties
<1>3. kf \in [1 .. L -> Nat] /\ c \in Nat
  BY <1>1, FeatNumbersType, ReadTypes DEF NumbersFit
<1>4. \A i \in 1 .. L : kf[i] = IndexValue(db.featno[tab[i]])
  BY <1>1, LenProperties DEF KnownFeats, ReadFeatno
<1>5. c + NofNew(kf) <= MaxFeatno
  BY DEF NumbersFit
<1>6. fn = Allocated(kf, c)
  BY DEF FeatNumbers
<1>7. /\ db.featno \in [Feats -> (1 .. MaxFeatno) \cup {Absent}]
      /\ db.featname \in [1 .. MaxFeatno -> Feats \cup {Absent}]
  BY <1>1 DEF Database, Featnos
<1>8. \A i, j \in DOMAIN tab : tab[i] = tab[j] => i = j
  BY DEF NumbersInv, DistinctSymbols
<1>9. InverseMaps(db.featno, db.featname) /\ BelowCounter(db.featname, c)
  BY DEF NumbersInv, NumbersInverse, CountersAbove
<1>10. Absent \notin Feats /\ Keep \notin Feats /\ MaxFeatno \in Nat
  BY MarkersAssumption, BoundsAssumption
<1>11. /\ no = MapOverlay(WrittenNumbers([f \in Feats |-> Keep], tab, kf, Allocated(kf, c)), db.featno)
       /\ na = MapOverlay(WrittenNames([n \in 1 .. MaxFeatno |-> Keep], tab, kf, Allocated(kf, c)),
                          db.featname)
  BY <1>6 DEF Featnos
<1> HIDE DEF L, tab, c
<1>12. /\ NumbersGiven(MaxFeatno, tab, Allocated(kf, c), db.featno, db.featname, no, na)
       /\ {n \in 1 .. MaxFeatno : db.featname[n] # Absent} = 1 .. c =>
            {n \in 1 .. MaxFeatno : na[n] # Absent} = 1 .. c + NofNew(kf)
  <2>1. NumbersReady(Feats, MaxFeatno, tab, L, kf, c, db.featno, db.featname)
    BY <1>1, <1>2, <1>3, <1>4, <1>5, <1>7, <1>8, <1>9, <1>10 DEF NumbersReady
  <2>2. QED
    BY <1>6, <1>11, <2>1, CommitGivesNumbers
<1>13. QED
  BY <1>6, <1>12 DEF L, tab, c, Featnos

\* The vectors of the database after the commit.
LEMMA CommitVectorsGiven ==
    ASSUME NumbersInv, NEW x \in Trans, Faithful(x), NEW el, NEW tn, NEW fn,
           ElementsNumbered(vecar[x], el, Len(typetab[x]), Len(nametab[x]), tn, fn),
           NEW D,
           D.vec = MapOverlay(WrittenVectors([key \in Typenos \X Featnos |-> Keep], el, tn,
                                             Len(typetab[x])), db.vec)
    PROVE  VectorsGiven(x, D, tn, fn)
<1> DEFINE m == Len(typetab[x])
           k == Len(nametab[x])
           map == [key \in Typenos \X Featnos |-> Keep]
           w == WrittenVectors(map, el, tn, m)
<1>1. \A key \in Typenos \X Featnos : D.vec[key] = IF w[key] = Keep THEN db.vec[key] ELSE w[key]
  <2>1. DOMAIN db.vec = Typenos \X Featnos
    BY DEF NumbersInv, TypeInv, TypeOK, Database
  <2>2. QED
    BY <2>1 DEF MapOverlay, Overlay
<1>2. tn \in [1 .. m -> Typenos] /\ fn \in [1 .. k -> Featnos]
  BY DEF ElementsNumbered
<1>4. DOMAIN map = Typenos \X Featnos /\ \A key \in Typenos \X Featnos : map[key] = Keep
  OBVIOUS
<1>3. VectorsWritten(vecar[x], m, k, tn, fn, map, w)
  <2>1. ElementsNumbered(vecar[x], el, m, k, tn, fn)
    OBVIOUS
  <2> HIDE DEF m, k, map
  <2>2. QED
    BY <1>4, <2>1, CommitWritesVectors
<1>5. ASSUME NEW i \in 1 .. m, NEW j \in 1 .. k
      PROVE  LET v == defs[x].vec[<<typetab[x][i], nametab[x][j]>>]
             IN  D.vec[<<tn[i], fn[j]>>] = IF v = Absent THEN db.vec[<<tn[i], fn[j]>>] ELSE v
  <2> DEFINE v == defs[x].vec[<<typetab[x][i], nametab[x][j]>>]
             key == <<tn[i], fn[j]>>
  <2>1. LastVector(vecar[x][i], j, v)
    BY DEF Faithful, VectorsFaithful
  <2>2. v # Keep
    <3>1. typetab[x][i] \in Types /\ nametab[x][j] \in Feats
      <4>1. typetab[x] \in Seq(Types) /\ nametab[x] \in Seq(Feats)
        BY DEF NumbersInv, TypeInv, TypeOK
      <4>2. QED
        BY <4>1, LenProperties
    <3>2. v \in Vecs \cup {Absent}
      BY <3>1 DEF NumbersInv, TypeInv, TypeOK, Definitions
    <3>3. QED
      BY <3>2, MarkersAssumption
  <2>3. key \in Typenos \X Featnos
    BY <1>2
  <2> HIDE DEF v, m, k, map, w
  <2>4. w[<<tn[i], fn[j]>>] = IF v = Absent THEN map[<<tn[i], fn[j]>>] ELSE v
    BY <1>3, <2>1 DEF VectorsWritten
  <2>5. w[key] = IF v = Absent THEN Keep ELSE v
    BY <1>4, <2>3, <2>4
  <2> HIDE DEF key
  <2>6. D.vec[key] = IF v = Absent THEN db.vec[key] ELSE v
    BY <1>1, <2>2, <2>3, <2>5
  <2>7. QED
    BY <2>6 DEF key, v
<1>6. ASSUME NEW n \in Typenos, NEW f \in Featnos,
             ~ \E i \in 1 .. m, j \in 1 .. k : tn[i] = n /\ fn[j] = f
      PROVE  D.vec[<<n, f>>] = db.vec[<<n, f>>]
  <2>1. <<n, f>> \in Typenos \X Featnos
    OBVIOUS
  <2> HIDE DEF m, k, map, w
  <2>2. w[<<n, f>>] = map[<<n, f>>]
    BY <1>3, <1>6 DEF VectorsWritten
  <2>3. w[<<n, f>>] = Keep
    BY <1>4, <2>1, <2>2
  <2>4. QED
    BY <1>1, <2>1, <2>3
<1>7. QED
  BY <1>5, <1>6 DEF VectorsGiven

\* The counters of vectors of the database after the commit.
LEMMA CommitCountsVectors ==
    ASSUME NumbersInv, Consistent(db), NEW x \in Trans, Faithful(x), NEW el, NEW tn, NEW fn,
           ElementsNumbered(vecar[x], el, Len(typetab[x]), Len(nametab[x]), tn, fn),
           NEW kt, kt = KnownTypes(db, typetab[x]),
           NEW D, Committed(x, D, tn, fn),
           D.nofvec = MapOverlay(WrittenCounts([n \in Typenos |-> Keep], db, el, kt, tn,
                                               Len(typetab[x])), db.nofvec)
    PROVE  VectorsCounted(D)
<1> DEFINE m == Len(typetab[x])
           k == Len(nametab[x])
           map == [n \in Typenos |-> Keep]
           w == WrittenCounts(map, db, el, kt, tn, m)
<1>1. db \in Database /\ typetab[x] \in Seq(Types)
  BY DEF NumbersInv, TypeInv, TypeOK
<1>2. m \in Nat /\ DOMAIN typetab[x] = 1 .. m /\ \A i \in 1 .. m : typetab[x][i] \in Types
  BY <1>1, LenProperties
<1>3. \A n \in Typenos : D.nofvec[n] = IF w[n] = Keep THEN db.nofvec[n] ELSE w[n]
  <2>1. DOMAIN db.nofvec = Typenos
    BY <1>1 DEF Database
  <2>2. QED
    BY <2>1 DEF MapOverlay, Overlay
<1>4. /\ el \in Elements /\ DOMAIN el = 1 .. m /\ tn \in [1 .. m -> Typenos]
      /\ \A a, b \in 1 .. m : tn[a] = tn[b] => a = b
  <2>1. el \in Elements /\ Len(el) = m
    BY DEF ElementsNumbered
  <2>2. DOMAIN el = 1 .. m
    BY <2>1, ElementType
  <2>3. QED
    BY <2>1, <2>2 DEF ElementsNumbered
<1>5. VectorsGiven(x, D, tn, fn)
  BY DEF Committed
<1>6. DOMAIN map = Typenos /\ \A n \in Typenos : map[n] = Keep
  OBVIOUS
<1>7. Keep \notin Nat /\ Absent \notin Nat
  BY MarkersAssumption
<1>8. ASSUME NEW i \in 1 .. m
      PROVE  ReadNofVectors(D, tn[i]) = Cardinality(WithVector(D.vec, tn[i]))
  <2> DEFINE n == tn[i]
             new == NewVectors(db, el[i], n)
             old == WithVector(db.vec, n)
             vd == [j \in 1 .. k |-> defs[x].vec[<<typetab[x][i], nametab[x][j]>>]]
             dv == D.vec
             e == vecar[x]
  <2>1. Cardinality(WithVector(dv, tn[i])) =
          Cardinality(WithVector(db.vec, tn[i])) + Cardinality(NewVectors(db, el[i], tn[i]))
    <3>1. \A j \in 1 .. k : LastVector(e[i], j, vd[j])
      BY DEF Faithful, VectorsFaithful
    <3>2. \A j \in 1 .. k : dv[<<tn[i], fn[j]>>] =
                              IF vd[j] = Absent THEN db.vec[<<tn[i], fn[j]>>] ELSE vd[j]
      BY <1>5 DEF VectorsGiven
    <3>3. \A f \in Featnos : (\A j \in 1 .. k : fn[j] # f) => dv[<<tn[i], f>>] = db.vec[<<tn[i], f>>]
      BY <1>4, <1>5 DEF VectorsGiven
    <3>4. ElementsNumbered(e, el, m, k, tn, fn)
      OBVIOUS
    <3> HIDE DEF vd, dv, e, m, k
    <3>5. RowGiven(e[i], k, tn[i], fn, vd, db.vec, dv)
      BY <3>1, <3>2, <3>3 DEF RowGiven
    <3>6. QED
      BY <1>1, <3>4, <3>5, NewVectorsCounted
  <2>2. n \in Typenos
    BY <1>4
  <2>3. w[n] = NewNofVectors(db, el[i], n, kt[i] = 0)
    <3> HIDE DEF map, m
    <3>1. n \in DOMAIN map /\ n = tn[i]
      BY <1>6, <2>2
    <3> HIDE DEF n
    <3>2. WrittenCounts(map, db, el, kt, tn, m)[n] = NewNofVectors(db, el[i], n, kt[i] = 0)
      BY <1>2, <1>4, <3>1, CountWritten
    <3>3. QED
      BY <3>2
  <2>4. w[n] \in Nat
    <3>1. (kt[i] = 0) \in BOOLEAN /\ i \in DOMAIN el
      BY <1>4
    <3>2. NewNofVectors(db, el[i], n, kt[i] = 0) \in Nat
      BY <1>1, <1>4, <2>2, <3>1, NewNofVectorsType
    <3>3. QED
      BY <2>3, <3>2
  <2>5. ReadNofVectors(db, n) = Cardinality(old)
    BY <2>2 DEF Consistent, VectorsCounted, WithVector
  <2>6. kt[i] = 0 => Cardinality(old) = 0
    <3> SUFFICES ASSUME kt[i] = 0 PROVE Cardinality(old) = 0
      OBVIOUS
    <3>1. db.typeno[typetab[x][i]] = Absent
      <4>1. IndexValue(db.typeno[typetab[x][i]]) = 0
        BY <1>2 DEF KnownTypes, ReadTypeno
      <4>2. db.typeno[typetab[x][i]] \in Typenos \cup {Absent}
        BY <1>1, <1>2 DEF Database
      <4>3. QED
        BY <4>1, <4>2, BoundsAssumption DEF IndexValue, Typenos
    <3>2. db.typename[n] = Absent
      <4>1. \/ db.typeno[typetab[x][i]] = Absent /\ db.typename[tn[i]] = Absent
            \/ db.typeno[typetab[x][i]] = tn[i] /\ db.typename[tn[i]] = typetab[x][i]
        BY DEF Committed, NumbersGiven
      <4>2. tn[i] # Absent
        BY <1>7, <2>2, BoundsAssumption DEF Typenos
      <4>3. QED
        BY <3>1, <4>1, <4>2
    <3>3. \A f \in Featnos : db.vec[<<n, f>>] = Absent
      BY <2>2, <3>2 DEF Consistent, VectorsRelated, RelationsNamed
    <3>4. old = {}
      BY <3>3 DEF WithVector
    <3>5. QED
      BY <3>4, FS_EmptySet
  <2>7. w[n] = (IF kt[i] = 0 THEN 0 ELSE ReadNofVectors(db, n)) + Cardinality(new)
    BY <2>3 DEF NewNofVectors
  <2>8. w[n] = Cardinality(old) + Cardinality(new)
    <3> HIDE DEF w, old, new
    <3>1. QED
      BY <2>5, <2>6, <2>7
  <2>9. ReadNofVectors(D, n) = w[n]
    <3> HIDE DEF w, n
    <3>1. D.nofvec[n] = w[n] /\ w[n] # Absent
      BY <1>3, <1>7, <2>2, <2>4
    <3>2. QED
      BY <3>1 DEF ReadNofVectors, IndexValue
  <2>10. QED
    BY <2>1, <2>8, <2>9
<1>9. ASSUME NEW n \in Typenos, \A i \in 1 .. m : tn[i] # n
      PROVE  ReadNofVectors(D, n) = Cardinality(WithVector(D.vec, n))
  <2>1. w[n] = Keep
    <3> HIDE DEF map, m
    <3>1. n \in DOMAIN map /\ map[n] = Keep
      BY <1>6
    <3>2. QED
      BY <1>9, <3>1, CountKept
  <2>2. D.nofvec[n] = db.nofvec[n]
    BY <1>3, <2>1
  <2>3. \A f \in Featnos : D.vec[<<n, f>>] = db.vec[<<n, f>>]
    BY <1>5, <1>9 DEF VectorsGiven
  <2>4. WithVector(D.vec, n) = WithVector(db.vec, n)
    BY <2>3 DEF WithVector
  <2>5. ReadNofVectors(D, n) = ReadNofVectors(db, n)
    BY <2>2 DEF ReadNofVectors
  <2>6. QED
    BY <2>4, <2>5 DEF Consistent, VectorsCounted, WithVector
<1>10. QED
  <2>1. ASSUME NEW n \in Typenos
        PROVE  ReadNofVectors(D, n) = Cardinality(WithVector(D.vec, n))
    BY <1>8, <1>9
  <2>2. QED
    BY <2>1 DEF VectorsCounted, WithVector

\* The batch that a commit prepares takes the database to one that is
\* consistent and holds the definitions of the transaction.
LEMMA CommitPrepared ==
    ASSUME NumbersInv, TypeInv', OpenFaithful, Consistent(db), Usage = {},
           NEW x \in Trans, PrepareCommit(x), NEW D, D = Applied(batch'[x], db)
    PROVE  Consistent(D) /\ StoreOf(D) = Store!After(StoreOf(db), defs[x])
<1>1. /\ db \in Database /\ batch \in [Trans -> Batch] /\ batch'[x] \in Batch
      /\ typetab[x] \in Seq(Types) /\ nametab[x] \in Seq(Feats)
  BY DEF NumbersInv, TypeInv, TypeOK
<1>2. pc[x] = "open" /\ NumbersFit(x)
  BY DEF PrepareCommit, MayCommit
<1>3. Faithful(x) /\ batch[x] = EmptyBatch
  BY <1>2 DEF OpenFaithful, NumbersInv, OpenBatchEmpty
<1>4. PICK any \in AnyNumber(x) :
        batch' = [batch EXCEPT ![x] =
                    FilledBatch(x, Renumbered(x, FeatNumbers(db, nametab[x]), any, Len(typetab[x])),
                                Len(typetab[x]), relations[x])]
  BY DEF PrepareCommit
<1> DEFINE kt == KnownTypes(db, typetab[x])
           kf == KnownFeats(db, nametab[x])
           tn == TypeNumbers(db, typetab[x])
           fn == FeatNumbers(db, nametab[x])
           m == Len(typetab[x])
           k == Len(nametab[x])
           el == Renumbered(x, fn, any, m)
           filled == FilledBatch(x, el, m, relations[x])
<1>5. batch'[x] = filled
  BY <1>1, <1>4
<1>6. /\ filled.typeno = WrittenNumbers([t \in Types |-> Keep], typetab[x], kt, tn)
      /\ filled.typename = WrittenNames([n \in Typenos |-> Keep], typetab[x], kt, tn)
      /\ filled.featno = WrittenNumbers([f \in Feats |-> Keep], nametab[x], kf, fn)
      /\ filled.featname = WrittenNames([n \in Featnos |-> Keep], nametab[x], kf, fn)
  BY <1>3 DEF FilledBatch, EmptyBatch
<1>7. /\ filled.vec = WrittenVectors([key \in Typenos \X Featnos |-> Keep], el, tn, m)
      /\ filled.simhash = WrittenVectors([key \in Typenos \X Featnos |-> Keep], el, tn, m)
      /\ filled.nofvec = WrittenCounts([n \in Typenos |-> Keep], db, el, kt, tn, m)
      /\ filled.rel = WrittenRelations([n \in Featnos |-> Keep], db, relations[x], tn, fn)
  BY <1>3 DEF FilledBatch, EmptyBatch
<1>8. /\ filled.noftypeno = ReadNofTypeno(db) + NofNew(kt)
      /\ filled.noffeatno = ReadNofFeatno(db) + NofNew(kf)
  BY DEF FilledBatch
<1> HIDE DEF filled, el
<1>9. /\ D.typeno = MapOverlay(filled.typeno, db.typeno)
      /\ D.typename = MapOverlay(filled.typename, db.typename)
      /\ D.featno = MapOverlay(filled.featno, db.featno)
      /\ D.featname = MapOverlay(filled.featname, db.featname)
      /\ D.vec = MapOverlay(filled.vec, db.vec)
      /\ D.simhash = MapOverlay(filled.simhash, db.simhash)
      /\ D.nofvec = MapOverlay(filled.nofvec, db.nofvec)
      /\ D.noftypeno = Overlay(filled.noftypeno, db.noftypeno)
      /\ D.noffeatno = Overlay(filled.noffeatno, db.noffeatno)
      /\ D.rel = MapOverlay(filled.rel, db.rel)
  BY <1>5 DEF Applied
<1>10. D \in Database
  BY <1>1, AppliedType
<1>11. /\ tn \in [1 .. m -> Typenos] /\ fn \in [1 .. k -> Featnos]
       /\ NofNew(kt) \in Nat /\ NofNew(kf) \in Nat
       /\ ReadNofTypeno(db) \in Nat /\ ReadNofFeatno(db) \in Nat
  BY <1>1, <1>2, TypeNumbersType, FeatNumbersType, ReadTypes DEF NumbersFit
<1>12. any \in {1} \cup Featnos
  BY DEF AnyNumber
<1>13. NamesCounted(db)
  BY DEF Consistent
<1>14. kt = KnownTypes(db, typetab[x]) /\ tn = TypeNumbers(db, typetab[x])
  OBVIOUS
<1>15. kf = KnownFeats(db, nametab[x]) /\ fn = FeatNumbers(db, nametab[x])
  OBVIOUS
<1> HIDE DEF kt, kf, tn, fn
<1>16. /\ NumbersGiven(MaxTypeno, typetab[x], tn, db.typeno, db.typename, D.typeno, D.typename)
       /\ {n \in Typenos : D.typename[n] # Absent} = 1 .. ReadNofTypeno(db) + NofNew(kt)
  <2> DEFINE no == D.typeno
             na == D.typename
  <2>1. /\ no = MapOverlay(WrittenNumbers([t \in Types |-> Keep], typetab[x], kt, tn), db.typeno)
        /\ na = MapOverlay(WrittenNames([n \in Typenos |-> Keep], typetab[x], kt, tn), db.typename)
    BY <1>6, <1>9
  <2> HIDE DEF no, na
  <2>2. /\ NumbersGiven(MaxTypeno, typetab[x], tn, db.typeno, db.typename, no, na)
        /\ {n \in Typenos : db.typename[n] # Absent} = 1 .. ReadNofTypeno(db) =>
             {n \in Typenos : na[n] # Absent} = 1 .. ReadNofTypeno(db) + NofNew(kt)
    BY <1>2, <1>14, <2>1, TypesGiven
  <2>3. QED
    BY <1>13, <2>2 DEF NamesCounted, no, na
<1>17. /\ NumbersGiven(MaxFeatno, nametab[x], fn, db.featno, db.featname, D.featno, D.featname)
       /\ {n \in Featnos : D.featname[n] # Absent} = 1 .. ReadNofFeatno(db) + NofNew(kf)
  <2> DEFINE no == D.featno
             na == D.featname
  <2>1. /\ no = MapOverlay(WrittenNumbers([f \in Feats |-> Keep], nametab[x], kf, fn), db.featno)
        /\ na = MapOverlay(WrittenNames([n \in Featnos |-> Keep], nametab[x], kf, fn), db.featname)
    BY <1>6, <1>9
  <2> HIDE DEF no, na
  <2>2. /\ NumbersGiven(MaxFeatno, nametab[x], fn, db.featno, db.featname, no, na)
        /\ {n \in Featnos : db.featname[n] # Absent} = 1 .. ReadNofFeatno(db) =>
             {n \in Featnos : na[n] # Absent} = 1 .. ReadNofFeatno(db) + NofNew(kf)
    BY <1>2, <1>15, <2>1, FeatsGiven
  <2>3. QED
    BY <1>13, <2>2 DEF NamesCounted, no, na
<1>18. NamesCounted(D)
  <2>1. /\ ReadNofTypeno(D) = ReadNofTypeno(db) + NofNew(kt)
        /\ ReadNofFeatno(D) = ReadNofFeatno(db) + NofNew(kf)
    <3> DEFINE a == ReadNofTypeno(db) + NofNew(kt)
               b == ReadNofFeatno(db) + NofNew(kf)
    <3>1. a \in Nat /\ b \in Nat
      BY <1>11
    <3>2. D.noftypeno = Overlay(a, db.noftypeno) /\ D.noffeatno = Overlay(b, db.noffeatno)
      BY <1>8, <1>9
    <3> HIDE DEF a, b
    <3>3. D.noftypeno = a /\ D.noffeatno = b /\ a # Absent /\ b # Absent
      BY <3>1, <3>2, MarkersAssumption DEF Overlay
    <3>4. QED
      BY <3>3 DEF ReadNofTypeno, ReadNofFeatno, IndexValue, a, b
  <2>2. QED
    BY <1>16, <1>17, <2>1 DEF NamesCounted
<1>19. ElementsNumbered(vecar[x], el, m, k, tn, fn)
  <2>1. /\ \A i, j \in 1 .. m : typetab[x][i] = typetab[x][j] => i = j
        /\ \A i, j \in 1 .. k : nametab[x][i] = nametab[x][j] => i = j
    BY <1>1, LenProperties DEF NumbersInv, DistinctSymbols
  <2>2. \A i, j \in 1 .. m : tn[i] = tn[j] => i = j
    BY <1>16, <2>1, GivenOnce
  <2>3. \A i, j \in 1 .. k : fn[i] = fn[j] => i = j
    BY <1>17, <2>1, GivenOnce
  <2>4. QED
    BY <1>3, <1>11, <1>12, <2>2, <2>3, ElementsRenumbered DEF el
<1>20. VectorsGiven(x, D, tn, fn)
  BY <1>3, <1>7, <1>9, <1>19, CommitVectorsGiven
<1>21. RelationsGiven(x, D, tn, fn)
  <2>1. relations[x] \in SUBSET ((1 .. k) \X (1 .. m))
    BY DEF NumbersInv, TypeInv, RelationsInRange
  <2>2. \A r \in relations[x] : tn[r[2]] \in Typenos
    BY <1>11, <2>1
  <2>3. D.rel = MapOverlay(WrittenRelations([n \in Featnos |-> Keep], db, relations[x], tn, fn), db.rel)
    BY <1>7, <1>9
  <2> DEFINE rels == relations[x]
  <2>4. (\A r \in rels : tn[r[2]] \in Typenos)
        /\ D.rel = MapOverlay(WrittenRelations([n \in Featnos |-> Keep], db, rels, tn, fn), db.rel)
    BY <2>2, <2>3
  <2> HIDE DEF rels
  <2>5. \A f \in Featnos :
           ReadFeatureTypeRelations(D, f) =
             ReadFeatureTypeRelations(db, f) \cup {tn[r[2]] : r \in {r \in rels : fn[r[1]] = f}}
    BY <1>1, <2>4, RelationsRead
  <2>6. QED
    BY <2>5 DEF RelationsGiven, rels
<1>22. Committed(x, D, tn, fn)
  BY <1>10, <1>16, <1>17, <1>20, <1>21 DEF Committed
<1>23. VectorsCounted(D)
  <2>1. D.nofvec = MapOverlay(WrittenCounts([n \in Typenos |-> Keep], db, el, kt, tn, m), db.nofvec)
    BY <1>7, <1>9
  <2>2. QED
    BY <1>3, <1>14, <1>19, <1>22, <2>1, CommitCountsVectors
<1>24. D.simhash = D.vec
  BY <1>7, <1>9 DEF Consistent
<1>25. VectorsRelated(D) /\ RelationsNamed(D)
  BY <1>3, <1>22, CommittedRelations
<1>26. StoreOf(D) = Store!After(StoreOf(db), defs[x])
  BY <1>3, <1>22, CommittedStore
<1>27. QED
  BY <1>18, <1>23, <1>24, <1>25, <1>26 DEF Consistent

-----------------------------------------------------------------------------
(* The invariant of the transactions.  Between the preparation of a commit *)
(* and its outcome the batch takes the database to the next abstract state *)
(* and keeps it consistent; the mutex keeps the database as it is.         *)

Prepared(D, d, p) == Consistent(D) /\ StoreOf(D) = Store!After(StoreOf(d), p)

PreparedStores ==
    \A x \in Trans : pc[x] = "prepared" => Prepared(Applied(batch[x], db), db, defs[x])

StoreInv ==
    /\ NumbersInv
    /\ OpenFaithful
    /\ Consistent(db)
    /\ PreparedStores

LEMMA StoreInit == Init => StoreInv
<1> SUFFICES ASSUME Init PROVE StoreInv
  OBVIOUS
<1>1. NumbersInv /\ OpenFaithful
  BY NumbersInit, FaithfulInit
<1>2. PreparedStores
  BY DEF Init, PreparedStores
<1> DEFINE d == CreateStorage(LexerTypes)
<1>3. /\ Len(LexerTypes) \in Nat /\ DOMAIN LexerTypes = 1 .. Len(LexerTypes)
      /\ \A i \in DOMAIN LexerTypes : LexerTypes[i] \in Types
  BY LexerAssumption, LenProperties
<1>4. DOMAIN LexerTypes \subseteq Typenos
  BY <1>3, LexerAssumption, BoundsAssumption DEF Typenos
<1>5. Absent \notin Types /\ Absent \notin Nat
  BY MarkersAssumption
<1>6. /\ \A n \in Typenos : d.typename[n] # Absent <=> n \in DOMAIN LexerTypes
  BY <1>3, <1>5 DEF CreateStorage
<1>7. /\ \A n \in Featnos : d.featname[n] = Absent /\ d.rel[n] = Absent
      /\ \A n \in Typenos : d.nofvec[n] = Absent
      /\ \A n \in Typenos, f \in Featnos : d.vec[<<n, f>>] = Absent
      /\ d.noftypeno = Len(LexerTypes) /\ d.noffeatno = Absent
      /\ d.simhash = d.vec
  BY DEF CreateStorage
<1> HIDE DEF d
<1>8. ReadNofTypeno(d) = Len(LexerTypes) /\ ReadNofFeatno(d) = 0
  BY <1>3, <1>5, <1>7 DEF ReadNofTypeno, ReadNofFeatno, IndexValue
<1>9. {n \in Typenos : d.typename[n] # Absent} = 1 .. ReadNofTypeno(d)
  BY <1>3, <1>4, <1>6, <1>8
<1>10. {n \in Featnos : d.featname[n] # Absent} = 1 .. ReadNofFeatno(d)
  BY <1>7, <1>8
<1>11. VectorsCounted(d)
  <2>1. ASSUME NEW n \in Typenos
        PROVE  ReadNofVectors(d, n) = Cardinality({f \in Featnos : d.vec[<<n, f>>] # Absent})
    <3>1. {f \in Featnos : d.vec[<<n, f>>] # Absent} = {}
      BY <1>7
    <3>2. ReadNofVectors(d, n) = 0
      BY <1>7 DEF ReadNofVectors, IndexValue
    <3>3. QED
      BY <3>1, <3>2, FS_EmptySet
  <2>2. QED
    BY <2>1 DEF VectorsCounted
<1>12. VectorsRelated(d) /\ RelationsNamed(d)
  BY <1>7 DEF VectorsRelated, RelationsNamed, ReadFeatureTypeRelations
<1>13. Consistent(d)
  BY <1>7, <1>9, <1>10, <1>11, <1>12 DEF Consistent, NamesCounted
<1>14. db = d
  BY DEF Init, d
<1>15. QED
  BY <1>1, <1>2, <1>13, <1>14 DEF StoreInv

\* A transaction stays prepared while its batch and the database are kept.
LEMMA PreparedFrame ==
    ASSUME StoreInv, db' = db,
           \A x \in Trans : pc'[x] = "prepared" =>
               pc[x] = "prepared" /\ batch'[x] = batch[x] /\ defs'[x] = defs[x]
    PROVE  PreparedStores'
<1>1. ASSUME NEW x \in Trans, pc'[x] = "prepared"
      PROVE  Prepared(Applied(batch'[x], db'), db', defs'[x])
  <2>1. Prepared(Applied(batch[x], db), db, defs[x])
    BY <1>1 DEF StoreInv, PreparedStores
  <2>2. batch'[x] = batch[x] /\ defs'[x] = defs[x] /\ db' = db
    BY <1>1
  <2> HIDE DEF Prepared
  <2>3. QED
    BY <2>1, <2>2
<1>2. QED
  BY <1>1 DEF PreparedStores

\* A step that neither prepares a commit nor changes the database.
LEMMA StoreKept ==
    ASSUME StoreInv, NumbersInv', NEW x \in Trans, Step(x), db' = db,
           pc[x] # "prepared" \/ pc'[x] # "prepared", pc'[x] = pc[x] \/ pc'[x] # "prepared"
    PROVE  Consistent(db') /\ PreparedStores'
<1>1. TypeInv
  BY DEF StoreInv, NumbersInv
<1>2. ASSUME NEW y \in Trans, pc'[y] = "prepared"
      PROVE  pc[y] = "prepared" /\ batch'[y] = batch[y] /\ defs'[y] = defs[y]
  BY <1>1, <1>2, OtherTables
<1>3. PreparedStores'
  BY <1>2, PreparedFrame
<1>4. Consistent(db)
  BY DEF StoreInv
<1>5. QED
  BY <1>3, <1>4

LEMMA StorePrepareCommit ==
    ASSUME StoreInv, NumbersInv', Usage = {}, NEW x \in Trans, PrepareCommit(x)
    PROVE  PreparedStores'
<1>1. /\ TypeInv /\ TypeInv' /\ NumbersInv /\ OpenFaithful /\ Consistent(db)
  BY DEF StoreInv, NumbersInv
<1>2. db' = db /\ defs' = defs
  BY DEF PrepareCommit
<1>3. Prepared(Applied(batch'[x], db), db, defs[x])
  BY <1>1, CommitPrepared DEF Prepared
<1>4. \A y \in Trans : pc'[y] = "prepared" => lock' = y
  BY DEF NumbersInv, CommitsExclusive
<1>5. lock' = x
  BY DEF PrepareCommit, LockAcquired
<1>6. \A y \in Trans : pc'[y] = "prepared" => y = x
  BY <1>4, <1>5
<1> HIDE DEF Prepared
<1>7. QED
  BY <1>2, <1>3, <1>6 DEF PreparedStores

LEMMA StoreCommitSucceeds ==
    ASSUME StoreInv, NumbersInv', NEW x \in Trans, CommitSucceeds(x)
    PROVE  Consistent(db') /\ PreparedStores'
<1>1. pc[x] = "prepared" /\ db' = Applied(batch[x], db)
  BY DEF CommitSucceeds
<1>2. Consistent(db')
  BY <1>1 DEF StoreInv, PreparedStores, Prepared
<1>3. \A y \in Trans : pc'[y] = "prepared" => lock' = y
  BY DEF NumbersInv, CommitsExclusive
<1>4. lock' = NoTrans
  BY DEF CommitSucceeds
<1>5. \A y \in Trans : pc'[y] # "prepared"
  BY <1>3, <1>4, TransAssumption
<1>6. QED
  BY <1>2, <1>5 DEF PreparedStores

LEMMA StoreStep == Usage = {} /\ StoreInv /\ [Next]_vars => StoreInv'
<1> SUFFICES ASSUME Usage = {}, StoreInv, [Next]_vars PROVE StoreInv'
  OBVIOUS
<1>1. NumbersInv' /\ OpenFaithful'
  BY NumbersStep, FaithfulStep DEF StoreInv
<1>2. pc \in [Trans -> {"open", "prepared", "failed"}]
  BY DEF StoreInv, NumbersInv, TypeInv, TypeOK
<1>3. CASE UNCHANGED vars
  <2>1. PreparedStores'
    BY <1>3, PreparedFrame DEF vars
  <2>2. Consistent(db')
    BY <1>3 DEF vars, StoreInv
  <2>3. QED
    BY <1>1, <2>1, <2>2 DEF StoreInv
<1>4. ASSUME NEW x \in Trans, Step(x)
      PROVE  Consistent(db') /\ PreparedStores'
  <2>1. ASSUME NEW t \in Types, DefineFeatureType(x, t)
        PROVE  Consistent(db') /\ PreparedStores'
    <3>1. db' = db /\ pc' = pc /\ pc[x] # "prepared"
      BY <2>1 DEF DefineFeatureType, MayDefine
    <3>2. QED
      BY <1>1, <1>4, <3>1, StoreKept
  <2>2. ASSUME NEW t \in Types, NEW f \in Feats, NEW v \in Vecs \cup {Absent},
               DefineElement(x, t, f, v)
        PROVE  Consistent(db') /\ PreparedStores'
    <3>1. db' = db /\ pc' = pc /\ pc[x] # "prepared"
      BY <2>2 DEF DefineElement, MayDefine
    <3>2. QED
      BY <1>1, <1>4, <3>1, StoreKept
  <2>3. ~ Clear(x)
    BY DEF Clear
  <2>4. CASE Rollback(x) \/ CommitThrows(x) \/ CommitFails(x)
    <3>1. db' = db /\ pc'[x] # "prepared"
      BY <1>2, <2>4 DEF Rollback, CommitThrows, CommitFails
    <3>2. QED
      BY <1>1, <1>4, <3>1, StoreKept
  <2>5. CASE PrepareCommit(x)
    <3>1. PreparedStores'
      BY <1>1, <2>5, StorePrepareCommit
    <3>2. db' = db /\ Consistent(db)
      BY <2>5 DEF PrepareCommit, StoreInv
    <3>3. QED
      BY <3>1, <3>2
  <2>6. CASE CommitSucceeds(x)
    BY <1>1, <2>6, StoreCommitSucceeds
  <2>7. QED
    BY <1>4, <2>1, <2>2, <2>3, <2>4, <2>5, <2>6 DEF Step
<1>5. CASE Next
  BY <1>1, <1>4, <1>5 DEF Next, StoreInv
<1>6. QED
  BY <1>3, <1>5

-----------------------------------------------------------------------------
(* What the invariant says of the interface.                               *)

\* When callers roll a failed commit back and do not call clear, the
\* counters that nofTypes and nofFeatures return are the numbers of types and
\* of features stored, for any number of concurrent transactions.
THEOREM CountersAlwaysExact ==
    ASSUME Usage = {}
    PROVE  Spec => []CountersExact
<1>1. StoreInv => CountersExact
  BY DEF StoreInv, Consistent, NamesCounted, CountersExact
<1>2. StoreInv /\ [Next]_vars => StoreInv'
  BY StoreStep
<1>3. QED
  BY StoreInit, <1>1, <1>2, PTL DEF Spec

\* Under the same conditions the counter that nofVectors returns for a type
\* is the number of features with a vector of this type.
THEOREM VectorCountAlwaysExact ==
    ASSUME Usage = {}
    PROVE  Spec => []VectorCountExact
<1>1. StoreInv => VectorCountExact
  BY DEF StoreInv, Consistent, VectorsCounted, VectorCountExact
<1>2. StoreInv /\ [Next]_vars => StoreInv'
  BY StoreStep
<1>3. QED
  BY StoreInit, <1>1, <1>2, PTL DEF Spec

\* Under the same conditions every vector is stored with its LSH value and its
\* relation, under numbers that have names, and every relation names a type:
\* no search and no featureTypes meets a missing key.
THEOREM NumbersNeverDangle ==
    ASSUME Usage = {}
    PROVE  Spec => []NoDanglingNumbers
<1>1. ASSUME StoreInv PROVE NoDanglingNumbers
  <2>1. /\ db \in Database /\ db.simhash = db.vec
        /\ VectorsRelated(db) /\ RelationsNamed(db)
    BY <1>1 DEF StoreInv, NumbersInv, TypeInv, TypeOK, Consistent
  <2>2. ASSUME NEW n \in Typenos, NEW f \in Featnos, db.vec[<<n, f>>] # Absent
        PROVE  /\ db.typename[n] # Absent /\ db.featname[f] # Absent
               /\ n \in ReadFeatureTypeRelations(db, f)
               /\ db.simhash[<<n, f>>] = db.vec[<<n, f>>]
    BY <2>1, <2>2 DEF VectorsRelated, RelationsNamed
  <2>3. ASSUME NEW f \in Feats
        PROVE  Absent \notin FeatureTypes(db, f)
    <3>1. db.featno[f] \in Featnos \cup {Absent}
      BY <2>1 DEF Database
    <3>2. CASE db.featno[f] = Absent
      BY <3>2 DEF FeatureTypes, FeatureTypenos, ReadFeatno, IndexValue
    <3>3. CASE db.featno[f] \in Featnos
      <4>1. ReadFeatno(db, f) # 0
        BY <3>3, MarkersAssumption, BoundsAssumption DEF ReadFeatno, IndexValue, Featnos
      <4>2. \A n \in ReadFeatureTypeRelations(db, db.featno[f]) : db.typename[n] # Absent
        BY <2>1, <3>3 DEF RelationsNamed
      <4>3. QED
        BY <4>1, <4>2 DEF FeatureTypes, FeatureTypenos
    <3>4. QED
      BY <3>1, <3>2, <3>3
  <2>4. QED
    BY <2>1, <2>2, <2>3 DEF NoDanglingNumbers
<1>2. StoreInv /\ [Next]_vars => StoreInv'
  BY StoreStep
<1>3. QED
  BY StoreInit, <1>1, <1>2, PTL DEF Spec

-----------------------------------------------------------------------------
(* The transactions implement the abstract store.                          *)

LEMMA StoreStarts == Init => Store!Init
<1> SUFFICES ASSUME Init PROVE Store!Init
  OBVIOUS
<1> DEFINE d == CreateStorage(LexerTypes)
<1>1. db = d /\ defs = [x \in Trans |-> NoDefinitions]
  BY DEF Init
<1>2. /\ Len(LexerTypes) \in Nat /\ DOMAIN LexerTypes = 1 .. Len(LexerTypes)
      /\ \A i \in DOMAIN LexerTypes : LexerTypes[i] \in Types
  BY LexerAssumption, LenProperties
<1>3. Absent \notin Nat
  BY MarkersAssumption
<1>4. \A t \in Types : d.typeno[t] # Absent <=> \E i \in DOMAIN LexerTypes : LexerTypes[i] = t
  <2>1. ASSUME NEW t \in Types, NEW i \in DOMAIN LexerTypes, LexerTypes[i] = t
        PROVE  d.typeno[t] # Absent
    <3>1. d.typeno[t] = CHOOSE j \in DOMAIN LexerTypes : LexerTypes[j] = t
      BY <2>1 DEF CreateStorage
    <3>2. d.typeno[t] \in DOMAIN LexerTypes
      BY <2>1, <3>1
    <3>3. QED
      BY <1>2, <1>3, <3>2
  <2>2. ASSUME NEW t \in Types, ~ \E i \in DOMAIN LexerTypes : LexerTypes[i] = t
        PROVE  d.typeno[t] = Absent
    BY <2>2 DEF CreateStorage
  <2>3. QED
    BY <2>1, <2>2
<1>5. StoredTypes(d) = {LexerTypes[i] : i \in DOMAIN LexerTypes}
  BY <1>2, <1>4 DEF StoredTypes
<1>6. \A f \in Feats : d.featno[f] = Absent
  BY DEF CreateStorage
<1> HIDE DEF d
<1>7. \A f \in Feats : ReadFeatno(d, f) = 0 /\ FeatureTypes(d, f) = {}
  BY <1>6 DEF FeatureTypes, FeatureTypenos, ReadFeatno, IndexValue
<1>8. \A t \in Types, f \in Feats : FeatureVector(d, t, f) = Absent
  BY <1>7 DEF FeatureVector
<1>9. {e \in Types \X Feats : e[1] \in FeatureTypes(d, e[2])} = {}
  BY <1>7
<1>10. [e \in Types \X Feats |-> FeatureVector(d, e[1], e[2])] = [e \in Types \X Feats |-> Absent]
  BY <1>8
<1>11. StoreOf(d) = [types |-> {LexerTypes[i] : i \in DOMAIN LexerTypes}, elems |-> {},
                     vec |-> [e \in Types \X Feats |-> Absent]]
  BY <1>5, <1>9, <1>10 DEF StoreOf
<1>12. QED
  BY <1>1, <1>11 DEF Store!Init, Store!NoVectors, Store!Nothing, NoDefinitions

\* The fields of a record of definitions are changed one by one.
LEMMA FieldsChanged ==
    ASSUME NEW p \in Definitions, NEW ts \in SUBSET Types, NEW es \in SUBSET (Types \X Feats),
           NEW w \in [Types \X Feats -> Vecs \cup {Absent}]
    PROVE  /\ [p EXCEPT !.types = ts] =
                [types |-> ts, elems |-> p.elems, vec |-> p.vec, clear |-> p.clear]
           /\ [p EXCEPT !.elems = es] =
                [types |-> p.types, elems |-> es, vec |-> p.vec, clear |-> p.clear]
           /\ [p EXCEPT !.vec = w] =
                [types |-> p.types, elems |-> p.elems, vec |-> w, clear |-> p.clear]
BY DEF Definitions

\* The definitions of all transactions after defineElement in the abstract
\* store.
Collected(pending, x, t, f, v) ==
    [pending EXCEPT ![x].types = @ \cup {t},
                    ![x].elems = @ \cup {<<t, f>>},
                    ![x].vec[<<t, f>>] = IF v = Absent THEN @ ELSE v]

LEMMA ElementCollected ==
    ASSUME NEW p \in Definitions, NEW t \in Types, NEW f \in Feats, NEW v \in Vecs \cup {Absent},
           NEW x \in Trans, NEW pending \in [Trans -> Definitions], p = pending[x]
    PROVE  [pending EXCEPT ![x] = WithElement(p, t, f, v)] = Collected(pending, x, t, f, v)
<1> DEFINE q == [p EXCEPT !.types = @ \cup {t},
                          !.elems = @ \cup {<<t, f>>},
                          !.vec[<<t, f>>] = IF v = Absent THEN @ ELSE v]
           ts == p.types \cup {t}
           es == p.elems \cup {<<t, f>>}
           w == IF v = Absent THEN p.vec ELSE [p.vec EXCEPT ![<<t, f>>] = v]
           w2 == [p.vec EXCEPT ![<<t, f>>] = IF v = Absent THEN p.vec[<<t, f>>] ELSE v]
           q1 == [p EXCEPT !.types = ts]
           q2 == [q1 EXCEPT !.elems = es]
           q3 == [q2 EXCEPT !.vec = w2]
<1>1. /\ p.vec \in [Types \X Feats -> Vecs \cup {Absent}] /\ p.types \in SUBSET Types
      /\ p.elems \in SUBSET (Types \X Feats) /\ p.clear \in BOOLEAN
  BY DEF Definitions
<1>2. w2 = w /\ w \in [Types \X Feats -> Vecs \cup {Absent}]
  BY <1>1
<1>3. WithElement(p, t, f, v) = [types |-> ts, elems |-> es, vec |-> w, clear |-> p.clear]
  BY DEF WithElement
<1>4. ts \in SUBSET Types /\ es \in SUBSET (Types \X Feats)
  BY <1>1
<1>5. q = q3
  <2>1. q1.vec = p.vec /\ q1.elems = p.elems
    BY <1>4, FieldsChanged
  <2>2. q2.vec = p.vec
    OBVIOUS
  <2>3. QED
    BY <2>1, <2>2
<1> HIDE DEF ts, es, w, w2, q1, q2, q3
<1>6. /\ q1 = [types |-> ts, elems |-> p.elems, vec |-> p.vec, clear |-> p.clear]
      /\ q1 \in Definitions
  BY <1>1, <1>4, FieldsChanged DEF q1, Definitions
<1>7. /\ q2 = [types |-> ts, elems |-> es, vec |-> p.vec, clear |-> p.clear]
      /\ q2 \in Definitions
  BY <1>1, <1>4, <1>6, FieldsChanged DEF q2, Definitions
<1>8. q3 = [types |-> ts, elems |-> es, vec |-> w, clear |-> p.clear]
  BY <1>2, <1>7, FieldsChanged DEF q3
<1>9. WithElement(p, t, f, v) = q
  BY <1>3, <1>5, <1>8
<1>10. QED
  BY <1>9 DEF Collected

\* Every step of the transactions is a step of the abstract store or leaves
\* store and definitions as they are.
LEMMA StoreSimulated ==
    Usage = {} /\ StoreInv /\ [Next]_vars => [Store!Next]_<<StoreOf(db), defs>>
<1> SUFFICES ASSUME Usage = {}, StoreInv, [Next]_vars
             PROVE  Store!Next \/ (db' = db /\ defs' = defs)
  OBVIOUS
<1>1. defs \in [Trans -> Definitions]
  BY DEF StoreInv, NumbersInv, TypeInv, TypeOK
<1>2. CASE UNCHANGED vars
  BY <1>2 DEF vars
<1>3. ASSUME NEW x \in Trans, NEW t \in Types, DefineFeatureType(x, t)
      PROVE  Store!Next
  <2>1. Store!DefineType(x, t)
    BY <1>3 DEF DefineFeatureType, Store!DefineType
  <2>2. QED
    BY <2>1 DEF Store!Next
<1>4. ASSUME NEW x \in Trans, NEW t \in Types, NEW f \in Feats, NEW v \in Vecs \cup {Absent},
             DefineElement(x, t, f, v)
      PROVE  Store!Next
  <2>1. defs' = [defs EXCEPT ![x] = WithElement(defs[x], t, f, v)] /\ db' = db
    BY <1>4 DEF DefineElement
  <2>2. defs[x] \in Definitions
    BY <1>1
  <2>3. defs' = Collected(defs, x, t, f, v)
    BY <1>1, <2>1, <2>2, ElementCollected
  <2>4. Store!Define(x, t, f, v)
    BY <2>1, <2>3 DEF Store!Define, Collected
  <2>5. QED
    BY <2>4 DEF Store!Next
<1>5. ASSUME NEW x \in Trans, ResetLocals(x)
      PROVE  defs' = [defs EXCEPT ![x] = Store!Nothing]
  BY <1>5 DEF ResetLocals, NoDefinitions, Store!Nothing, Store!NoVectors
<1>6. ASSUME NEW x \in Trans, Rollback(x)
      PROVE  Store!Next
  <2>1. Store!Rollback(x)
    BY <1>5, <1>6 DEF Rollback, Store!Rollback
  <2>2. QED
    BY <2>1 DEF Store!Next
<1>7. ASSUME NEW x \in Trans, CommitSucceeds(x)
      PROVE  Store!Next
  <2>1. StoreOf(db') = Store!After(StoreOf(db), defs[x])
    BY <1>7 DEF StoreInv, PreparedStores, Prepared, CommitSucceeds
  <2>2. defs' = [defs EXCEPT ![x] = Store!Nothing]
    BY <1>5, <1>7 DEF CommitSucceeds
  <2>3. Store!Commit(x)
    BY <2>1, <2>2 DEF Store!Commit
  <2>4. QED
    BY <2>3 DEF Store!Next
<1>8. ASSUME NEW x \in Trans, PrepareCommit(x) \/ CommitThrows(x) \/ CommitFails(x)
      PROVE  db' = db /\ defs' = defs
  BY <1>8 DEF PrepareCommit, CommitThrows, CommitFails
<1>9. \A x \in Trans : ~ Clear(x)
  BY DEF Clear
<1>10. QED
  BY <1>2, <1>3, <1>4, <1>6, <1>7, <1>8, <1>9 DEF Next, Step

\* When callers roll a failed commit back and do not call clear, concurrent
\* transactions implement the abstract store: a commit stores everything its
\* caller defined at once, or nothing, and nothing else changes what the
\* interface reads.
THEOREM TransactionsImplementStore ==
    ASSUME Usage = {}
    PROVE  Spec => ImplementsStore
<1>1. StoreInv /\ [Next]_vars => StoreInv'
  BY StoreStep
<1>2. StoreInv /\ [Next]_vars => [Store!Next]_<<StoreOf(db), defs>>
  BY StoreSimulated
<1>3. QED
  BY StoreInit, StoreStarts, <1>1, <1>2, PTL DEF Spec, ImplementsStore, Store!Spec

\* Under the same conditions a commit that returns true has stored every type,
\* every relation and the last vector of every element its caller defined.
\* (When a failed commit is retried it has not: the run TransactionRetry.)
THEOREM CommitsStoreDefinitions ==
    ASSUME Usage = {}
    PROVE  Spec => CommitStoresDefinitions
<1> DEFINE Stored(x) ==
             /\ defs[x].types \subseteq StoredTypes(db')
             /\ \A e \in defs[x].elems : e[1] \in FeatureTypes(db', e[2])
             /\ \A e \in defs[x].elems : defs[x].vec[e] # Absent =>
                  FeatureVector(db', e[1], e[2]) = defs[x].vec[e]
<1>1. StoreInv /\ [Next]_vars => [\A x \in Trans : CommitSucceeds(x) => Stored(x)]_vars
  <2> SUFFICES ASSUME StoreInv, NEW x \in Trans, CommitSucceeds(x) PROVE Stored(x)
    OBVIOUS
  <2> DEFINE p == defs[x]
  <2>1. StoreOf(db') = Store!After(StoreOf(db), p)
    BY DEF StoreInv, PreparedStores, Prepared, CommitSucceeds
  <2>2. p \in Definitions
    BY DEF StoreInv, NumbersInv, TypeInv, TypeOK
  <2>3. p.elems \subseteq Types \X Feats
    BY <2>2 DEF Definitions
  <2> HIDE DEF p
  <2>4. p.types \subseteq StoredTypes(db')
    BY <2>1 DEF StoreOf, Store!After
  <2>5. p.elems \subseteq {e \in Types \X Feats : e[1] \in FeatureTypes(db', e[2])}
    BY <2>1 DEF StoreOf, Store!After
  <2>6. ASSUME NEW e \in p.elems, p.vec[e] # Absent
        PROVE  FeatureVector(db', e[1], e[2]) = p.vec[e]
    <3>1. e \in Types \X Feats
      BY <2>3
    <3>2. StoreOf(db').vec[e] = FeatureVector(db', e[1], e[2])
      BY <3>1 DEF StoreOf
    <3>3. Store!After(StoreOf(db), p).vec[e] = p.vec[e]
      BY <3>1, <2>6 DEF Store!After
    <3>4. QED
      BY <2>1, <3>2, <3>3
  <2>7. QED
    BY <2>4, <2>5, <2>6 DEF p
<1>2. StoreInv /\ [Next]_vars => StoreInv'
  BY StoreStep
<1>3. QED
  BY StoreInit, <1>1, <1>2, PTL DEF Spec, CommitStoresDefinitions

=============================================================================
