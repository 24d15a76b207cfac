----------------------- MODULE VectorTransactionProofs -----------------------
(***************************************************************************)
(* Proofs about VectorTransaction, for any number of types, features,      *)
(* vectors and transactions: the state is always well typed, commits       *)
(* exclude each other, and names and numbers stay inverse to each other.   *)
(***************************************************************************)
EXTENDS VectorTransaction, FiniteSetTheorems, SequenceTheorems,
        WellFoundedInduction, TLAPS

-----------------------------------------------------------------------------
(* The database: what the external store and the adapter make of           *)
(* well-typed databases and batches is well typed.                         *)

\* The overlay of a map of a batch on a map of the database.
LEMMA MapOverlayType ==
    ASSUME NEW K, NEW V, Keep \notin V,
           NEW old \in [K -> V \cup {Absent}],
           NEW new \in [K -> V \cup {Absent, Keep}]
    PROVE  MapOverlay(new, old) \in [K -> V \cup {Absent}]
BY DEF MapOverlay, Overlay

\* The map of a batch after the deletion of the keys of the database.
LEMMA MapRemovedType ==
    ASSUME NEW K, NEW V,
           NEW d \in [K -> V \cup {Absent}],
           NEW b \in [K -> V \cup {Absent, Keep}]
    PROVE  MapRemoved(b, d) \in [K -> V \cup {Absent, Keep}]
BY DEF MapRemoved, Removed

LEMMA NotKept ==
    /\ Keep \notin Types /\ Keep \notin Feats /\ Keep \notin Vecs
    /\ Keep \notin Nat /\ Keep \notin Typenos /\ Keep \notin Featnos
    /\ Keep \notin SUBSET Typenos
BY MarkersAssumption, BoundsAssumption DEF Typenos, Featnos

\* Committing a batch yields a database.
LEMMA AppliedType ==
    ASSUME NEW d \in Database, NEW b \in Batch
    PROVE  Applied(b, d) \in Database
<1>1. MapOverlay(b.typeno, d.typeno) \in [Types -> Typenos \cup {Absent}]
  BY NotKept, MapOverlayType DEF Database, Batch
<1>2. MapOverlay(b.typename, d.typename) \in [Typenos -> Types \cup {Absent}]
  BY NotKept, MapOverlayType DEF Database, Batch
<1>3. MapOverlay(b.featno, d.featno) \in [Feats -> Featnos \cup {Absent}]
  BY NotKept, MapOverlayType DEF Database, Batch
<1>4. MapOverlay(b.featname, d.featname) \in [Featnos -> Feats \cup {Absent}]
  BY NotKept, MapOverlayType DEF Database, Batch
<1>5. MapOverlay(b.vec, d.vec) \in [Typenos \X Featnos -> Vecs \cup {Absent}]
  BY NotKept, MapOverlayType DEF Database, Batch
<1>6. MapOverlay(b.simhash, d.simhash) \in [Typenos \X Featnos -> Vecs \cup {Absent}]
  BY NotKept, MapOverlayType DEF Database, Batch
<1>7. MapOverlay(b.nofvec, d.nofvec) \in [Typenos -> Nat \cup {Absent}]
  BY NotKept, MapOverlayType DEF Database, Batch
<1>8. MapOverlay(b.rel, d.rel) \in [Featnos -> (SUBSET Typenos) \cup {Absent}]
  BY NotKept, MapOverlayType DEF Database, Batch
<1>9. /\ Overlay(b.noftypeno, d.noftypeno) \in Nat \cup {Absent}
      /\ Overlay(b.noffeatno, d.noffeatno) \in Nat \cup {Absent}
  BY NotKept DEF Database, Batch, Overlay
<1>10. QED
  BY <1>1, <1>2, <1>3, <1>4, <1>5, <1>6, <1>7, <1>8, <1>9 DEF Applied, Database

\* clear fills the batch with deletions.
LEMMA ClearedType ==
    ASSUME NEW d \in Database, NEW b \in Batch
    PROVE  Cleared(b, d) \in Batch
<1>1. MapRemoved(b.typeno, d.typeno) \in [Types -> Typenos \cup {Absent, Keep}]
  BY MapRemovedType DEF Database, Batch
<1>2. MapRemoved(b.typename, d.typename) \in [Typenos -> Types \cup {Absent, Keep}]
  BY MapRemovedType DEF Database, Batch
<1>3. MapRemoved(b.featno, d.featno) \in [Feats -> Featnos \cup {Absent, Keep}]
  BY MapRemovedType DEF Database, Batch
<1>4. MapRemoved(b.featname, d.featname) \in [Featnos -> Feats \cup {Absent, Keep}]
  BY MapRemovedType DEF Database, Batch
<1>5. MapRemoved(b.vec, d.vec) \in [Typenos \X Featnos -> Vecs \cup {Absent, Keep}]
  BY MapRemovedType DEF Database, Batch
<1>6. MapRemoved(b.simhash, d.simhash) \in [Typenos \X Featnos -> Vecs \cup {Absent, Keep}]
  BY MapRemovedType DEF Database, Batch
<1>7. MapRemoved(b.nofvec, d.nofvec) \in [Typenos -> Nat \cup {Absent, Keep}]
  BY MapRemovedType DEF Database, Batch
<1>8. MapRemoved(b.rel, d.rel) \in [Featnos -> (SUBSET Typenos) \cup {Absent, Keep}]
  BY MapRemovedType DEF Database, Batch
<1>9. /\ Removed(b.noftypeno, d.noftypeno) \in Nat \cup {Absent, Keep}
      /\ Removed(b.noffeatno, d.noffeatno) \in Nat \cup {Absent, Keep}
  BY DEF Database, Batch, Removed
<1>10. QED
  BY <1>1, <1>2, <1>3, <1>4, <1>5, <1>6, <1>7, <1>8, <1>9 DEF Cleared, Batch

LEMMA EmptyBatchType == EmptyBatch \in Batch
BY DEF EmptyBatch, Batch

\* What the adapter reads from a database.
LEMMA ReadTypes ==
    ASSUME NEW d \in Database
    PROVE  /\ \A t \in Types : ReadTypeno(d, t) \in Typenos \cup {0}
           /\ \A f \in Feats : ReadFeatno(d, f) \in Featnos \cup {0}
           /\ ReadNofTypeno(d) \in Nat
           /\ ReadNofFeatno(d) \in Nat
           /\ \A n \in Typenos : ReadNofVectors(d, n) \in Nat
           /\ \A n \in Featnos : ReadFeatureTypeRelations(d, n) \subseteq Typenos
<1>1. \A n \in Featnos : d.rel[n] \in (SUBSET Typenos) \cup {Absent}
  BY DEF Database
<1>2. \A n \in Featnos : ReadFeatureTypeRelations(d, n) \subseteq Typenos
  BY <1>1 DEF ReadFeatureTypeRelations
<1>3. QED
  BY <1>2 DEF Database, ReadTypeno, ReadFeatno, ReadNofTypeno, ReadNofFeatno,
              ReadNofVectors, IndexValue

\* createStorage writes a database.
LEMMA CreateStorageType ==
    ASSUME NEW lexerTypes \in Seq(Types), Len(lexerTypes) <= MaxTypeno
    PROVE  CreateStorage(lexerTypes) \in Database
<1>1. /\ Len(lexerTypes) \in Nat /\ DOMAIN lexerTypes = 1 .. Len(lexerTypes)
      /\ \A i \in DOMAIN lexerTypes : lexerTypes[i] \in Types
  BY LenProperties
<1>2. DOMAIN lexerTypes \subseteq Typenos
  BY <1>1, BoundsAssumption DEF Typenos
<1> DEFINE d == CreateStorage(lexerTypes)
<1>3. d.typeno \in [Types -> Typenos \cup {Absent}]
  BY <1>2 DEF CreateStorage
<1>4. d.typename \in [Typenos -> Types \cup {Absent}]
  BY <1>1 DEF CreateStorage
<1>5. d.noftypeno \in Nat
  BY <1>1 DEF CreateStorage
<1>6. QED
  BY <1>3, <1>4, <1>5 DEF CreateStorage, Database

-----------------------------------------------------------------------------
(* Numbering the symbols of a local table.                                 *)

\* The numbers given to new symbols are the next ones after the counter and
\* they are different.
LEMMA AllocatedNumbers ==
    ASSUME NEW n \in Nat, NEW known \in [1 .. n -> Nat], NEW counter \in Nat
    PROVE  /\ NofNew(known) \in Nat
           /\ \A i \in 1 .. n : Allocated(known, counter)[i] \in Nat
           /\ \A i \in 1 .. n : known[i] = 0 =>
                Allocated(known, counter)[i] \in counter + 1 .. counter + NofNew(known)
           /\ \A i, j \in 1 .. n :
                (known[i] = 0 /\ known[j] = 0
                  /\ Allocated(known, counter)[i] = Allocated(known, counter)[j]) => i = j
<1> DEFINE Z(i) == {j \in 1 .. i : known[j] = 0}
<1>1. ASSUME NEW i \in 1 .. n
      PROVE  IsFiniteSet(Z(i)) /\ Cardinality(Z(i)) \in Nat
  <2>1. IsFiniteSet(1 .. i)
    BY FS_Interval
  <2>2. Z(i) \in SUBSET (1 .. i)
    OBVIOUS
  <2>3. IsFiniteSet(Z(i))
    BY <2>1, <2>2, FS_Subset
  <2>4. QED
    BY <2>3, FS_CardinalityType
<1>2. ASSUME NEW i \in 1 .. n, NEW j \in 1 .. n, i <= j
      PROVE  /\ Cardinality(Z(i)) <= Cardinality(Z(j))
             /\ (i # j /\ known[j] = 0) => Cardinality(Z(i)) # Cardinality(Z(j))
  <2>1. Z(i) \in SUBSET Z(j)
    BY <1>2
  <2>2. IsFiniteSet(Z(j))
    BY <1>1
  <2>3. /\ Cardinality(Z(i)) <= Cardinality(Z(j))
        /\ Cardinality(Z(j)) = Cardinality(Z(i)) => Z(j) = Z(i)
    BY <2>1, <2>2, FS_Subset
  <2>4. (i # j /\ known[j] = 0) => j \in Z(j) /\ j \notin Z(i)
    BY <1>2
  <2> HIDE DEF Z
  <2>5. QED
    BY <2>3, <2>4
<1>3. ASSUME NEW i \in 1 .. n, known[i] = 0
      PROVE  Cardinality(Z(i)) >= 1
  <2>1. i \in Z(i)
    BY <1>3
  <2>2. IsFiniteSet(Z(i)) /\ Cardinality(Z(i)) \in Nat
    BY <1>1
  <2> HIDE DEF Z
  <2>3. Cardinality(Z(i)) # 0
    BY <2>1, <2>2, FS_EmptySet
  <2>4. QED
    BY <2>2, <2>3
<1>4. NofNew(known) \in Nat /\ (n > 0 => NofNew(known) = Cardinality(Z(n)))
  <2>1. DOMAIN known = 1 .. n
    OBVIOUS
  <2>2. NofNew(known) = Cardinality(Z(n))
    BY <2>1 DEF NofNew
  <2>3. CASE n = 0
    <3>1. Z(n) = {}
      BY <2>3
    <3>2. QED
      BY <3>1, <2>2, <2>3, FS_EmptySet
  <2>4. CASE n > 0
    <3>1. n \in 1 .. n
      BY <2>4
    <3>2. Cardinality(Z(n)) \in Nat
      BY <3>1, <1>1
    <3>3. QED
      BY <3>2, <2>2
  <2>5. QED
    BY <2>3, <2>4
<1>5. \A i \in 1 .. n : Allocated(known, counter)[i] =
                           IF known[i] = 0 THEN counter + Cardinality(Z(i)) ELSE known[i]
  BY DEF Allocated
<1>6. \A i \in 1 .. n : Cardinality(Z(i)) \in Nat
  BY <1>1
<1>7. \A i \in 1 .. n : n > 0 /\ n \in 1 .. n /\ i <= n
  OBVIOUS
<1>8. \A i \in 1 .. n : Cardinality(Z(i)) <= NofNew(known)
  BY <1>2, <1>4, <1>7
<1> HIDE DEF Z
<1>9. ASSUME NEW i \in 1 .. n
      PROVE  Allocated(known, counter)[i] \in Nat
  <2>1. CASE known[i] = 0
    <3>1. Allocated(known, counter)[i] = counter + Cardinality(Z(i))
      BY <1>5, <2>1
    <3>2. Cardinality(Z(i)) \in Nat
      BY <1>6
    <3>3. QED
      BY <3>1, <3>2
  <2>2. CASE known[i] # 0
    BY <1>5, <2>2
  <2>3. QED
    BY <2>1, <2>2
<1>10. ASSUME NEW i \in 1 .. n, known[i] = 0
       PROVE  Allocated(known, counter)[i] \in counter + 1 .. counter + NofNew(known)
  <2>1. Allocated(known, counter)[i] = counter + Cardinality(Z(i))
    BY <1>5, <1>10
  <2>2. Cardinality(Z(i)) >= 1
    BY <1>3, <1>10
  <2>3. QED
    BY <2>1, <2>2, <1>4, <1>6, <1>8
<1>11. ASSUME NEW i \in 1 .. n, NEW j \in 1 .. n, known[i] = 0, known[j] = 0,
              Allocated(known, counter)[i] = Allocated(known, counter)[j]
       PROVE  i = j
  <2>1. Cardinality(Z(i)) = Cardinality(Z(j))
    BY <1>5, <1>6, <1>11
  <2>2. CASE i <= j
    BY <2>1, <2>2, <1>2, <1>11
  <2>3. CASE j <= i
    BY <2>1, <2>3, <1>2, <1>11
  <2>4. QED
    BY <2>2, <2>3
<1>12. QED
  BY <1>4, <1>9, <1>10, <1>11

-----------------------------------------------------------------------------
(* Names and numbers: the parts of the inductive invariant.                *)

\* No number above the counter has a name.
BelowCounter(names, counter) ==
    \A n \in DOMAIN names : names[n] # Absent => n <= counter

\* A batch numbers only names that have no number yet, with numbers above
\* the counter, and writes both directions.
NewNumbers(bnos, bnames, bcounter, nos, counter) ==
    /\ bcounter \in Nat /\ counter <= bcounter
    /\ \A s \in DOMAIN bnos : bnos[s] # Keep =>
          /\ nos[s] = Absent
          /\ bnos[s] \in counter + 1 .. bcounter
          /\ bnames[bnos[s]] = s
    /\ \A n \in DOMAIN bnames : bnames[n] # Keep =>
          /\ bnames[n] \in DOMAIN bnos
          /\ bnos[bnames[n]] = n

\* Committing such a batch keeps names and numbers inverse.
LEMMA OverlayInverse ==
    ASSUME NEW S, NEW m \in Nat, Absent \notin S, Keep \notin S,
           NEW nos \in [S -> (1 .. m) \cup {Absent}],
           NEW names \in [1 .. m -> S \cup {Absent}],
           NEW bnos \in [S -> (1 .. m) \cup {Absent, Keep}],
           NEW bnames \in [1 .. m -> S \cup {Absent, Keep}],
           NEW counter \in Nat, NEW bcounter,
           InverseMaps(nos, names), BelowCounter(names, counter),
           NewNumbers(bnos, bnames, bcounter, nos, counter)
    PROVE  /\ InverseMaps(MapOverlay(bnos, nos), MapOverlay(bnames, names))
           /\ BelowCounter(MapOverlay(bnames, names), bcounter)
<1> DEFINE no == MapOverlay(bnos, nos)
           na == MapOverlay(bnames, names)
<1>0. Absent # Keep /\ Absent \notin Nat /\ Keep \notin Nat
  BY MarkersAssumption
<1>1. /\ no = [s \in S |-> IF bnos[s] = Keep THEN nos[s] ELSE bnos[s]]
      /\ na = [n \in 1 .. m |-> IF bnames[n] = Keep THEN names[n] ELSE bnames[n]]
  BY DEF MapOverlay, Overlay
<1> HIDE DEF no, na
<1>2. ASSUME NEW s \in S, no[s] # Absent
      PROVE  na[no[s]] = s
  <2>1. CASE bnos[s] # Keep
    <3>1. bnames[bnos[s]] = s /\ bnos[s] \in 1 .. m
      BY <2>1, <1>0, <1>2, <1>1 DEF NewNumbers
    <3>2. QED
      BY <3>1, <2>1, <1>1
  <2>2. CASE bnos[s] = Keep
    <3>1. nos[s] \in 1 .. m /\ names[nos[s]] = s /\ no[s] = nos[s]
      BY <2>2, <1>1, <1>2 DEF InverseMaps
    <3>2. nos[s] <= counter
      BY <3>1, <1>0 DEF BelowCounter
    <3>3. bnames[nos[s]] = Keep
      <4> SUFFICES ASSUME bnames[nos[s]] # Keep PROVE FALSE
        OBVIOUS
      <4>1. bnames[nos[s]] \in S /\ bnos[bnames[nos[s]]] = nos[s]
        BY <3>1 DEF NewNumbers
      <4>2. nos[s] \in counter + 1 .. bcounter
        BY <4>1, <3>1, <1>0 DEF NewNumbers
      <4>3. QED
        BY <4>2, <3>2
    <3>4. QED
      BY <3>1, <3>3, <1>1
  <2>3. QED
    BY <2>1, <2>2
<1>3. ASSUME NEW n \in 1 .. m, na[n] # Absent
      PROVE  no[na[n]] = n
  <2>1. CASE bnames[n] # Keep
    <3>1. bnames[n] \in S /\ bnos[bnames[n]] = n
      BY <2>1 DEF NewNumbers
    <3>2. QED
      BY <3>1, <2>1, <1>0, <1>1
  <2>2. CASE bnames[n] = Keep
    <3>1. names[n] \in S /\ nos[names[n]] = n /\ na[n] = names[n]
      BY <2>2, <1>1, <1>3 DEF InverseMaps
    <3>2. bnos[names[n]] = Keep
      BY <3>1, <1>0 DEF NewNumbers
    <3>3. QED
      BY <3>1, <3>2, <1>1
  <2>3. QED
    BY <2>1, <2>2
<1>4. ASSUME NEW n \in 1 .. m, na[n] # Absent
      PROVE  n <= bcounter
  <2>1. CASE bnames[n] # Keep
    <3>1. bnames[n] \in S /\ bnos[bnames[n]] = n
      BY <2>1 DEF NewNumbers
    <3>2. n \in counter + 1 .. bcounter
      BY <3>1, <1>0 DEF NewNumbers
    <3>3. QED
      BY <3>2 DEF NewNumbers
  <2>2. CASE bnames[n] = Keep
    <3>1. n <= counter
      BY <2>2, <1>1, <1>4 DEF BelowCounter
    <3>2. QED
      BY <3>1 DEF NewNumbers
  <2>3. QED
    BY <2>1, <2>2
<1>5. DOMAIN no = S /\ DOMAIN na = 1 .. m
  BY <1>1
<1>6. InverseMaps(no, na) /\ BelowCounter(na, bcounter)
  BY <1>2, <1>3, <1>4, <1>5 DEF InverseMaps, BelowCounter
<1>7. QED
  BY <1>6 DEF no, na

\* The entries a commit writes into an empty batch are such a batch.
LEMMA WrittenInverse ==
    ASSUME NEW S, NEW m \in Nat, Absent \notin S, Keep \notin S,
           NEW tab \in Seq(S),
           \A i, j \in DOMAIN tab : tab[i] = tab[j] => i = j,
           NEW nos \in [S -> (1 .. m) \cup {Absent}], NEW counter \in Nat,
           NEW known \in [1 .. Len(tab) -> Nat],
           \A i \in 1 .. Len(tab) : known[i] = IndexValue(nos[tab[i]]),
           counter + NofNew(known) <= m
    PROVE  NewNumbers(WrittenNumbers([s \in S |-> Keep], tab, known, Allocated(known, counter)),
                      WrittenNames([n \in 1 .. m |-> Keep], tab, known, Allocated(known, counter)),
                      counter + NofNew(known), nos, counter)
<1> DEFINE nums == Allocated(known, counter)
           bcounter == counter + NofNew(known)
           bnos == WrittenNumbers([s \in S |-> Keep], tab, known, nums)
           bnames == WrittenNames([n \in 1 .. m |-> Keep], tab, known, nums)
<1>0. Absent # Keep /\ Absent \notin Nat /\ Keep \notin Nat
  BY MarkersAssumption
<1>1. /\ Len(tab) \in Nat /\ DOMAIN tab = 1 .. Len(tab)
      /\ \A i \in 1 .. Len(tab) : tab[i] \in S
  BY LenProperties
<1>2. known \in [1 .. Len(tab) -> Nat]
  OBVIOUS
<1> HIDE DEF nums, bnos, bnames
<1>3. /\ NofNew(known) \in Nat
      /\ \A i \in 1 .. Len(tab) : known[i] = 0 => nums[i] \in counter + 1 .. bcounter
      /\ \A i, j \in 1 .. Len(tab) :
           (known[i] = 0 /\ known[j] = 0 /\ nums[i] = nums[j]) => i = j
  <2>1. Len(tab) \in Nat
    BY <1>1
  <2>2. /\ NofNew(known) \in Nat
        /\ \A i \in 1 .. Len(tab) : known[i] = 0 =>
             Allocated(known, counter)[i] \in counter + 1 .. counter + NofNew(known)
        /\ \A i, j \in 1 .. Len(tab) :
             (known[i] = 0 /\ known[j] = 0
               /\ Allocated(known, counter)[i] = Allocated(known, counter)[j]) => i = j
    BY ZenonT(30), <2>1, <1>2, AllocatedNumbers
  <2>3. QED
    BY <2>2 DEF nums, bcounter
<1>4. \A i \in 1 .. Len(tab) : known[i] = 0 => nos[tab[i]] = Absent
  BY <1>0, <1>1 DEF IndexValue
<1>5. /\ bnos = [s \in S |->
                    IF \E i \in DOMAIN tab : tab[i] = s /\ known[i] = 0
                    THEN nums[CHOOSE i \in DOMAIN tab : tab[i] = s /\ known[i] = 0]
                    ELSE Keep]
      /\ bnames = [n \in 1 .. m |->
                    IF \E i \in DOMAIN tab : nums[i] = n /\ known[i] = 0
                    THEN tab[CHOOSE i \in DOMAIN tab : nums[i] = n /\ known[i] = 0]
                    ELSE Keep]
  BY DEF WrittenNumbers, WrittenNames, bnos, bnames
<1> HIDE DEF bcounter
<1>6. ASSUME NEW s \in S, bnos[s] # Keep
      PROVE  \E i \in 1 .. Len(tab) : tab[i] = s /\ known[i] = 0 /\ bnos[s] = nums[i]
  BY <1>1, <1>5, <1>6
<1>7. ASSUME NEW n \in 1 .. m, bnames[n] # Keep
      PROVE  \E i \in 1 .. Len(tab) : nums[i] = n /\ known[i] = 0 /\ bnames[n] = tab[i]
  BY <1>1, <1>5, <1>7
<1>8. ASSUME NEW i \in 1 .. Len(tab), known[i] = 0
      PROVE  bnos[tab[i]] = nums[i]
  <2>1. bnos[tab[i]] # Keep
    <3>1. \E j \in DOMAIN tab : tab[j] = tab[i] /\ known[j] = 0
      BY <1>1, <1>8
    <3>2. tab[i] \in S
      BY <1>1
    <3>3. PICK j \in DOMAIN tab : known[j] = 0 /\ bnos[tab[i]] = nums[j]
      BY <3>1, <3>2, <1>5
    <3>4. bnos[tab[i]] \in counter + 1 .. bcounter
      BY <3>3, <1>1, <1>3
    <3>5. counter + 1 .. bcounter \subseteq Nat
      OBVIOUS
    <3>6. QED
      BY <3>4, <3>5, <1>0
  <2>2. PICK j \in 1 .. Len(tab) : tab[j] = tab[i] /\ known[j] = 0 /\ bnos[tab[i]] = nums[j]
    BY <2>1, <1>1, <1>6
  <2>3. QED
    BY <2>2, <1>1
<1>9. ASSUME NEW i \in 1 .. Len(tab), known[i] = 0
      PROVE  nums[i] \in 1 .. m /\ bnames[nums[i]] = tab[i]
  <2>1. nums[i] \in 1 .. m
    BY <1>1, <1>3, <1>9 DEF bcounter
  <2>2. bnames[nums[i]] # Keep
    <3>1. \E j \in DOMAIN tab : nums[j] = nums[i] /\ known[j] = 0
      BY <1>1, <1>9
    <3>2. PICK j \in DOMAIN tab : bnames[nums[i]] = tab[j]
      BY <3>1, <2>1, <1>5
    <3>3. QED
      BY <3>2, <1>1
  <2>3. PICK j \in 1 .. Len(tab) :
           nums[j] = nums[i] /\ known[j] = 0 /\ bnames[nums[i]] = tab[j]
    BY <2>1, <2>2, <1>7
  <2>4. i = j
    BY <2>3, <1>3, <1>9
  <2>5. QED
    BY <2>1, <2>3, <2>4
<1>10. DOMAIN bnos = S /\ DOMAIN bnames = 1 .. m
  BY <1>5
<1>11. bcounter \in Nat /\ counter <= bcounter
  BY <1>3 DEF bcounter
<1>12. NewNumbers(bnos, bnames, bcounter, nos, counter)
  <2>1. ASSUME NEW s \in S, bnos[s] # Keep
        PROVE  nos[s] = Absent /\ bnos[s] \in counter + 1 .. bcounter /\ bnames[bnos[s]] = s
    <3>1. PICK i \in 1 .. Len(tab) : tab[i] = s /\ known[i] = 0 /\ bnos[s] = nums[i]
      BY <2>1, <1>6
    <3>2. nos[s] = Absent
      BY <3>1, <1>4
    <3>3. bnos[s] \in counter + 1 .. bcounter
      BY <3>1, <1>3
    <3>4. bnames[bnos[s]] = s
      BY <3>1, <1>9
    <3>5. QED
      BY <3>2, <3>3, <3>4
  <2>2. ASSUME NEW n \in 1 .. m, bnames[n] # Keep
        PROVE  bnames[n] \in S /\ bnos[bnames[n]] = n
    BY <2>2, <1>1, <1>7, <1>8
  <2>3. QED
    BY <2>1, <2>2, <1>10, <1>11 DEF NewNumbers
<1>13. QED
  BY <1>12 DEF nums, bcounter, bnos, bnames

-----------------------------------------------------------------------------
(* Types of the values a commit computes.                                  *)

\* A bounded non-empty set of numbers has a greatest element.
LEMMA GreatestNumber ==
    ASSUME NEW b \in Nat, NEW T \in SUBSET (0 .. b), T # {}
    PROVE  \E t \in T : \A u \in T : u <= t
<1> DEFINE D == {d \in Nat : b - d \in T}
<1>0. \A t \in T : t \in Nat /\ b - t \in Nat /\ b - (b - t) = t
  OBVIOUS
<1>1. D \subseteq Nat /\ D # {}
  <2>1. PICK t \in T : TRUE
    OBVIOUS
  <2>2. b - t \in D
    BY <1>0
  <2>3. QED
    BY <2>2
<1>2. PICK e \in D : \A f \in D : ~ (<<f, e>> \in OpToRel(<, Nat))
  BY <1>1, WFMin, NatLessThanWellFounded
<1>3. PICK t \in T : t = b - e
  OBVIOUS
<1>4. ASSUME NEW u \in T
      PROVE  u <= t
  <2>1. b - u \in D /\ b - u \in Nat /\ e \in Nat
    BY <1>0
  <2>2. ~ (b - u < e)
    BY <2>1, <1>2 DEF OpToRel
  <2>3. QED
    BY <2>2, <1>3
<1>5. QED
  BY <1>4

\* Of several positions one is the last.
LEMMA LastPosition ==
    ASSUME NEW a \in Nat, NEW b \in Nat, NEW W \in SUBSET ((0 .. a) \X (0 .. b)), W # {}
    PROVE  \E p \in W : \A q \in W : Later(p, q)
<1> DEFINE F == {p[1] : p \in W}
<1>1. F \in SUBSET (0 .. a) /\ F # {}
  OBVIOUS
<1> HIDE DEF F
<1>2. PICK i \in F : \A u \in F : u <= i
  BY <1>1, GreatestNumber
<1> DEFINE G == {q[2] : q \in {p \in W : p[1] = i}}
<1>3. G \in SUBSET (0 .. b) /\ G # {}
  BY DEF F
<1> HIDE DEF G
<1>4. PICK j \in G : \A u \in G : u <= j
  BY <1>3, GreatestNumber
<1>5. PICK p \in W : p[1] = i /\ p[2] = j
  BY DEF G
<1>6. ASSUME NEW q \in W
      PROVE  Later(p, q)
  <2>1. q[1] \in F /\ q[1] <= i /\ q[1] \in Nat /\ i \in Nat
    BY <1>1, <1>2 DEF F
  <2>2. CASE q[1] = i
    <3>1. q[2] \in G
      BY <2>2 DEF G
    <3>2. QED
      BY <3>1, <1>3, <1>4, <1>5, <2>2 DEF Later
  <2>3. CASE q[1] # i
    BY <2>1, <2>3, <1>5 DEF Later
  <2>4. QED
    BY <2>2, <2>3
<1>7. QED
  BY <1>6

\* The elements a transaction has defined.
Elements == Seq(Seq(VectorDef))

LEMMA ElementType ==
    ASSUME NEW elems \in Elements
    PROVE  /\ Len(elems) \in Nat /\ DOMAIN elems = 1 .. Len(elems)
           /\ \A i \in DOMAIN elems :
                /\ elems[i] \in Seq(VectorDef)
                /\ Len(elems[i]) \in Nat /\ DOMAIN elems[i] = 1 .. Len(elems[i])
                /\ \A j \in DOMAIN elems[i] : elems[i][j] \in VectorDef
<1>1. /\ Len(elems) \in Nat /\ DOMAIN elems = 1 .. Len(elems)
      /\ \A i \in DOMAIN elems : elems[i] \in Seq(VectorDef)
  BY LenProperties DEF Elements
<1>2. ASSUME NEW i \in DOMAIN elems
      PROVE  /\ Len(elems[i]) \in Nat /\ DOMAIN elems[i] = 1 .. Len(elems[i])
             /\ \A j \in DOMAIN elems[i] : elems[i][j] \in VectorDef
  <2>1. elems[i] \in Seq(VectorDef)
    BY <1>1
  <2>2. QED
    BY <2>1, LenProperties
<1>3. QED
  BY <1>1, <1>2

\* The vectors written are vectors.
LEMMA WrittenVectorsType ==
    ASSUME NEW elems \in Elements, NEW tnos, NEW k,
           NEW map \in [Typenos \X Featnos -> Vecs \cup {Absent, Keep}]
    PROVE  WrittenVectors(map, elems, tnos, k) \in [Typenos \X Featnos -> Vecs \cup {Absent, Keep}]
<1>1. ASSUME NEW key \in Typenos \X Featnos,
             Writes(elems, tnos, k, key[1], key[2]) # {}
      PROVE  LET w == Writes(elems, tnos, k, key[1], key[2])
                 last == CHOOSE p \in w : \A q \in w : Later(p, q)
             IN  elems[last[1]][last[2]].vec \in Vecs \cup {Absent, Keep}
  <2> DEFINE w == Writes(elems, tnos, k, key[1], key[2])
             last == CHOOSE p \in w : \A q \in w : Later(p, q)
  <2>1. /\ Len(elems) \in Nat /\ DOMAIN elems = 1 .. Len(elems)
        /\ \A i \in DOMAIN elems : \A j \in DOMAIN elems[i] : elems[i][j] \in VectorDef
    BY ElementType
  <2>2. w \in SUBSET ((0 .. Len(elems)) \X (0 .. MaxElements))
    BY <2>1, TransAssumption DEF Writes, Positions
  <2>3. \A p \in w : p[1] \in DOMAIN elems /\ p[2] \in DOMAIN elems[p[1]]
    BY DEF Writes, Positions
  <2>4. w # {}
    BY <1>1
  <2> HIDE DEF w
  <2>5. \E p \in w : \A q \in w : Later(p, q)
    BY <2>1, <2>2, <2>4, TransAssumption, LastPosition
  <2>6. last \in w
    BY <2>5
  <2> HIDE DEF last
  <2>7. elems[last[1]][last[2]] \in VectorDef
    BY <2>1, <2>3, <2>6
  <2>8. elems[last[1]][last[2]].vec \in Vecs \cup {Absent}
    BY <2>7 DEF VectorDef
  <2>9. QED
    BY <2>8 DEF w, last
<1>2. ASSUME NEW key \in Typenos \X Featnos
      PROVE  (LET w == Writes(elems, tnos, k, key[1], key[2])
              IN  IF w = {} THEN map[key]
                  ELSE LET last == CHOOSE p \in w : \A q \in w : Later(p, q)
                       IN  elems[last[1]][last[2]].vec) \in Vecs \cup {Absent, Keep}
  BY <1>1
<1>3. QED
  BY <1>2 DEF WrittenVectors

\* The number of new vectors is a number.
LEMMA NewNofVectorsType ==
    ASSUME NEW d \in Database, NEW elems \in Elements, NEW i \in DOMAIN elems,
           NEW tno \in Typenos, NEW isnew \in BOOLEAN
    PROVE  NewNofVectors(d, elems[i], tno, isnew) \in Nat
<1> DEFINE J == {j \in DOMAIN elems[i] :
                   elems[i][j].vec # Absent /\ d.vec[<<tno, elems[i][j].id>>] = Absent}
           I == {elems[i][j].id : j \in J}
           g == [j \in J |-> elems[i][j].id]
<1>1. Len(elems[i]) \in Nat /\ DOMAIN elems[i] = 1 .. Len(elems[i])
  BY ElementType
<1>2. IsFiniteSet(1 .. Len(elems[i]))
  BY <1>1, FS_Interval
<1>3. J \in SUBSET (1 .. Len(elems[i]))
  BY <1>1
<1>4. g \in Surjection(J, I)
  BY DEF Surjection
<1>5. NewVectors(d, elems[i], tno) = I
  BY DEF NewVectors
<1> HIDE DEF J, I, g
<1>6. IsFiniteSet(J)
  BY <1>2, <1>3, FS_Subset
<1>7. IsFiniteSet(I)
  BY <1>4, <1>6, FS_Surjection
<1>8. Cardinality(I) \in Nat
  BY <1>7, FS_CardinalityType
<1>9. ReadNofVectors(d, tno) \in Nat
  BY ReadTypes
<1>10. QED
  BY <1>5, <1>8, <1>9 DEF NewNofVectors

\* Numbers that fit are numbers of the database.
LEMMA AllocatedType ==
    ASSUME NEW m \in Nat, NEW n \in Nat, NEW known \in [1 .. n -> 0 .. m],
           NEW counter \in Nat, counter + NofNew(known) <= m
    PROVE  /\ NofNew(known) \in Nat
           /\ Allocated(known, counter) \in [1 .. n -> 1 .. m]
<1>1. known \in [1 .. n -> Nat]
  OBVIOUS
<1>2. /\ NofNew(known) \in Nat
      /\ \A i \in 1 .. n : known[i] = 0 =>
           Allocated(known, counter)[i] \in counter + 1 .. counter + NofNew(known)
  BY <1>1, AllocatedNumbers
<1>3. DOMAIN Allocated(known, counter) = 1 .. n
  BY DEF Allocated
<1>4. ASSUME NEW i \in 1 .. n
      PROVE  Allocated(known, counter)[i] \in 1 .. m
  <2>1. CASE known[i] = 0
    <3>1. Allocated(known, counter)[i] \in counter + 1 .. counter + NofNew(known)
      BY <1>2, <2>1
    <3>2. QED
      BY <3>1, <1>2
  <2>2. CASE known[i] # 0
    <3>1. Allocated(known, counter)[i] = known[i]
      BY <2>2 DEF Allocated
    <3>2. QED
      BY <3>1, <2>2
  <2>3. QED
    BY <2>1, <2>2
<1>5. Allocated(known, counter) = [i \in 1 .. n |-> Allocated(known, counter)[i]]
  BY <1>3 DEF Allocated
<1>6. QED
  BY <1>2, <1>4, <1>5

LEMMA TypeNumbersType ==
    ASSUME NEW d \in Database, NEW tab \in Seq(Types),
           ReadNofTypeno(d) + NofNew(KnownTypes(d, tab)) <= MaxTypeno
    PROVE  /\ KnownTypes(d, tab) \in [1 .. Len(tab) -> Nat]
           /\ NofNew(KnownTypes(d, tab)) \in Nat
           /\ TypeNumbers(d, tab) \in [1 .. Len(tab) -> Typenos]
<1>1. Len(tab) \in Nat /\ DOMAIN tab = 1 .. Len(tab) /\ \A i \in 1 .. Len(tab) : tab[i] \in Types
  BY LenProperties
<1>2. KnownTypes(d, tab) \in [1 .. Len(tab) -> 0 .. MaxTypeno]
  <2>1. \A t \in Types : ReadTypeno(d, t) \in 0 .. MaxTypeno
    BY ReadTypes, BoundsAssumption DEF Typenos
  <2>2. QED
    BY <1>1, <2>1 DEF KnownTypes
<1>3. ReadNofTypeno(d) \in Nat
  BY ReadTypes
<1>4. /\ NofNew(KnownTypes(d, tab)) \in Nat
      /\ Allocated(KnownTypes(d, tab), ReadNofTypeno(d)) \in [1 .. Len(tab) -> 1 .. MaxTypeno]
  BY <1>1, <1>2, <1>3, AllocatedType, BoundsAssumption
<1>5. KnownTypes(d, tab) \in [1 .. Len(tab) -> Nat]
  BY <1>2
<1>6. QED
  BY <1>4, <1>5 DEF TypeNumbers, Typenos

LEMMA FeatNumbersType ==
    ASSUME NEW d \in Database, NEW tab \in Seq(Feats),
           ReadNofFeatno(d) + NofNew(KnownFeats(d, tab)) <= MaxFeatno
    PROVE  /\ KnownFeats(d, tab) \in [1 .. Len(tab) -> Nat]
           /\ NofNew(KnownFeats(d, tab)) \in Nat
           /\ FeatNumbers(d, tab) \in [1 .. Len(tab) -> Featnos]
<1>1. Len(tab) \in Nat /\ DOMAIN tab = 1 .. Len(tab) /\ \A i \in 1 .. Len(tab) : tab[i] \in Feats
  BY LenProperties
<1>2. KnownFeats(d, tab) \in [1 .. Len(tab) -> 0 .. MaxFeatno]
  <2>1. \A f \in Feats : ReadFeatno(d, f) \in 0 .. MaxFeatno
    BY ReadTypes, BoundsAssumption DEF Featnos
  <2>2. QED
    BY <1>1, <2>1 DEF KnownFeats
<1>3. ReadNofFeatno(d) \in Nat
  BY ReadTypes
<1>4. /\ NofNew(KnownFeats(d, tab)) \in Nat
      /\ Allocated(KnownFeats(d, tab), ReadNofFeatno(d)) \in [1 .. Len(tab) -> 1 .. MaxFeatno]
  BY <1>1, <1>2, <1>3, AllocatedType, BoundsAssumption
<1>5. KnownFeats(d, tab) \in [1 .. Len(tab) -> Nat]
  BY <1>2
<1>6. QED
  BY <1>4, <1>5 DEF FeatNumbers, Featnos

\* The maps written for the symbols of a local table.
LEMMA WrittenMapsType ==
    ASSUME NEW S, NEW N, NEW tab \in Seq(S), NEW known, NEW nums \in [1 .. Len(tab) -> N],
           NEW nos \in [S -> N \cup {Absent, Keep}],
           NEW names \in [N -> S \cup {Absent, Keep}]
    PROVE  /\ WrittenNumbers(nos, tab, known, nums) \in [S -> N \cup {Absent, Keep}]
           /\ WrittenNames(names, tab, known, nums) \in [N -> S \cup {Absent, Keep}]
<1>1. Len(tab) \in Nat /\ DOMAIN tab = 1 .. Len(tab) /\ \A i \in DOMAIN tab : tab[i] \in S
  BY LenProperties
<1>2. WrittenNumbers(nos, tab, known, nums) \in [S -> N \cup {Absent, Keep}]
  BY <1>1 DEF WrittenNumbers
<1>3. WrittenNames(names, tab, known, nums) \in [N -> S \cup {Absent, Keep}]
  BY <1>1 DEF WrittenNames
<1>4. QED
  BY <1>2, <1>3

\* The counters of vectors written.
LEMMA WrittenCountsType ==
    ASSUME NEW d \in Database, NEW elems \in Elements, NEW k \in 0 .. Len(elems),
           NEW known, NEW tnos, NEW map \in [Typenos -> Nat \cup {Absent, Keep}]
    PROVE  WrittenCounts(map, d, elems, known, tnos, k) \in [Typenos -> Nat \cup {Absent, Keep}]
<1>1. ASSUME NEW n \in Typenos, {i \in 1 .. k : tnos[i] = n} # {}
      PROVE  LET ts == {i \in 1 .. k : tnos[i] = n}
                 i == CHOOSE i \in ts : \A j \in ts : j <= i
             IN  NewNofVectors(d, elems[i], n, known[i] = 0) \in Nat
  <2> DEFINE ts == {i \in 1 .. k : tnos[i] = n}
             i == CHOOSE i \in ts : \A j \in ts : j <= i
  <2>1. Len(elems) \in Nat /\ DOMAIN elems = 1 .. Len(elems)
    BY ElementType
  <2>2. ts \in SUBSET (0 .. k) /\ ts \subseteq 1 .. k /\ ts # {} /\ k \in Nat
    BY <1>1, <2>1
  <2> HIDE DEF ts
  <2>3. \E t \in ts : \A j \in ts : j <= t
    BY <2>2, GreatestNumber
  <2>4. i \in ts
    BY <2>3
  <2> HIDE DEF i
  <2>5. i \in DOMAIN elems
    BY <2>1, <2>2, <2>4
  <2>6. (known[i] = 0) \in BOOLEAN
    OBVIOUS
  <2>7. NewNofVectors(d, elems[i], n, known[i] = 0) \in Nat
    BY <2>5, <2>6, NewNofVectorsType
  <2>8. QED
    BY <2>7 DEF i, ts
<1>2. ASSUME NEW n \in Typenos
      PROVE  (LET ts == {i \in 1 .. k : tnos[i] = n}
              IN  IF ts = {} THEN map[n]
                  ELSE LET i == CHOOSE i \in ts : \A j \in ts : j <= i
                       IN  NewNofVectors(d, elems[i], n, known[i] = 0))
                \in Nat \cup {Absent, Keep}
  BY <1>1
<1>3. QED
  BY <1>2 DEF WrittenCounts

\* The relations written.
LEMMA WrittenRelationsType ==
    ASSUME NEW d \in Database, NEW a \in Nat, NEW b \in Nat,
           NEW rels \in SUBSET ((1 .. a) \X (1 .. b)),
           NEW tnos \in [1 .. b -> Typenos], NEW fnos,
           NEW map \in [Featnos -> (SUBSET Typenos) \cup {Absent, Keep}]
    PROVE  WrittenRelations(map, d, rels, tnos, fnos)
             \in [Featnos -> (SUBSET Typenos) \cup {Absent, Keep}]
<1>1. ASSUME NEW n \in Featnos
      PROVE  MergedRelations(ReadFeatureTypeRelations(d, n),
                             {tnos[r[2]] : r \in {r \in rels : fnos[r[1]] = n}})
               \in SUBSET Typenos
  <2>1. ReadFeatureTypeRelations(d, n) \subseteq Typenos
    BY ReadTypes
  <2>2. \A r \in rels : tnos[r[2]] \in Typenos
    OBVIOUS
  <2>3. QED
    BY <2>1, <2>2 DEF MergedRelations
<1>2. QED
  BY <1>1 DEF WrittenRelations

\* The batch of a commit is a batch.
LEMMA FilledBatchType ==
    ASSUME NEW x \in Trans, db \in Database, batch[x] \in Batch,
           typetab[x] \in Seq(Types), nametab[x] \in Seq(Feats), NumbersFit(x),
           NEW elems \in Elements, NEW k \in 0 .. Len(elems),
           NEW rels \in SUBSET ((1 .. Len(nametab[x])) \X (1 .. Len(typetab[x])))
    PROVE  FilledBatch(x, elems, k, rels) \in Batch
<1> DEFINE kt == KnownTypes(db, typetab[x])
           kf == KnownFeats(db, nametab[x])
           tnos == TypeNumbers(db, typetab[x])
           fnos == FeatNumbers(db, nametab[x])
           b == batch[x]
<1>1. NofNew(kt) \in Nat /\ tnos \in [1 .. Len(typetab[x]) -> Typenos]
  BY TypeNumbersType DEF NumbersFit
<1>2. NofNew(kf) \in Nat /\ fnos \in [1 .. Len(nametab[x]) -> Featnos]
  BY FeatNumbersType DEF NumbersFit
<1>3. Len(typetab[x]) \in Nat /\ Len(nametab[x]) \in Nat
  BY LenProperties
<1>4. /\ b.typeno \in [Types -> Typenos \cup {Absent, Keep}]
      /\ b.typename \in [Typenos -> Types \cup {Absent, Keep}]
      /\ b.featno \in [Feats -> Featnos \cup {Absent, Keep}]
      /\ b.featname \in [Featnos -> Feats \cup {Absent, Keep}]
      /\ b.vec \in [Typenos \X Featnos -> Vecs \cup {Absent, Keep}]
      /\ b.simhash \in [Typenos \X Featnos -> Vecs \cup {Absent, Keep}]
      /\ b.nofvec \in [Typenos -> Nat \cup {Absent, Keep}]
      /\ b.rel \in [Featnos -> (SUBSET Typenos) \cup {Absent, Keep}]
  BY DEF Batch
<1>5. ReadNofTypeno(db) \in Nat /\ ReadNofFeatno(db) \in Nat
  BY ReadTypes
<1> HIDE DEF kt, kf, tnos, fnos, b
<1>6. /\ WrittenNumbers(b.typeno, typetab[x], kt, tnos) \in [Types -> Typenos \cup {Absent, Keep}]
      /\ WrittenNames(b.typename, typetab[x], kt, tnos) \in [Typenos -> Types \cup {Absent, Keep}]
  BY <1>1, <1>4, WrittenMapsType
<1>7. /\ WrittenNumbers(b.featno, nametab[x], kf, fnos) \in [Feats -> Featnos \cup {Absent, Keep}]
      /\ WrittenNames(b.featname, nametab[x], kf, fnos) \in [Featnos -> Feats \cup {Absent, Keep}]
  BY <1>2, <1>4, WrittenMapsType
<1>8. /\ WrittenVectors(b.vec, elems, tnos, k) \in [Typenos \X Featnos -> Vecs \cup {Absent, Keep}]
      /\ WrittenVectors(b.simhash, elems, tnos, k)
            \in [Typenos \X Featnos -> Vecs \cup {Absent, Keep}]
  BY <1>4, WrittenVectorsType
<1>9. WrittenCounts(b.nofvec, db, elems, kt, tnos, k) \in [Typenos -> Nat \cup {Absent, Keep}]
  BY <1>4, WrittenCountsType
<1>10. WrittenRelations(b.rel, db, rels, tnos, fnos)
          \in [Featnos -> (SUBSET Typenos) \cup {Absent, Keep}]
  BY <1>1, <1>3, <1>4, WrittenRelationsType
<1>11. ReadNofTypeno(db) + NofNew(kt) \in Nat /\ ReadNofFeatno(db) + NofNew(kf) \in Nat
  BY <1>1, <1>2, <1>5
<1>12. FilledBatch(x, elems, k, rels) =
         [ typeno    |-> WrittenNumbers(b.typeno, typetab[x], kt, tnos),
           typename  |-> WrittenNames(b.typename, typetab[x], kt, tnos),
           featno    |-> WrittenNumbers(b.featno, nametab[x], kf, fnos),
           featname  |-> WrittenNames(b.featname, nametab[x], kf, fnos),
           vec       |-> WrittenVectors(b.vec, elems, tnos, k),
           simhash   |-> WrittenVectors(b.simhash, elems, tnos, k),
           nofvec    |-> WrittenCounts(b.nofvec, db, elems, kt, tnos, k),
           noftypeno |-> ReadNofTypeno(db) + NofNew(kt),
           noffeatno |-> ReadNofFeatno(db) + NofNew(kf),
           rel       |-> WrittenRelations(b.rel, db, rels, tnos, fnos) ]
  BY DEF FilledBatch, b, kt, kf, tnos, fnos
<1>13. QED
  BY <1>6, <1>7, <1>8, <1>9, <1>10, <1>11, <1>12 DEF Batch

\* Renumbering keeps the elements elements.
LEMMA RenumberedType ==
    ASSUME NEW x \in Trans, vecar[x] \in Elements, NEW n \in Nat,
           NEW fnos \in [1 .. n -> Featnos], NEW any \in {1} \cup Featnos, NEW k
    PROVE  /\ Renumbered(x, fnos, any, k) \in Elements
           /\ Len(Renumbered(x, fnos, any, k)) = Len(vecar[x])
<1> DEFINE r == Renumbered(x, fnos, any, k)
           e == vecar[x]
<1>1. /\ Len(e) \in Nat /\ DOMAIN e = 1 .. Len(e)
      /\ \A i \in DOMAIN e :
           /\ e[i] \in Seq(VectorDef)
           /\ Len(e[i]) \in Nat /\ DOMAIN e[i] = 1 .. Len(e[i])
           /\ \A j \in DOMAIN e[i] : e[i][j] \in VectorDef
  BY ElementType
<1>2. any \in Nat /\ \A i \in 1 .. n : fnos[i] \in Nat
  BY BoundsAssumption DEF Featnos
<1>3. ASSUME NEW i \in DOMAIN e
      PROVE  Numbered(e[i], fnos, any) \in Seq(VectorDef)
  <2>1. DOMAIN e[i] = 1 .. Len(e[i]) /\ Len(e[i]) \in Nat
    BY <1>1
  <2>2. ASSUME NEW j \in DOMAIN e[i]
        PROVE  [e[i][j] EXCEPT !.id = IF @ \in DOMAIN fnos THEN fnos[@] ELSE any] \in VectorDef
    BY <1>1, <1>2 DEF VectorDef
  <2>3. Numbered(e[i], fnos, any) \in [1 .. Len(e[i]) -> VectorDef]
    BY <2>1, <2>2 DEF Numbered
  <2>4. QED
    BY <2>1, <2>3, SeqDef
<1>4. r = [i \in 1 .. Len(e) |-> IF i <= k THEN Numbered(e[i], fnos, any) ELSE e[i]]
  BY <1>1 DEF Renumbered
<1> HIDE DEF r, e
<1>5. r \in [1 .. Len(e) -> Seq(VectorDef)]
  BY <1>1, <1>3, <1>4
<1>6. r \in Seq(Seq(VectorDef)) /\ Len(r) = Len(e)
  BY <1>1, <1>5, SeqDef, LenProperties
<1>7. QED
  BY <1>6 DEF r, e, Elements

\* The symbol tables of a transaction.
LEMMA SymbolTable ==
    ASSUME NEW S, NEW tab \in Seq(S), NEW key \in S
    PROVE  /\ GetOrCreate(tab, key) \in Seq(S)
           /\ Len(tab) <= Len(GetOrCreate(tab, key))
           /\ SymbolIndex(GetOrCreate(tab, key), key) \in 1 .. Len(GetOrCreate(tab, key))
           /\ (\A i, j \in DOMAIN tab : tab[i] = tab[j] => i = j) =>
                \A i, j \in DOMAIN GetOrCreate(tab, key) :
                    GetOrCreate(tab, key)[i] = GetOrCreate(tab, key)[j] => i = j
<1>1. Len(tab) \in Nat /\ DOMAIN tab = 1 .. Len(tab)
  BY LenProperties
<1>2. CASE \E i \in DOMAIN tab : tab[i] = key
  <2>1. GetOrCreate(tab, key) = tab
    BY <1>2 DEF GetOrCreate
  <2>2. SymbolIndex(tab, key) \in 1 .. Len(tab)
    BY <1>1, <1>2 DEF SymbolIndex
  <2>3. QED
    BY <1>1, <2>1, <2>2
<1>3. CASE ~ \E i \in DOMAIN tab : tab[i] = key
  <2> DEFINE new == Append(tab, key)
  <2>1. GetOrCreate(tab, key) = new
    BY <1>3 DEF GetOrCreate
  <2>2. /\ new \in Seq(S) /\ Len(new) = Len(tab) + 1
        /\ \A i \in 1 .. Len(tab) : new[i] = tab[i]
        /\ new[Len(tab) + 1] = key
    BY AppendProperties
  <2> HIDE DEF new
  <2>3. DOMAIN new = 1 .. Len(tab) + 1
    BY <2>2, LenProperties
  <2>4. \E i \in DOMAIN new : new[i] = key
    BY <1>1, <2>2, <2>3
  <2>5. SymbolIndex(new, key) \in 1 .. Len(new)
    BY <2>2, <2>3, <2>4 DEF SymbolIndex
  <2>6. ASSUME \A i, j \in DOMAIN tab : tab[i] = tab[j] => i = j,
               NEW i \in DOMAIN new, NEW j \in DOMAIN new, new[i] = new[j]
        PROVE  i = j
    BY <1>1, <1>3, <2>2, <2>3, <2>6
  <2>7. QED
    BY <1>1, <2>1, <2>2, <2>5, <2>6
<1>4. QED
  BY <1>2, <1>3

-----------------------------------------------------------------------------
(* Type correctness.                                                       *)

\* Relations refer to the symbols of the local tables.
RelationsInRange ==
    \A x \in Trans :
        relations[x] \subseteq (1 .. Len(nametab[x])) \X (1 .. Len(typetab[x]))

TypeInv == TypeOK /\ RelationsInRange

LEMMA TypeInit == Init => TypeInv
<1> SUFFICES ASSUME Init PROVE TypeInv
  OBVIOUS
<1>1. db \in Database
  BY CreateStorageType, LexerAssumption DEF Init
<1>2. \A x \in Trans : batch[x] \in Batch
  BY EmptyBatchType DEF Init
<1>3. batch \in [Trans -> Batch]
  BY <1>2 DEF Init
<1>4. NoDefinitions \in Definitions
  BY DEF NoDefinitions, Definitions
<1>5. << >> \in Seq(Types) /\ << >> \in Seq(Feats) /\ << >> \in Seq(Seq(VectorDef))
  OBVIOUS
<1>6. TypeOK
  BY <1>1, <1>3, <1>4, <1>5 DEF Init, TypeOK
<1>7. RelationsInRange
  BY DEF Init, RelationsInRange
<1>8. QED
  BY <1>6, <1>7 DEF TypeInv

\* reset() leaves well-typed local tables.
LEMMA TypeReset ==
    ASSUME TypeInv, NEW x \in Trans, ResetLocals(x)
    PROVE  /\ typetab' \in [Trans -> Seq(Types)]
           /\ nametab' \in [Trans -> Seq(Feats)]
           /\ vecar' \in [Trans -> Seq(Seq(VectorDef))]
           /\ relations' \in [Trans -> SUBSET (Nat \X Nat)]
           /\ defs' \in [Trans -> Definitions]
           /\ RelationsInRange'
<1>1. NoDefinitions \in Definitions
  BY DEF NoDefinitions, Definitions
<1>2. << >> \in Seq(Types) /\ << >> \in Seq(Feats) /\ << >> \in Seq(Seq(VectorDef))
  OBVIOUS
<1>3. defs' \in [Trans -> Definitions]
  BY <1>1 DEF TypeInv, TypeOK, ResetLocals
<1>4. /\ typetab' \in [Trans -> Seq(Types)]
      /\ nametab' \in [Trans -> Seq(Feats)]
      /\ vecar' \in [Trans -> Seq(Seq(VectorDef))]
      /\ relations' \in [Trans -> SUBSET (Nat \X Nat)]
  BY <1>2 DEF TypeInv, TypeOK, ResetLocals
<1>5. RelationsInRange'
  BY DEF TypeInv, TypeOK, RelationsInRange, ResetLocals
<1>6. QED
  BY <1>3, <1>4, <1>5

LEMMA SlotsType ==
    ASSUME NEW x \in Trans, vecar[x] \in Seq(Seq(VectorDef)), NEW tab
    PROVE  TypeSlots(x, tab) \in Seq(Seq(VectorDef))
<1>1. << >> \in Seq(VectorDef)
  OBVIOUS
<1>2. Append(vecar[x], << >>) \in Seq(Seq(VectorDef))
  BY <1>1, AppendProperties
<1>3. QED
  BY <1>2 DEF TypeSlots

LEMMA TypeDefineFeatureType ==
    ASSUME TypeInv, NEW x \in Trans, NEW t \in Types, DefineFeatureType(x, t)
    PROVE  TypeInv'
<1> DEFINE tab == GetOrCreate(typetab[x], t)
<1>1. typetab[x] \in Seq(Types) /\ Len(typetab[x]) \in Nat
  BY LenProperties DEF TypeInv, TypeOK
<1>2. tab \in Seq(Types) /\ Len(typetab[x]) <= Len(tab) /\ Len(tab) \in Nat
  BY <1>1, SymbolTable, LenProperties
<1>3. TypeSlots(x, tab) \in Seq(Seq(VectorDef))
  BY SlotsType DEF TypeInv, TypeOK
<1>4. /\ typetab' = [typetab EXCEPT ![x] = tab]
      /\ vecar' = [vecar EXCEPT ![x] = TypeSlots(x, tab)]
      /\ defs' = [defs EXCEPT ![x].types = @ \cup {t}]
      /\ UNCHANGED <<db, lock, pc, nametab, relations, batch>>
  BY DEF DefineFeatureType
<1> HIDE DEF tab
<1>5. /\ typetab' \in [Trans -> Seq(Types)]
      /\ vecar' \in [Trans -> Seq(Seq(VectorDef))]
  BY <1>2, <1>3, <1>4 DEF TypeInv, TypeOK
<1>6. defs' \in [Trans -> Definitions]
  BY ZenonT(30), <1>4 DEF TypeInv, TypeOK, Definitions
<1>7. TypeOK'
  BY <1>4, <1>5, <1>6 DEF TypeInv, TypeOK
<1>8. RelationsInRange'
  <2>1. ASSUME NEW y \in Trans
        PROVE  relations'[y] \subseteq (1 .. Len(nametab'[y])) \X (1 .. Len(typetab'[y]))
    <3>1. relations[y] \subseteq (1 .. Len(nametab[y])) \X (1 .. Len(typetab[y]))
      BY DEF TypeInv, RelationsInRange
    <3>2. nametab'[y] = nametab[y] /\ relations'[y] = relations[y]
      BY <1>4
    <3>3. 1 .. Len(typetab[y]) \subseteq 1 .. Len(typetab'[y])
      BY <1>1, <1>2, <1>4 DEF TypeInv, TypeOK
    <3>4. QED
      BY <3>1, <3>2, <3>3
  <2>2. QED
    BY <2>1 DEF RelationsInRange
<1>9. QED
  BY <1>7, <1>8 DEF TypeInv

LEMMA TypeDefineElement ==
    ASSUME TypeInv, NEW x \in Trans, NEW t \in Types, NEW f \in Feats,
           NEW v \in Vecs \cup {Absent}, DefineElement(x, t, f, v)
    PROVE  TypeInv'
<1> DEFINE ttab == GetOrCreate(typetab[x], t)
           ntab == GetOrCreate(nametab[x], f)
           tid == SymbolIndex(ttab, t)
           fid == SymbolIndex(ntab, f)
           slots == TypeSlots(x, ttab)
           new == [slots EXCEPT ![tid] = Append(@, [id |-> fid, vec |-> v])]
<1>1. /\ typetab[x] \in Seq(Types) /\ Len(typetab[x]) \in Nat
      /\ nametab[x] \in Seq(Feats) /\ Len(nametab[x]) \in Nat
  BY LenProperties DEF TypeInv, TypeOK
<1>2. /\ ttab \in Seq(Types) /\ Len(typetab[x]) <= Len(ttab) /\ Len(ttab) \in Nat
      /\ tid \in 1 .. Len(ttab)
  BY <1>1, SymbolTable, LenProperties
<1>3. /\ ntab \in Seq(Feats) /\ Len(nametab[x]) <= Len(ntab) /\ Len(ntab) \in Nat
      /\ fid \in 1 .. Len(ntab)
  BY <1>1, SymbolTable, LenProperties
<1>4. slots \in Seq(Seq(VectorDef))
  BY SlotsType DEF TypeInv, TypeOK
<1>5. /\ typetab' = [typetab EXCEPT ![x] = ttab]
      /\ nametab' = [nametab EXCEPT ![x] = ntab]
      /\ vecar' = [vecar EXCEPT ![x] = new]
      /\ relations' = [relations EXCEPT ![x] = @ \cup {<<fid, tid>>}]
      /\ defs' = [defs EXCEPT ![x] = WithElement(@, t, f, v)]
      /\ UNCHANGED <<db, lock, pc, batch>>
  BY DEF DefineElement
<1> HIDE DEF ttab, ntab, tid, fid, slots
<1>6. new \in Seq(Seq(VectorDef))
  <2>1. fid \in Nat
    BY <1>3
  <2>2. [id |-> fid, vec |-> v] \in VectorDef
    BY <2>1 DEF VectorDef
  <2>3. Len(slots) \in Nat /\ slots \in [1 .. Len(slots) -> Seq(VectorDef)]
    BY <1>4, LenProperties
  <2>4. tid \in 1 .. Len(slots) => Append(slots[tid], [id |-> fid, vec |-> v]) \in Seq(VectorDef)
    BY <2>2, <2>3, AppendProperties
  <2>5. new \in [1 .. Len(slots) -> Seq(VectorDef)]
    BY <2>3, <2>4
  <2>6. QED
    BY <2>3, <2>5, SeqDef
<1> HIDE DEF new
<1>7. /\ typetab' \in [Trans -> Seq(Types)]
      /\ nametab' \in [Trans -> Seq(Feats)]
      /\ vecar' \in [Trans -> Seq(Seq(VectorDef))]
  BY <1>2, <1>3, <1>5, <1>6 DEF TypeInv, TypeOK
<1>8. relations' \in [Trans -> SUBSET (Nat \X Nat)]
  BY <1>2, <1>3, <1>5 DEF TypeInv, TypeOK
<1>9. defs' \in [Trans -> Definitions]
  <2>1. defs \in [Trans -> Definitions]
    BY DEF TypeInv, TypeOK
  <2>2. WithElement(defs[x], t, f, v) \in Definitions
    <3>1. defs[x].vec \in [Types \X Feats -> Vecs \cup {Absent}]
      BY <2>1 DEF Definitions
    <3>2. [defs[x].vec EXCEPT ![<<t, f>>] = v] \in [Types \X Feats -> Vecs \cup {Absent}]
      BY <3>1
    <3>3. QED
      BY <2>1, <3>1, <3>2 DEF WithElement, Definitions
  <2>3. QED
    BY <1>5, <2>1, <2>2
<1>10. TypeOK'
  BY <1>5, <1>7, <1>8, <1>9 DEF TypeInv, TypeOK
<1>11. RelationsInRange'
  <2>1. ASSUME NEW y \in Trans
        PROVE  relations'[y] \subseteq (1 .. Len(nametab'[y])) \X (1 .. Len(typetab'[y]))
    <3>1. relations[y] \subseteq (1 .. Len(nametab[y])) \X (1 .. Len(typetab[y]))
      BY DEF TypeInv, RelationsInRange
    <3>2. CASE y = x
      <4>1. /\ nametab'[y] = ntab /\ typetab'[y] = ttab
            /\ relations'[y] = relations[y] \cup {<<fid, tid>>}
        BY <1>5, <3>2 DEF TypeInv, TypeOK
      <4>2. /\ 1 .. Len(typetab[y]) \subseteq 1 .. Len(ttab)
            /\ 1 .. Len(nametab[y]) \subseteq 1 .. Len(ntab)
        BY <1>1, <1>2, <1>3, <3>2
      <4>3. QED
        BY <1>2, <1>3, <3>1, <4>1, <4>2
    <3>3. CASE y # x
      BY <1>5, <3>1, <3>3 DEF TypeInv, TypeOK
    <3>4. QED
      BY <3>2, <3>3
  <2>2. QED
    BY <2>1 DEF RelationsInRange
<1>12. QED
  BY <1>10, <1>11 DEF TypeInv

LEMMA TypePrepareCommit ==
    ASSUME TypeInv, NEW x \in Trans, PrepareCommit(x)
    PROVE  TypeInv'
<1>1. /\ db \in Database /\ batch[x] \in Batch
      /\ typetab[x] \in Seq(Types) /\ nametab[x] \in Seq(Feats)
      /\ vecar[x] \in Elements
      /\ relations[x] \in SUBSET ((1 .. Len(nametab[x])) \X (1 .. Len(typetab[x])))
  BY DEF TypeInv, TypeOK, RelationsInRange, Elements
<1>2. NumbersFit(x) /\ Len(typetab[x]) = Len(vecar[x])
  BY DEF PrepareCommit
<1>3. PICK any \in AnyNumber(x) :
        LET elems == Renumbered(x, FeatNumbers(db, nametab[x]), any, Len(typetab[x]))
        IN  /\ vecar' = [vecar EXCEPT ![x] = elems]
            /\ batch' = [batch EXCEPT ![x] =
                           FilledBatch(x, elems, Len(typetab[x]), relations[x])]
  BY DEF PrepareCommit
<1> DEFINE k == Len(typetab[x])
           elems == Renumbered(x, FeatNumbers(db, nametab[x]), any, k)
<1>4. any \in {1} \cup Featnos
  BY <1>3 DEF AnyNumber
<1>5. FeatNumbers(db, nametab[x]) \in [1 .. Len(nametab[x]) -> Featnos] /\ Len(nametab[x]) \in Nat
  BY <1>1, <1>2, FeatNumbersType, LenProperties DEF NumbersFit
<1>6. elems \in Elements /\ Len(elems) = Len(vecar[x])
  BY <1>1, <1>4, <1>5, RenumberedType
<1>7. /\ vecar' = [vecar EXCEPT ![x] = elems]
      /\ batch' = [batch EXCEPT ![x] = FilledBatch(x, elems, k, relations[x])]
  BY <1>3
<1> HIDE DEF elems
<1>8. k \in 0 .. Len(elems)
  BY <1>1, <1>2, <1>6, LenProperties
<1>9. FilledBatch(x, elems, k, relations[x]) \in Batch
  BY <1>1, <1>2, <1>6, <1>8, FilledBatchType
<1> DEFINE filled == FilledBatch(x, elems, k, relations[x])
<1> HIDE DEF filled
<1>10. batch' \in [Trans -> Batch]
  BY <1>7, <1>9 DEF TypeInv, TypeOK, filled
<1>11. vecar' \in [Trans -> Seq(Seq(VectorDef))]
  BY <1>6, <1>7 DEF TypeInv, TypeOK, Elements
<1>12. /\ lock' = x
       /\ pc' = [pc EXCEPT ![x] = "prepared"]
       /\ UNCHANGED <<db, typetab, nametab, relations, defs>>
  BY DEF PrepareCommit, LockAcquired
<1>13. TypeOK'
  BY <1>10, <1>11, <1>12 DEF TypeInv, TypeOK
<1>14. RelationsInRange'
  BY <1>12 DEF TypeInv, RelationsInRange
<1>15. QED
  BY <1>13, <1>14 DEF TypeInv

LEMMA TypeCommitThrows ==
    ASSUME TypeInv, NEW x \in Trans, CommitThrows(x)
    PROVE  TypeInv'
<1>1. /\ db \in Database /\ batch[x] \in Batch
      /\ typetab[x] \in Seq(Types) /\ nametab[x] \in Seq(Feats)
      /\ vecar[x] \in Elements
      /\ {} \in SUBSET ((1 .. Len(nametab[x])) \X (1 .. Len(typetab[x])))
  BY DEF TypeInv, TypeOK, Elements
<1>2. /\ NumbersFit(x)
      /\ pc' = [pc EXCEPT ![x] = "failed"]
      /\ UNCHANGED <<db, lock, typetab, nametab, relations, defs>>
  BY DEF CommitThrows
<1>3. vecar' \in [Trans -> Seq(Seq(VectorDef))] /\ batch' \in [Trans -> Batch]
  <2>1. CASE UNCHANGED <<vecar, batch>>
    BY <2>1 DEF TypeInv, TypeOK
  <2>2. ASSUME Len(typetab[x]) = Len(vecar[x]),
               NEW k \in 0 .. Len(typetab[x]), NEW any \in AnyNumber(x),
               LET elems == Renumbered(x, FeatNumbers(db, nametab[x]), any, k)
               IN  /\ vecar' = [vecar EXCEPT ![x] = elems]
                   /\ batch' = [batch EXCEPT ![x] = FilledBatch(x, elems, k, {})]
        PROVE  vecar' \in [Trans -> Seq(Seq(VectorDef))] /\ batch' \in [Trans -> Batch]
    <3> DEFINE elems == Renumbered(x, FeatNumbers(db, nametab[x]), any, k)
    <3>1. any \in {1} \cup Featnos
      BY DEF AnyNumber
    <3>2. FeatNumbers(db, nametab[x]) \in [1 .. Len(nametab[x]) -> Featnos]
          /\ Len(nametab[x]) \in Nat
      BY <1>1, <1>2, FeatNumbersType, LenProperties DEF NumbersFit
    <3>3. elems \in Elements /\ Len(elems) = Len(vecar[x])
      BY <1>1, <3>1, <3>2, RenumberedType
    <3>4. /\ vecar' = [vecar EXCEPT ![x] = elems]
          /\ batch' = [batch EXCEPT ![x] = FilledBatch(x, elems, k, {})]
      BY <2>2
    <3> HIDE DEF elems
    <3>5. k \in 0 .. Len(elems)
      BY <2>2, <3>3
    <3>6. FilledBatch(x, elems, k, {}) \in Batch
      BY <1>1, <1>2, <3>3, <3>5, FilledBatchType
    <3> DEFINE filled == FilledBatch(x, elems, k, {})
    <3> HIDE DEF filled
    <3>7. batch' \in [Trans -> Batch]
      BY <3>4, <3>6 DEF TypeInv, TypeOK, filled
    <3>8. vecar' \in [Trans -> Seq(Seq(VectorDef))]
      BY <3>3, <3>4 DEF TypeInv, TypeOK, Elements
    <3>9. QED
      BY <3>7, <3>8
  <2>3. QED
    BY <2>1, <2>2 DEF CommitThrows
<1>4. TypeOK'
  BY <1>2, <1>3 DEF TypeInv, TypeOK
<1>5. RelationsInRange'
  BY <1>2 DEF TypeInv, RelationsInRange
<1>6. QED
  BY <1>4, <1>5 DEF TypeInv

LEMMA TypeStep == TypeInv /\ [Next]_vars => TypeInv'
<1> SUFFICES ASSUME TypeInv, [Next]_vars PROVE TypeInv'
  OBVIOUS
<1>1. CASE UNCHANGED vars
  BY <1>1 DEF vars, TypeInv, TypeOK, RelationsInRange
<1>2. ASSUME NEW x \in Trans, NEW t \in Types, DefineFeatureType(x, t)
      PROVE  TypeInv'
  BY <1>2, TypeDefineFeatureType
<1>3. ASSUME NEW x \in Trans, NEW t \in Types, NEW f \in Feats, NEW v \in Vecs \cup {Absent},
             DefineElement(x, t, f, v)
      PROVE  TypeInv'
  BY <1>3, TypeDefineElement
<1>4. ASSUME NEW x \in Trans, Clear(x)
      PROVE  TypeInv'
  <2>1. db \in Database /\ batch \in [Trans -> Batch] /\ defs \in [Trans -> Definitions]
    BY DEF TypeInv, TypeOK
  <2>2. Cleared(batch[x], db) \in Batch
    BY <2>1, ClearedType
  <2>3. batch' \in [Trans -> Batch]
    BY <1>4, <2>1, <2>2 DEF Clear
  <2>4. [defs[x] EXCEPT !.clear = TRUE] \in Definitions
    BY <2>1 DEF Definitions
  <2>5. defs' \in [Trans -> Definitions]
    BY <1>4, <2>1, <2>4 DEF Clear
  <2>6. UNCHANGED <<db, lock, pc, typetab, nametab, vecar, relations>>
    BY <1>4 DEF Clear
  <2>7. QED
    BY <2>3, <2>5, <2>6 DEF TypeInv, TypeOK, RelationsInRange
<1>5. ASSUME NEW x \in Trans, Rollback(x)
      PROVE  TypeInv'
  <2>1. batch' \in [Trans -> Batch]
    BY <1>5, EmptyBatchType DEF Rollback, TypeInv, TypeOK
  <2>2. ResetLocals(x)
    BY <1>5 DEF Rollback
  <2>3. pc' \in [Trans -> {"open", "prepared", "failed"}] /\ UNCHANGED <<db, lock>>
    BY <1>5 DEF Rollback, TypeInv, TypeOK
  <2>4. QED
    BY <2>1, <2>2, <2>3, TypeReset DEF TypeInv, TypeOK
<1>6. ASSUME NEW x \in Trans, PrepareCommit(x)
      PROVE  TypeInv'
  BY <1>6, TypePrepareCommit
<1>7. ASSUME NEW x \in Trans, CommitThrows(x)
      PROVE  TypeInv'
  BY <1>7, TypeCommitThrows
<1>8. ASSUME NEW x \in Trans, CommitSucceeds(x)
      PROVE  TypeInv'
  <2>1. Applied(batch[x], db) \in Database
    BY AppliedType DEF TypeInv, TypeOK
  <2>2. db' \in Database
    BY <1>8, <2>1 DEF CommitSucceeds
  <2>3. batch' \in [Trans -> Batch]
    BY <1>8, EmptyBatchType DEF CommitSucceeds, TypeInv, TypeOK
  <2>4. ResetLocals(x)
    BY <1>8 DEF CommitSucceeds
  <2>5. pc' \in [Trans -> {"open", "prepared", "failed"}] /\ lock' = NoTrans
    BY <1>8 DEF CommitSucceeds, TypeInv, TypeOK
  <2>6. QED
    BY <2>2, <2>3, <2>4, <2>5, TypeReset DEF TypeInv, TypeOK
<1>9. ASSUME NEW x \in Trans, CommitFails(x)
      PROVE  TypeInv'
  BY <1>9 DEF CommitFails, TypeInv, TypeOK, RelationsInRange
<1>10. QED
  BY <1>1, <1>2, <1>3, <1>4, <1>5, <1>6, <1>7, <1>8, <1>9 DEF Next, Step

\* The state is always well typed, in particular every number that a commit
\* writes is in the range of the numbers.
THEOREM TypeCorrect == Spec => []TypeOK
<1>1. TypeInv => TypeOK
  BY DEF TypeInv
<1>2. QED
  BY TypeInit, TypeStep, <1>1, PTL DEF Spec

-----------------------------------------------------------------------------
(* Names and numbers.  The invariant says when a batch may be trusted: it  *)
(* is empty while the transaction is open, and between PrepareCommit and   *)
(* the database commit it numbers what the database, which the mutex keeps *)
(* unchanged, has not numbered.  It does not hold when a commit is retried *)
(* (its batch numbers against a database that has changed) or when clear   *)
(* is used (the batch deletes numbers but leaves the counters).            *)

CommitsExclusive == \A x \in Trans : pc[x] = "prepared" => lock = x

DistinctSymbols ==
    \A x \in Trans :
        /\ \A i, j \in DOMAIN typetab[x] : typetab[x][i] = typetab[x][j] => i = j
        /\ \A i, j \in DOMAIN nametab[x] : nametab[x][i] = nametab[x][j] => i = j

CountersAbove ==
    /\ BelowCounter(db.typename, ReadNofTypeno(db))
    /\ BelowCounter(db.featname, ReadNofFeatno(db))

OpenBatchEmpty == \A x \in Trans : pc[x] = "open" => batch[x] = EmptyBatch

NewTypes(x) ==
    NewNumbers(batch[x].typeno, batch[x].typename, batch[x].noftypeno,
               db.typeno, ReadNofTypeno(db))

NewFeats(x) ==
    NewNumbers(batch[x].featno, batch[x].featname, batch[x].noffeatno,
               db.featno, ReadNofFeatno(db))

PreparedBatchNew == \A x \in Trans : pc[x] = "prepared" => NewTypes(x) /\ NewFeats(x)

NumbersInv ==
    /\ TypeInv
    /\ CommitsExclusive
    /\ DistinctSymbols
    /\ NumbersInverse
    /\ CountersAbove
    /\ OpenBatchEmpty
    /\ PreparedBatchNew

LEMMA NumbersInit == Init => NumbersInv
<1> SUFFICES ASSUME Init PROVE NumbersInv
  OBVIOUS
<1>1. TypeInv
  BY TypeInit
<1>2. CommitsExclusive /\ DistinctSymbols /\ OpenBatchEmpty /\ PreparedBatchNew
  BY DEF Init, CommitsExclusive, DistinctSymbols, OpenBatchEmpty, PreparedBatchNew
<1> DEFINE d == CreateStorage(LexerTypes)
<1>3. /\ Len(LexerTypes) \in Nat /\ DOMAIN LexerTypes = 1 .. Len(LexerTypes)
      /\ \A i \in DOMAIN LexerTypes : LexerTypes[i] \in Types
  BY LexerAssumption, LenProperties
<1>4. DOMAIN LexerTypes \subseteq Typenos
  BY <1>3, LexerAssumption, BoundsAssumption DEF Typenos
<1>5. Absent \notin Types /\ Absent \notin Nat
  BY MarkersAssumption
<1>6. ASSUME NEW s \in Types, d.typeno[s] # Absent
      PROVE  d.typeno[s] \in DOMAIN LexerTypes /\ LexerTypes[d.typeno[s]] = s
  BY <1>6 DEF CreateStorage
<1>7. ASSUME NEW n \in Typenos, d.typename[n] # Absent
      PROVE  n \in DOMAIN LexerTypes /\ d.typename[n] = LexerTypes[n]
  BY <1>7 DEF CreateStorage
<1>8. ASSUME NEW i \in DOMAIN LexerTypes
      PROVE  d.typeno[LexerTypes[i]] = i /\ d.typename[i] = LexerTypes[i]
  <2>1. LexerTypes[i] \in Types /\ i \in Typenos
    BY <1>3, <1>4
  <2>2. (CHOOSE j \in DOMAIN LexerTypes : LexerTypes[j] = LexerTypes[i]) = i
    BY LexerAssumption
  <2>3. QED
    BY <2>1, <2>2 DEF CreateStorage
<1>9. DOMAIN d.typeno = Types /\ DOMAIN d.typename = Typenos
  BY DEF CreateStorage
<1>10. /\ \A f \in Feats : d.featno[f] = Absent
       /\ \A n \in Featnos : d.featname[n] = Absent
       /\ DOMAIN d.featno = Feats /\ DOMAIN d.featname = Featnos
       /\ d.noftypeno = Len(LexerTypes)
  BY DEF CreateStorage
<1> HIDE DEF d
<1>11. InverseMaps(d.typeno, d.typename)
  BY <1>4, <1>6, <1>7, <1>8, <1>9 DEF InverseMaps
<1>12. InverseMaps(d.featno, d.featname)
  BY <1>10 DEF InverseMaps
<1>13. BelowCounter(d.typename, ReadNofTypeno(d))
  BY <1>3, <1>5, <1>7, <1>9, <1>10 DEF BelowCounter, ReadNofTypeno, IndexValue
<1>14. BelowCounter(d.featname, ReadNofFeatno(d))
  BY <1>10 DEF BelowCounter
<1>15. db = d
  BY DEF Init, d
<1>16. NumbersInverse /\ CountersAbove
  BY <1>11, <1>12, <1>13, <1>14, <1>15 DEF NumbersInverse, CountersAbove
<1>17. QED
  BY <1>1, <1>2, <1>16 DEF NumbersInv

\* A step that leaves database, mutex, control and batches alone.
LEMMA NumbersFrame ==
    ASSUME NumbersInv, TypeInv', DistinctSymbols', UNCHANGED <<db, lock, pc, batch>>
    PROVE  NumbersInv'
BY DEF NumbersInv, CommitsExclusive, NumbersInverse, CountersAbove, OpenBatchEmpty,
       PreparedBatchNew, NewTypes, NewFeats

LEMMA NumbersDefineFeatureType ==
    ASSUME NumbersInv, TypeInv', NEW x \in Trans, NEW t \in Types, DefineFeatureType(x, t)
    PROVE  NumbersInv'
<1> DEFINE tab == GetOrCreate(typetab[x], t)
<1>1. typetab \in [Trans -> Seq(Types)]
  BY DEF NumbersInv, TypeInv, TypeOK
<1>2. /\ typetab' = [typetab EXCEPT ![x] = tab]
      /\ UNCHANGED <<db, lock, pc, nametab, batch>>
  BY DEF DefineFeatureType
<1>3. \A i, j \in DOMAIN tab : tab[i] = tab[j] => i = j
  BY <1>1, SymbolTable DEF NumbersInv, DistinctSymbols
<1> HIDE DEF tab
<1>4. DistinctSymbols'
  BY <1>1, <1>2, <1>3 DEF NumbersInv, DistinctSymbols
<1>5. QED
  BY <1>2, <1>4, NumbersFrame

LEMMA NumbersDefineElement ==
    ASSUME NumbersInv, TypeInv', NEW x \in Trans, NEW t \in Types, NEW f \in Feats,
           NEW v \in Vecs \cup {Absent}, DefineElement(x, t, f, v)
    PROVE  NumbersInv'
<1> DEFINE ttab == GetOrCreate(typetab[x], t)
           ntab == GetOrCreate(nametab[x], f)
<1>1. typetab \in [Trans -> Seq(Types)] /\ nametab \in [Trans -> Seq(Feats)]
  BY DEF NumbersInv, TypeInv, TypeOK
<1>2. /\ typetab' = [typetab EXCEPT ![x] = ttab]
      /\ nametab' = [nametab EXCEPT ![x] = ntab]
      /\ UNCHANGED <<db, lock, pc, batch>>
  BY DEF DefineElement
<1>3. \A i, j \in DOMAIN ttab : ttab[i] = ttab[j] => i = j
  BY <1>1, SymbolTable DEF NumbersInv, DistinctSymbols
<1>4. \A i, j \in DOMAIN ntab : ntab[i] = ntab[j] => i = j
  BY <1>1, SymbolTable DEF NumbersInv, DistinctSymbols
<1> HIDE DEF ttab, ntab
<1>5. DistinctSymbols'
  BY <1>1, <1>2, <1>3, <1>4 DEF NumbersInv, DistinctSymbols
<1>6. QED
  BY <1>2, <1>5, NumbersFrame

LEMMA DistinctReset ==
    ASSUME NumbersInv, NEW x \in Trans, ResetLocals(x)
    PROVE  DistinctSymbols'
BY DEF NumbersInv, TypeInv, TypeOK, DistinctSymbols, ResetLocals

LEMMA NumbersRollback ==
    ASSUME NumbersInv, TypeInv', NEW x \in Trans, Rollback(x)
    PROVE  NumbersInv'
<1>1. /\ batch' = [batch EXCEPT ![x] = EmptyBatch]
      /\ pc' = [pc EXCEPT ![x] = "open"]
      /\ UNCHANGED <<db, lock>>
      /\ ResetLocals(x)
  BY DEF Rollback
<1>2. pc \in [Trans -> {"open", "prepared", "failed"}] /\ batch \in [Trans -> Batch]
  BY DEF NumbersInv, TypeInv, TypeOK
<1>3. DistinctSymbols'
  BY <1>1, DistinctReset
<1>4. CommitsExclusive' /\ OpenBatchEmpty'
  BY <1>1, <1>2 DEF NumbersInv, CommitsExclusive, OpenBatchEmpty
<1>5. NumbersInverse' /\ CountersAbove'
  BY <1>1 DEF NumbersInv, NumbersInverse, CountersAbove
<1>6. PreparedBatchNew'
  <2>1. ASSUME NEW y \in Trans, pc'[y] = "prepared"
        PROVE  pc[y] = "prepared" /\ batch'[y] = batch[y]
    BY <1>1, <1>2, <2>1
  <2>2. QED
    BY <1>1, <2>1 DEF NumbersInv, PreparedBatchNew, NewTypes, NewFeats
<1>7. QED
  BY <1>3, <1>4, <1>5, <1>6 DEF NumbersInv

\* The batch of a commit numbers what is new.
LEMMA NumbersPrepareCommit ==
    ASSUME NumbersInv, TypeInv', Usage = {}, NEW x \in Trans, PrepareCommit(x)
    PROVE  NumbersInv'
<1>1. /\ pc \in [Trans -> {"open", "prepared", "failed"}] /\ batch \in [Trans -> Batch]
      /\ db \in Database
      /\ typetab[x] \in Seq(Types) /\ nametab[x] \in Seq(Feats)
  BY DEF NumbersInv, TypeInv, TypeOK
<1>2. /\ pc[x] = "open" /\ lock = NoTrans /\ lock' = x
      /\ pc' = [pc EXCEPT ![x] = "prepared"]
      /\ NumbersFit(x)
      /\ UNCHANGED <<db, typetab, nametab>>
  BY DEF PrepareCommit, MayCommit, LockAcquired
<1>3. PICK any \in AnyNumber(x) :
        batch' = [batch EXCEPT ![x] =
                    FilledBatch(x, Renumbered(x, FeatNumbers(db, nametab[x]), any, Len(typetab[x])),
                                Len(typetab[x]), relations[x])]
  BY DEF PrepareCommit
<1> DEFINE elems == Renumbered(x, FeatNumbers(db, nametab[x]), any, Len(typetab[x]))
           filled == FilledBatch(x, elems, Len(typetab[x]), relations[x])
           kt == KnownTypes(db, typetab[x])
           kf == KnownFeats(db, nametab[x])
<1>4. batch' = [batch EXCEPT ![x] = filled]
  BY <1>3
<1>5. batch[x] = EmptyBatch
  BY <1>2 DEF NumbersInv, OpenBatchEmpty
<1>6. /\ filled.typeno = WrittenNumbers([t \in Types |-> Keep], typetab[x], kt,
                                        Allocated(kt, ReadNofTypeno(db)))
      /\ filled.typename = WrittenNames([n \in 1 .. MaxTypeno |-> Keep], typetab[x], kt,
                                        Allocated(kt, ReadNofTypeno(db)))
      /\ filled.noftypeno = ReadNofTypeno(db) + NofNew(kt)
  BY <1>5 DEF FilledBatch, EmptyBatch, TypeNumbers, Typenos
<1>7. /\ filled.featno = WrittenNumbers([f \in Feats |-> Keep], nametab[x], kf,
                                        Allocated(kf, ReadNofFeatno(db)))
      /\ filled.featname = WrittenNames([n \in 1 .. MaxFeatno |-> Keep], nametab[x], kf,
                                        Allocated(kf, ReadNofFeatno(db)))
      /\ filled.noffeatno = ReadNofFeatno(db) + NofNew(kf)
  BY <1>5 DEF FilledBatch, EmptyBatch, FeatNumbers, Featnos
<1> HIDE DEF elems, filled
<1>8. NewNumbers(filled.typeno, filled.typename, filled.noftypeno, db.typeno, ReadNofTypeno(db))
  <2>1. kt \in [1 .. Len(typetab[x]) -> Nat] /\ ReadNofTypeno(db) \in Nat
    BY <1>1, <1>2, TypeNumbersType, ReadTypes DEF NumbersFit
  <2>2. \A i \in 1 .. Len(typetab[x]) : kt[i] = IndexValue(db.typeno[typetab[x][i]])
    BY <1>1, LenProperties DEF KnownTypes, ReadTypeno
  <2>3. db.typeno \in [Types -> (1 .. MaxTypeno) \cup {Absent}]
    BY <1>1 DEF Database, Typenos
  <2>4. ReadNofTypeno(db) + NofNew(kt) <= MaxTypeno
    BY <1>2 DEF NumbersFit
  <2>5. \A i, j \in DOMAIN typetab[x] : typetab[x][i] = typetab[x][j] => i = j
    BY DEF NumbersInv, DistinctSymbols
  <2>6. Absent \notin Types /\ Keep \notin Types
    BY MarkersAssumption
  <2> HIDE DEF kt
  <2>7. NewNumbers(WrittenNumbers([t \in Types |-> Keep], typetab[x], kt,
                                  Allocated(kt, ReadNofTypeno(db))),
                   WrittenNames([n \in 1 .. MaxTypeno |-> Keep], typetab[x], kt,
                                Allocated(kt, ReadNofTypeno(db))),
                   ReadNofTypeno(db) + NofNew(kt), db.typeno, ReadNofTypeno(db))
    BY <1>1, <2>1, <2>2, <2>3, <2>4, <2>5, <2>6, BoundsAssumption, WrittenInverse
  <2>8. QED
    BY <1>6, <2>7
<1>9. NewNumbers(filled.featno, filled.featname, filled.noffeatno, db.featno, ReadNofFeatno(db))
  <2>1. kf \in [1 .. Len(nametab[x]) -> Nat] /\ ReadNofFeatno(db) \in Nat
    BY <1>1, <1>2, FeatNumbersType, ReadTypes DEF NumbersFit
  <2>2. \A i \in 1 .. Len(nametab[x]) : kf[i] = IndexValue(db.featno[nametab[x][i]])
    BY <1>1, LenProperties DEF KnownFeats, ReadFeatno
  <2>3. db.featno \in [Feats -> (1 .. MaxFeatno) \cup {Absent}]
    BY <1>1 DEF Database, Featnos
  <2>4. ReadNofFeatno(db) + NofNew(kf) <= MaxFeatno
    BY <1>2 DEF NumbersFit
  <2>5. \A i, j \in DOMAIN nametab[x] : nametab[x][i] = nametab[x][j] => i = j
    BY DEF NumbersInv, DistinctSymbols
  <2>6. Absent \notin Feats /\ Keep \notin Feats
    BY MarkersAssumption
  <2> HIDE DEF kf
  <2>7. NewNumbers(WrittenNumbers([f \in Feats |-> Keep], nametab[x], kf,
                                  Allocated(kf, ReadNofFeatno(db))),
                   WrittenNames([n \in 1 .. MaxFeatno |-> Keep], nametab[x], kf,
                                Allocated(kf, ReadNofFeatno(db))),
                   ReadNofFeatno(db) + NofNew(kf), db.featno, ReadNofFeatno(db))
    BY <1>1, <2>1, <2>2, <2>3, <2>4, <2>5, <2>6, BoundsAssumption, WrittenInverse
  <2>8. QED
    BY <1>7, <2>7
<1>10. batch'[x] = filled /\ \A y \in Trans \ {x} : batch'[y] = batch[y] /\ pc'[y] = pc[y]
  BY <1>1, <1>2, <1>4
<1>11. CommitsExclusive'
  <2>1. \A y \in Trans : pc[y] # "prepared"
    BY <1>2, TransAssumption DEF NumbersInv, CommitsExclusive
  <2>2. QED
    BY <1>2, <1>10, <2>1 DEF CommitsExclusive
<1>12. DistinctSymbols' /\ NumbersInverse' /\ CountersAbove'
  BY <1>2 DEF NumbersInv, DistinctSymbols, NumbersInverse, CountersAbove
<1>13. OpenBatchEmpty'
  BY <1>1, <1>2, <1>10 DEF NumbersInv, OpenBatchEmpty
<1>14. PreparedBatchNew'
  BY <1>2, <1>8, <1>9, <1>10 DEF NumbersInv, PreparedBatchNew, NewTypes, NewFeats
<1>15. QED
  BY <1>11, <1>12, <1>13, <1>14 DEF NumbersInv

LEMMA NumbersCommitSucceeds ==
    ASSUME NumbersInv, TypeInv', NEW x \in Trans, CommitSucceeds(x)
    PROVE  NumbersInv'
<1>1. /\ pc \in [Trans -> {"open", "prepared", "failed"}] /\ batch \in [Trans -> Batch]
      /\ db \in Database
  BY DEF NumbersInv, TypeInv, TypeOK
<1>2. /\ pc[x] = "prepared" /\ lock' = NoTrans
      /\ pc' = [pc EXCEPT ![x] = "open"]
      /\ batch' = [batch EXCEPT ![x] = EmptyBatch]
      /\ db' = Applied(batch[x], db)
      /\ ResetLocals(x)
  BY DEF CommitSucceeds
<1>3. NewTypes(x) /\ NewFeats(x)
  BY <1>2 DEF NumbersInv, PreparedBatchNew
<1>4. \A y \in Trans : pc'[y] # "prepared"
  BY <1>1, <1>2 DEF NumbersInv, CommitsExclusive
<1> DEFINE b == batch[x]
<1>5. /\ db'.typeno = MapOverlay(b.typeno, db.typeno)
      /\ db'.typename = MapOverlay(b.typename, db.typename)
      /\ db'.featno = MapOverlay(b.featno, db.featno)
      /\ db'.featname = MapOverlay(b.featname, db.featname)
      /\ db'.noftypeno = Overlay(b.noftypeno, db.noftypeno)
      /\ db'.noffeatno = Overlay(b.noffeatno, db.noffeatno)
  BY <1>2 DEF Applied
<1>6. b \in Batch
  BY <1>1
<1> HIDE DEF b
<1>7. InverseMaps(db.typeno, db.typename) /\ InverseMaps(db.featno, db.featname)
  BY DEF NumbersInv, NumbersInverse
<1>8. /\ BelowCounter(db.typename, ReadNofTypeno(db)) /\ ReadNofTypeno(db) \in Nat
      /\ BelowCounter(db.featname, ReadNofFeatno(db)) /\ ReadNofFeatno(db) \in Nat
  BY <1>1, ReadTypes DEF NumbersInv, CountersAbove
<1>9. /\ NewNumbers(b.typeno, b.typename, b.noftypeno, db.typeno, ReadNofTypeno(db))
      /\ NewNumbers(b.featno, b.featname, b.noffeatno, db.featno, ReadNofFeatno(db))
  BY <1>3 DEF NewTypes, NewFeats, b
<1>10. /\ Absent \notin Types /\ Keep \notin Types
       /\ Absent \notin Feats /\ Keep \notin Feats
       /\ Absent \notin Nat /\ Keep \notin Nat
  BY MarkersAssumption
<1>11. /\ InverseMaps(db'.typeno, db'.typename)
       /\ BelowCounter(db'.typename, b.noftypeno)
  <2>1. /\ db.typeno \in [Types -> (1 .. MaxTypeno) \cup {Absent}]
        /\ db.typename \in [1 .. MaxTypeno -> Types \cup {Absent}]
        /\ b.typeno \in [Types -> (1 .. MaxTypeno) \cup {Absent, Keep}]
        /\ b.typename \in [1 .. MaxTypeno -> Types \cup {Absent, Keep}]
    BY <1>1, <1>6 DEF Database, Batch, Typenos
  <2>2. /\ InverseMaps(MapOverlay(b.typeno, db.typeno), MapOverlay(b.typename, db.typename))
        /\ BelowCounter(MapOverlay(b.typename, db.typename), b.noftypeno)
    BY <1>7, <1>8, <1>9, <1>10, <2>1, BoundsAssumption, OverlayInverse
  <2>3. QED
    BY <1>5, <2>2
<1>12. /\ InverseMaps(db'.featno, db'.featname)
       /\ BelowCounter(db'.featname, b.noffeatno)
  <2>1. /\ db.featno \in [Feats -> (1 .. MaxFeatno) \cup {Absent}]
        /\ db.featname \in [1 .. MaxFeatno -> Feats \cup {Absent}]
        /\ b.featno \in [Feats -> (1 .. MaxFeatno) \cup {Absent, Keep}]
        /\ b.featname \in [1 .. MaxFeatno -> Feats \cup {Absent, Keep}]
    BY <1>1, <1>6 DEF Database, Batch, Featnos
  <2>2. /\ InverseMaps(MapOverlay(b.featno, db.featno), MapOverlay(b.featname, db.featname))
        /\ BelowCounter(MapOverlay(b.featname, db.featname), b.noffeatno)
    BY <1>7, <1>8, <1>9, <1>10, <2>1, BoundsAssumption, OverlayInverse
  <2>3. QED
    BY <1>5, <2>2
<1>13. ReadNofTypeno(db') = b.noftypeno /\ ReadNofFeatno(db') = b.noffeatno
  <2>1. b.noftypeno \in Nat /\ b.noffeatno \in Nat
    BY <1>9 DEF NewNumbers
  <2>2. QED
    BY <1>5, <1>10, <2>1 DEF ReadNofTypeno, ReadNofFeatno, IndexValue, Overlay
<1>14. NumbersInverse' /\ CountersAbove'
  BY <1>11, <1>12, <1>13 DEF NumbersInverse, CountersAbove
<1>15. CommitsExclusive' /\ PreparedBatchNew'
  BY <1>4 DEF CommitsExclusive, PreparedBatchNew
<1>16. OpenBatchEmpty'
  BY <1>1, <1>2 DEF NumbersInv, OpenBatchEmpty
<1>17. DistinctSymbols'
  BY <1>2, DistinctReset
<1>18. QED
  BY <1>14, <1>15, <1>16, <1>17 DEF NumbersInv

\* A commit that fails or throws makes the transaction a failed one.
LEMMA NumbersFailed ==
    ASSUME NumbersInv, TypeInv', NEW x \in Trans, CommitThrows(x) \/ CommitFails(x)
    PROVE  NumbersInv'
<1>1. /\ pc \in [Trans -> {"open", "prepared", "failed"}] /\ batch \in [Trans -> Batch]
  BY DEF NumbersInv, TypeInv, TypeOK
<1>2. /\ pc' = [pc EXCEPT ![x] = "failed"]
      /\ UNCHANGED <<db, typetab, nametab>>
      /\ lock' = lock \/ (pc[x] = "prepared" /\ lock' = NoTrans)
      /\ \A y \in Trans \ {x} : batch'[y] = batch[y]
  BY <1>1 DEF CommitThrows, CommitFails
<1>3. \A y \in Trans : pc'[y] # "failed" => y # x /\ pc'[y] = pc[y] /\ batch'[y] = batch[y]
  BY <1>1, <1>2
<1>4. CommitsExclusive'
  BY <1>2, <1>3 DEF NumbersInv, CommitsExclusive
<1>5. DistinctSymbols' /\ NumbersInverse' /\ CountersAbove'
  BY <1>2 DEF NumbersInv, DistinctSymbols, NumbersInverse, CountersAbove
<1>6. OpenBatchEmpty' /\ PreparedBatchNew'
  BY <1>2, <1>3 DEF NumbersInv, OpenBatchEmpty, PreparedBatchNew, NewTypes, NewFeats
<1>7. QED
  BY <1>4, <1>5, <1>6 DEF NumbersInv

LEMMA NumbersStep == Usage = {} /\ NumbersInv /\ [Next]_vars => NumbersInv'
<1> SUFFICES ASSUME Usage = {}, NumbersInv, [Next]_vars PROVE NumbersInv'
  OBVIOUS
<1>1. TypeInv'
  BY TypeStep DEF NumbersInv
<1>2. CASE UNCHANGED vars
  BY <1>1, <1>2, NumbersFrame DEF vars, NumbersInv, DistinctSymbols
<1>3. ASSUME NEW x \in Trans, NEW t \in Types, DefineFeatureType(x, t)
      PROVE  NumbersInv'
  BY <1>1, <1>3, NumbersDefineFeatureType
<1>4. ASSUME NEW x \in Trans, NEW t \in Types, NEW f \in Feats, NEW v \in Vecs \cup {Absent},
             DefineElement(x, t, f, v)
      PROVE  NumbersInv'
  BY <1>1, <1>4, NumbersDefineElement
<1>5. ASSUME NEW x \in Trans
      PROVE  ~ Clear(x)
  BY DEF Clear
<1>6. ASSUME NEW x \in Trans, Rollback(x)
      PROVE  NumbersInv'
  BY <1>1, <1>6, NumbersRollback
<1>7. ASSUME NEW x \in Trans, PrepareCommit(x)
      PROVE  NumbersInv'
  BY <1>1, <1>7, NumbersPrepareCommit
<1>8. ASSUME NEW x \in Trans, CommitSucceeds(x)
      PROVE  NumbersInv'
  BY <1>1, <1>8, NumbersCommitSucceeds
<1>9. ASSUME NEW x \in Trans, CommitThrows(x) \/ CommitFails(x)
      PROVE  NumbersInv'
  BY <1>1, <1>9, NumbersFailed
<1>10. QED
  BY <1>2, <1>3, <1>4, <1>5, <1>6, <1>7, <1>8, <1>9 DEF Next, Step

\* When callers roll a failed commit back and do not call clear, names and
\* numbers are inverse to each other in every state, for any number of
\* concurrent transactions.
THEOREM NumbersAlwaysInverse ==
    ASSUME Usage = {}
    PROVE  Spec => []NumbersInverse
<1>1. NumbersInv => NumbersInverse
  BY DEF NumbersInv
<1>2. NumbersInv /\ [Next]_vars => NumbersInv'
  BY NumbersStep
<1>3. QED
  BY NumbersInit, <1>1, <1>2, PTL DEF Spec

\* Nothing but a successful commit changes the database.
LEMMA DatabaseChanges == [Next]_vars => db' = db \/ \E x \in Trans : CommitSucceeds(x)
<1>1. \A x \in Trans, t \in Types : DefineFeatureType(x, t) => db' = db
  BY DEF DefineFeatureType
<1>2. \A x \in Trans, t \in Types, f \in Feats, v \in Vecs \cup {Absent} :
        DefineElement(x, t, f, v) => db' = db
  BY DEF DefineElement
<1>3. \A x \in Trans : Clear(x) \/ Rollback(x) \/ CommitFails(x) => db' = db
  BY DEF Clear, Rollback, CommitFails
<1>4. \A x \in Trans : PrepareCommit(x) \/ CommitThrows(x) => db' = db
  BY DEF PrepareCommit, CommitThrows
<1>5. QED
  BY <1>1, <1>2, <1>3, <1>4 DEF Next, Step, vars

\* The numbers of types and features that a step keeps.
NumbersKept(d, D) ==
    /\ \A t \in Types : d.typeno[t] # Absent => D.typeno[t] = d.typeno[t]
    /\ \A f \in Feats : d.featno[f] # Absent => D.featno[f] = d.featno[f]

LEMMA NumbersKeptStep == NumbersInv /\ [Next]_vars => NumbersKept(db, db')
<1> SUFFICES ASSUME NumbersInv, [Next]_vars PROVE NumbersKept(db, db')
  OBVIOUS
<1>1. CASE db' = db
  BY <1>1 DEF NumbersKept
<1>2. CASE \E x \in Trans : CommitSucceeds(x)
  <2>1. PICK x \in Trans : CommitSucceeds(x)
    BY <1>2
  <2> DEFINE b == batch[x]
  <2>2. NewTypes(x) /\ NewFeats(x) /\ db \in Database
    BY <2>1 DEF NumbersInv, TypeInv, TypeOK, PreparedBatchNew, CommitSucceeds
  <2>3. /\ db'.typeno = MapOverlay(b.typeno, db.typeno)
        /\ db'.featno = MapOverlay(b.featno, db.featno)
    BY <2>1 DEF CommitSucceeds, Applied
  <2>4. b \in Batch
    BY DEF NumbersInv, TypeInv, TypeOK
  <2>5. /\ \A t \in Types : db.typeno[t] # Absent => b.typeno[t] = Keep
        /\ \A f \in Feats : db.featno[f] # Absent => b.featno[f] = Keep
    BY <2>2, <2>4 DEF NewTypes, NewFeats, NewNumbers, Batch
  <2>6. DOMAIN db.typeno = Types /\ DOMAIN db.featno = Feats
    BY <2>2 DEF Database
  <2> HIDE DEF b
  <2>7. QED
    BY <2>3, <2>5, <2>6 DEF MapOverlay, Overlay, NumbersKept
<1>3. QED
  BY <1>1, <1>2, DatabaseChanges

\* Under the same conditions no commit changes a number given before.
THEOREM NumbersAlwaysStable ==
    ASSUME Usage = {}
    PROVE  Spec => NumbersStable
<1> DEFINE Stable == /\ \A t \in StoredTypes(db) : db'.typeno[t] = db.typeno[t]
                     /\ \A f \in Feats : db.featno[f] # Absent => db'.featno[f] = db.featno[f]
<1>1. NumbersInv /\ [Next]_vars => [Stable]_vars
  BY NumbersKeptStep DEF NumbersKept, StoredTypes
<1>2. NumbersInv /\ [Next]_vars => NumbersInv'
  BY NumbersStep
<1>3. QED
  BY NumbersInit, <1>1, <1>2, PTL DEF Spec, NumbersStable

=============================================================================
