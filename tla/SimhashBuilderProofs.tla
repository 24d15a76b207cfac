------------------------- MODULE SimhashBuilderProofs -------------------------
(***************************************************************************)
(* Proofs about SimhashBuilder, for any number of threads, any array and   *)
(* any size of the chunks: the chunks are disjoint and an array returned   *)
(* is complete.                                                            *)
(***************************************************************************)
EXTENDS SimhashBuilder, FiniteSetTheorems, WellFoundedInduction, TLAPS

\* The threads that hold an index past the end.
GivingBack == {t \in Threads : pc[t] = "giveback"}

\* The chunks given to threads, and the end of the last of them.
Granted == chunkIndex - Cardinality(GivingBack)

Limit == Granted * ChunkSize

\* Whoever has met the end of the array has met it for good.
Counted == Granted \in Nat /\ (GivingBack # {} => Size <= Limit)

\* What is left of a chunk has not been calculated and is left to one thread.
Chunked ==
    /\ \A t \in Threads : \A e \in chunk[t] : e < Limit /\ ~ result[e]
    /\ \A t, u \in Threads : t # u => \A e \in chunk[t] : e \notin chunk[u]

\* Every element given to a thread is calculated or still in its chunk.
Covered ==
    /\ \A e \in Elements : e < Limit /\ ~ result[e] => \E t \in Threads : e \in chunk[t]
    /\ \A e \in Elements : Limit <= e => ~ result[e]

\* A thread ends with an error or at the end of the array.
Ended ==
    /\ \A t \in Threads : pc[t] \in {"fetch", "giveback"} => chunk[t] = {}
    /\ \A t \in Threads : pc[t] = "done" /\ t \notin errors
                            => chunk[t] = {} /\ Size <= Limit
    /\ outcome # "running" => \A t \in Threads : pc[t] = "done"
    /\ outcome = "returned" => errors = {}

BuilderInv == TypeOK /\ Counted /\ Chunked /\ Covered /\ Ended

-----------------------------------------------------------------------------
(* The counter.                                                            *)

LEMMA GivingBackFinite ==
    ASSUME NEW S \in SUBSET Threads
    PROVE  IsFiniteSet(S) /\ Cardinality(S) \in Nat
  BY SizeAssumption, FS_Subset, FS_CardinalityType

LEMMA NumberOfElements == Elements = 0 .. Size - 1 /\ Size \in Nat /\ ChunkSize \in Nat \ {0}
  BY SizeAssumption DEF Elements

LEMMA SmallestElement ==
    ASSUME NEW n \in Int, NEW S \in SUBSET (0 .. n), S # {}
    PROVE  \E e \in S : \A f \in S : e <= f
<1>1. S \subseteq Nat
  OBVIOUS
<1>2. PICK e \in S : \A f \in S : ~ (<<f, e>> \in OpToRel(<, Nat))
  BY <1>1, WFMin, NatLessThanWellFounded
<1>3. ASSUME NEW f \in S
      PROVE  e <= f
  <2>1. f \in Nat /\ e \in Nat
    BY <1>1
  <2>2. ~ (f < e)
    BY <1>2, <2>1 DEF OpToRel
  <2>3. QED
    BY <2>1, <2>2
<1>4. QED
  BY <1>3

LEMMA InitInv == Init => BuilderInv
<1> SUFFICES ASSUME Init PROVE BuilderInv
  OBVIOUS
<1>1. GivingBack = {}
  BY DEF Init, GivingBack
<1>2. Granted = 0
  BY <1>1, FS_EmptySet DEF Granted, Init
<1>3. Limit = 0
  BY <1>2, NumberOfElements DEF Limit
<1>4. TypeOK
  BY Zenon DEF Init, TypeOK
<1>5. Counted
  BY <1>1, <1>2 DEF Counted
<1>6. Chunked
  BY DEF Init, Chunked
<1>7. Covered
  <2>1. \A e \in Elements : ~ result[e]
    BY DEF Init
  <2>2. \A e \in Elements : ~ (e < Limit)
    BY <1>3, NumberOfElements
  <2>3. QED
    BY <2>1, <2>2 DEF Covered
<1>8. Ended
  BY DEF Init, Ended
<1>9. QED
  BY <1>4, <1>5, <1>6, <1>7, <1>8 DEF BuilderInv

\* A step that leaves the counter and the threads that give back.
LEMMA LimitKept ==
    ASSUME chunkIndex' = chunkIndex, GivingBack' = GivingBack
    PROVE  Granted' = Granted /\ Limit' = Limit
  BY DEF Granted, Limit

\* The counter goes up with a thread that has to give back.
LEMMA LimitPastEnd ==
    ASSUME chunkIndex \in Nat, NEW t \in Threads, t \notin GivingBack,
           chunkIndex' = chunkIndex + 1, GivingBack' = GivingBack \cup {t}
    PROVE  Granted' = Granted /\ Limit' = Limit
<1>1. IsFiniteSet(GivingBack) /\ Cardinality(GivingBack) \in Nat
  BY GivingBackFinite DEF GivingBack
<1>2. Cardinality(GivingBack') = Cardinality(GivingBack) + 1
  BY <1>1, FS_AddElement
<1>3. Granted' = Granted
  BY <1>1, <1>2 DEF Granted
<1>4. QED
  BY <1>3 DEF Limit

\* ... and down with a thread that gives back.
LEMMA LimitGivenBack ==
    ASSUME chunkIndex \in Nat, Granted \in Nat, NEW t \in Threads, t \in GivingBack,
           chunkIndex' = chunkIndex - 1, GivingBack' = GivingBack \ {t}
    PROVE  chunkIndex' \in Nat /\ Granted' = Granted /\ Limit' = Limit
<1>1. IsFiniteSet(GivingBack) /\ Cardinality(GivingBack) \in Nat
  BY GivingBackFinite DEF GivingBack
<1>2. Cardinality(GivingBack') = Cardinality(GivingBack) - 1
  BY <1>1, FS_RemoveElement
<1>3. Cardinality(GivingBack) # 0
  BY <1>1, FS_EmptySet
<1>4. Granted' = Granted
  BY <1>1, <1>2 DEF Granted
<1>5. chunkIndex' \in Nat
  BY <1>1, <1>3 DEF Granted
<1>6. QED
  BY <1>4, <1>5 DEF Limit

\* A thread gets a chunk only when no thread gives back: the chunk follows the
\* last one given.
LEMMA LimitGrows ==
    ASSUME chunkIndex \in Nat, Counted, ~ PastEnd(chunkIndex),
           chunkIndex' = chunkIndex + 1, GivingBack' = GivingBack
    PROVE  /\ GivingBack = {}
           /\ Granted \in Nat /\ Granted = chunkIndex /\ Granted' = chunkIndex + 1
           /\ Limit \in Nat /\ Limit' = Limit + ChunkSize
<1>1. IsFiniteSet(GivingBack) /\ Cardinality(GivingBack) \in Nat
  BY GivingBackFinite DEF GivingBack
<1>2. ASSUME NEW i \in Nat, NEW j \in Nat, i <= j
      PROVE  i * ChunkSize \in Nat /\ i * ChunkSize <= j * ChunkSize
  <2>1. PICK k \in Nat : j = i + k
    BY <1>2
  <2>2. j * ChunkSize = i * ChunkSize + k * ChunkSize
    BY <2>1, NumberOfElements
  <2>3. k * ChunkSize \in Nat /\ i * ChunkSize \in Nat
    BY NumberOfElements
  <2>4. QED
    BY <2>2, <2>3
<1>3. GivingBack = {}
  <2>1. Granted \in Nat /\ Granted <= chunkIndex
    BY <1>1 DEF Counted, Granted
  <2>2. Limit <= chunkIndex * ChunkSize /\ Limit \in Nat /\ chunkIndex * ChunkSize \in Nat
    BY <1>2, <2>1 DEF Limit
  <2>3. chunkIndex * ChunkSize < Size
    BY <2>2, NumberOfElements DEF PastEnd
  <2>4. ~ (Size <= Limit)
    BY <2>2, <2>3, NumberOfElements
  <2>5. QED
    BY <2>4 DEF Counted
<1>4. Granted = chunkIndex /\ Granted' = chunkIndex + 1
  BY <1>3, FS_EmptySet DEF Granted
<1>5. Limit \in Nat
  BY <1>4, <1>2 DEF Limit
<1>6. (chunkIndex + 1) * ChunkSize = chunkIndex * ChunkSize + ChunkSize
  BY NumberOfElements
<1>7. QED
  BY <1>3, <1>4, <1>5, <1>6 DEF Limit

-----------------------------------------------------------------------------
(* The steps.                                                              *)

\* Steps that leave the counter, the elements and the chunks as they are.
LEMMA ElementsKept ==
    ASSUME Chunked, Covered, Limit' = Limit, chunk' = chunk, result' = result
    PROVE  Chunked' /\ Covered'
<1>1. Chunked'
  BY Zenon DEF Chunked
<1>2. Covered'
  BY Zenon DEF Covered, Elements
<1>3. QED
  BY <1>1, <1>2

LEMMA FetchInv ==
    ASSUME BuilderInv, NEW t \in Threads, Fetch(t), outcome = "running"
    PROVE  BuilderInv'
<1>0. TypeOK /\ Counted /\ Chunked /\ Covered /\ Ended /\ chunkIndex \in Nat
  BY DEF BuilderInv, TypeOK
<1>1. pc[t] = "fetch" /\ chunkIndex' = chunkIndex + 1
      /\ result' = result /\ errors' = errors /\ outcome' = "running" /\ chunk[t] = {}
  BY <1>0 DEF Fetch, Ended
<1>2. pc \in [Threads -> {"fetch", "giveback", "build", "done"}]
      /\ chunk \in [Threads -> SUBSET Elements]
  BY <1>0 DEF TypeOK
<1>3. CASE PastEnd(chunkIndex)
  <2>1. pc' = [pc EXCEPT ![t] = "giveback"] /\ chunk' = chunk
    BY <1>3 DEF Fetch
  <2>2. GivingBack' = GivingBack \cup {t} /\ t \notin GivingBack
    BY <1>1, <1>2, <2>1 DEF GivingBack
  <2>3. Granted' = Granted /\ Limit' = Limit
    BY <1>0, <1>1, <2>2, LimitPastEnd
  <2>4. Size <= Limit
    <3>1. CASE GivingBack = {}
      <4>1. Granted = chunkIndex
        BY <1>0, <3>1, FS_EmptySet DEF Granted
      <4>2. QED
        BY <1>0, <1>3, <4>1, NumberOfElements DEF PastEnd, Limit
    <3>2. CASE GivingBack # {}
      BY <1>0, <3>2 DEF Counted
    <3>3. QED
      BY <3>1, <3>2
  <2>5. TypeOK'
    <3>1. chunkIndex' \in Nat
      BY <1>0, <1>1
    <3>2. pc' \in [Threads -> {"fetch", "giveback", "build", "done"}]
      BY <1>2, <2>1
    <3>3. QED
      BY <1>0, <1>1, <2>1, <3>1, <3>2, Zenon DEF TypeOK, Elements
  <2>6. Counted'
    BY <1>0, <2>3, <2>4 DEF Counted
  <2>7. Chunked' /\ Covered'
    BY <1>0, <1>1, <2>1, <2>3, ElementsKept
  <2>8. Ended'
    BY <1>0, <1>1, <1>2, <2>1, <2>3 DEF Ended
  <2>9. QED
    BY <2>5, <2>6, <2>7, <2>8 DEF BuilderInv
<1>4. CASE ~ PastEnd(chunkIndex)
  <2>1. pc' = [pc EXCEPT ![t] = "build"]
        /\ chunk' = [chunk EXCEPT ![t] = ChunkOf(chunkIndex)]
    BY <1>4 DEF Fetch
  <2>2. GivingBack' = GivingBack
    BY <1>1, <1>2, <2>1 DEF GivingBack
  <2>3. /\ GivingBack = {} /\ Granted \in Nat /\ Granted = chunkIndex
        /\ Granted' = chunkIndex + 1 /\ Limit \in Nat /\ Limit' = Limit + ChunkSize
    BY <1>0, <1>1, <1>4, <2>2, LimitGrows
  <2>4. \A e \in Elements : e \in ChunkOf(chunkIndex) <=> Limit <= e /\ e < Limit'
    <3>1. (chunkIndex + 1) * ChunkSize = chunkIndex * ChunkSize + ChunkSize
      BY <1>0, NumberOfElements
    <3>2. QED
      BY <2>3, <3>1 DEF ChunkOf, Limit
  <2>5. ChunkOf(chunkIndex) \subseteq Elements
    BY DEF ChunkOf
  <2>6. TypeOK'
    <3>1. chunkIndex' \in Nat
      BY <1>0, <1>1
    <3>2. pc' \in [Threads -> {"fetch", "giveback", "build", "done"}]
      BY <1>2, <2>1
    <3>3. chunk' \in [Threads -> SUBSET Elements]
      BY <1>2, <2>1, <2>5
    <3>4. QED
      BY <1>0, <1>1, <3>1, <3>2, <3>3, Zenon DEF TypeOK, Elements
  <2>7. Counted'
    BY <2>2, <2>3, <1>0 DEF Counted
  <2>8. \A u \in Threads : u # t => chunk'[u] = chunk[u]
    BY <1>2, <2>1
  <2>9. chunk'[t] = ChunkOf(chunkIndex)
    BY <1>2, <2>1
  <2>10. \A e \in Elements : e \in Int /\ (e < Limit => e < Limit')
    BY <2>3, NumberOfElements
  <2>11. \A e \in Elements : Limit <= e <=> ~ (e < Limit)
    BY <2>3, NumberOfElements
  <2>12. \A e \in Elements : Limit' <= e <=> ~ (e < Limit')
    BY <2>3, NumberOfElements
  <2>13. Chunked'
    <3>1. ASSUME NEW u \in Threads, NEW e \in chunk'[u]
          PROVE  e < Limit' /\ ~ result'[e]
      <4>1. CASE u = t
        BY <1>0, <1>1, <2>4, <2>5, <2>9, <3>1, <4>1 DEF Covered
      <4>2. CASE u # t
        BY <1>0, <1>1, <1>2, <2>8, <2>10, <3>1, <4>2 DEF Chunked
      <4>3. QED
        BY <4>1, <4>2
    <3>2. ASSUME NEW u \in Threads, NEW v \in Threads, u # v, NEW e \in chunk'[u]
          PROVE  e \notin chunk'[v]
      <4>1. CASE u = t
        BY <1>0, <1>2, <2>4, <2>5, <2>8, <2>9, <2>11, <3>2, <4>1 DEF Chunked
      <4>2. CASE v = t
        BY <1>0, <1>2, <2>4, <2>5, <2>8, <2>9, <2>11, <3>2, <4>2 DEF Chunked
      <4>3. CASE u # t /\ v # t
        BY <1>0, <2>8, <3>2, <4>3 DEF Chunked
      <4>4. QED
        BY <4>1, <4>2, <4>3
    <3>3. QED
      BY <3>1, <3>2 DEF Chunked
  <2>14. Covered'
    <3>1. ASSUME NEW e \in Elements, e < Limit', ~ result'[e]
          PROVE  \E u \in Threads : e \in chunk'[u]
      <4>1. CASE e < Limit
        <5>1. PICK u \in Threads : e \in chunk[u]
          BY <1>0, <1>1, <3>1, <4>1 DEF Covered
        <5>2. u # t
          BY <1>1, <5>1
        <5>3. QED
          BY <2>8, <5>1, <5>2
      <4>2. CASE ~ (e < Limit)
        BY <2>4, <2>9, <2>11, <3>1, <4>2
      <4>3. QED
        BY <4>1, <4>2
    <3>2. ASSUME NEW e \in Elements, Limit' <= e
          PROVE  ~ result'[e]
      <4>1. Limit <= e
        BY <2>10, <2>11, <2>12, <3>2
      <4>2. QED
        BY <1>0, <1>1, <4>1 DEF Covered
    <3>3. QED
      BY <3>1, <3>2 DEF Covered, Elements
  <2>15. Ended'
    <3>1. ~ (Size <= Limit)
      BY <1>0, <1>4, <2>3, NumberOfElements DEF PastEnd, Limit
    <3>2. \A u \in Threads : u # t => pc'[u] = pc[u]
      BY <1>2, <2>1
    <3>3. pc'[t] = "build"
      BY <1>2, <2>1
    <3>4. QED
      BY <1>0, <1>1, <2>8, <3>1, <3>2, <3>3 DEF Ended
  <2>16. QED
    BY <2>6, <2>7, <2>13, <2>14, <2>15 DEF BuilderInv
<1>5. QED
  BY <1>3, <1>4

LEMMA GiveBackInv ==
    ASSUME BuilderInv, NEW t \in Threads, GiveBack(t), outcome = "running"
    PROVE  BuilderInv'
<1>0. TypeOK /\ Counted /\ Chunked /\ Covered /\ Ended /\ chunkIndex \in Nat
  BY DEF BuilderInv, TypeOK
<1>1. pc[t] = "giveback" /\ chunkIndex' = chunkIndex - 1 /\ pc' = [pc EXCEPT ![t] = "done"]
      /\ chunk' = chunk /\ result' = result /\ errors' = errors /\ outcome' = "running"
      /\ chunk[t] = {}
  BY <1>0 DEF GiveBack, Given, Ended
<1>2. pc \in [Threads -> {"fetch", "giveback", "build", "done"}]
  BY <1>0 DEF TypeOK
<1>3. GivingBack' = GivingBack \ {t} /\ t \in GivingBack
  BY <1>1, <1>2 DEF GivingBack
<1>4. chunkIndex' \in Nat /\ Granted' = Granted /\ Limit' = Limit
  BY <1>0, <1>1, <1>3, LimitGivenBack DEF Counted
<1>5. Size <= Limit
  BY <1>0, <1>3 DEF Counted
<1>6. TypeOK'
  <2>1. pc' \in [Threads -> {"fetch", "giveback", "build", "done"}]
    BY <1>1, <1>2
  <2>2. QED
    BY <1>0, <1>1, <1>4, <2>1, Zenon DEF TypeOK, Elements
<1>7. Counted'
  BY <1>0, <1>4, <1>5 DEF Counted
<1>8. Chunked' /\ Covered'
  BY <1>0, <1>1, <1>4, ElementsKept
<1>9. Ended'
  BY <1>0, <1>1, <1>2, <1>4, <1>5 DEF Ended
<1>10. QED
  BY <1>6, <1>7, <1>8, <1>9 DEF BuilderInv

LEMMA BuildInv ==
    ASSUME BuilderInv, NEW t \in Threads, Build(t), outcome = "running"
    PROVE  BuilderInv'
<1> DEFINE f == FirstOf(chunk[t])
<1>0. TypeOK /\ Counted /\ Chunked /\ Covered /\ Ended
  BY DEF BuilderInv
<1>1. /\ pc[t] = "build" /\ chunk[t] # {} /\ result' = [result EXCEPT ![f] = TRUE]
      /\ chunk' = [chunk EXCEPT ![t] = chunk[t] \ {f}]
      /\ chunkIndex' = chunkIndex /\ pc' = pc /\ errors' = errors /\ outcome' = "running"
  BY DEF Build
<1>2. chunk \in [Threads -> SUBSET Elements] /\ result \in [Elements -> BOOLEAN]
  BY <1>0 DEF TypeOK
<1> HIDE DEF f
<1>3. Granted' = Granted /\ Limit' = Limit /\ GivingBack' = GivingBack
  <2>1. GivingBack' = GivingBack
    BY <1>1 DEF GivingBack
  <2>2. QED
    BY <1>1, <2>1, LimitKept
<1>4. TypeOK'
  <2>1. chunk' \in [Threads -> SUBSET Elements]
    BY <1>1, <1>2
  <2>2. result' \in [Elements -> BOOLEAN]
    BY <1>1, <1>2, Zenon
  <2>3. QED
    BY <1>0, <1>1, <2>1, <2>2, Zenon DEF TypeOK, Elements
<1>5. Counted'
  BY <1>0, <1>3 DEF Counted
<1>6. \A u \in Threads : u # t => chunk'[u] = chunk[u]
  BY <1>1, <1>2
<1>7. chunk'[t] = chunk[t] \ {f}
  BY <1>1, <1>2
<1>8. \A e \in Elements : e # f => result'[e] = result[e]
  BY <1>1, <1>2, Zenon
<1>9. f \in chunk[t] /\ f \in Elements /\ f < Limit
  <2>1. \E e \in chunk[t] : \A g \in chunk[t] : e <= g
    <3>1. chunk[t] \in SUBSET (0 .. Size - 1) /\ Size - 1 \in Int
      BY <1>2, NumberOfElements
    <3>2. QED
      BY <1>1, <3>1, SmallestElement
  <2>2. f \in chunk[t]
    BY <2>1, Zenon DEF f, FirstOf
  <2>3. QED
    BY <1>0, <1>2, <2>2 DEF Chunked
<1>10. Chunked'
  <2>1. ASSUME NEW u \in Threads, NEW e \in chunk'[u]
        PROVE  e < Limit' /\ ~ result'[e]
    <3>1. e \in chunk[u] /\ e # f /\ e \in Elements
      BY <1>0, <1>2, <1>6, <1>7, <1>9, <2>1 DEF Chunked
    <3>2. result'[e] = result[e]
      BY <1>8, <3>1
    <3>3. QED
      BY <1>0, <1>3, <3>1, <3>2 DEF Chunked
  <2>2. ASSUME NEW u \in Threads, NEW v \in Threads, u # v, NEW e \in chunk'[u]
        PROVE  e \notin chunk'[v]
    BY <1>0, <1>6, <1>7, <2>2 DEF Chunked
  <2>3. QED
    BY <2>1, <2>2 DEF Chunked
<1>11. Covered'
  <2>1. ASSUME NEW e \in Elements, e < Limit', ~ result'[e]
        PROVE  \E u \in Threads : e \in chunk'[u]
    <3>1. result'[f]
      BY <1>1, <1>2, <1>9, Zenon
    <3>2. e # f
      BY <2>1, <3>1
    <3>3. PICK u \in Threads : e \in chunk[u]
      BY <1>0, <1>3, <1>8, <2>1, <3>2 DEF Covered
    <3>4. e \in chunk'[u]
      BY <1>6, <1>7, <3>2, <3>3
    <3>5. QED
      BY <3>4
  <2>2. ASSUME NEW e \in Elements, Limit' <= e
        PROVE  ~ result'[e]
    <3>1. Limit \in Int
      BY <1>0, NumberOfElements DEF Counted, Limit
    <3>2. e # f
      BY <1>3, <1>9, <2>2, <3>1, NumberOfElements
    <3>3. QED
      BY <1>0, <1>3, <1>8, <2>2, <3>2 DEF Covered
  <2>3. QED
    BY <2>1, <2>2 DEF Covered, Elements
<1>12. Ended'
  <2>1. \A u \in Threads : pc[u] # "build" => chunk'[u] = chunk[u]
    BY <1>1, <1>6
  <2>2. QED
    BY <1>0, <1>1, <1>3, <2>1 DEF Ended
<1>13. QED
  BY <1>4, <1>5, <1>10, <1>11, <1>12 DEF BuilderInv

\* The steps that end a chunk: the chunk is calculated, or the thread fails.
LEMMA ChunkEndsInv ==
    ASSUME BuilderInv, NEW t \in Threads, NextChunk(t) \/ Fail(t), outcome = "running"
    PROVE  BuilderInv'
<1>0. TypeOK /\ Counted /\ Chunked /\ Covered /\ Ended
  BY DEF BuilderInv
<1>1. /\ pc[t] = "build" /\ chunkIndex' = chunkIndex /\ chunk' = chunk
      /\ result' = result /\ outcome' = "running"
      /\ \/ chunk[t] = {} /\ errors' = errors /\ pc' = [pc EXCEPT ![t] = "fetch"]
         \/ errors' = errors \cup {t} /\ pc' = [pc EXCEPT ![t] = "done"]
  BY DEF NextChunk, Fail, Reported
<1>2. pc \in [Threads -> {"fetch", "giveback", "build", "done"}] /\ errors \subseteq Threads
  BY <1>0 DEF TypeOK
<1>3. GivingBack' = GivingBack
  BY <1>1, <1>2 DEF GivingBack
<1>4. Granted' = Granted /\ Limit' = Limit
  BY <1>1, <1>3, LimitKept
<1>5. TypeOK'
  <2>1. pc' \in [Threads -> {"fetch", "giveback", "build", "done"}] /\ errors' \subseteq Threads
    BY <1>1, <1>2
  <2>2. QED
    BY <1>0, <1>1, <2>1, Zenon DEF TypeOK, Elements
<1>6. Counted'
  BY <1>0, <1>3, <1>4 DEF Counted
<1>7. Chunked' /\ Covered'
  BY <1>0, <1>1, <1>4, ElementsKept
<1>8. Ended'
  BY <1>0, <1>1, <1>2, <1>4 DEF Ended
<1>9. QED
  BY <1>5, <1>6, <1>7, <1>8 DEF BuilderInv

LEMMA JoinInv == ASSUME BuilderInv, Join PROVE BuilderInv'
<1>0. TypeOK /\ Counted /\ Chunked /\ Covered /\ Ended
  BY DEF BuilderInv
<1>1. /\ \A t \in Threads : pc[t] = "done"
      /\ outcome' = IF errors # {} THEN "thrown" ELSE "returned"
      /\ chunkIndex' = chunkIndex /\ pc' = pc /\ chunk' = chunk /\ result' = result
      /\ errors' = errors
  BY DEF Join
<1>2. GivingBack' = GivingBack
  BY <1>1 DEF GivingBack
<1>3. Granted' = Granted /\ Limit' = Limit
  BY <1>1, <1>2, LimitKept
<1>4. TypeOK'
  <2>1. outcome' \in {"running", "returned", "thrown"}
    BY <1>1
  <2>2. QED
    BY <1>0, <1>1, <2>1, Zenon DEF TypeOK, Elements
<1>5. Counted'
  BY <1>0, <1>2, <1>3 DEF Counted
<1>6. Chunked' /\ Covered'
  BY <1>0, <1>1, <1>3, ElementsKept
<1>7. Ended'
  BY <1>0, <1>1, <1>3 DEF Ended
<1>8. QED
  BY <1>4, <1>5, <1>6, <1>7 DEF BuilderInv

LEMMA StepInv == BuilderInv /\ [Next]_vars => BuilderInv'
<1> SUFFICES ASSUME BuilderInv, [Next]_vars PROVE BuilderInv'
  OBVIOUS
<1>1. CASE Join
  BY <1>1, JoinInv
<1>2. ASSUME NEW t \in Threads, Step(t)
      PROVE  BuilderInv'
  <2>1. pc[t] # "done"
    BY <1>2 DEF Step, Fetch, GiveBack, Build, NextChunk, Fail
  <2>2. CASE outcome = "running"
    BY <1>2, <2>2, FetchInv, GiveBackInv, BuildInv, ChunkEndsInv DEF Step
  <2>3. CASE outcome # "running"
    BY <2>1, <2>3 DEF BuilderInv, Ended
  <2>4. QED
    BY <2>2, <2>3
<1>3. CASE UNCHANGED vars
  <2>1. GivingBack' = GivingBack
    BY <1>3 DEF vars, GivingBack
  <2>2. Granted' = Granted /\ Limit' = Limit
    BY <1>3, <2>1, LimitKept DEF vars
  <2>3. Chunked' /\ Covered'
    BY <1>3, <2>2, ElementsKept DEF vars, BuilderInv
  <2>4. TypeOK'
    BY <1>3, Zenon DEF vars, BuilderInv, TypeOK, Elements
  <2>5. Counted' /\ Ended'
    BY <1>3, <2>1, <2>2 DEF vars, BuilderInv, Counted, Ended
  <2>6. QED
    BY <2>3, <2>4, <2>5 DEF BuilderInv
<1>4. QED
  BY <1>1, <1>2, <1>3 DEF Next

-----------------------------------------------------------------------------
(* The theorems.                                                           *)

\* The counter never goes below zero, though it is given back without a
\* check, and the threads and their chunks are well typed.
THEOREM BuilderTypeCorrect == Spec => []TypeOK
<1>1. BuilderInv => TypeOK
  BY DEF BuilderInv
<1>2. QED
  BY <1>1, InitInv, StepInv, PTL DEF Spec

\* No element is ever left to two threads or calculated again.
THEOREM ChunksAlwaysDisjoint == Spec => []ChunksDisjoint
<1>1. BuilderInv => ChunksDisjoint
  BY DEF BuilderInv, Chunked, ChunksDisjoint
<1>2. QED
  BY <1>1, InitInv, StepInv, PTL DEF Spec

\* An array that is returned is complete, whatever the order in which the
\* threads took their chunks and gave their last index back.
THEOREM ReturnedAlwaysComplete == Spec => []ReturnedComplete
<1>1. ASSUME BuilderInv PROVE ReturnedComplete
  <2>1. SUFFICES ASSUME outcome = "returned", NEW e \in Elements PROVE result[e]
    BY DEF ReturnedComplete
  <2>2. /\ Covered /\ errors = {} /\ \A t \in Threads : pc[t] = "done"
        /\ \A t \in Threads : chunk[t] = {} /\ Size <= Limit
    BY <1>1, <2>1 DEF BuilderInv, Ended
  <2>3. Size <= Limit /\ Limit \in Int
    BY <1>1, <2>2, SizeAssumption DEF BuilderInv, Counted, Limit
  <2>4. e < Limit
    BY <2>3, NumberOfElements
  <2>5. QED
    BY <2>2, <2>4 DEF Covered
<1>2. QED
  BY <1>1, InitInv, StepInv, PTL DEF Spec

=============================================================================
