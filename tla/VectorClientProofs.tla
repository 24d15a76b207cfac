------------------------- MODULE VectorClientProofs -------------------------
(***************************************************************************)
(* Proofs about VectorClient.  It performs the steps of VectorTransaction  *)
(* and steps of its cache and its searches, so what is proved of the       *)
(* transactions holds in the client.  The maps that searches load and find *)
(* in the cache are current and readable.                                  *)
(***************************************************************************)
EXTENDS VectorClient, VectorStoreProofs

LEMMA ClientStep == [ClientNext]_clientVars => [Next]_vars
<1> SUFFICES ASSUME [ClientNext]_clientVars PROVE [Next]_vars
  OBVIOUS
<1>1. CASE UNCHANGED clientVars
  BY <1>1 DEF clientVars
<1>2. ASSUME NEW x \in Trans, Others(x)
      PROVE  [Next]_vars
  BY <1>2 DEF Others, Define, Next, Step
<1>3. ASSUME NEW x \in Trans, CommitBegins(x)
      PROVE  [Next]_vars
  BY <1>3 DEF CommitBegins, Next, Step
<1>4. ASSUME NEW x \in Trans, ResetReads(x) \/ ResetStores(x)
      PROVE  [Next]_vars
  BY <1>4 DEF ResetReads, ResetStores
<1>5. ASSUME NEW x \in Trans, CommitEnds(x)
      PROVE  [Next]_vars
  BY <1>5 DEF CommitEnds, Next, Step
<1>6. ASSUME NEW s \in Searchers, NEW t \in Types, FindSimilar(s, t)
      PROVE  [Next]_vars
  BY <1>6 DEF FindSimilar
<1>7. ASSUME NEW s \in Searchers,
             \/ TypeNotDefined(s) \/ CreateDatabaseReader(s) \/ CreateMemoryReader(s)
             \/ LoadChunk(s) \/ LoadEnds(s)
             \/ PublishReads(s) \/ PublishStores(s) \/ Search(s)
      PROVE  [Next]_vars
  BY <1>7 DEF TypeNotDefined, CreateDatabaseReader, CreateMemoryReader, LoadChunk, LoadEnds,
              PublishReads, PublishStores, Search
<1>8. QED
  BY <1>1, <1>2, <1>3, <1>4, <1>5, <1>6, <1>7 DEF ClientNext

\* The client implements the transactions: commits in steps, with the reset
\* of the cache between the batch and the database commit, and searches that
\* load LSH maps do nothing to transactions that Spec does not allow.
THEOREM ClientImplementsTransactions == ClientSpec => Spec
<1>1. ClientInit => Init
  BY DEF ClientInit
<1>2. QED
  BY <1>1, ClientStep, PTL DEF ClientSpec, Spec

\* Names and numbers are inverse to each other in a client whose threads
\* search while transactions commit.
THEOREM ClientNumbersInverse ==
    ASSUME Usage = {}
    PROVE  ClientSpec => []NumbersInverse
BY ClientImplementsTransactions, NumbersAlwaysInverse, PTL

-----------------------------------------------------------------------------
(* Type correctness.  A search has an LSH map from the moment it creates   *)
(* or finds one.                                                           *)

HasMap == {"load", "publish", "store", "search"}

MapsLoaded == \A s \in Searchers : spc[s] \in HasMap => smap[s] \in SimHashMaps

ClientTypeInv == ClientTypeOK /\ TypeInv /\ MapsLoaded

LEMMA StoredValuesType ==
    ASSUME NEW d \in Database, NEW t \in Types
    PROVE  /\ StoredValues(d, t) \in Values
           /\ ReadTypeno(d, t) # 0 => d.typeno[t] \in Typenos /\ ReadTypeno(d, t) = d.typeno[t]
<1>1. /\ d.typeno[t] \in Typenos \cup {Absent}
      /\ d.simhash \in [Typenos \X Featnos -> Vecs \cup {Absent}]
  BY DEF Database
<1>2. ReadTypeno(d, t) # 0 => d.typeno[t] \in Typenos /\ ReadTypeno(d, t) = d.typeno[t]
  BY <1>1 DEF ReadTypeno, IndexValue
<1>3. ASSUME NEW n \in Typenos PROVE ValuesOf(d, n) \in Values
  BY <1>1 DEF ValuesOf, Values
<1>4. NoValues \in Values
  BY DEF NoValues, Values
<1>5. QED
  BY <1>2, <1>3, <1>4 DEF StoredValues

\* The changes of a step that leaves the state of the transactions alone.
LEMMA SameTypes ==
    ASSUME ClientTypeInv, UNCHANGED vars
    PROVE  TypeOK' /\ TypeInv' /\ db' = db /\ db \in Database
<1>1. TypeOK /\ TypeInv
  BY DEF ClientTypeInv, TypeInv
<1>2. TypeOK' /\ TypeInv'
  BY <1>1, TypeStep DEF TypeInv
<1>3. QED
  BY <1>1, <1>2 DEF vars, TypeOK

LEMMA ClientTypeInit == ClientInit => ClientTypeInv
<1> SUFFICES ASSUME ClientInit PROVE ClientTypeInv
  OBVIOUS
<1>1. TypeInv /\ TypeOK
  BY TypeInit DEF ClientInit, TypeInv
<1>2. EmptyCache \in Caches
  BY DEF EmptyCache, Caches
<1>3. /\ cache \in Caches /\ rcopy \in [Trans -> Caches] /\ scopy \in [Searchers -> Caches]
  BY <1>2 DEF ClientInit
<1>4. /\ rpc \in [Trans -> {"start", "copied", "done"}]
      /\ spc \in [Searchers -> {"idle", "lookup", "load", "publish", "store", "search"}]
      /\ stype \in [Searchers -> Types]
      /\ smap \in [Searchers -> SimHashMaps \cup {NoMap}]
      /\ last \in [Searchers -> Featnos \cup {0}]
      /\ since \in [Searchers -> [Featnos -> SUBSET (Vecs \cup {Absent})]]
  BY DEF ClientInit, NoHistory
<1>5. MapsLoaded
  BY DEF ClientInit, MapsLoaded, HasMap
<1>6. QED
  BY <1>1, <1>3, <1>4, <1>5 DEF ClientTypeInv, ClientTypeOK

\* The history of the LSH values of a search is typed.
History == [Featnos -> SUBSET (Vecs \cup {Absent})]

LEMMA TypeCommitEnds ==
    ASSUME ClientTypeInv, TypeInv', NEW x \in Trans, CommitEnds(x)
    PROVE  ClientTypeInv'
<1>1. /\ db' \in Database /\ stype \in [Searchers -> Types] /\ since \in [Searchers -> History]
      /\ rpc \in [Trans -> {"start", "copied", "done"}] /\ TypeOK'
  BY DEF ClientTypeInv, ClientTypeOK, TypeInv, TypeOK, History
<1>2. /\ since' = [s \in Searchers |->
                     IF spc[s] = "idle" THEN since[s]
                     ELSE [f \in Featnos |-> since[s][f] \cup {StoredValues(db', stype[s])[f]}]]
      /\ rpc' = [rpc EXCEPT ![x] = "start"]
      /\ UNCHANGED <<cache, rcopy, spc, stype, smap, last, scopy>>
  BY DEF CommitEnds
<1>3. ASSUME NEW s \in Searchers
      PROVE  [f \in Featnos |-> since[s][f] \cup {StoredValues(db', stype[s])[f]}] \in History
  <2> DEFINE v == StoredValues(db', stype[s])
  <2>1. v \in Values
    BY <1>1, StoredValuesType
  <2> HIDE DEF v
  <2>2. since[s] \in History
    BY <1>1
  <2>3. QED
    BY <2>1, <2>2 DEF History, Values, v
<1>4. since' \in [Searchers -> History]
  BY <1>1, <1>2, <1>3
<1>5. rpc' \in [Trans -> {"start", "copied", "done"}]
  BY <1>1, <1>2
<1>6. QED
  BY <1>1, <1>2, <1>4, <1>5 DEF ClientTypeInv, ClientTypeOK, MapsLoaded, History

LEMMA TypeReset2 ==
    ASSUME ClientTypeInv, TypeInv', NEW x \in Trans, ResetReads(x) \/ ResetStores(x)
    PROVE  ClientTypeInv'
<1>1. /\ cache \in Caches /\ rcopy \in [Trans -> Caches]
      /\ rpc \in [Trans -> {"start", "copied", "done"}]
  BY DEF ClientTypeInv, ClientTypeOK
<1>2. EmptyCache \in Caches /\ WithoutTypes(cache, typetab[x]) \in Caches
  BY <1>1 DEF EmptyCache, Caches, WithoutTypes
<1>3. cache' \in Caches /\ rcopy' \in [Trans -> Caches]
      /\ rpc' \in [Trans -> {"start", "copied", "done"}]
  BY <1>1, <1>2 DEF ResetReads, ResetStores
<1>4. UNCHANGED searches
  BY DEF ResetReads, ResetStores
<1>5. QED
  BY <1>3, <1>4 DEF ClientTypeInv, ClientTypeOK, MapsLoaded, searches, TypeInv

\* A step of the search s, by what it does to its state.
SearchStep(s) ==
    \/ \E t \in Types : FindSimilar(s, t)
    \/ TypeNotDefined(s) \/ CreateDatabaseReader(s) \/ CreateMemoryReader(s)
    \/ LoadChunk(s) \/ LoadEnds(s)
    \/ PublishReads(s) \/ PublishStores(s) \/ Search(s)

OtherKept(s, r) ==
    /\ spc'[r] = spc[r] /\ stype'[r] = stype[r] /\ smap'[r] = smap[r]
    /\ last'[r] = last[r] /\ scopy'[r] = scopy[r] /\ since'[r] = since[r]

LEMMA OtherSearches ==
    ASSUME ClientTypeInv, NEW s \in Searchers, SearchStep(s), NEW r \in Searchers, r # s
    PROVE  OtherKept(s, r)
<1>1. /\ spc \in [Searchers -> {"idle", "lookup", "load", "publish", "store", "search"}]
      /\ stype \in [Searchers -> Types]
      /\ smap \in [Searchers -> SimHashMaps \cup {NoMap}]
      /\ last \in [Searchers -> Featnos \cup {0}]
      /\ scopy \in [Searchers -> Caches]
      /\ since \in [Searchers -> History]
  BY DEF ClientTypeInv, ClientTypeOK, History
<1>2. ASSUME NEW t \in Types, FindSimilar(s, t) PROVE OtherKept(s, r)
  BY <1>1, <1>2 DEF FindSimilar, OtherKept
<1>3. ASSUME TypeNotDefined(s) \/ Search(s) PROVE OtherKept(s, r)
  BY <1>1, <1>3 DEF TypeNotDefined, Search, Finish, OtherKept
<1>4. ASSUME CreateDatabaseReader(s) \/ CreateMemoryReader(s) PROVE OtherKept(s, r)
  BY <1>1, <1>4 DEF CreateDatabaseReader, CreateMemoryReader, OtherKept
<1>5. ASSUME LoadChunk(s) PROVE OtherKept(s, r)
  <2>1. /\ UNCHANGED <<spc, stype, scopy, since>>
        /\ \E w : smap' = [smap EXCEPT ![s] = w]
        /\ \E l : last' = [last EXCEPT ![s] = l]
    BY <1>5 DEF LoadChunk
  <2>2. QED
    BY <1>1, <2>1 DEF OtherKept
<1>6. ASSUME LoadEnds(s) \/ PublishReads(s) \/ PublishStores(s) PROVE OtherKept(s, r)
  BY <1>1, <1>6 DEF LoadEnds, PublishReads, PublishStores, OtherKept
<1>7. QED
  BY <1>2, <1>3, <1>4, <1>5, <1>6 DEF SearchStep

\* A chunk that is loaded: the map s has loaded takes over the values of the
\* chunk, and the reader remembers its greatest number.
LEMMA ChunkLoaded ==
    ASSUME ClientTypeInv, NEW s \in Searchers, LoadChunk(s),
           NEW values, values = ValuesOf(db, smap[s].typeno),
           NEW chunk, chunk = Chunk(values, last[s])
    PROVE  /\ spc[s] = "load" /\ UNCHANGED <<vars, cache, resets, spc, stype, scopy, since>>
           /\ smap'[s] \in SimHashMaps /\ smap'[s].typeno = smap[s].typeno
           /\ \A f \in Featnos :
                smap'[s].values[f] = IF f \in chunk THEN values[f] ELSE smap[s].values[f]
           /\ last'[s] \in chunk /\ \A f \in chunk : f <= last'[s]
           /\ smap' = [smap EXCEPT ![s] = smap'[s]] /\ last' = [last EXCEPT ![s] = last'[s]]
           /\ values \in Values /\ chunk \subseteq Featnos
<1>1. /\ smap \in [Searchers -> SimHashMaps \cup {NoMap}] /\ MapsLoaded
      /\ last \in [Searchers -> Featnos \cup {0}] /\ db \in Database
  BY DEF ClientTypeInv, ClientTypeOK, TypeOK
<1>2. /\ spc[s] = "load" /\ chunk # {}
      /\ UNCHANGED <<vars, cache, resets, spc, stype, scopy, since>>
      /\ smap' = [smap EXCEPT ![s].values =
                    [f \in Featnos |-> IF f \in chunk THEN values[f] ELSE @[f]]]
      /\ last' = [last EXCEPT ![s] = CHOOSE f \in chunk : \A g \in chunk : g <= f]
  BY DEF LoadChunk
<1>3. smap[s] \in SimHashMaps
  BY <1>1, <1>2 DEF MapsLoaded, HasMap
<1>4. values \in Values
  BY <1>1, <1>3 DEF SimHashMaps, ValuesOf, Values, Database
<1>5. chunk \subseteq Featnos
  BY DEF Chunk
<1> DEFINE m == smap[s]
           w == [f \in Featnos |-> IF f \in chunk THEN values[f] ELSE m.values[f]]
<1>6. w \in Values
  BY <1>3, <1>4 DEF Values, SimHashMaps
<1>7. smap'[s] = [m EXCEPT !.values = w] /\ smap' = [smap EXCEPT ![s] = smap'[s]]
  BY <1>1, <1>2
<1> HIDE DEF m, w
<1>8. m \in SimHashMaps
  BY <1>3 DEF m
<1>9. /\ smap'[s] \in SimHashMaps /\ smap'[s].typeno = m.typeno /\ smap'[s].values = w
  BY <1>6, <1>7, <1>8 DEF SimHashMaps
<1>10. ASSUME NEW f \in Featnos
       PROVE  smap'[s].values[f] = IF f \in chunk THEN values[f] ELSE smap[s].values[f]
  BY <1>9 DEF w, m
<1>11. PICK f \in chunk : \A g \in chunk : g <= f
  <2>1. chunk \in SUBSET (0 .. MaxFeatno) /\ MaxFeatno \in Nat
    BY <1>5, BoundsAssumption DEF Featnos
  <2>2. QED
    BY <1>2, <2>1, GreatestNumber
<1>12. last'[s] \in chunk /\ \A g \in chunk : g <= last'[s]
  BY <1>1, <1>2, <1>11
<1>13. QED
  BY <1>1, <1>2, <1>4, <1>5, <1>7, <1>9, <1>10, <1>12 DEF m

LEMMA SearchKeepsTransactions ==
    ASSUME NEW s \in Searchers, SearchStep(s)
    PROVE  UNCHANGED vars /\ UNCHANGED resets
BY DEF SearchStep, FindSimilar, TypeNotDefined, CreateDatabaseReader, CreateMemoryReader,
       LoadChunk, LoadEnds, PublishReads, PublishStores, Search

LEMMA TypeSearch ==
    ASSUME ClientTypeInv, NEW s \in Searchers, SearchStep(s)
    PROVE  ClientTypeInv'
<1>1. /\ cache \in Caches /\ db \in Database
      /\ spc \in [Searchers -> {"idle", "lookup", "load", "publish", "store", "search"}]
      /\ stype \in [Searchers -> Types]
      /\ smap \in [Searchers -> SimHashMaps \cup {NoMap}]
      /\ last \in [Searchers -> Featnos \cup {0}]
      /\ scopy \in [Searchers -> Caches]
      /\ since \in [Searchers -> History]
      /\ MapsLoaded
  BY DEF ClientTypeInv, ClientTypeOK, TypeOK, History
<1>2. UNCHANGED vars /\ UNCHANGED resets
  BY SearchKeepsTransactions
<1>3. TypeOK' /\ TypeInv'
  BY <1>2, SameTypes
<1> DEFINE Typed == /\ cache' \in Caches
                    /\ spc' \in [Searchers -> {"idle", "lookup", "load", "publish", "store", "search"}]
                    /\ stype' \in [Searchers -> Types]
                    /\ smap' \in [Searchers -> SimHashMaps \cup {NoMap}]
                    /\ last' \in [Searchers -> Featnos \cup {0}]
                    /\ scopy' \in [Searchers -> Caches]
                    /\ since' \in [Searchers -> History]
                    /\ spc'[s] \in HasMap => smap'[s] \in SimHashMaps
<1>4. ASSUME Typed PROVE ClientTypeInv'
  <2>1. ASSUME NEW r \in Searchers, spc'[r] \in HasMap PROVE smap'[r] \in SimHashMaps
    BY <1>1, <1>4, <2>1, OtherSearches DEF MapsLoaded, OtherKept
  <2>2. MapsLoaded'
    BY <2>1 DEF MapsLoaded
  <2>3. rpc' \in [Trans -> {"start", "copied", "done"}] /\ rcopy' \in [Trans -> Caches]
    BY <1>2 DEF resets, ClientTypeInv, ClientTypeOK
  <2>4. QED
    BY <1>3, <1>4, <2>2, <2>3 DEF ClientTypeInv, ClientTypeOK, History
<1>5. ASSUME NEW t \in Types PROVE StoredValues(db, t) \in Values
  BY <1>1, StoredValuesType
<1>6. NoHistory \in History /\ NoValues \in Values /\ EmptyCache \in Caches
  BY DEF NoHistory, History, NoValues, Values, EmptyCache, Caches
<1>7. ASSUME NEW t \in Types, FindSimilar(s, t) PROVE Typed
  <2> DEFINE v == StoredValues(db, t)
             h == [f \in Featnos |-> {v[f]}]
  <2>1. h \in History
    <3>1. v \in Values
      BY <1>5
    <3> HIDE DEF v
    <3>2. QED
      BY <3>1 DEF History, Values
  <2>2. /\ stype' = [stype EXCEPT ![s] = t]
        /\ since' = [since EXCEPT ![s] = h]
        /\ smap' = [smap EXCEPT ![s] = cache[t]]
        /\ spc' = [spc EXCEPT ![s] = IF cache[t] # NoMap THEN "search" ELSE "lookup"]
        /\ UNCHANGED <<cache, last, scopy>>
    BY <1>7 DEF FindSimilar
  <2>3. cache[t] \in SimHashMaps \cup {NoMap}
    BY <1>1 DEF Caches
  <2> HIDE DEF h
  <2>4. QED
    BY <1>1, <2>1, <2>2, <2>3 DEF HasMap
<1>8. ASSUME TypeNotDefined(s) \/ Search(s) PROVE Typed
  BY <1>1, <1>6, <1>8 DEF TypeNotDefined, Search, Finish, HasMap
<1>9. ASSUME CreateDatabaseReader(s) PROVE Typed
  <2> DEFINE m == [typeno |-> ReadTypeno(db, stype[s]), values |-> NoValues, reader |-> "database"]
  <2>1. m \in SimHashMaps
    <3>1. ReadTypeno(db, stype[s]) \in Typenos
      BY <1>1, <1>9, StoredValuesType DEF CreateDatabaseReader
    <3>2. QED
      BY <1>6, <3>1 DEF SimHashMaps
  <2>2. /\ smap' = [smap EXCEPT ![s] = m]
        /\ last' = [last EXCEPT ![s] = 0]
        /\ spc' = [spc EXCEPT ![s] = "load"]
        /\ UNCHANGED <<cache, stype, scopy, since>>
    BY <1>9 DEF CreateDatabaseReader
  <2> HIDE DEF m
  <2>3. QED
    BY <1>1, <2>1, <2>2
<1>10. ASSUME CreateMemoryReader(s) PROVE Typed
  <2> DEFINE m == [typeno |-> ReadTypeno(db, stype[s]), values |-> StoredValues(db, stype[s]),
                   reader |-> "memory"]
  <2>1. m \in SimHashMaps
    <3>1. ReadTypeno(db, stype[s]) \in Typenos
      BY <1>1, <1>10, StoredValuesType DEF CreateMemoryReader
    <3>2. StoredValues(db, stype[s]) \in Values
      BY <1>1, <1>5
    <3>3. QED
      BY <3>1, <3>2 DEF SimHashMaps
  <2>2. /\ smap' = [smap EXCEPT ![s] = m]
        /\ spc' = [spc EXCEPT ![s] = "publish"]
        /\ UNCHANGED <<cache, stype, last, scopy, since>>
    BY <1>10 DEF CreateMemoryReader
  <2> HIDE DEF m
  <2>3. QED
    BY <1>1, <2>1, <2>2
<1>11. ASSUME LoadChunk(s) PROVE Typed
  <2>1. /\ UNCHANGED <<cache, spc, stype, scopy, since>> /\ smap'[s] \in SimHashMaps
        /\ smap' = [smap EXCEPT ![s] = smap'[s]] /\ last' = [last EXCEPT ![s] = last'[s]]
        /\ last'[s] \in Featnos
    BY <1>11, ChunkLoaded
  <2>2. smap' \in [Searchers -> SimHashMaps \cup {NoMap}]
    BY <1>1, <2>1
  <2>3. last' \in [Searchers -> Featnos \cup {0}]
    BY <1>1, <2>1
  <2>4. QED
    BY <1>1, <2>1, <2>2, <2>3
<1>12. ASSUME LoadEnds(s) PROVE Typed
  <2>1. smap[s] \in SimHashMaps
    BY <1>1, <1>12 DEF LoadEnds, MapsLoaded, HasMap
  <2>2. QED
    BY <1>1, <1>12, <2>1 DEF LoadEnds
<1>13. ASSUME PublishReads(s) PROVE Typed
  <2> DEFINE c == [cache EXCEPT ![stype[s]] = IF @ = NoMap THEN smap[s] ELSE @]
  <2>1. smap[s] \in SimHashMaps /\ c \in Caches
    BY <1>1, <1>13 DEF PublishReads, MapsLoaded, HasMap, Caches
  <2>2. scopy' = [scopy EXCEPT ![s] = c] /\ spc' = [spc EXCEPT ![s] = "store"]
        /\ UNCHANGED <<cache, stype, smap, last, since>>
    BY <1>13 DEF PublishReads
  <2> HIDE DEF c
  <2>3. QED
    BY <1>1, <2>1, <2>2
<1>14. ASSUME PublishStores(s) PROVE Typed
  <2>1. smap[s] \in SimHashMaps
    BY <1>1, <1>14 DEF PublishStores, MapsLoaded, HasMap
  <2>2. QED
    BY <1>1, <1>6, <1>14, <2>1 DEF PublishStores
<1> HIDE DEF Typed
<1>15. QED
  BY <1>4, <1>7, <1>8, <1>9, <1>10, <1>11, <1>12, <1>13, <1>14 DEF SearchStep

LEMMA ClientTypeStep == ClientTypeInv /\ [ClientNext]_clientVars => ClientTypeInv'
<1> SUFFICES ASSUME ClientTypeInv, [ClientNext]_clientVars PROVE ClientTypeInv'
  OBVIOUS
<1>1. TypeInv'
  BY ClientStep, TypeStep DEF ClientTypeInv
<1>2. CASE UNCHANGED <<cache, resets, searches>>
  BY <1>1, <1>2 DEF ClientTypeInv, ClientTypeOK, MapsLoaded, resets, searches, TypeInv
<1>3. CASE UNCHANGED clientVars
  BY <1>2, <1>3 DEF clientVars
<1>4. ASSUME NEW x \in Trans, Others(x) \/ CommitBegins(x)
      PROVE  ClientTypeInv'
  BY <1>2, <1>4 DEF Others, CommitBegins
<1>5. ASSUME NEW x \in Trans, ResetReads(x) \/ ResetStores(x)
      PROVE  ClientTypeInv'
  BY <1>1, <1>5, TypeReset2
<1>6. ASSUME NEW x \in Trans, CommitEnds(x)
      PROVE  ClientTypeInv'
  BY <1>1, <1>6, TypeCommitEnds
<1>7. ASSUME NEW s \in Searchers, SearchStep(s)
      PROVE  ClientTypeInv'
  BY <1>7, TypeSearch
<1>8. QED
  BY <1>3, <1>4, <1>5, <1>6, <1>7 DEF ClientNext, SearchStep

\* Type correctness of the client, whatever its callers do.
THEOREM ClientTypeCorrect == ClientSpec => []ClientTypeOK
<1>1. ClientTypeInv => ClientTypeOK
  BY DEF ClientTypeInv
<1>2. QED
  BY ClientTypeInit, ClientTypeStep, <1>1, PTL DEF ClientSpec

-----------------------------------------------------------------------------
(* What a commit does to the LSH values: none is lost, and those of the    *)
(* types the transaction does not define stay the same.                    *)

NamesInverse(d) == InverseMaps(d.typeno, d.typename) /\ InverseMaps(d.featno, d.featname)

Sound(d) == d \in Database /\ NamesInverse(d) /\ Consistent(d)

LEMMA VectorNamed ==
    ASSUME NEW d, Sound(d), NEW n \in Typenos, NEW f \in Featnos, d.vec[<<n, f>>] # Absent
    PROVE  \E t \in Types, g \in Feats : d.typeno[t] = n /\ d.featno[g] = f
<1>1. /\ d \in Database /\ InverseMaps(d.typeno, d.typename) /\ InverseMaps(d.featno, d.featname)
      /\ VectorsRelated(d) /\ RelationsNamed(d)
  BY DEF Sound, NamesInverse, Consistent
<1>2. d.typename[n] # Absent /\ d.featname[f] # Absent
  BY <1>1 DEF VectorsRelated, RelationsNamed
<1>3. /\ DOMAIN d.typename = Typenos /\ DOMAIN d.featname = Featnos
      /\ d.typename[n] \in Types \cup {Absent} /\ d.featname[f] \in Feats \cup {Absent}
  BY <1>1 DEF Database
<1>4. d.typeno[d.typename[n]] = n /\ d.featno[d.featname[f]] = f
  BY <1>1, <1>2, <1>3 DEF InverseMaps
<1>5. QED
  BY <1>2, <1>3, <1>4

\* The vector stored for a named type and feature is the one the interface
\* returns.
LEMMA NumberedVector ==
    ASSUME NEW d \in Database, NEW t \in Types, NEW g \in Feats,
           d.typeno[t] \in Typenos, d.featno[g] \in Featnos
    PROVE  StoreOf(d).vec[<<t, g>>] = d.vec[<<d.typeno[t], d.featno[g]>>]
<1>1. ReadTypeno(d, t) # 0 /\ ReadFeatno(d, g) # 0
  BY MarkersAssumption, BoundsAssumption DEF ReadTypeno, ReadFeatno, IndexValue, Typenos, Featnos
<1>2. FeatureVector(d, t, g) = d.vec[<<d.typeno[t], d.featno[g]>>]
  BY <1>1 DEF FeatureVector
<1>3. QED
  BY <1>2 DEF StoreOf

\* A feature without a number has no vector.
LEMMA UnnumberedVector ==
    ASSUME NEW d \in Database, NEW t \in Types, NEW g \in Feats,
           d.featno[g] = Absent
    PROVE  StoreOf(d).vec[<<t, g>>] = Absent
BY DEF StoreOf, FeatureVector, ReadFeatno, IndexValue

\* A commit of the definitions p, that clear nothing, takes d to D.
CommitOf(d, D, p) ==
    /\ Sound(d) /\ Sound(D) /\ NumbersKept(d, D)
    /\ p \in Definitions /\ p.clear = FALSE
    /\ StoreOf(D) = Store!After(StoreOf(d), p)

DefinesNone(p, t) == \A g \in Feats : p.vec[<<t, g>>] = Absent

\* Such a commit loses no vector.
LEMMA VectorsStay ==
    ASSUME NEW d, NEW D, NEW p, CommitOf(d, D, p),
           NEW n \in Typenos, NEW f \in Featnos, d.vec[<<n, f>>] # Absent
    PROVE  D.vec[<<n, f>>] # Absent
<1>0. /\ Sound(d) /\ Sound(D) /\ NumbersKept(d, D) /\ p.clear = FALSE
      /\ StoreOf(D) = Store!After(StoreOf(d), p)
  BY DEF CommitOf
<1>1. d \in Database /\ D \in Database
  BY <1>0 DEF Sound
<1>2. PICK t \in Types, g \in Feats : d.typeno[t] = n /\ d.featno[g] = f
  BY <1>0, VectorNamed
<1>3. n # Absent /\ f # Absent
  BY MarkersAssumption, BoundsAssumption DEF Typenos, Featnos
<1>4. D.typeno[t] = n /\ D.featno[g] = f
  BY <1>0, <1>2, <1>3 DEF NumbersKept
<1>5. StoreOf(d).vec[<<t, g>>] = d.vec[<<n, f>>] /\ StoreOf(D).vec[<<t, g>>] = D.vec[<<n, f>>]
  BY <1>1, <1>2, <1>4, NumberedVector
<1>6. Store!After(StoreOf(d), p).vec[<<t, g>>] =
        IF p.vec[<<t, g>>] = Absent THEN StoreOf(d).vec[<<t, g>>] ELSE p.vec[<<t, g>>]
  BY <1>0 DEF Store!After
<1>7. QED
  BY <1>0, <1>5, <1>6

\* The vectors of a type that is not among the definitions stay the same.
LEMMA VectorsSame ==
    ASSUME NEW d, NEW D, NEW p, CommitOf(d, D, p),
           NEW t \in Types, DefinesNone(p, t),
           NEW n \in Typenos, d.typeno[t] = n, NEW f \in Featnos
    PROVE  D.vec[<<n, f>>] = d.vec[<<n, f>>]
<1>0. /\ Sound(d) /\ Sound(D) /\ NumbersKept(d, D) /\ p.clear = FALSE
      /\ StoreOf(D) = Store!After(StoreOf(d), p)
      /\ \A g \in Feats : p.vec[<<t, g>>] = Absent
  BY DEF CommitOf, DefinesNone
<1>1. d \in Database /\ D \in Database
  BY <1>0 DEF Sound
<1>2. n # Absent /\ f # Absent
  BY MarkersAssumption, BoundsAssumption DEF Typenos, Featnos
<1>3. D.typeno[t] = n
  BY <1>0, <1>2 DEF NumbersKept
<1>4. ASSUME NEW g \in Feats
      PROVE  StoreOf(D).vec[<<t, g>>] = StoreOf(d).vec[<<t, g>>]
  <2>1. Store!After(StoreOf(d), p).vec[<<t, g>>] =
          IF p.vec[<<t, g>>] = Absent THEN StoreOf(d).vec[<<t, g>>] ELSE p.vec[<<t, g>>]
    BY <1>0 DEF Store!After
  <2>2. QED
    BY <1>0, <2>1
<1>5. ASSUME NEW g \in Feats, d.featno[g] = f
      PROVE  D.vec[<<n, f>>] = d.vec[<<n, f>>]
  <2>1. D.featno[g] = f
    BY <1>0, <1>2, <1>5 DEF NumbersKept
  <2>2. StoreOf(d).vec[<<t, g>>] = d.vec[<<n, f>>] /\ StoreOf(D).vec[<<t, g>>] = D.vec[<<n, f>>]
    BY <1>1, <1>3, <1>5, <2>1, NumberedVector
  <2>3. QED
    BY <1>4, <2>2
<1>6. ASSUME D.vec[<<n, f>>] # Absent
      PROVE  \E g \in Feats : d.featno[g] = f
  <2>1. PICK g \in Feats : D.featno[g] = f
    BY <1>0, <1>6, VectorNamed
  <2>2. StoreOf(D).vec[<<t, g>>] # Absent
    BY <1>1, <1>3, <1>6, <2>1, NumberedVector
  <2>3. d.featno[g] # Absent
    BY <1>1, <1>4, <2>2, UnnumberedVector
  <2>4. QED
    BY <1>0, <2>1, <2>3 DEF NumbersKept
<1>7. ASSUME d.vec[<<n, f>>] # Absent
      PROVE  \E g \in Feats : d.featno[g] = f
  BY <1>0, <1>7, VectorNamed
<1>8. QED
  BY <1>5, <1>6, <1>7

\* The definitions of a transaction clear nothing, and the types that get
\* vectors are in its type table, whether its commit has failed or not.
Named(x) ==
    /\ defs[x].clear = FALSE
    /\ \A e \in Types \X Feats : defs[x].vec[e] # Absent =>
         \E i \in 1 .. Len(typetab[x]) : typetab[x][i] = e[1]

DefinitionsNamed == \A x \in Trans : Named(x)

LEMMA NamedStep ==
    Usage = {} /\ TypeInv /\ DefinitionsNamed /\ [Next]_vars => DefinitionsNamed'
<1> SUFFICES ASSUME Usage = {}, TypeInv, DefinitionsNamed, [Next]_vars PROVE DefinitionsNamed'
  OBVIOUS
<1>1. /\ typetab \in [Trans -> Seq(Types)] /\ defs \in [Trans -> Definitions]
  BY DEF TypeInv, TypeOK
<1>2. ASSUME NEW y \in Trans, typetab'[y] = typetab[y], defs'[y] = defs[y] PROVE Named(y)'
  BY <1>2 DEF DefinitionsNamed, Named
<1>3. ASSUME NEW x \in Trans, Step(x), Named(x)' PROVE DefinitionsNamed'
  BY <1>2, <1>3, OtherTables DEF DefinitionsNamed
<1>4. ASSUME NEW x \in Trans, NEW t \in Types,
             typetab'[x] = GetOrCreate(typetab[x], t), defs'[x].clear = FALSE,
             \A e \in Types \X Feats :
                defs'[x].vec[e] # Absent => e[1] = t \/ defs[x].vec[e] # Absent
      PROVE  Named(x)'
  <2> DEFINE tab == GetOrCreate(typetab[x], t)
  <2>1. /\ typetab[x] \in Seq(Types) /\ Len(typetab[x]) \in Nat
        /\ \A e \in Types \X Feats : defs[x].vec[e] # Absent =>
             \E i \in 1 .. Len(typetab[x]) : typetab[x][i] = e[1]
    BY <1>1, LenProperties DEF DefinitionsNamed, Named
  <2>2. /\ tab \in Seq(Types) /\ Len(typetab[x]) <= Len(tab)
        /\ SymbolIndex(tab, t) \in 1 .. Len(tab)
    BY <2>1, SymbolTable
  <2>3. /\ \A i \in 1 .. Len(typetab[x]) : tab[i] = typetab[x][i]
        /\ tab[SymbolIndex(tab, t)] = t
    BY <2>1, SymbolAdded
  <2> HIDE DEF tab
  <2>4. Len(tab) \in Nat
    BY <2>2, LenProperties
  <2>5. ASSUME NEW e \in Types \X Feats, defs'[x].vec[e] # Absent
        PROVE  \E i \in 1 .. Len(tab) : tab[i] = e[1]
    BY <1>4, <2>1, <2>2, <2>3, <2>4, <2>5
  <2>6. typetab'[x] = tab
    BY <1>4 DEF tab
  <2>7. QED
    BY <1>4, <2>5, <2>6 DEF Named
<1>5. ASSUME NEW x \in Trans, NEW t \in Types, DefineFeatureType(x, t) PROVE Named(x)'
  <2>1. typetab'[x] = GetOrCreate(typetab[x], t)
    BY <1>1, <1>5 DEF DefineFeatureType
  <2>2. defs'[x] = [defs[x] EXCEPT !.types = @ \cup {t}]
    BY <1>1, <1>5 DEF DefineFeatureType
  <2> DEFINE p == defs[x]
             ts == p.types \cup {t}
  <2>3. p \in Definitions /\ ts \in SUBSET Types
    BY <1>1 DEF Definitions
  <2>4. defs'[x] = [p EXCEPT !.types = ts] /\ p.clear = FALSE
    BY <2>2 DEF DefinitionsNamed, Named
  <2> HIDE DEF p, ts
  <2>5. [p EXCEPT !.types = ts] =
          [types |-> ts, elems |-> p.elems, vec |-> p.vec, clear |-> p.clear]
    BY <2>3 DEF Definitions
  <2>6. defs'[x].vec = p.vec /\ defs'[x].clear = FALSE
    BY <2>4, <2>5
  <2>7. \A e \in Types \X Feats : defs'[x].vec[e] # Absent => e[1] = t \/ defs[x].vec[e] # Absent
    BY <2>6 DEF p
  <2>8. QED
    BY <1>4, <2>1, <2>6, <2>7
<1>6. ASSUME NEW x \in Trans, NEW t \in Types, NEW f \in Feats, NEW v \in Vecs \cup {Absent},
             DefineElement(x, t, f, v)
      PROVE  Named(x)'
  <2>1. typetab'[x] = GetOrCreate(typetab[x], t)
    BY <1>1, <1>6 DEF DefineElement
  <2>2. defs'[x] = WithElement(defs[x], t, f, v)
    BY <1>1, <1>6 DEF DefineElement
  <2>3. defs[x].vec \in [Types \X Feats -> Vecs \cup {Absent}] /\ defs[x] \in Definitions
    BY <1>1 DEF Definitions
  <2>4. defs'[x].clear = FALSE
    BY <2>2 DEF WithElement, DefinitionsNamed, Named
  <2>5. \A e \in Types \X Feats : defs'[x].vec[e] # Absent => e[1] = t \/ defs[x].vec[e] # Absent
    BY <2>2, <2>3 DEF WithElement
  <2>6. QED
    BY <1>4, <2>1, <2>4, <2>5
<1>7. ASSUME NEW x \in Trans, ResetLocals(x) PROVE Named(x)'
  <2>1. defs'[x] = NoDefinitions
    BY <1>1, <1>7 DEF ResetLocals
  <2>2. QED
    BY <2>1 DEF Named, NoDefinitions
<1>8. ASSUME NEW x \in Trans, PrepareCommit(x) \/ CommitThrows(x) \/ CommitFails(x) PROVE Named(x)'
  BY <1>2, <1>8 DEF PrepareCommit, CommitThrows, CommitFails
<1>9. CASE UNCHANGED vars
  BY <1>2, <1>9 DEF vars, DefinitionsNamed
<1>10. ASSUME NEW x \in Trans PROVE ~ Clear(x)
  BY DEF Clear
<1>11. ASSUME NEW x \in Trans, Step(x) PROVE Named(x)'
  BY <1>5, <1>6, <1>7, <1>8, <1>10, <1>11 DEF Step, Rollback, CommitSucceeds
<1>12. QED
  BY <1>3, <1>9, <1>11 DEF Next

\* A step of the transactions, seen by the LSH maps: numbers and vectors stay.
LEMMA DatabaseGrows ==
    ASSUME Usage = {}, StoreInv, DefinitionsNamed, [Next]_vars
    PROVE  /\ Sound(db) /\ Sound(db') /\ NumbersKept(db, db')
           /\ \A n \in Typenos, f \in Featnos :
                db.simhash[<<n, f>>] # Absent => db'.simhash[<<n, f>>] # Absent
<1>1. StoreInv'
  BY StoreStep
<1>2. Sound(db)
  BY DEF StoreInv, NumbersInv, TypeInv, TypeOK, NumbersInverse, Sound, NamesInverse
<1>3. Sound(db')
  BY <1>1 DEF StoreInv, NumbersInv, TypeInv, TypeOK, NumbersInverse, Sound, NamesInverse
<1>4. NumbersKept(db, db')
  BY NumbersKeptStep DEF StoreInv
<1>5. db'.simhash = db'.vec /\ db.simhash = db.vec
  BY <1>1 DEF StoreInv, Consistent
<1>6. ASSUME NEW x \in Trans, CommitSucceeds(x),
             NEW n \in Typenos, NEW f \in Featnos, db.vec[<<n, f>>] # Absent
      PROVE  db'.vec[<<n, f>>] # Absent
  <2>1. StoreOf(db') = Store!After(StoreOf(db), defs[x])
    BY <1>6 DEF StoreInv, PreparedStores, Prepared, CommitSucceeds
  <2>2. defs[x] \in Definitions /\ defs[x].clear = FALSE
    BY DEF StoreInv, NumbersInv, TypeInv, TypeOK, DefinitionsNamed, Named
  <2>3. QED
    BY <1>2, <1>3, <1>4, <1>6, <2>1, <2>2, VectorsStay DEF CommitOf
<1>7. db' = db \/ \E x \in Trans : CommitSucceeds(x)
  BY DatabaseChanges
<1>8. QED
  BY <1>2, <1>3, <1>4, <1>5, <1>6, <1>7

-----------------------------------------------------------------------------
(* The LSH maps hold values of vectors that are stored: a map may miss     *)
(* what commits have added since, what it has stays readable.              *)

Readable(m, d) == \A f \in Featnos : m.values[f] # Absent => d.simhash[<<m.typeno, f>>] # Absent

CacheReadable(c, d) == \A t \in Types : c[t] # NoMap => Readable(c[t], d)

MapsReadable ==
    /\ CacheReadable(cache, db)
    /\ \A x \in Trans : CacheReadable(rcopy[x], db)
    /\ \A s \in Searchers : CacheReadable(scopy[s], db)
    /\ \A s \in Searchers : spc[s] \in HasMap => Readable(smap[s], db)

LEMMA ReadableKept ==
    ASSUME ClientTypeInv, MapsReadable, UNCHANGED <<cache, rcopy, spc, smap, scopy>>,
           \A n \in Typenos, f \in Featnos :
                db.simhash[<<n, f>>] # Absent => db'.simhash[<<n, f>>] # Absent
    PROVE  MapsReadable'
<1>1. ASSUME NEW m \in SimHashMaps, Readable(m, db) PROVE Readable(m, db')
  BY <1>1 DEF Readable, SimHashMaps
<1>2. ASSUME NEW c \in Caches, CacheReadable(c, db) PROVE CacheReadable(c, db')
  BY <1>1, <1>2 DEF CacheReadable, Caches
<1>3. /\ cache \in Caches /\ rcopy \in [Trans -> Caches] /\ scopy \in [Searchers -> Caches]
      /\ MapsLoaded
  BY DEF ClientTypeInv, ClientTypeOK
<1>4. ASSUME NEW s \in Searchers, spc[s] \in HasMap
      PROVE  smap[s] \in SimHashMaps /\ Readable(smap[s], db)
  BY <1>3, <1>4 DEF MapsLoaded, MapsReadable
<1>5. CacheReadable(cache', db')
  BY <1>2, <1>3 DEF MapsReadable
<1>6. \A x \in Trans : CacheReadable(rcopy'[x], db')
  BY <1>2, <1>3 DEF MapsReadable
<1>7. \A s \in Searchers : CacheReadable(scopy'[s], db')
  BY <1>2, <1>3 DEF MapsReadable
<1>8. \A s \in Searchers : spc'[s] \in HasMap => Readable(smap'[s], db')
  BY <1>1, <1>4
<1>9. QED
  BY <1>5, <1>6, <1>7, <1>8 DEF MapsReadable

LEMMA EmptyReadable == ASSUME NEW d PROVE CacheReadable(EmptyCache, d)
BY DEF CacheReadable, EmptyCache

LEMMA ReadableReset ==
    ASSUME ClientTypeInv, MapsReadable, NEW x \in Trans, ResetReads(x) \/ ResetStores(x)
    PROVE  MapsReadable'
<1>1. rcopy \in [Trans -> Caches] /\ cache \in Caches
  BY DEF ClientTypeInv, ClientTypeOK
<1>2. UNCHANGED <<db, spc, smap, scopy>>
  BY DEF ResetReads, ResetStores, vars, searches
<1>3. CacheReadable(WithoutTypes(cache, typetab[x]), db)
  BY DEF MapsReadable, CacheReadable, WithoutTypes
<1>4. CacheReadable(cache', db)
  BY DEF ResetReads, ResetStores, MapsReadable
<1>5. ASSUME NEW y \in Trans PROVE CacheReadable(rcopy'[y], db)
  BY <1>1, <1>3, EmptyReadable DEF ResetReads, ResetStores, MapsReadable
<1>6. QED
  BY <1>2, <1>4, <1>5 DEF MapsReadable

LEMMA ReadableSearch ==
    ASSUME ClientTypeInv, MapsReadable, NEW s \in Searchers, SearchStep(s)
    PROVE  MapsReadable'
<1>1. /\ cache \in Caches /\ db \in Database
      /\ spc \in [Searchers -> {"idle", "lookup", "load", "publish", "store", "search"}]
      /\ stype \in [Searchers -> Types]
      /\ smap \in [Searchers -> SimHashMaps \cup {NoMap}]
      /\ scopy \in [Searchers -> Caches] /\ MapsLoaded
  BY DEF ClientTypeInv, ClientTypeOK, TypeOK
<1>2. db' = db /\ rcopy' = rcopy
  BY SearchKeepsTransactions DEF vars, resets
<1> DEFINE Fine == /\ CacheReadable(cache', db)
                   /\ CacheReadable(scopy'[s], db)
                   /\ spc'[s] \in HasMap => Readable(smap'[s], db)
<1>3. ASSUME Fine PROVE MapsReadable'
  <2>1. ASSUME NEW r \in Searchers PROVE CacheReadable(scopy'[r], db)
    BY <1>3, OtherSearches DEF MapsReadable, OtherKept
  <2>2. ASSUME NEW r \in Searchers, spc'[r] \in HasMap PROVE Readable(smap'[r], db)
    BY <1>3, <2>2, OtherSearches DEF MapsReadable, OtherKept
  <2>3. QED
    BY <1>2, <1>3, <2>1, <2>2 DEF MapsReadable
<1>4. ASSUME NEW t \in Types, FindSimilar(s, t) PROVE Fine
  <2>1. /\ smap'[s] = cache[t] /\ spc'[s] = IF cache[t] # NoMap THEN "search" ELSE "lookup"
        /\ UNCHANGED <<cache, scopy>>
    BY <1>1, <1>4 DEF FindSimilar
  <2>2. QED
    BY <2>1 DEF MapsReadable, CacheReadable, HasMap
<1>5. ASSUME TypeNotDefined(s) \/ Search(s) PROVE Fine
  BY <1>1, <1>5 DEF TypeNotDefined, Search, Finish, MapsReadable, HasMap
<1>6. ASSUME CreateDatabaseReader(s) PROVE Fine
  <2>1. smap'[s].values = NoValues /\ UNCHANGED <<cache, scopy>>
    BY <1>1, <1>6 DEF CreateDatabaseReader
  <2>2. QED
    BY <2>1 DEF MapsReadable, Readable, NoValues
<1>7. ASSUME CreateMemoryReader(s) PROVE Fine
  <2>1. /\ smap'[s].values = StoredValues(db, stype[s])
        /\ smap'[s].typeno = ReadTypeno(db, stype[s])
        /\ ReadTypeno(db, stype[s]) # 0 /\ UNCHANGED <<cache, scopy>>
    BY <1>1, <1>7 DEF CreateMemoryReader
  <2>2. smap'[s].values = ValuesOf(db, smap'[s].typeno)
    BY <1>1, <2>1, StoredValuesType DEF StoredValues
  <2>3. QED
    BY <2>1, <2>2 DEF MapsReadable, Readable, ValuesOf
<1>8. ASSUME LoadChunk(s) PROVE Fine
  <2> DEFINE values == ValuesOf(db, smap[s].typeno)
             chunk == Chunk(values, last[s])
  <2>1. /\ spc[s] = "load" /\ UNCHANGED <<cache, spc, scopy>>
        /\ smap'[s].typeno = smap[s].typeno
        /\ \A f \in Featnos :
             smap'[s].values[f] = IF f \in chunk THEN values[f] ELSE smap[s].values[f]
    BY <1>8, ChunkLoaded
  <2>2. Readable(smap[s], db)
    BY <2>1 DEF MapsReadable, HasMap
  <2>3. \A f \in Featnos : values[f] = db.simhash[<<smap[s].typeno, f>>]
    BY DEF ValuesOf
  <2> HIDE DEF values, chunk
  <2>4. QED
    BY <2>1, <2>2, <2>3 DEF MapsReadable, Readable
<1>9. ASSUME LoadEnds(s) PROVE Fine
  BY <1>1, <1>9 DEF LoadEnds, MapsReadable, HasMap
<1>10. ASSUME PublishReads(s) PROVE Fine
  <2>1. /\ scopy'[s] = [cache EXCEPT ![stype[s]] = IF @ = NoMap THEN smap[s] ELSE @]
        /\ spc[s] = "publish" /\ UNCHANGED <<cache, smap>>
    BY <1>1, <1>10 DEF PublishReads
  <2>2. Readable(smap[s], db) /\ CacheReadable(cache, db)
    BY <2>1 DEF MapsReadable, HasMap
  <2>3. CacheReadable(scopy'[s], db)
    BY <1>1, <2>1, <2>2 DEF CacheReadable, Caches
  <2>4. QED
    BY <2>1, <2>2, <2>3
<1>11. ASSUME PublishStores(s) PROVE Fine
  BY <1>1, <1>11, EmptyReadable DEF PublishStores, MapsReadable, HasMap
<1> HIDE DEF Fine
<1>12. QED
  BY <1>3, <1>4, <1>5, <1>6, <1>7, <1>8, <1>9, <1>10, <1>11 DEF SearchStep

LEMMA ReadableStep ==
    ASSUME Usage = {}, StoreInv, DefinitionsNamed, ClientTypeInv, MapsReadable,
           [ClientNext]_clientVars
    PROVE  MapsReadable'
<1>1. \A n \in Typenos, f \in Featnos :
         db.simhash[<<n, f>>] # Absent => db'.simhash[<<n, f>>] # Absent
  BY ClientStep, DatabaseGrows
<1>2. CASE UNCHANGED clientVars
  BY <1>1, <1>2, ReadableKept DEF clientVars, resets, searches
<1>3. ASSUME NEW x \in Trans, Others(x) \/ CommitBegins(x) \/ CommitEnds(x) PROVE MapsReadable'
  <2>1. UNCHANGED <<cache, rcopy, spc, smap, scopy>>
    BY <1>3 DEF Others, CommitBegins, CommitEnds, resets, searches
  <2>2. QED
    BY <1>1, <2>1, ReadableKept
<1>4. QED
  BY <1>2, <1>3, ReadableReset, ReadableSearch DEF ClientNext, SearchStep

-----------------------------------------------------------------------------
(* Loading in chunks.  A search that loads has, up to the last number      *)
(* read, values that were stored at some moment since its call.            *)

\* Nothing is left when a chunk is empty, and a chunk leaves nothing out.
LEMMA ChunkComplete ==
    ASSUME NEW values, NEW from \in Featnos \cup {0}, NEW chunk, chunk = Chunk(values, from)
    PROVE  /\ chunk = {} => \A f \in Featnos : f > from => values[f] = Absent
           /\ \A l \in chunk, f \in Featnos : f > from /\ f <= l /\ f \notin chunk => values[f] = Absent
<1> DEFINE Upto(f) == {g \in Featnos : g > from /\ g <= f /\ values[g] # Absent}
<1>1. /\ Featnos \subseteq Nat /\ from \in Nat
      /\ ChunkSize \in Nat /\ ChunkSize >= 1
  BY BoundsAssumption, ClientAssumption DEF Featnos
<1>2. ASSUME NEW f \in Featnos
      PROVE  f \in chunk <=> f > from /\ values[f] # Absent /\ Cardinality(Upto(f)) <= ChunkSize
  BY DEF Chunk
<1>3. ASSUME NEW f \in Featnos PROVE IsFiniteSet(Upto(f)) /\ Cardinality(Upto(f)) \in Nat
  <2>1. IsFiniteSet(Featnos)
    BY BoundsAssumption, FS_Interval DEF Featnos
  <2>2. Upto(f) \subseteq Featnos
    OBVIOUS
  <2>3. QED
    BY <2>1, <2>2, FS_Subset, FS_CardinalityType
<1>4. ASSUME NEW l \in chunk, NEW f \in Featnos, f > from, f <= l, values[f] # Absent
      PROVE  f \in chunk
  <2>1. l \in Featnos
    BY DEF Chunk
  <2>2. Upto(f) \subseteq Upto(l)
    <3>1. f \in Nat /\ l \in Nat
      BY <1>1, <2>1
    <3>2. ASSUME NEW g \in Upto(f) PROVE g \in Upto(l)
      <4>1. g \in Featnos /\ g > from /\ g <= f /\ values[g] # Absent /\ g \in Nat
        BY <1>1
      <4>2. g <= l
        BY <1>4, <3>1, <4>1
      <4>3. QED
        BY <4>1, <4>2
    <3>3. QED
      BY <3>2
  <2>4. Cardinality(Upto(l)) <= ChunkSize
    BY <1>2, <2>1
  <2>5. /\ Cardinality(Upto(f)) \in Nat /\ Cardinality(Upto(l)) \in Nat
        /\ IsFiniteSet(Upto(l))
    BY <1>3, <2>1
  <2> HIDE DEF Upto
  <2>3. Cardinality(Upto(f)) <= Cardinality(Upto(l))
    BY <2>2, <2>5, FS_Subset
  <2>6. QED
    BY <1>1, <1>2, <1>4, <2>3, <2>4, <2>5
<1>5. ASSUME NEW f \in Featnos, f > from, values[f] # Absent
      PROVE  chunk # {}
  <2> DEFINE T == {g \in Featnos : g > from /\ values[g] # Absent}
  <2>1. T \subseteq Nat /\ T # {}
    BY <1>1, <1>5
  <2>2. PICK m \in T : \A g \in T : ~ (<<g, m>> \in OpToRel(<, Nat))
    BY <2>1, WFMin, NatLessThanWellFounded
  <2>3. ASSUME NEW g \in T PROVE g >= m
    <3>1. g \in Nat /\ m \in Nat
      BY <2>1
    <3> HIDE DEF T
    <3>2. ~ (g < m)
      BY <3>1, <2>2 DEF OpToRel
    <3>3. QED
      BY <3>1, <3>2
  <2>4. m \in Featnos /\ m > from /\ values[m] # Absent
    OBVIOUS
  <2>5. Upto(m) = {m}
    <3>1. \A g \in Upto(m) : g \in T /\ g <= m /\ g \in Nat
      BY <1>1
    <3>2. m \in Upto(m) /\ m \in Nat
      BY <1>1, <2>4
    <3> HIDE DEF T, Upto
    <3>3. \A g \in Upto(m) : g = m
      BY <2>3, <3>1, <3>2
    <3>4. QED
      BY <3>2, <3>3
  <2> HIDE DEF Upto, T
  <2>6. Cardinality(Upto(m)) = 1
    BY <2>5, FS_Singleton
  <2>7. m \in chunk
    BY <1>1, <1>2, <2>4, <2>6
  <2>8. QED
    BY <2>7
<1>6. QED
  BY <1>4, <1>5

\* The values loaded so far.
PartlyLoaded(s) ==
    \A f \in Featnos :
        /\ f <= last[s] => smap[s].values[f] \in since[s][f]
        /\ f > last[s] => smap[s].values[f] = Absent

Loaded(s) ==
    /\ spc[s] # "idle" => \A f \in Featnos : StoredValues(db, stype[s])[f] \in since[s][f]
    /\ spc[s] \in {"load", "publish", "store"} => smap[s].typeno = db.typeno[stype[s]]
    /\ spc[s] = "load" => PartlyLoaded(s)
    /\ spc[s] \in {"publish", "store"} => CurrentMap(s)

LoadsCurrent == \A s \in Searchers : Loaded(s)

LEMMA LoadedKept ==
    ASSUME NEW s \in Searchers, Loaded(s), db' = db, spc'[s] = spc[s], stype'[s] = stype[s],
           smap'[s] = smap[s], last'[s] = last[s],
           \A f \in Featnos : since[s][f] \subseteq since'[s][f]
    PROVE  Loaded(s)'
BY DEF Loaded, PartlyLoaded, CurrentMap

LEMMA LoadedOthers ==
    ASSUME ClientTypeInv, LoadsCurrent, NEW s \in Searchers, SearchStep(s), Loaded(s)'
    PROVE  LoadsCurrent'
<1>1. db' = db
  BY SearchKeepsTransactions DEF vars
<1>2. ASSUME NEW r \in Searchers, r # s PROVE Loaded(r)'
  BY <1>1, <1>2, OtherSearches, LoadedKept DEF LoadsCurrent, OtherKept
<1>3. QED
  BY <1>2 DEF LoadsCurrent

\* The values a database reader reads are those of the type searched.
LEMMA ValuesRead ==
    ASSUME ClientTypeInv, LoadsCurrent, NEW s \in Searchers, spc[s] = "load"
    PROVE  ValuesOf(db, smap[s].typeno) = StoredValues(db, stype[s])
<1>1. /\ smap[s] \in SimHashMaps /\ smap[s].typeno = db.typeno[stype[s]]
  BY DEF ClientTypeInv, MapsLoaded, HasMap, LoadsCurrent, Loaded
<1>2. db.typeno[stype[s]] \in Typenos
  BY <1>1 DEF SimHashMaps
<1>3. ReadTypeno(db, stype[s]) # 0
  BY <1>2, MarkersAssumption, BoundsAssumption DEF ReadTypeno, IndexValue, Typenos
<1>4. QED
  BY <1>1, <1>3 DEF StoredValues

LEMMA LoadedChunk ==
    ASSUME ClientTypeInv, LoadsCurrent, NEW s \in Searchers, LoadChunk(s)
    PROVE  Loaded(s)'
<1> DEFINE values == ValuesOf(db, smap[s].typeno)
           chunk == Chunk(values, last[s])
<1>1. /\ spc[s] = "load" /\ UNCHANGED <<vars, cache, resets, spc, stype, scopy, since>>
      /\ smap'[s].typeno = smap[s].typeno
      /\ \A f \in Featnos :
           smap'[s].values[f] = IF f \in chunk THEN values[f] ELSE smap[s].values[f]
      /\ last'[s] \in chunk /\ (\A f \in chunk : f <= last'[s]) /\ chunk \subseteq Featnos
  BY ChunkLoaded
<1>2. values = StoredValues(db, stype[s])
  BY <1>1, ValuesRead
<1>3. last[s] \in Featnos \cup {0}
  BY DEF ClientTypeInv, ClientTypeOK
<1>4. /\ \A l \in chunk, f \in Featnos : f > last[s] /\ f <= l /\ f \notin chunk => values[f] = Absent
      /\ \A f \in chunk : f > last[s]
  BY <1>3, ChunkComplete DEF Chunk
<1>5. /\ PartlyLoaded(s) /\ smap[s].typeno = db.typeno[stype[s]]
      /\ \A f \in Featnos : StoredValues(db, stype[s])[f] \in since[s][f]
  BY <1>1 DEF LoadsCurrent, Loaded
<1>6. \A f \in Featnos : values[f] \in since[s][f]
  BY <1>2, <1>5
<1> HIDE DEF values, chunk
<1>7. Featnos \subseteq Nat /\ last[s] \in Nat /\ last'[s] \in Nat
  <2>1. last'[s] \in Featnos
    BY <1>1
  <2>2. QED
    BY <1>3, <2>1, BoundsAssumption DEF Featnos
<1>8. ASSUME NEW f \in Featnos, f <= last'[s]
      PROVE  smap'[s].values[f] \in since[s][f]
  <2>1. CASE f \in chunk
    BY <1>1, <1>6, <2>1
  <2>2. CASE f \notin chunk /\ f <= last[s]
    BY <1>1, <1>5, <2>2 DEF PartlyLoaded
  <2>3. CASE f \notin chunk /\ f > last[s]
    <3>1. values[f] = Absent
      BY <1>1, <1>4, <1>8, <2>3
    <3>2. smap'[s].values[f] = Absent
      BY <1>1, <1>5, <2>3 DEF PartlyLoaded
    <3>3. QED
      BY <1>6, <3>1, <3>2
  <2>4. QED
    BY <1>7, <2>1, <2>2, <2>3
<1>9. ASSUME NEW f \in Featnos, f > last'[s]
      PROVE  smap'[s].values[f] = Absent
  <2>1. f \notin chunk
    BY <1>1, <1>7, <1>9
  <2>2. f > last[s]
    BY <1>1, <1>4, <1>7, <1>9
  <2>3. QED
    BY <1>1, <1>5, <2>1, <2>2 DEF PartlyLoaded
<1>10. since' = since /\ db' = db /\ stype' = stype /\ spc' = spc
  BY <1>1 DEF vars
<1>11. PartlyLoaded(s)'
  BY <1>8, <1>9, <1>10 DEF PartlyLoaded
<1>12. QED
  BY <1>1, <1>5, <1>10, <1>11 DEF Loaded

LEMMA LoadedEnds ==
    ASSUME ClientTypeInv, LoadsCurrent, NEW s \in Searchers, LoadEnds(s)
    PROVE  Loaded(s)'
<1> DEFINE values == ValuesOf(db, smap[s].typeno)
           chunk == Chunk(values, last[s])
<1>1. /\ spc[s] = "load" /\ chunk = {}
      /\ UNCHANGED <<vars, stype, smap, since>>
      /\ spc' = [spc EXCEPT ![s] = "publish"]
  BY DEF LoadEnds
<1>2. values = StoredValues(db, stype[s])
  BY <1>1, ValuesRead
<1>3. last[s] \in Featnos \cup {0}
      /\ spc \in [Searchers -> {"idle", "lookup", "load", "publish", "store", "search"}]
  BY DEF ClientTypeInv, ClientTypeOK
<1>4. \A f \in Featnos : f > last[s] => values[f] = Absent
  BY <1>1, <1>3, ChunkComplete
<1>5. /\ PartlyLoaded(s) /\ smap[s].typeno = db.typeno[stype[s]]
      /\ \A f \in Featnos : StoredValues(db, stype[s])[f] \in since[s][f]
  BY <1>1 DEF LoadsCurrent, Loaded
<1>6. \A f \in Featnos : values[f] \in since[s][f]
  BY <1>2, <1>5
<1> HIDE DEF values, chunk
<1>7. Featnos \subseteq Nat /\ last[s] \in Nat
  BY <1>3, BoundsAssumption DEF Featnos
<1>8. ASSUME NEW f \in Featnos
      PROVE  smap[s].values[f] \in since[s][f]
  <2>1. f \in Nat /\ (f <= last[s] \/ f > last[s])
    BY <1>7
  <2>2. CASE f <= last[s]
    BY <1>5, <2>2 DEF PartlyLoaded
  <2>3. CASE f > last[s]
    <3>1. values[f] = Absent /\ smap[s].values[f] = Absent
      BY <1>4, <1>5, <2>3 DEF PartlyLoaded
    <3>2. QED
      BY <1>6, <3>1
  <2>4. QED
    BY <2>1, <2>2, <2>3
<1>9. spc'[s] = "publish" /\ db' = db /\ smap' = smap /\ since' = since /\ stype' = stype
  BY <1>1, <1>3 DEF vars
<1>10. QED
  BY <1>5, <1>8, <1>9 DEF Loaded, CurrentMap

LEMMA LoadedSearch ==
    ASSUME ClientTypeInv, LoadsCurrent, NEW s \in Searchers, SearchStep(s)
    PROVE  LoadsCurrent'
<1>1. /\ cache \in Caches /\ db \in Database
      /\ spc \in [Searchers -> {"idle", "lookup", "load", "publish", "store", "search"}]
      /\ stype \in [Searchers -> Types]
      /\ smap \in [Searchers -> SimHashMaps \cup {NoMap}]
      /\ last \in [Searchers -> Featnos \cup {0}]
      /\ since \in [Searchers -> History]
  BY DEF ClientTypeInv, ClientTypeOK, TypeOK, History
<1>2. db' = db
  BY SearchKeepsTransactions DEF vars
<1>3. ASSUME NEW t \in Types, FindSimilar(s, t) PROVE Loaded(s)'
  <2> DEFINE v == StoredValues(db, t)
  <2>1. /\ stype'[s] = t /\ since'[s] = [f \in Featnos |-> {v[f]}]
        /\ spc'[s] \in {"search", "lookup"}
    BY <1>1, <1>3 DEF FindSimilar
  <2>2. \A f \in Featnos : v[f] \in since'[s][f]
    BY <2>1
  <2>3. StoredValues(db', stype'[s]) = v
    BY <1>2, <2>1
  <2> HIDE DEF v
  <2>4. QED
    BY <2>1, <2>2, <2>3 DEF Loaded
<1>4. ASSUME TypeNotDefined(s) \/ Search(s) PROVE Loaded(s)'
  <2>1. spc'[s] = "idle"
    BY <1>1, <1>4 DEF TypeNotDefined, Search, Finish
  <2>2. QED
    BY <2>1 DEF Loaded
<1>5. ASSUME CreateDatabaseReader(s) PROVE Loaded(s)'
  <2>1. /\ spc[s] = "lookup" /\ UNCHANGED <<stype, since>>
        /\ spc'[s] = "load" /\ last'[s] = 0
        /\ smap'[s].values = NoValues /\ smap'[s].typeno = ReadTypeno(db, stype[s])
        /\ ReadTypeno(db, stype[s]) # 0
    BY <1>1, <1>5 DEF CreateDatabaseReader
  <2>2. smap'[s].typeno = db.typeno[stype[s]]
    BY <1>1, <2>1, StoredValuesType
  <2>3. \A f \in Featnos : f > 0
    BY BoundsAssumption DEF Featnos
  <2>4. PartlyLoaded(s)'
    BY <2>1, <2>3, BoundsAssumption DEF PartlyLoaded, NoValues, Featnos
  <2>5. \A f \in Featnos : StoredValues(db, stype[s])[f] \in since[s][f]
    BY <2>1 DEF LoadsCurrent, Loaded
  <2>6. QED
    BY <1>2, <2>1, <2>2, <2>4, <2>5 DEF Loaded
<1>6. ASSUME CreateMemoryReader(s) PROVE Loaded(s)'
  <2>1. /\ spc[s] = "lookup" /\ UNCHANGED <<stype, since>>
        /\ spc'[s] = "publish"
        /\ smap'[s].values = StoredValues(db, stype[s])
        /\ smap'[s].typeno = ReadTypeno(db, stype[s])
        /\ ReadTypeno(db, stype[s]) # 0
    BY <1>1, <1>6 DEF CreateMemoryReader
  <2>2. smap'[s].typeno = db.typeno[stype[s]]
    BY <1>1, <2>1, StoredValuesType
  <2>3. \A f \in Featnos : StoredValues(db, stype[s])[f] \in since[s][f]
    BY <2>1 DEF LoadsCurrent, Loaded
  <2>4. CurrentMap(s)'
    BY <2>1, <2>3 DEF CurrentMap
  <2>5. QED
    BY <1>2, <2>1, <2>2, <2>3, <2>4 DEF Loaded
<1>7. ASSUME PublishReads(s) PROVE Loaded(s)'
  <2>1. spc[s] = "publish" /\ spc'[s] = "store" /\ UNCHANGED <<stype, smap, last, since>>
    BY <1>1, <1>7 DEF PublishReads
  <2>2. QED
    BY <1>2, <2>1 DEF LoadsCurrent, Loaded, CurrentMap
<1>8. ASSUME PublishStores(s) PROVE Loaded(s)'
  <2>1. spc[s] = "store" /\ spc'[s] = "search" /\ UNCHANGED <<stype, smap, last, since>>
    BY <1>1, <1>8 DEF PublishStores
  <2>2. QED
    BY <1>2, <2>1 DEF LoadsCurrent, Loaded
<1>9. Loaded(s)'
  BY <1>3, <1>4, <1>5, <1>6, <1>7, <1>8, LoadedChunk, LoadedEnds DEF SearchStep
<1>10. QED
  BY <1>9, LoadedOthers

LEMMA LoadedCommitEnds ==
    ASSUME ClientTypeInv, LoadsCurrent, NumbersKept(db, db'), NEW x \in Trans, CommitEnds(x)
    PROVE  LoadsCurrent'
<1> SUFFICES ASSUME NEW s \in Searchers PROVE Loaded(s)'
  BY DEF LoadsCurrent
<1>1. /\ since' = [r \in Searchers |->
                     IF spc[r] = "idle" THEN since[r]
                     ELSE [f \in Featnos |-> since[r][f] \cup {StoredValues(db', stype[r])[f]}]]
      /\ UNCHANGED <<spc, stype, smap, last>>
  BY DEF CommitEnds
<1>2. CASE spc[s] = "idle"
  BY <1>1, <1>2 DEF Loaded
<1>3. CASE spc[s] # "idle"
  <2> DEFINE v == StoredValues(db', stype[s])
  <2>1. since'[s] = [f \in Featnos |-> since[s][f] \cup {v[f]}]
    BY <1>1, <1>3
  <2>2. \A f \in Featnos : v[f] \in since'[s][f] /\ since[s][f] \subseteq since'[s][f]
    BY <2>1
  <2>3. v = StoredValues(db', stype'[s])
    BY <1>1
  <2> HIDE DEF v
  <2>4. ASSUME spc[s] \in {"load", "publish", "store"}
        PROVE  smap[s].typeno = db'.typeno[stype[s]]
    <3>1. smap[s] \in SimHashMaps /\ smap[s].typeno = db.typeno[stype[s]] /\ stype[s] \in Types
      BY <2>4 DEF ClientTypeInv, ClientTypeOK, MapsLoaded, HasMap, LoadsCurrent, Loaded
    <3>2. db.typeno[stype[s]] # Absent
      BY <3>1, MarkersAssumption, BoundsAssumption DEF SimHashMaps, Typenos
    <3>3. QED
      BY <3>1, <3>2 DEF NumbersKept
  <2>5. spc[s] = "load" => PartlyLoaded(s)'
    BY <1>1, <2>2 DEF LoadsCurrent, Loaded, PartlyLoaded
  <2>6. spc[s] \in {"publish", "store"} => CurrentMap(s)'
    BY <1>1, <2>2 DEF LoadsCurrent, Loaded, CurrentMap
  <2>7. QED
    BY <1>1, <2>2, <2>3, <2>4, <2>5, <2>6 DEF Loaded
<1>4. QED
  BY <1>2, <1>3

LEMMA LoadedStep ==
    ASSUME Usage = {}, StoreInv, ClientTypeInv, LoadsCurrent, [ClientNext]_clientVars
    PROVE  LoadsCurrent'
<1>1. NumbersKept(db, db')
  BY ClientStep, NumbersKeptStep DEF StoreInv
<1>2. CASE UNCHANGED <<db, searches>>
  <2>1. ASSUME NEW s \in Searchers PROVE Loaded(s)'
    BY <1>2, LoadedKept DEF LoadsCurrent, searches
  <2>2. QED
    BY <2>1 DEF LoadsCurrent
<1>3. CASE UNCHANGED clientVars
  BY <1>2, <1>3 DEF clientVars, vars
<1>4. ASSUME NEW x \in Trans, Others(x) PROVE LoadsCurrent'
  <2>1. db' = db
    <3>1. \A t \in Types : DefineFeatureType(x, t) => db' = db
      BY DEF DefineFeatureType
    <3>2. \A t \in Types, f \in Feats, v \in Vecs \cup {Absent} : DefineElement(x, t, f, v) => db' = db
      BY DEF DefineElement
    <3>3. Clear(x) \/ Rollback(x) \/ CommitThrows(x) => db' = db
      BY DEF Clear, Rollback, CommitThrows
    <3>4. QED
      BY <1>4, <3>1, <3>2, <3>3 DEF Others, Define
  <2>2. QED
    BY <1>2, <1>4, <2>1 DEF Others
<1>5. ASSUME NEW x \in Trans, CommitBegins(x) PROVE LoadsCurrent'
  BY <1>2, <1>5 DEF CommitBegins, PrepareCommit
<1>6. ASSUME NEW x \in Trans, ResetReads(x) \/ ResetStores(x) PROVE LoadsCurrent'
  BY <1>2, <1>6 DEF ResetReads, ResetStores, vars
<1>7. ASSUME NEW x \in Trans, CommitEnds(x) PROVE LoadsCurrent'
  BY <1>1, <1>7, LoadedCommitEnds
<1>8. QED
  BY <1>3, <1>4, <1>5, <1>6, <1>7, LoadedSearch DEF ClientNext, SearchStep

\* The invariant of a client whose threads search while transactions commit.
ClientInv ==
    /\ StoreInv
    /\ DefinitionsNamed
    /\ ClientTypeInv
    /\ MapsReadable
    /\ LoadsCurrent

LEMMA ClientInvInit == ClientInit => ClientInv
<1> SUFFICES ASSUME ClientInit PROVE ClientInv
  OBVIOUS
<1>1. StoreInv /\ ClientTypeInv
  BY StoreInit, ClientTypeInit DEF ClientInit
<1>2. DefinitionsNamed
  BY DEF ClientInit, Init, DefinitionsNamed, Named, NoDefinitions
<1>3. MapsReadable
  BY EmptyReadable DEF ClientInit, MapsReadable, HasMap
<1>4. LoadsCurrent
  BY DEF ClientInit, LoadsCurrent, Loaded
<1>5. QED
  BY <1>1, <1>2, <1>3, <1>4 DEF ClientInv

LEMMA ClientInvStep == Usage = {} /\ ClientInv /\ [ClientNext]_clientVars => ClientInv'
<1> SUFFICES ASSUME Usage = {}, ClientInv, [ClientNext]_clientVars PROVE ClientInv'
  OBVIOUS
<1>1. [Next]_vars /\ TypeInv
  BY ClientStep DEF ClientInv, ClientTypeInv
<1>2. StoreInv' /\ DefinitionsNamed'
  BY <1>1, StoreStep, NamedStep DEF ClientInv
<1>3. ClientTypeInv'
  BY ClientTypeStep DEF ClientInv
<1>4. MapsReadable' /\ LoadsCurrent'
  BY ReadableStep, LoadedStep DEF ClientInv
<1>5. QED
  BY <1>2, <1>3, <1>4 DEF ClientInv

\* When callers roll a failed commit back and do not call clear, a map that
\* a search has loaded, in chunks or at once, holds for every feature a value
\* that was stored at some moment since the search was called, whatever
\* transactions commit in between.
THEOREM LoadsAlwaysCurrent ==
    ASSUME Usage = {}
    PROVE  ClientSpec => []LoadIsCurrent
<1>1. ClientInv => LoadIsCurrent
  BY DEF ClientInv, LoadsCurrent, Loaded, LoadIsCurrent
<1>2. ClientInv /\ [ClientNext]_clientVars => ClientInv'
  BY ClientInvStep
<1>3. QED
  BY ClientInvInit, <1>1, <1>2, PTL DEF ClientSpec

\* Under the same conditions every feature number that a search finds in its
\* map has a name and a vector, also when the map was cached by another
\* search and commits have replaced vectors since.
THEOREM ResultsAlwaysReadable ==
    ASSUME Usage = {}
    PROVE  ClientSpec => []ResultsReadable
<1>1. ASSUME ClientInv PROVE ResultsReadable
  <2>1. /\ db.simhash = db.vec /\ VectorsRelated(db) /\ RelationsNamed(db) /\ MapsReadable
        /\ MapsLoaded
    BY <1>1 DEF ClientInv, StoreInv, Consistent, ClientTypeInv
  <2>2. ASSUME NEW s \in Searchers, spc[s] = "search",
               NEW f \in Featnos, smap[s].values[f] # Absent
        PROVE  db.featname[f] # Absent /\ db.vec[<<smap[s].typeno, f>>] # Absent
    <3>1. smap[s] \in SimHashMaps /\ Readable(smap[s], db)
      BY <2>1, <2>2 DEF MapsLoaded, MapsReadable, HasMap
    <3>2. smap[s].typeno \in Typenos /\ db.vec[<<smap[s].typeno, f>>] # Absent
      BY <2>1, <2>2, <3>1 DEF Readable, SimHashMaps
    <3>3. db.featname[f] # Absent
      BY <2>1, <3>2 DEF VectorsRelated, RelationsNamed
    <3>4. QED
      BY <3>2, <3>3
  <2>3. QED
    BY <2>2 DEF ResultsReadable
<1>2. ClientInv /\ [ClientNext]_clientVars => ClientInv'
  BY ClientInvStep
<1>3. QED
  BY ClientInvInit, <1>1, <1>2, PTL DEF ClientSpec

-----------------------------------------------------------------------------
(* Searches that do not overlap with commits.  The cache then has exactly  *)
(* the values of the database: a commit removes the maps of the types it   *)
(* defines before the database changes, and a search that loads does so    *)
(* while the database stays the same.                                      *)

CacheExact(c, d) ==
    \A t \in Types : c[t] # NoMap =>
        c[t].typeno = d.typeno[t] /\ c[t].values = StoredValues(d, t)

Without(c, tab) == \A i \in 1 .. Len(tab) : c[tab[i]] = NoMap

\* The reset of the cache by a commit.
ResetExact(x) ==
    /\ rpc[x] # "start" => pc[x] = "prepared"
    /\ rpc[x] = "copied" => CacheExact(rcopy[x], db) /\ Without(rcopy[x], typetab[x])
    /\ rpc[x] = "done" => Without(cache, typetab[x])

SearchExact(s) ==
    /\ spc[s] # "idle" =>
         /\ lock = NoTrans
         /\ \A f \in Featnos : since[s][f] = {StoredValues(db, stype[s])[f]}
    /\ spc[s] = "store" => CacheExact(scopy[s], db)
    /\ spc[s] = "search" => CurrentMap(s)

SequentialInv ==
    /\ ClientInv
    /\ CacheExact(cache, db)
    /\ \A x \in Trans : ResetExact(x)
    /\ \A s \in Searchers : SearchExact(s)

LEMMA SequentialInit == ClientInit => SequentialInv
<1> SUFFICES ASSUME ClientInit PROVE SequentialInv
  OBVIOUS
<1>1. ClientInv
  BY ClientInvInit
<1>2. CacheExact(cache, db)
  BY DEF ClientInit, CacheExact, EmptyCache
<1>3. \A x \in Trans : ResetExact(x)
  BY DEF ClientInit, ResetExact
<1>4. \A s \in Searchers : SearchExact(s)
  BY DEF ClientInit, SearchExact
<1>5. QED
  BY <1>1, <1>2, <1>3, <1>4 DEF SequentialInv

\* A commit that succeeds keeps the maps exact that its reset has left.
LEMMA CacheCommitted ==
    ASSUME Usage = {}, StoreInv, DefinitionsNamed, [Next]_vars, NEW x \in Trans, CommitSucceeds(x),
           NEW c \in Caches, CacheExact(c, db), Without(c, typetab[x])
    PROVE  CacheExact(c, db')
<1>1. Sound(db) /\ Sound(db') /\ NumbersKept(db, db')
  BY DatabaseGrows
<1>2. /\ db \in Database /\ db' \in Database /\ db.simhash = db.vec /\ db'.simhash = db'.vec
  BY <1>1 DEF Sound, Consistent
<1>3. StoreOf(db') = Store!After(StoreOf(db), defs[x])
  BY DEF StoreInv, PreparedStores, Prepared, CommitSucceeds
<1>4. defs[x] \in Definitions /\ defs[x].clear = FALSE
  BY DEF StoreInv, NumbersInv, TypeInv, TypeOK, DefinitionsNamed, Named
<1>5. ASSUME NEW t \in Types, c[t] # NoMap
      PROVE  c[t].typeno = db'.typeno[t] /\ c[t].values = StoredValues(db', t)
  <2> DEFINE n == db.typeno[t]
  <2>1. c[t] \in SimHashMaps /\ c[t].typeno = n /\ c[t].values = StoredValues(db, t)
    BY <1>5 DEF Caches, CacheExact
  <2>2. n \in Typenos
    BY <2>1 DEF SimHashMaps
  <2>3. n # Absent /\ n # 0
    BY <2>2, MarkersAssumption, BoundsAssumption DEF Typenos
  <2>4. db'.typeno[t] = n
    BY <1>1, <2>3 DEF NumbersKept
  <2>5. ASSUME NEW g \in Feats PROVE defs[x].vec[<<t, g>>] = Absent
    <3>1. \A i \in 1 .. Len(typetab[x]) : typetab[x][i] # t
      BY <1>5 DEF Without
    <3>2. <<t, g>> \in Types \X Feats /\ <<t, g>>[1] = t
      OBVIOUS
    <3>3. QED
      BY <3>1, <3>2 DEF DefinitionsNamed, Named
  <2>6. ASSUME NEW f \in Featnos PROVE db'.vec[<<n, f>>] = db.vec[<<n, f>>]
    <3>1. db.typeno[t] = n
      OBVIOUS
    <3>2. DefinesNone(defs[x], t)
      BY <2>5 DEF DefinesNone
    <3>3. CommitOf(db, db', defs[x])
      BY <1>1, <1>3, <1>4 DEF CommitOf
    <3> HIDE DEF n
    <3>4. QED
      BY <2>2, <3>1, <3>2, <3>3, VectorsSame
  <2>7. ReadTypeno(db, t) = n /\ ReadTypeno(db', t) = n
    BY <2>3, <2>4 DEF ReadTypeno, IndexValue
  <2>8. StoredValues(db, t) = [f \in Featnos |-> db.simhash[<<n, f>>]]
    BY <2>3, <2>7 DEF StoredValues, ValuesOf
  <2>9. StoredValues(db', t) = [f \in Featnos |-> db'.simhash[<<n, f>>]]
    BY <2>3, <2>4, <2>7 DEF StoredValues, ValuesOf
  <2>10. StoredValues(db', t) = StoredValues(db, t)
    BY <1>2, <2>6, <2>8, <2>9
  <2>11. QED
    BY <2>1, <2>4, <2>10
<1>6. QED
  BY <1>5 DEF CacheExact

\* Of all transactions at most one resets the cache, and none while a search
\* runs.
LEMMA OneReset ==
    ASSUME SequentialInv, NEW x \in Trans, rpc[x] # "start"
    PROVE  /\ lock = x /\ x # NoTrans
           /\ \A y \in Trans : y # x => rpc[y] = "start"
           /\ \A s \in Searchers : spc[s] = "idle"
<1>1. /\ \A y \in Trans : pc[y] = "prepared" => lock = y
      /\ \A y \in Trans : rpc[y] # "start" => pc[y] = "prepared"
      /\ \A s \in Searchers : spc[s] # "idle" => lock = NoTrans
  BY DEF SequentialInv, ClientInv, StoreInv, NumbersInv, CommitsExclusive, ResetExact, SearchExact
<1>2. x # NoTrans
  BY TransAssumption
<1>3. QED
  BY <1>1, <1>2

\* The steps of a transaction that neither reset the cache nor end a commit.
LEMMA SequentialOthers ==
    ASSUME Usage = {}, Overlap = FALSE, SequentialInv, ClientInv', NEW x \in Trans,
           Others(x) \/ CommitBegins(x)
    PROVE  SequentialInv'
<1>1. /\ CacheExact(cache, db) /\ TypeInv /\ ClientInv
      /\ (\A y \in Trans : ResetExact(y)) /\ (\A s \in Searchers : SearchExact(s))
      /\ pc \in [Trans -> {"open", "prepared", "failed"}]
  BY DEF SequentialInv, ClientInv, ClientTypeInv, TypeInv, TypeOK
<1>2. UNCHANGED <<cache, rpc, rcopy, spc, stype, smap, last, scopy, since>>
  BY DEF Others, CommitBegins, resets, searches
<1>3. Step(x) /\ db' = db /\ pc[x] # "prepared" /\ (lock' = lock \/ NoSearch)
  <2>1. ASSUME NEW t \in Types, DefineFeatureType(x, t)
        PROVE  Step(x) /\ db' = db /\ pc[x] # "prepared" /\ lock' = lock
    BY <2>1 DEF DefineFeatureType, MayDefine, Step
  <2>2. ASSUME NEW t \in Types, NEW f \in Feats, NEW v \in Vecs \cup {Absent},
               DefineElement(x, t, f, v)
        PROVE  Step(x) /\ db' = db /\ pc[x] # "prepared" /\ lock' = lock
    BY <2>2 DEF DefineElement, MayDefine, Step
  <2>3. ~ Clear(x)
    BY DEF Clear
  <2>4. ASSUME Rollback(x) \/ CommitThrows(x)
        PROVE  Step(x) /\ db' = db /\ pc[x] # "prepared" /\ lock' = lock
    BY <2>4 DEF Rollback, CommitThrows, MayCommit, Step
  <2>5. ASSUME CommitBegins(x)
        PROVE  Step(x) /\ db' = db /\ pc[x] # "prepared" /\ NoSearch
    BY <2>5 DEF CommitBegins, PrepareCommit, MayCommit, Step
  <2>6. QED
    BY <2>1, <2>2, <2>3, <2>4, <2>5 DEF Others, Define
<1>4. ASSUME NEW y \in Trans PROVE ResetExact(y)'
  <2>1. CASE y = x
    <3>1. rpc[x] = "start"
      BY <1>1, <1>3 DEF ResetExact, ClientInv, ClientTypeInv, ClientTypeOK
    <3>2. rpc'[y] = "start"
      BY <1>2, <2>1, <3>1
    <3>3. QED
      BY <3>2 DEF ResetExact
  <2>2. CASE y # x
    <3>1. typetab'[y] = typetab[y] /\ pc'[y] = pc[y]
      BY <1>1, <1>3, <2>2, OtherTables
    <3>2. QED
      BY <1>1, <1>2, <1>3, <3>1 DEF ResetExact
  <2>3. QED
    BY <2>1, <2>2
<1>5. ASSUME NEW s \in Searchers PROVE SearchExact(s)'
  <2>1. CASE lock' = lock
    BY <1>1, <1>2, <1>3, <2>1 DEF SearchExact, CurrentMap
  <2>2. CASE NoSearch
    BY <1>2, <2>2 DEF SearchExact, NoSearch
  <2>3. QED
    BY <1>3, <2>1, <2>2
<1>6. QED
  BY <1>1, <1>2, <1>3, <1>4, <1>5 DEF SequentialInv

LEMMA SequentialReset ==
    ASSUME SequentialInv, ClientInv', NEW x \in Trans, ResetReads(x) \/ ResetStores(x)
    PROVE  SequentialInv'
<1>1. /\ CacheExact(cache, db)
      /\ (\A y \in Trans : ResetExact(y)) /\ (\A s \in Searchers : SearchExact(s))
      /\ rcopy \in [Trans -> Caches] /\ rpc \in [Trans -> {"start", "copied", "done"}]
      /\ typetab[x] \in Seq(Types)
  BY DEF SequentialInv, ClientInv, ClientTypeInv, ClientTypeOK, TypeOK
<1>2. DOMAIN typetab[x] = 1 .. Len(typetab[x]) /\ \A i \in 1 .. Len(typetab[x]) : typetab[x][i] \in Types
  BY <1>1, LenProperties
<1>3. db' = db /\ lock' = lock /\ pc' = pc /\ typetab' = typetab
      /\ UNCHANGED <<spc, stype, smap, last, scopy, since>>
  BY DEF ResetReads, ResetStores, vars, searches
<1>4. \A s \in Searchers : SearchExact(s)'
  BY <1>1, <1>3 DEF SearchExact, CurrentMap
<1>5. ASSUME CacheExact(cache', db), ResetExact(x)', \A y \in Trans : y # x => ResetExact(y)'
      PROVE  SequentialInv'
  BY <1>3, <1>4, <1>5 DEF SequentialInv
<1>6. ASSUME ResetReads(x) PROVE SequentialInv'
  <2>1. /\ pc[x] = "prepared" /\ cache' = cache
        /\ IF \E i \in 1 .. Len(typetab[x]) : cache[typetab[x][i]] # NoMap
           THEN /\ rcopy' = [rcopy EXCEPT ![x] = WithoutTypes(cache, typetab[x])]
                /\ rpc' = [rpc EXCEPT ![x] = "copied"]
           ELSE /\ rpc' = [rpc EXCEPT ![x] = "done"]
                /\ UNCHANGED rcopy
    BY <1>2, <1>6 DEF ResetReads
  <2>2. \A y \in Trans : y # x => rpc'[y] = rpc[y] /\ rcopy'[y] = rcopy[y]
    BY <1>1, <2>1
  <2>3. \A y \in Trans : y # x => ResetExact(y)'
    BY <1>1, <1>3, <2>1, <2>2 DEF ResetExact
  <2>4. CASE \E i \in 1 .. Len(typetab[x]) : cache[typetab[x][i]] # NoMap
    <3> DEFINE c == WithoutTypes(cache, typetab[x])
    <3>1. rcopy'[x] = c /\ rpc'[x] = "copied"
      BY <1>1, <2>1, <2>4
    <3>2. CacheExact(c, db)
      BY <1>1 DEF CacheExact, WithoutTypes
    <3>3. Without(c, typetab[x])
      BY <1>2 DEF Without, WithoutTypes
    <3> HIDE DEF c
    <3>4. ResetExact(x)'
      BY <1>3, <2>1, <3>1, <3>2, <3>3 DEF ResetExact
    <3>5. QED
      BY <1>1, <1>5, <2>1, <2>3, <3>4
  <2>5. CASE ~ \E i \in 1 .. Len(typetab[x]) : cache[typetab[x][i]] # NoMap
    <3>1. rpc'[x] = "done"
      BY <1>1, <2>1, <2>5
    <3>2. Without(cache, typetab[x])
      BY <2>5 DEF Without
    <3>3. ResetExact(x)'
      BY <1>3, <2>1, <3>1, <3>2 DEF ResetExact
    <3>4. QED
      BY <1>1, <1>5, <2>1, <2>3, <3>3
  <2>6. QED
    BY <2>4, <2>5
<1>7. ASSUME ResetStores(x) PROVE SequentialInv'
  <2>1. /\ rpc[x] = "copied" /\ cache' = rcopy[x]
        /\ rcopy' = [rcopy EXCEPT ![x] = EmptyCache]
        /\ rpc' = [rpc EXCEPT ![x] = "done"]
    BY <1>7 DEF ResetStores
  <2>2. /\ pc[x] = "prepared" /\ CacheExact(rcopy[x], db) /\ Without(rcopy[x], typetab[x])
    BY <1>1, <2>1 DEF ResetExact
  <2>3. ASSUME NEW y \in Trans, y # x PROVE ResetExact(y)'
    <3>1. rpc[y] = "start"
      BY <2>1, <2>3, OneReset
    <3>2. rpc'[y] = "start"
      BY <1>1, <2>1, <2>3, <3>1
    <3>3. QED
      BY <3>2 DEF ResetExact
  <2>4. rpc'[x] = "done"
    BY <1>1, <2>1
  <2>5. ResetExact(x)'
    BY <1>3, <2>1, <2>2, <2>4 DEF ResetExact
  <2>6. QED
    BY <1>5, <2>1, <2>2, <2>3, <2>5
<1>8. QED
  BY <1>6, <1>7

LEMMA SequentialCommitEnds ==
    ASSUME Usage = {}, SequentialInv, ClientInv', [Next]_vars, NEW x \in Trans, CommitEnds(x)
    PROVE  SequentialInv'
<1>1. /\ CacheExact(cache, db) /\ cache \in Caches /\ StoreInv /\ DefinitionsNamed
      /\ (\A y \in Trans : ResetExact(y))
      /\ rpc \in [Trans -> {"start", "copied", "done"}]
  BY DEF SequentialInv, ClientInv, ClientTypeInv, ClientTypeOK
<1>2. /\ rpc[x] = "done" /\ (CommitSucceeds(x) \/ CommitFails(x))
      /\ rpc' = [rpc EXCEPT ![x] = "start"]
      /\ UNCHANGED <<cache, rcopy, spc, stype, smap, last, scopy>>
  BY DEF CommitEnds
<1>3. /\ \A y \in Trans : y # x => rpc[y] = "start"
      /\ \A s \in Searchers : spc[s] = "idle"
  BY <1>2, OneReset
<1>4. Without(cache, typetab[x])
  BY <1>1, <1>2 DEF ResetExact
<1>5. CacheExact(cache', db')
  <2>1. CASE CommitSucceeds(x)
    BY <1>1, <1>2, <1>4, <2>1, CacheCommitted
  <2>2. CASE CommitFails(x)
    BY <1>1, <1>2, <2>2 DEF CommitFails
  <2>3. QED
    BY <1>2, <2>1, <2>2
<1>6. ASSUME NEW y \in Trans PROVE ResetExact(y)'
  <2>1. rpc'[y] = "start"
    BY <1>1, <1>2, <1>3
  <2>2. QED
    BY <2>1 DEF ResetExact
<1>7. ASSUME NEW s \in Searchers PROVE SearchExact(s)'
  <2>1. spc'[s] = "idle"
    BY <1>2, <1>3
  <2>2. QED
    BY <2>1 DEF SearchExact
<1>8. QED
  BY <1>5, <1>6, <1>7 DEF SequentialInv


\* A search that is called finds the database unlocked, and in the cache the
\* values the database has.
LEMMA SequentialFind ==
    ASSUME Overlap = FALSE, SequentialInv, NEW s \in Searchers, NEW t \in Types,
           FindSimilar(s, t)
    PROVE  SearchExact(s)' /\ cache' = cache
<1>1. /\ CacheExact(cache, db)
      /\ spc \in [Searchers -> {"idle", "lookup", "load", "publish", "store", "search"}]
      /\ stype \in [Searchers -> Types]
      /\ smap \in [Searchers -> SimHashMaps \cup {NoMap}]
      /\ since \in [Searchers -> History]
  BY DEF SequentialInv, ClientInv, ClientTypeInv, ClientTypeOK, History
<1> DEFINE v == StoredValues(db, t)
<1>2. /\ stype'[s] = t /\ since'[s] = [f \in Featnos |-> {v[f]}] /\ smap'[s] = cache[t]
      /\ spc'[s] = (IF cache[t] # NoMap THEN "search" ELSE "lookup")
      /\ lock = NoTrans /\ lock' = lock /\ db' = db /\ cache' = cache
  BY <1>1 DEF FindSimilar, NoCommit, vars
<1>3. \A f \in Featnos : since'[s][f] = {v[f]}
  BY <1>2
<1>4. StoredValues(db', stype'[s]) = v
  BY <1>2
<1>5. spc'[s] = "search" => smap'[s].values = v
  BY <1>1, <1>2 DEF CacheExact
<1>6. spc'[s] # "store"
  BY <1>2
<1> HIDE DEF v
<1>7. spc'[s] = "search" => CurrentMap(s)'
  BY <1>3, <1>5 DEF CurrentMap
<1>8. QED
  BY <1>2, <1>3, <1>4, <1>6, <1>7 DEF SearchExact

\* The map that is put into a copy of the cache has the values of the
\* database.
LEMMA SequentialPublishes ==
    ASSUME SequentialInv, NEW s \in Searchers, PublishReads(s)
    PROVE  SearchExact(s)' /\ cache' = cache
<1>1. /\ CacheExact(cache, db) /\ SearchExact(s) /\ Loaded(s) /\ cache \in Caches
      /\ spc \in [Searchers -> {"idle", "lookup", "load", "publish", "store", "search"}]
      /\ stype[s] \in Types /\ db \in Database /\ MapsLoaded
      /\ scopy \in [Searchers -> Caches]
  BY DEF SequentialInv, ClientInv, ClientTypeInv, ClientTypeOK, LoadsCurrent, TypeOK
<1>2. /\ spc[s] = "publish" /\ UNCHANGED <<vars, cache, stype, smap, since>>
      /\ scopy' = [scopy EXCEPT ![s] =
                     [cache EXCEPT ![stype[s]] = IF @ = NoMap THEN smap[s] ELSE @]]
      /\ spc' = [spc EXCEPT ![s] = "store"]
  BY DEF PublishReads
<1>3. lock' = lock /\ db' = db /\ spc'[s] = "store" /\ cache' = cache
  BY <1>1, <1>2 DEF vars
<1>4. smap[s] \in SimHashMaps /\ smap[s].typeno = db.typeno[stype[s]]
  BY <1>1, <1>2 DEF MapsLoaded, HasMap, Loaded
<1>5. smap[s].values = StoredValues(db, stype[s])
  <2> DEFINE v == StoredValues(db, stype[s])
             w == smap[s].values
  <2>1. v \in Values /\ w \in Values
    BY <1>1, <1>4, StoredValuesType DEF SimHashMaps
  <2>2. \A f \in Featnos : w[f] \in since[s][f] /\ since[s][f] = {v[f]}
    BY <1>1, <1>2 DEF Loaded, SearchExact, CurrentMap
  <2> HIDE DEF v, w
  <2>3. \A f \in Featnos : w[f] = v[f]
    BY <2>2
  <2>4. w = v
    BY <2>1, <2>3 DEF Values
  <2>5. QED
    BY <2>4 DEF v, w
<1>6. ASSUME NEW t \in Types, scopy'[s][t] # NoMap
      PROVE  scopy'[s][t].typeno = db.typeno[t] /\ scopy'[s][t].values = StoredValues(db, t)
  <2>1. scopy'[s] = [cache EXCEPT ![stype[s]] = IF @ = NoMap THEN smap[s] ELSE @]
    BY <1>1, <1>2
  <2>2. CASE scopy'[s][t] = cache[t]
    BY <1>1, <1>6, <2>2 DEF CacheExact
  <2>3. CASE scopy'[s][t] # cache[t]
    <3>1. t = stype[s] /\ scopy'[s][t] = smap[s]
      BY <1>1, <2>1, <2>3 DEF Caches
    <3>2. QED
      BY <1>4, <1>5, <3>1
  <2>4. QED
    BY <2>2, <2>3
<1>7. CacheExact(scopy'[s], db')
  BY <1>3, <1>6 DEF CacheExact
<1>8. QED
  BY <1>1, <1>2, <1>3, <1>7 DEF SearchExact

LEMMA SequentialSearch ==
    ASSUME Overlap = FALSE, SequentialInv, ClientInv', NEW s \in Searchers, SearchStep(s)
    PROVE  SequentialInv'
<1>1. /\ CacheExact(cache, db) /\ SearchExact(s) /\ LoadsCurrent /\ ClientTypeInv
      /\ (\A x \in Trans : ResetExact(x)) /\ (\A r \in Searchers : SearchExact(r))
      /\ spc \in [Searchers -> {"idle", "lookup", "load", "publish", "store", "search"}]
      /\ rpc \in [Trans -> {"start", "copied", "done"}]
  BY DEF SequentialInv, ClientInv, ClientTypeInv, ClientTypeOK
<1>2. UNCHANGED vars /\ UNCHANGED resets
  BY SearchKeepsTransactions
<1>3. db' = db /\ lock' = lock /\ pc' = pc /\ typetab' = typetab /\ rpc' = rpc /\ rcopy' = rcopy
  BY <1>2 DEF vars, resets
<1>4. ASSUME NEW r \in Searchers, r # s PROVE SearchExact(r)'
  <2>1. /\ spc'[r] = spc[r] /\ stype'[r] = stype[r] /\ smap'[r] = smap[r]
        /\ scopy'[r] = scopy[r] /\ since'[r] = since[r]
    BY <1>1, <1>4, OtherSearches DEF OtherKept
  <2>2. SearchExact(r)
    BY <1>1
  <2>3. QED
    BY <1>3, <2>1, <2>2 DEF SearchExact, CurrentMap
<1>5. ASSUME SearchExact(s)', cache' = cache PROVE SequentialInv'
  <2>1. \A x \in Trans : ResetExact(x)'
    BY <1>1, <1>3, <1>5 DEF ResetExact
  <2>2. \A r \in Searchers : SearchExact(r)'
    BY <1>4, <1>5
  <2>3. CacheExact(cache', db')
    BY <1>1, <1>3, <1>5
  <2>4. QED
    BY <2>1, <2>2, <2>3 DEF SequentialInv
<1>6. ASSUME TypeNotDefined(s) \/ Search(s) PROVE SearchExact(s)' /\ cache' = cache
  <2>1. spc'[s] = "idle" /\ cache' = cache
    BY <1>1, <1>6 DEF TypeNotDefined, Search, Finish
  <2>2. QED
    BY <2>1 DEF SearchExact
<1>7. ASSUME CreateDatabaseReader(s) \/ CreateMemoryReader(s) \/ LoadChunk(s) \/ LoadEnds(s)
      PROVE  SearchExact(s)' /\ cache' = cache
  <2>1. /\ spc[s] \in {"lookup", "load"} /\ spc'[s] \in {"load", "publish"}
        /\ UNCHANGED <<cache, stype, since>>
    <3>1. CASE LoadChunk(s)
      BY <3>1 DEF LoadChunk
    <3>2. CASE CreateDatabaseReader(s) \/ CreateMemoryReader(s) \/ LoadEnds(s)
      BY <1>1, <3>2 DEF CreateDatabaseReader, CreateMemoryReader, LoadEnds
    <3>3. QED
      BY <1>7, <3>1, <3>2
  <2>2. QED
    BY <1>1, <1>3, <2>1 DEF SearchExact
<1>8. ASSUME PublishStores(s) PROVE SequentialInv'
  <2>1. /\ spc[s] = "store" /\ cache' = scopy[s] /\ spc'[s] = "search"
        /\ UNCHANGED <<stype, smap, since>>
    BY <1>1, <1>8 DEF PublishStores
  <2>2. CacheExact(cache', db')
    BY <1>1, <1>3, <2>1 DEF SearchExact
  <2>3. ASSUME NEW x \in Trans PROVE ResetExact(x)'
    <3>1. rpc[x] = "start"
      BY <2>1, OneReset
    <3>2. QED
      BY <1>3, <3>1 DEF ResetExact
  <2>4. CurrentMap(s)
    BY <1>1, <2>1 DEF LoadsCurrent, Loaded
  <2>5. SearchExact(s)'
    BY <1>1, <1>3, <2>1, <2>4 DEF SearchExact, CurrentMap
  <2>6. \A r \in Searchers : SearchExact(r)'
    BY <1>4, <2>5
  <2>7. QED
    BY <2>2, <2>3, <2>6 DEF SequentialInv
<1>9. ASSUME NEW t \in Types, FindSimilar(s, t) PROVE SequentialInv'
  BY <1>5, <1>9, SequentialFind
<1>10. ASSUME PublishReads(s) PROVE SequentialInv'
  BY <1>5, <1>10, SequentialPublishes
<1>11. QED
  BY <1>5, <1>6, <1>7, <1>8, <1>9, <1>10 DEF SearchStep

LEMMA SequentialStep ==
    Usage = {} /\ Overlap = FALSE /\ SequentialInv /\ [ClientNext]_clientVars => SequentialInv'
<1> SUFFICES ASSUME Usage = {}, Overlap = FALSE, SequentialInv, [ClientNext]_clientVars
             PROVE  SequentialInv'
  OBVIOUS
<1>1. ClientInv' /\ [Next]_vars
  BY ClientInvStep, ClientStep DEF SequentialInv
<1>2. CASE UNCHANGED clientVars
  <2>1. /\ UNCHANGED <<db, lock, pc, typetab, cache, rpc, rcopy, spc, stype, smap, scopy, since>>
    BY <1>2 DEF clientVars, vars, resets, searches
  <2>2. (\A x \in Trans : ResetExact(x)') /\ (\A s \in Searchers : SearchExact(s)')
    BY <2>1 DEF SequentialInv, ResetExact, SearchExact, CurrentMap
  <2>3. QED
    BY <1>1, <2>1, <2>2 DEF SequentialInv
<1>3. ASSUME NEW x \in Trans, Others(x) \/ CommitBegins(x) PROVE SequentialInv'
  BY <1>1, <1>3, SequentialOthers
<1>4. ASSUME NEW x \in Trans, ResetReads(x) \/ ResetStores(x) PROVE SequentialInv'
  BY <1>1, <1>4, SequentialReset
<1>5. ASSUME NEW x \in Trans, CommitEnds(x) PROVE SequentialInv'
  BY <1>1, <1>5, SequentialCommitEnds
<1>6. ASSUME NEW s \in Searchers, SearchStep(s) PROVE SequentialInv'
  BY <1>1, <1>6, SequentialSearch
<1>7. QED
  BY <1>2, <1>3, <1>4, <1>5, <1>6 DEF ClientNext, SearchStep

\* When no search runs while a transaction commits, and callers roll a
\* failed commit back and do not call clear, every search compares with the
\* values of the database, whether it has loaded its map or has found it in
\* the cache: the cache never keeps a map across a commit that changes it.
THEOREM SearchesAlwaysCurrent ==
    ASSUME Usage = {}, Overlap = FALSE
    PROVE  ClientSpec => []SearchIsCurrent
<1>1. SequentialInv => SearchIsCurrent
  BY DEF SequentialInv, SearchExact, SearchIsCurrent
<1>2. SequentialInv /\ [ClientNext]_clientVars => SequentialInv'
  BY SequentialStep
<1>3. QED
  BY SequentialInit, <1>1, <1>2, PTL DEF ClientSpec

=============================================================================
