----------------------------- MODULE VectorClient -----------------------------
(***************************************************************************)
(* A client of the vector storage (src/src/vectorStorageClient.cpp): its   *)
(* transactions (VectorTransaction) and the threads that search with the   *)
(* LSH maps the client caches per type.                                    *)
(*                                                                         *)
(* The cache is a map that is never changed in place: a thread reads the   *)
(* reference m_simHashMapMap, makes a changed copy and stores a reference  *)
(* to the copy.  Neither a commit nor a search holds a mutex of the cache  *)
(* while it does so, hence read and store are steps of their own.          *)
(*                                                                         *)
(* since is a history variable: the LSH values each feature has had in the *)
(* database since the running search was called.                           *)
(***************************************************************************)
EXTENDS VectorTransaction

CONSTANTS
    Searchers,  \* threads that call findSimilar or prepareSearch
    MemTypes,   \* m_inMemoryTypes, the types of the parameter "memtypes"
    ChunkSize,  \* ReadChunkSize of SimHashReaderDatabase
    NoMap,      \* no LSH map in the cache
    Overlap     \* whether searches run while a transaction commits

ASSUME ClientAssumption ==
    MemTypes \subseteq Types /\ ChunkSize \in Nat \ {0} /\ Overlap \in BOOLEAN

VARIABLES
    cache,      \* m_simHashMapMap
    rpc,        \* resetSimHashMapTypes of a commit: "start", "copied", "done"
    rcopy,      \* the copy made by a reset
    spc,        \* control of a search
    stype,      \* the type searched
    smap,       \* its LSH map
    last,       \* the last feature number the database reader has loaded
    scopy,      \* the copy of the cache to be published
    since       \* history: the values since the search was called

resets == <<rpc, rcopy>>
searches == <<spc, stype, smap, last, scopy, since>>
clientVars == <<vars, cache, resets, searches>>

Values == [Featnos -> Vecs \cup {Absent}]

NoValues == [f \in Featnos |-> Absent]

\* A SimHashMap: the type number, the values in its filter and the kind of
\* the reader it gets the values compared from.
SimHashMaps == [typeno : Typenos, values : Values, reader : {"database", "memory"}]

Caches == [Types -> SimHashMaps \cup {NoMap}]

EmptyCache == [t \in Types |-> NoMap]

ClientTypeOK ==
    /\ TypeOK
    /\ cache \in Caches
    /\ rpc \in [Trans -> {"start", "copied", "done"}]
    /\ rcopy \in [Trans -> Caches]
    /\ spc \in [Searchers -> {"idle", "lookup", "load", "publish", "store", "search"}]
    /\ stype \in [Searchers -> Types]
    /\ smap \in [Searchers -> SimHashMaps \cup {NoMap}]
    /\ last \in [Searchers -> Featnos \cup {0}]
    /\ scopy \in [Searchers -> Caches]
    /\ since \in [Searchers -> [Featnos -> SUBSET (Vecs \cup {Absent})]]

\* The LSH values stored for a type number, and for a type.
ValuesOf(d, tno) == [f \in Featnos |-> d.simhash[<<tno, f>>]]

StoredValues(d, t) ==
    IF ReadTypeno(d, t) = 0 THEN NoValues ELSE ValuesOf(d, d.typeno[t])

NoHistory == [f \in Featnos |-> {}]

ClientInit ==
    /\ Init
    /\ cache = EmptyCache
    /\ rpc = [x \in Trans |-> "start"]
    /\ rcopy = [x \in Trans |-> EmptyCache]
    /\ spc = [s \in Searchers |-> "idle"]
    /\ stype \in [Searchers -> Types]
    /\ smap = [s \in Searchers |-> NoMap]
    /\ last = [s \in Searchers |-> 0]
    /\ scopy = [s \in Searchers |-> EmptyCache]
    /\ since = [s \in Searchers |-> NoHistory]

-----------------------------------------------------------------------------
(* Commits.                                                                *)

NoCommit == lock = NoTrans
NoSearch == \A s \in Searchers : spc[s] = "idle"

CommitBegins(x) ==
    /\ PrepareCommit(x)
    /\ Overlap \/ NoSearch
    /\ UNCHANGED <<cache, resets, searches>>

\* (fault: the map of the first type of the transaction survives)
Fault_WithoutTypes(c, tab) ==
    [t \in Types |-> IF \E i \in DOMAIN tab : i > 1 /\ tab[i] = t THEN NoMap ELSE c[t]]

WithoutTypes(c, tab) ==
    [t \in Types |-> IF \E i \in DOMAIN tab : tab[i] = t THEN NoMap ELSE c[t]]

\* resetSimHashMapTypes reads the cache: when it has a map of one of the
\* types, a copy without these maps is made.
ResetReads(x) ==
    /\ pc[x] = "prepared" /\ rpc[x] = "start"
    /\ IF \E i \in DOMAIN typetab[x] : cache[typetab[x][i]] # NoMap
       THEN /\ rcopy' = [rcopy EXCEPT ![x] = WithoutTypes(cache, typetab[x])]
            /\ rpc' = [rpc EXCEPT ![x] = "copied"]
       ELSE /\ rpc' = [rpc EXCEPT ![x] = "done"]
            /\ UNCHANGED rcopy
    /\ UNCHANGED <<vars, cache, searches>>

ResetStores(x) ==
    /\ rpc[x] = "copied"
    /\ cache' = rcopy[x]
    /\ rcopy' = [rcopy EXCEPT ![x] = EmptyCache]
    /\ rpc' = [rpc EXCEPT ![x] = "done"]
    /\ UNCHANGED <<vars, searches>>

\* The database commit follows the reset of the cache.
CommitEnds(x) ==
    /\ rpc[x] = "done"
    /\ CommitSucceeds(x) \/ CommitFails(x)
    /\ rpc' = [rpc EXCEPT ![x] = "start"]
    /\ since' = [s \in Searchers |->
                   IF spc[s] = "idle" THEN since[s]
                   ELSE [f \in Featnos |-> since[s][f] \cup {StoredValues(db', stype[s])[f]}]]
    /\ UNCHANGED <<cache, rcopy, spc, stype, smap, last, scopy>>

Define(x) ==
    \/ \E t \in Types : DefineFeatureType(x, t)
    \/ \E t \in Types, f \in Feats, v \in Vecs \cup {Absent} : DefineElement(x, t, f, v)

\* The operations of a transaction that leave the cache alone.
Others(x) ==
    /\ Define(x) \/ Clear(x) \/ Rollback(x) \/ CommitThrows(x)
    /\ UNCHANGED <<cache, resets, searches>>

-----------------------------------------------------------------------------
(* Searches: getOrCreateTypeSimHashMap and the use of the map.             *)

\* getSimHashMap: a map in the cache is used as it is.
FindSimilar(s, t) ==
    /\ spc[s] = "idle"
    /\ Overlap \/ NoCommit
    /\ stype' = [stype EXCEPT ![s] = t]
    /\ since' = [since EXCEPT ![s] = [f \in Featnos |-> {StoredValues(db, t)[f]}]]
    /\ smap' = [smap EXCEPT ![s] = cache[t]]
    /\ spc' = [spc EXCEPT ![s] = IF cache[t] # NoMap THEN "search" ELSE "lookup"]
    /\ UNCHANGED <<vars, cache, resets, last, scopy>>

Finish(s) ==
    /\ spc' = [spc EXCEPT ![s] = "idle"]
    /\ smap' = [smap EXCEPT ![s] = NoMap]
    /\ since' = [since EXCEPT ![s] = NoHistory]

\* An unknown type: "queried type is not defined".
TypeNotDefined(s) ==
    /\ spc[s] = "lookup"
    /\ ReadTypeno(db, stype[s]) = 0
    /\ Finish(s)
    /\ UNCHANGED <<vars, cache, resets, stype, last, scopy>>

\* A type of "memtypes" gets the reader that loads chunks from the database
\* and reads the values compared from there.
CreateDatabaseReader(s) ==
    /\ spc[s] = "lookup"
    /\ stype[s] \in MemTypes
    /\ ReadTypeno(db, stype[s]) # 0
    /\ smap' = [smap EXCEPT ![s] = [typeno |-> ReadTypeno(db, stype[s]),
                                    values |-> NoValues, reader |-> "database"]]
    /\ last' = [last EXCEPT ![s] = 0]
    /\ spc' = [spc EXCEPT ![s] = "load"]
    /\ UNCHANGED <<vars, cache, resets, stype, scopy, since>>

\* Any other type gets the reader that holds the values of the database in
\* memory, read at once.
CreateMemoryReader(s) ==
    /\ spc[s] = "lookup"
    /\ stype[s] \notin MemTypes
    /\ ReadTypeno(db, stype[s]) # 0
    /\ smap' = [smap EXCEPT ![s] = [typeno |-> ReadTypeno(db, stype[s]),
                                    values |-> StoredValues(db, stype[s]), reader |-> "memory"]]
    /\ spc' = [spc EXCEPT ![s] = "publish"]
    /\ UNCHANGED <<vars, cache, resets, stype, last, scopy, since>>

\* (fault: the next chunk starts two numbers after the last one)
Fault_Chunk(values, from) ==
    {f \in Featnos :
        /\ (from = 0 \/ f > from + 1) /\ values[f] # Absent
        /\ Cardinality({g \in Featnos : g > from /\ g <= f /\ values[g] # Absent}) <= ChunkSize}

\* readSimHashVector: the next values of a type, at most ChunkSize.
Chunk(values, from) ==
    {f \in Featnos :
        /\ f > from /\ values[f] # Absent
        /\ Cardinality({g \in Featnos : g > from /\ g <= f /\ values[g] # Absent}) <= ChunkSize}

\* SimHashMap::load with the database reader, one chunk at a time.
LoadChunk(s) ==
    LET values == ValuesOf(db, smap[s].typeno)
        chunk  == Chunk(values, last[s])
    IN  /\ spc[s] = "load"
        /\ chunk # {}
        /\ smap' = [smap EXCEPT ![s].values =
                      [f \in Featnos |-> IF f \in chunk THEN values[f] ELSE @[f]]]
        /\ last' = [last EXCEPT ![s] = CHOOSE f \in chunk : \A g \in chunk : g <= f]
        /\ UNCHANGED <<vars, cache, resets, spc, stype, scopy, since>>

LoadEnds(s) ==
    /\ spc[s] = "load"
    /\ Chunk(ValuesOf(db, smap[s].typeno), last[s]) = {}
    /\ spc' = [spc EXCEPT ![s] = "publish"]
    /\ last' = [last EXCEPT ![s] = 0]
    /\ UNCHANGED <<vars, cache, resets, stype, smap, scopy, since>>

\* The copy of the cache with the new map; insert keeps a map that another
\* thread has published for the type.
PublishReads(s) ==
    /\ spc[s] = "publish"
    /\ scopy' = [scopy EXCEPT ![s] =
                   [cache EXCEPT ![stype[s]] = IF @ = NoMap THEN smap[s] ELSE @]]
    /\ spc' = [spc EXCEPT ![s] = "store"]
    /\ UNCHANGED <<vars, cache, resets, stype, smap, last, since>>

PublishStores(s) ==
    /\ spc[s] = "store"
    /\ cache' = scopy[s]
    /\ scopy' = [scopy EXCEPT ![s] = EmptyCache]
    /\ spc' = [spc EXCEPT ![s] = "search"]
    /\ UNCHANGED <<vars, resets, stype, smap, last, since>>

\* The search itself, and the names and vectors read for its results.
Search(s) ==
    /\ spc[s] = "search"
    /\ Finish(s)
    /\ UNCHANGED <<vars, cache, resets, stype, last, scopy>>

-----------------------------------------------------------------------------

ClientNext ==
    \/ \E x \in Trans :
          \/ Others(x) \/ CommitBegins(x)
          \/ ResetReads(x) \/ ResetStores(x) \/ CommitEnds(x)
    \/ \E s \in Searchers :
          \/ \E t \in Types : FindSimilar(s, t)
          \/ TypeNotDefined(s) \/ CreateDatabaseReader(s) \/ CreateMemoryReader(s)
          \/ LoadChunk(s) \/ LoadEnds(s)
          \/ PublishReads(s) \/ PublishStores(s) \/ Search(s)

ClientSpec == ClientInit /\ [][ClientNext]_clientVars

-----------------------------------------------------------------------------
(* Properties.                                                             *)

CurrentMap(s) == \A f \in Featnos : smap[s].values[f] \in since[s][f]

\* A search compares with values that were stored at some moment between its
\* call and its use of the map: it never misses a vector whose commit had
\* returned before the search was called, and never uses a replaced one.
SearchIsCurrent == \A s \in Searchers : spc[s] = "search" => CurrentMap(s)

\* The same for a map that the search has loaded itself, whatever commits in
\* between two chunks.
LoadIsCurrent == \A s \in Searchers : spc[s] \in {"publish", "store"} => CurrentMap(s)

\* Every feature number of the map in use has a name and a vector: reading
\* the results does not end with "required key not found in vector database".
ResultsReadable ==
    \A s \in Searchers : spc[s] = "search" =>
        \A f \in Featnos : smap[s].values[f] # Absent =>
            /\ db.featname[f] # Absent
            /\ db.vec[<<smap[s].typeno, f>>] # Absent

=============================================================================
