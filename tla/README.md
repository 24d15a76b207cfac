# Verification of strusVector

TLA+ modules, TLC configurations and TLAPS proofs about strusVector, a storage
of vectors in a key/value database that is searched by similarity with LSH
(locality sensitive hashing) values. Files are named without their directory:
they are in `src/` of the repository unless said otherwise.

## 1. The system

A *client* of a vector storage opens a key/value database. *Transactions* of
the client define feature types, features and vectors; a *search* finds the
features of a type whose vectors are similar to a vector. Several threads use
one client, each transaction object is used by one of them.

```
 VectorStorageTransaction --commit--> DatabaseAdapter::Transaction --commit--> database
        | mutex of the client                                                    ^
        | resets the maps of its types                                           | reads
        v                                                                        |
 VectorStorageClient: m_simHashMapMap --> SimHashMap <-- load -- SimHashReader --+
        ^ findSimilar, prepareSearch          |
        |                                     +-- SimHashFilter, SimHashBench, SimHashRankList
 FeatureValueIterator, featureVector, ...
```

| component | state | operations | what is hard |
|---|---|---|---|
| **Database adapter** (`databaseAdapter.cpp`, `databaseHelpers.hpp`) | the keys of the database by prefix: name → number and number → name of types and features, vectors and LSH values by numbers, number of vectors per type, counters of types and features, relations feature → types; the batch of a transaction | `read*`, `write*`, `clear`, `commit`, `rollback`, cursors on values and dump | a batch is a set of last writes per key, reads do not see it; a clear deletes what the database held when it was called |
| **Transaction** (`vectorStorageTransaction.cpp`) | tables of local type and feature identifiers, elements per local type, relations, the batch | `defineFeatureType`, `defineVector`, `defineFeature`, `clear`, `commit`, `rollback` | concurrent transactions number the same names; repeated definitions; failed commits and what they leave behind; the vector counters |
| **Client** (`vectorStorageClient.cpp`, `.hpp`) | the mutex of the commits, the cache of LSH maps per type (a shared reference to an immutable map), the names of types held in memory | `findSimilar`, `prepareSearch`, `createTransaction`, read operations, `createFeatureValueIterator`, `close` | maps are loaded and published while transactions commit and reset them, without a lock on the cache |
| **LSH value readers** (`simHashReader.cpp`) | position of the iteration, the chunk or the copy of all values | `loadFirst`, `loadNext`, `load` | chunks cut by concurrent commits, the end of the iteration |
| **Parallel calculation** (`getSimhashValues.cpp`) | an atomic chunk counter, the result array, the errors | `getSimhashValues` with threads that fetch chunks | an index past the end is given back while others fetch; a thread fails inside its chunk |
| **Feature value iterator** (`FeatureValueIterator` in `vectorStorageClient.cpp`, `FeatureCursor`) | database cursor, the value skipped to, the prefix, two flags | `skip`, `skipPrefix`, `fetchValues` | calls in any order share cursor and flags |
| **Similarity search** (`simHashMap.cpp`, `simHashFilter.cpp`, `simHashBench.cpp`, `rankList.hpp`, `simHashRankList.hpp`) | benches of the first words of all values, a bounded ranked list | `findSimilar`, `insert`, `search` | integer and floating-point limits, the narrowing of the distance while the list fills, insertion at the limit of the list |
| **LSH values and model** (`simHash.cpp`, `lshModel.cpp`, `lshBench.cpp`) | bit fields of any size; matrices | bit operations, distance, serialization; `simHash`, `createModel` | bits of the last word, assignment between values of different sizes |
| **Sentence lexer** (`sentenceLexerInstance.cpp`, `sentenceLexerKeySearch.cpp`, `sentenceLexerConfig.cpp`) | a queue of partial splits of the query, a key buffer with a stack of variants | `call`, `similar...`; `scanField` | spaces and links are interchangeable; backtracking over a buffer that copies share; the search stops before the queue is empty |
| **Factory, dump** (`vectorStorage.cpp`, `vectorStorageDump.cpp`) | the new database; a cursor | `createStorage`, `createClient`, `createDump`; `nextChunk` | end of the iteration, size of the chunks |
| **Page weight** (`src_pageweight/pageweight.cpp`, `strusPageWeight.cpp`) | names and numbers of pages, link matrix, redirects | the parser of the declarations; `addLink`, `defineRedirect`, `reduce`, `calculate` | declarations in any order, redirect chains, renumbering, the size of the matrix |
| **Shared array mutex** (`sharedArrayMutex.hpp`) | bits of spin locks | `lock`, `skip`, `unlock` | a lock moved to the next segment; not used by the implementation |

Correctness of the parts: names and numbers are inverse to each other and
counters are exact, whatever commits concurrently; a commit stores all it was
given or nothing; a search uses neither stale values nor numbers without a
name; the parallel calculation returns complete arrays and ends; the iterator
delivers each value once; no near value is lost between the stages of a search;
the splits of a query cover it with features that are equal to its parts; every
link between declared pages counts once. `PROJECT.json` lists the hazards with their lines.

## 2. Plan

Modules in the order of their importance; those of items 1 to 6 exist.

1. `VectorDatabase`, `VectorTransaction`, `VectorStore` (abstract).
2. `VectorClient`, which extends `VectorTransaction` by searches, readers and
   the cache.
3. `SimhashBuilder` (threads), `FeatureIterator` with `OrderedIterator`
   (abstract).
4. `RankList` with `BestRanks` (abstract), and `SimHashSearch`, which extends
   `RankList`.
5. `SentenceKeySearch`, `PageWeight`.
6. `DatabaseDump`.
7. To come: `SimHashBits` (`simHash.cpp`: constructors, assignment, iteration
   over bits, against sets of bit positions); the parser of the lexer
   configuration; a thread that cannot be started (`getSimhashValues.cpp:182`).

Compositions: `VectorClient` = `VectorTransaction` + searches; `SimHashSearch` =
map and filter + `RankList` + commits of others. Abstract specifications:
`VectorStore`, `OrderedIterator`, `BestRanks`. Theorems: in the order
of the modules, section 5. To come: the store theorems for one transaction object
with `clear`.

## 3. The modules

**VectorDatabase** — the database as a record of functions, one per key prefix
(`databaseAdapter.hpp` 91-105), with `Absent` for a key that does not exist,
and the batch of a database transaction, with `Keep` for a key it does not
touch. `Applied` is the commit, `EmptyBatch` the state after commit or
rollback, `Cleared` the deletions queued by `clear` (key by key, those present
in the committed database, plus the counters of types and features), the
`Read...` operators the reads (a missing number is 0). `StoredTypes`,
`FeatureTypes`, `NofVectors`, `FeatureVector` are the read operations of the
client and `CreateStorage` is `createStorage`, which numbers the types of the
lexer configuration. Vectors, LSH values and names are model values; the LSH
value of a vector is identified with the vector, as it is a function of it.
Encoding of keys and numbers, the version, the variables and the LSH model
(written once by `createStorage`) are left out.

**VectorTransaction** — one action per operation of
`vectorStorageTransaction.cpp`. `typetab`, `nametab` are the symbol tables
`m_typetab`, `m_nametab` as sequences, `vecar` is `m_vecar`, `relations` is
`m_featTypeRelations`, `batch` is `m_transaction`, `lock` the mutex held by
`TransactionLock`. `commit` is `PrepareCommit` (everything up to the database
commit: numbering, renumbering of the elements *in place*, batch of vectors,
LSH values, counters, relations) followed by `CommitSucceeds` or `CommitFails`;
`CommitThrows` is a commit ended by an exception of a read, at the start or
after the elements of any number of types. Nothing else runs under the mutex,
and operations of other transactions do interleave between the two steps.
An element that carries a number already is outside the array of the code;
what is read there is any number (`AnyNumber`). `defs` is a history variable
that records what the caller defined. `Usage` says what callers do: `"clear"`
(clear in a transaction of its own), `"mix"` (clear and definitions in one
transaction), `"retry"` (commit again after a failed commit, without a
rollback).

**VectorStore** — what a storage promises: a store of types, elements and
vectors that only changes by atomic commits, each of all definitions of its
transaction. `VectorTransaction` maps to it with `store` = what the read
operations return and `pending` = `defs`.

**VectorClient** — `VectorTransaction` and threads that search. A commit is now
`CommitBegins`, `ResetReads`/`ResetStores` (`resetSimHashMapTypes`: the
reference `m_simHashMapMap` is read, a copy without the types of the
transaction is stored), `CommitEnds`. A search is `FindSimilar` (a cached map is
used as it is), or the creation of a reader and a map (`CreateDatabaseReader`,
`CreateMemoryReader`), `LoadChunk`s, `PublishReads`/`PublishStores` and
`Search`. `since` is a history variable with the values each feature has had
since the search was called. `Overlap` says whether searches and commits
overlap in time.

**SimhashBuilder** — one action per step of a thread: `Fetch` (the atomic
increment and the chunk), `GiveBack` (the decrement), `Build` (one element),
`NextChunk`, `Fail`; and `Join` of the caller.

**FeatureIterator** — `skip`, `skipPrefix`, `fetchValues`. The values are
numbered in the order of the database; a string skipped to is the first value
not less than it and the last value that has it as a prefix. The loop of
`fetchValues` is given by its result, `LoadMore`. **OrderedIterator** is the
abstract iterator: the next value, the last one with the prefix, the result.

**RankList** — `rankList.hpp`: the array of elements `bruteAr`, the array of
indices `bruteIndex` that orders it, and the insertion with one action per turn
of its search loop (`SearchLeft`, `SearchRight`, `SearchEqual`, `Scan`), so that
what the loop maintains can be stated. **BestRanks** is what it promises: the
best elements inserted, in order.

**SimHashSearch** — `simHashMap.cpp`, `simHashFilter.cpp`, `simHashBench.cpp`.
A value is given by its differences to the value searched: one number per word
with a bench, and the sum for the other words; all the code ever uses of a value
is that. The map is loaded (`LoadNext`, with `BenchAppend` for the benches),
then searched: the filter (`Filtered`, with the limits `RelProb` and `RelSum` as
the code rounds them), the samples (`Sample`, `LastDist`), the limit derived
from them (`SampleEnds`), the comparison of the candidates (`Compare`), each
followed by the steps of `RankList`. Between any two reads of the database
another client may `Commit` a value or a deletion. `versions` is a history
variable. The quotient of the limits is calculated exactly, where the code uses
floats; for the limits of the instance both give the same integers. Values are
loaded one by one; the chunks of the reader are part of `VectorClient`.

**SentenceKeySearch** — `scanField`: the best-first search over a queue of
partial splits (`Drop`, `Complete`, `Explore`, `Unknown`), and the exploration of
the features that start at a position (`Expand`, `Backtrack`, `ExpandEnds`), over
a key buffer in which spaces become links. A copy of `KeyCursor` keeps pointers
into the buffer of the original, so a change of the copy on the stack changes
the buffer of the cursor, and the assignment restores the content copied:
`Continue` and `Backtrack` do the same.

**PageWeight** — the parser in `main` with one action per kind of lexeme,
`Reduce` and `Calculate`; of the calculation only the elements of the matrix are
modelled, with the dummy elements that give it its size. The library takes the
size from all elements, then drops those of value 0, which the dummies are, and
only then refuses two elements at one place (`SpMat_meat.hpp:260-292`, 4201,
4232, in `3rdParty/armadillo`): a dummy never clashes with a link or another
dummy, and `Calculate` does not fail. `declared` records what was declared, by
names.

**DatabaseDump** — `nextChunk` and `dumpNext`, with the flag `m_first` that is
never reset.

**The MC modules** declare the model
values of the runs, lexer configurations, inputs and symmetries. `FeatureIterator` needs
none. Operators named `Fault_...` are variants with a plausible fault, used to
see that each property notices the fault; no specification refers to them.

## 4. What the runs check

Passing runs:

| run | instance | properties and what they show |
|---|---|---|
| `TransactionConcurrent` | 2 transactions, 2 types, 1 feature, 1 element each | `NumbersInverse`, `NumbersStable`, `CountersExact`: both transactions number the same and different names while the other is before, in or after its commit, fails or rolls back; names and numbers stay inverse, are never given away and leave no gap. `NoLogicError`: the consistency check in `commit` never fires. `ImplementsStore`: commits are atomic. |
| `TransactionSequential` | 1 transaction object used again and again, 2 types, 2 features, 2 vectors, 2 elements per transaction, clear | `VectorCountExact`, `NoDanglingNumbers`, `ImplementsStore`: an element defined twice in a transaction or redefined later, with and without a vector, is counted once, its last vector is stored, and a clear in a transaction of its own empties the store. |
| `ClientSequential` | 1 searcher, 2 types, one of them with values in memory, no overlap | `SearchIsCurrent`: no search uses a map that a commit has made stale. |
| `ClientConcurrent` | 2 searchers loading in chunks of one value, 1 transaction, 2 features, overlap | `LoadIsCurrent`: a map loaded while transactions commit holds values that were stored since the call. `ResultsReadable`: all its features have a name and a vector. |
| `SimhashBuilder` | 3 threads, 5 elements in chunks of 2 | `ChunksDisjoint`, `ReturnedComplete`; `Ends` under fairness. |
| `FeatureIterator` | 5 values, fetches of 1, 2, 4 | `ImplementsIterator`: the results of any calls are those of the abstract iterator. |
| `SimHashSearch` | 5 features, benches of 2, 2 benches, a result of 4, 5 samples, 5 pairs of limits, 1 commit, both readers | `FindsBest`: a value unchanged during the search and near enough is in the result, unless the limits of the filter exclude it or better ones fill the result. `ResultsStored`: what is reported is the distance of a value the feature had. `ExactFound`, `EvenSpreadIsCandidate`: equal values and values with evenly spread differences pass the limits. `ImplementsBestRanks`, `PlaceInInterval`: the ranked list. |
| `SentenceKeySearch` | 13 fields of up to 5 characters, every set of 9 names, ordered as in the database | `SolutionsCoverField`, `ElementsNamed`: a split covers the field with features equal to their parts. `FewestUnresolved`: stopping early loses no better split. `WholeFieldFound`: a feature equal to the field is found whatever shares a prefix with it. `Terminates`. |
| `PageWeight` | every sequence of 3 rules of 8, and a faulty rule among well formed ones | `LinksCounted`: the reduced matrix holds every link between declared pages with its multiplicity, redirects followed, whatever the order of the declarations. `MatrixFits`: the matrix has a row and a column for every page, also for a single page without a link. `Terminates`, for inputs that do not end with an arrow. |

`TypeOK` (`ClientTypeOK`, `SearchTypeOK`) is the type invariant of each module.

Bounds, and why they are enough. Conflicts between transactions need two of
them with one new name in common and one not in common, which two types give;
features are numbered by the same code. A repeated definition needs two
elements per transaction; a third one repeats the step. `MaxTypeno` and
`MaxFeatno` bound the numbers ever given (a guard, `NumbersFit`; the code has
the range of a 32 bit index): they leave room for every name and, in
`TransactionSequential`, for a type numbered again after a clear (a feature,
when only one had been numbered before). Each object is used for any number of
transactions in succession: the runs bound no length. Chunks of one value cut a
load at every place. Three threads are the least at which two give back while
one fetches; five elements in chunks of two have a short last chunk. In the
iterator, five values leave room before, in and after a prefix, and the sizes
1, 2, 4 stop before, at and after its end. Five values in benches of two fill two
benches and start a third; a result of four is full before the last value, and
five samples leave one that is not in the result; the list is long enough for
its search loop to take both halves. One commit separates the value filtered
from the value read. The fields have up to three words, with single and double
separators of both kinds, and the names every prefix relation between them.
Three rules are a link, a redirect and the declaration of its target, in any
order.

Symmetry is used for types, features, vectors or transactions where no
constant tells them apart, and only in runs without liveness properties.

Runs that refute what the repository says (expected violations):

| run | what is refuted |
|---|---|
| `TransactionRetry` | a commit repeated after a failed one returns true and stores vectors under other features: the local identifiers were replaced by numbers. |
| `ClientStaleCache` | the cache is reset *before* the database commit; a search in between caches the old values for good. |
| `DumpComplete` | a dump returns the first row of the first prefix that has a key in every call and never ends: `m_first` is never reset (`databaseAdapter.cpp:743`). |

Known limits, found while modelling. The first group breaks properties of the
modules and is excluded from the passing runs by constants or by the condition of
a property; the others are outside the modelled part.

* A committed `clear` leaves the counters of types and features in the database
  (`vectorStorageTransaction.cpp:143`), although `databaseAdapter.cpp:583` says
  "Delete all data except the variables and LSH model".
* Definitions after a `clear` in the same transaction lose their names: `commit`
  looks them up in the database that still has what the batch deletes
  (`CommitStoresDefinitions` with `Usage = {"clear", "mix"}`).
* A `clear` while another transaction commits deletes one of the two entries of
  a name and breaks `NumbersInverse`; cached maps survive a committed `clear`, and
  a search then meets missing names (`ResultsReadable`). That is why `Usage` has no
  `"clear"` in `TransactionConcurrent` and in the client runs.
* `fetchValues(0)` returns the value skipped to: `FetchSizes` excludes 0.
* `memtypes` names the types "loaded entirely into memory" (`vectorStorage.cpp:170`);
  the code takes the reader that reads the database for them and the one in memory
  for all others (`vectorStorageClient.cpp:507-515`), as `CreateDatabaseReader` and
  `CreateMemoryReader` do.
* With a limit that is not a multiple of the number of words, the integer
  division at `simHashFilter.cpp:48` filters out values within the distance asked
  for; with a distance of 0, `probSum` depends on the conversion of 0/0
  (`simHashMap.cpp:133`): equal values may be lost.
* The separator after a feature is looked for at `fieldPtr[keylen]` instead of
  `curpos+keylen` (`sentenceLexerKeySearch.cpp:188-191`). What is found is right
  (`ElementsNamed`), but known words after the first may be taken as unknown, or
  split, when words differ in length; the test of the lexer has names of one
  character. Spellings with links are tried only after a first feature is found.
* An input of `strusPageWeight` that ends with an arrow is read for ever
  (`strusPageWeight.cpp:321-323`): the condition of `Terminates`. Redirects are
  followed one level only, as `TargetOf` says. A rule without a name defines the
  page with the empty name if it has links.
* `reduce` returns an object with the default number of iterations
  (`pageweight.cpp:245`), so the option `-i` has no effect; the build without
  `STRUS_WITH_PAGERANK` counts weights of links as page identifiers
  (`pageweight.cpp:184`).
* A chunk of a dump has one row more than `NofKeyValuePairsPerChunk`.
* `SimHash::near` is documented as "smaller than a given dist" (`simHash.hpp:55`) and
  includes equality, as the search needs.

Fairness. The safety runs state none. `SimhashBuilder` assumes weak fairness of
each thread and of the caller's `Join`: threads are scheduled by the operating
system, a thread takes no lock it could wait for (errors are reported under a
mutex held for one append), and `join` returns when the thread has ended.
`SentenceKeySearch`, `PageWeight` and `DatabaseDump` are one thread that waits for
nothing: weak fairness of its next step says that it goes on. Deadlock is checked
in all runs but `SimhashBuilder`, where the call ends; elsewhere a call that has
returned stutters explicitly.

## 5. What is proved

`VectorTransactionProofs`, `VectorStoreProofs`, `VectorClientProofs`,
`FeatureIteratorProofs`, `SimhashBuilderProofs`, `SimHashSearchProofs` (with
those about `RankList`), `SentenceKeySearchProofs` and `PageWeightProofs` hold the
proofs, for every
value of the constants that satisfies the named assumptions (`BoundsAssumption`,
`MarkersAssumption`, `UsageAssumption`, `TransAssumption`, `LexerAssumption`,
`ClientAssumption`, `SizeAssumption`, `IteratorAssumption`, `RankAssumption`,
`SearchAssumption`, `KeySearchAssumption`, `NameOrderAssumption`, `PageAssumption`; TLC evaluates each).

* `TypeCorrect`: `Spec => []TypeOK`, for every `Usage`. `TypeOK` says nothing of
  the local identifiers in `relations` and `vecar`; the induction needs them to
  be in range (`RelationsInRange`), as `FilledBatch` takes the numbers at these
  positions.
* `NumbersAlwaysInverse`: names and numbers are inverse, if nobody clears or
  retries (`Usage = {}`; the runs above show that the assumption is needed).
  `NumbersInverse` is not inductive: a commit adds entries under the numbers
  after the counter, so no number above the counter may be in use
  (`CountersAbove`); the numbers are written to a batch before they are
  committed, so a prepared batch has to hold exactly new names with new numbers
  (`PreparedBatchNew`) and any other batch nothing (`OpenBatchEmpty`); the
  tables must not repeat a name (`DistinctSymbols`); and the database must not
  change between the two steps (`CommitsExclusive`, from the mutex). Their
  conjunction is `NumbersInv`. A failed commit leaves a full batch behind; it is
  harmless as the only step that follows is a rollback.
* `NumbersAlwaysStable`: under the same assumption no number is ever changed.
* `NeverLogicError`: for every `Usage`, the sizes of elements and symbol tables
  agree whenever a commit compares them.
* `CountersAlwaysExact`, `VectorCountAlwaysExact`, `NumbersNeverDangle`,
  `TransactionsImplementStore`, `CommitsStoreDefinitions`, if nobody clears or
  retries. None is inductive. `StoreInv` adds three things to `NumbersInv`. As
  long as a transaction is open, its tables, elements and relations say what
  its caller has defined (`OpenFaithful`: an element defined twice is in the
  array twice, and the last one counts). The database is consistent: every
  counter is the cardinality it stands for, every vector has its LSH value and
  its relation, and every relation names (`Consistent`). A prepared
  batch, applied to the database, gives a consistent database whose store is the
  one after the definitions of the caller (`PreparedStores`); that step follows
  the loops of `commit` (numbering of types and names, renumbering of elements,
  the batch of a type) with one invariant for each. A commit of another
  transaction cannot come in between, as it holds the mutex. The assumption on
  `Usage` is needed: `TransactionRetry` shows what a retry does, and with `clear`
  the counters of types and features stay (known limits). With one transaction
  object `clear` keeps `VectorCountExact`, `NoDanglingNumbers` and
  `ImplementsStore`, which only `TransactionSequential` shows.
* `ClientImplementsTransactions`: every step of a client is a step of
  `VectorTransaction` or leaves its variables alone; `ClientNumbersInverse`
  follows. `ClientTypeCorrect` is the type invariant of the client, for every
  `Usage`.
* `LoadsAlwaysCurrent`, `ResultsAlwaysReadable`, if nobody clears or retries,
  for any number of searches, commits and chunks that overlap in any way
  (`ClientInv`). While a map is loaded, the values up to the last number read
  were stored at some moment since the call, and it has none above
  (`LoadsCurrent`): a chunk skips only features that had no value when it was
  read. A number is never given to another name (`NumbersKept`), so the type
  number the map was created with stays right. A vector that a map holds for a
  feature is never removed, only replaced (`MapsReadable`, over the cache, the
  copies of it and the maps in use); this needs that a transaction defines
  vectors only for types of its symbol table (`DefinitionsNamed`).
* `SearchesAlwaysCurrent`, with `Usage = {}` and `Overlap = FALSE`. The cache has
  exactly the values of the database (`CacheExact`), a commit that has reset it
  has left no map of a type it defines (`ResetExact`), and while a search runs
  the mutex is free and the only value its history has of a feature is the one
  stored (`SearchExact`). `ClientStaleCache` shows that it does not hold with
  overlap: a map published between the reset and the database commit stays.
* `BuilderTypeCorrect`, `ChunksAlwaysDisjoint`, `ReturnedAlwaysComplete` about
  `SimhashBuilder`. The counter is not the number of chunks given, as indices
  are given back; `Granted`, the counter minus the threads about to give back,
  is. The invariant says that a thread gives back only when the chunks granted
  reach the end of the array (`Counted`), hence a chunk is fetched only when
  nobody gives back; that every element below `Limit` is calculated or in one
  chunk, and none above has been touched (`Chunked`, `Covered`); and that a
  thread ends with an error or at the end of the array (`Ended`).
* `IteratorTypeCorrect`, `IteratorImplemented`: `FeatureIterator` implements
  `OrderedIterator`; `Positions` relates cursor, value held and prefix.

* `RankTypeCorrect`, `PlaceAlwaysInInterval`, `RanksImplemented`: the ranked list
  stays within its arrays, its search loop keeps the place of the element, and it
  implements `BestRanks`. The indices are a permutation of the slots and the part in
  use is ordered; an insertion at place p moves the entry at the end of the index
  array, in use or not, to p, which is the insertion of the abstract list.
* `SearchUsesRankList`, `ResultsAlwaysStored`, `SearchRanksBest`: a search inserts
  only ranks of features, so the theorems of the ranked list hold for it, and what
  it returns are distances within its limit of values the features had. The
  candidates are positions of the map: a bench starts where the full benches before
  it end, and each of its entries has one in `idar` (`BenchesInRange`), hence every
  candidate has a feature (`CandidatesInRange`). Nothing is ranked before the search
  is called, and from then on `versions` holds what is stored (`CallInv`); so what
  is read, and the element on its way to its place, is genuine (`ReportInv`).
* `SearchFindsBest` (`FindsBest`): no near feature is lost on its way through the
  search. The map is complete: every value loaded has a place in `idar`, its word
  is in the bench of that place, and the benches end where `idar` ends
  (`MapComplete`). Hence a call makes every feature that passes the filter and is
  near enough a candidate, and from then on such a feature is a candidate not yet
  ranked, the element on its way into the list, or in the list (`FoundInv`), where
  it is lost only when the list is full of better ones (`NoneLost`). Ordering is
  needed for this: the insertion into a full list drops its last element, which is
  not better than the one inserted (`Ordered`). Commits of others do not disturb it,
  since a feature that is unchanged has one version to read.

* `SearchTypeCorrect`, `ExactAlwaysFound`, `EvenSpreadAlwaysCandidate`, for values
  of any number of words. The sums of differences that the filter compares are
  folds, that is recursive functions; what is said of them (`NoDifferences`: they
  are zero for equal words, `SharesAdd`: even shares add up to the whole) is
  proved by induction on the set of indices for which it holds, and that induction
  from the fact that a set of natural numbers has a least member (`WFMin`). A call
  keeps its limits and samples typed (`CallTyped`), and the filter its estimate
  from them (`FilterInv`). The quotients are integer divisions (`QuotientBound`):
  limits that are wide enough do not round to less than nothing.
* `KeySearchTypeCorrect`, `FeaturesNamed`, `SolutionsCover`, `BestSolutions` about
  `SentenceKeySearch`, for all fields and all lists of features (`KeySearchInv`).
  An element follows the one it is linked to with only separators between
  (`AllPlaced`); a partial split has covered the field up to its position, and
  its count of unresolved elements is that of the elements it leads back to
  (`QueueInv`); each buffer of the exploration, saved ones included, is the rest
  of the field but for the kind of its separators (`KeyInv`), which is why what
  is looked up in a changed buffer still is in the field, and why lengths found
  in one buffer are positions of another. `operator<` is a total order with a
  least element (`FirstLeads`), and what follows the element taken has as many
  unresolved elements or more; so nothing in the queue is better than the first
  solution (`BestInv`). The traces of the elements (`TraceOf`) are a recursive
  function; that it exists, and that a new element changes no trace, is induction
  on the elements as above.
* `WholeFound` (`WholeFieldFound`), with `KeySearchInv` and an invariant of its own,
  `WholeInv`, that follows one split through the search, the field as one feature.
  Either the first element is still in the queue; or it is being explored, and the
  key or a saved key is the unchanged field with its position before the end; or
  the feature is found, and what follows it is in the queue or a solution. Each
  continuation that changes the key saves the key without the change at a position
  before the end (`ContinueKeepsAhead`), and a key that still is the field finds
  this feature or a shorter one (`WholeLoaded`): the exploration cannot end before
  the feature is found. A split of one element is never too long, and one without
  unresolved elements never left behind (`EmptyUnlessTaken`). `NameOrderAssumption`
  says that a name precedes the longer ones it begins, as keys in a database do:
  the cursor takes the first name with a prefix, which is the field itself then.

* `PagesTypeCorrect`, `LinksAlwaysCounted`, `MatrixAlwaysFits` about `PageWeight`,
  for all inputs. `PageInv` has the types, and that the largest row and column in
  use are attained (`Bounds`): where they are smaller than the number of pages, a
  dummy gives the matrix its size, and it does so without any link, too.
  For the counts, what the parser holds by
  identifiers is related to the declarations by names (`Known`): a page is in
  `m_defset` if a declaration gives it links, its redirect is the one declared
  last, and the count of a link is the number of places it is declared at
  (`Spots`). The end of a rule first names pages, which changes nothing of this,
  since no declaration has a name without a page (`KnownWithNames`), and then adds
  its declaration (`DeclaredMore`, `RedirectsMore`, `SpotsMore`). The reduction
  adds up counts of links that become one: no place is counted for two of them,
  so that the sum is the number of all their places (`SumCounts`, by induction on
  the number of links), and a redirect followed by identifiers is the one followed
  by names (`ResolvedIsTarget`).

Only model-checked: the liveness properties `Ends` and `Terminates` (liveness is
out of reach of the prover).

## 6. What is not modelled

* The key/value database, its cursors and transactions, and the symbol table
  are external (strus base and core): modelled as the adapter uses them. A
  database commit is atomic, a failed one changes nothing.
* `m_simHashMapMap` is read and replaced without synchronisation, a data race
  in the sense of C++. The model takes read and replacement of the reference as
  atomic steps.
* Floating point and linear algebra (`lshModel.cpp`, `lshBench.cpp`,
  normalisation and similarity of vectors, the iteration of the page weights):
  out of TLC's reach.
* A transaction object shared by threads (the code has no lock for it); failure to
  start a thread.
* Parsing of configurations, logging, error texts, UTF-8 cleaning of names.
* Bits of LSH values, the choice of types and similar features for a query,
  `sharedArrayMutex.hpp` (used only by `.Attic`), and what the notes of the
  components in `PROJECT.json` say.
* Most of the repository's lines are the vendored library Armadillo
  (`3rdParty`); it is external, and only what `calculate` requires of its sparse
  matrix is modelled.
