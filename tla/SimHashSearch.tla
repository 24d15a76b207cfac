---------------------------- MODULE SimHashSearch ----------------------------
(***************************************************************************)
(* The search for similar values in the map of a type                      *)
(* (src/src/simHashMap.cpp, simHashFilter.cpp, simHashBench.cpp) while     *)
(* transactions commit: the map holds the first words of every value in    *)
(* benches, selects the candidates there, estimates from samples how far   *)
(* it has to look, reads the values of the remaining candidates, and ranks *)
(* them (RankList).                                                        *)
(*                                                                         *)
(* A value is represented by its bit differences to the value searched:    *)
(* one per word that has a bench, and the sum of those in the other words. *)
(* The features of the type are numbered 1 .. NofFeatures in the order     *)
(* the reader delivers them.                                               *)
(***************************************************************************)
EXTENDS RankList, FiniteSets, SequencesExt

CONSTANTS
    NofFeatures,
    Values,         \* records [word : differences per bench, rest : Nat]
    InitialStores,  \* what the database may hold at the start
    ElementArSize,  \* m_elementArSize: words of a value
    BenchSize,      \* SimHashBench::Size
    NofSampleReads, \* 2 * maxNofElements + 10 in the code
    Limits,         \* pairs <<maxSimDist, maxProbSimDist>> searched with
    MaxCommits      \* bound of the commits during a search

Features == 1..NofFeatures

Absent == [word |-> << >>, rest |-> 0]

\* SimHash::dist: the number of bits in which the values differ
SumTo(v, n) == FoldLeft(LAMBDA a, b : a + b, 0, SubSeq(v.word, 1, n))
Dist(v) == SumTo(v, Len(v.word)) + v.rest

\* As many benches as the value has words, four words for each, at most 4.
NofBenches ==
    CHOOSE n \in 1..4 :
        /\ n = 1 \/ ElementArSize \div 4 >= n
        /\ \A m \in (n+1)..4 : ElementArSize \div 4 < m

ASSUME SearchAssumption ==
    /\ NofFeatures \in Nat /\ BenchSize \in Nat \ {0} /\ ElementArSize \in Nat \ {0}
    /\ NofSampleReads \in Nat /\ MaxCommits \in Nat
    /\ Absent \notin Values
    /\ InitialStores \subseteq [Features -> Values \cup {Absent}]
    /\ Limits \subseteq {l \in Nat \X Nat : l[1] <= l[2]}
    /\ Values \subseteq [word : Seq(Nat), rest : Nat]
    /\ \A v \in Values : NofBenches <= Len(v.word)
    /\ \A v \in Values, f \in Features : [dist |-> Dist(v), idx |-> f] \in Ranks

VARIABLES
    stored,     \* the values in the database
    commits,    \* number of commits so far
    reader,     \* the reader of the map: "database" or "memory"
    loaded,     \* the values as the reader has delivered them
    loading,    \* the next feature the reader delivers
    idar,       \* m_idar
    benches,    \* m_filter: what the benches hold, and their start indices
    phase,      \* where the search is
    limit,      \* maxSimDist and maxProbSimDist of the search
    candidates, \* what the filter has selected and is still to be compared
    toSample,   \* the candidates to be read as samples
    samples,    \* the distances of the samples read
    probSum,    \* the limit for the sum of differences in the benches
    versions    \* the values every feature has had since the search was called

mapVars == <<reader, loaded, loading, idar, benches>>
callVars == <<phase, limit, candidates, toSample, samples, probSum>>
searchVars == <<stored, commits, mapVars, callVars, versions, rankVars>>

SearchTypeOK ==
    /\ stored \in [Features -> Values \cup {Absent}]
    /\ commits \in 0..MaxCommits
    /\ reader \in {"database", "memory"}
    /\ loaded \in [Features -> Values \cup {Absent}]
    /\ loading \in 1..(NofFeatures + 1)
    /\ idar \in Seq(Features)
    /\ \A b \in DOMAIN benches : Len(benches[b].ar) \in 1..BenchSize
    /\ phase \in {"load", "ready", "sample", "compare", "done"}
    /\ limit \in Limits \cup {<<0, 0>>}
    /\ \A c \in candidates \cup toSample : c.dist \in Nat /\ c.idx + 1 \in DOMAIN idar
    /\ samples \in Seq(Nat)
    /\ probSum \in Int
    /\ RankTypeOK

SearchInit ==
    /\ stored \in InitialStores
    /\ commits = 0
    /\ reader \in {"database", "memory"}
    /\ loaded = [f \in Features |-> Absent]
    /\ loading = 1
    /\ idar = << >> /\ benches = << >>
    /\ phase = "load"
    /\ limit = <<0, 0>>
    /\ candidates = {} /\ toSample = {} /\ samples = << >>
    /\ probSum = 0
    /\ versions = [f \in Features |-> {}]
    /\ RankInit

-----------------------------------------------------------------------------
(* The map: SimHashMap::load, SimHashFilter::append.                       *)

\* (fault: one value too many is appended to a bench)
Fault_BenchAppend(bs, word) ==
    IF bs # << >> /\ Len(bs[Len(bs)].ar) <= BenchSize
    THEN [bs EXCEPT ![Len(bs)].ar = Append(@, word)]
    ELSE Append(bs, [startIdx |-> Len(bs) * BenchSize, ar |-> <<word>>])

\* SimHashBenchArray::append of one value: a new bench when the last is full
BenchAppend(bs, word) ==
    IF bs # << >> /\ Len(bs[Len(bs)].ar) < BenchSize
    THEN [bs EXCEPT ![Len(bs)].ar = Append(@, word)]
    ELSE Append(bs, [startIdx |-> Len(bs) * BenchSize, ar |-> <<word>>])

LoadNext ==
    /\ phase = "load" /\ loading <= NofFeatures
    /\ loading' = loading + 1
    /\ LET v == stored[loading]
       IN  IF v = Absent
           THEN UNCHANGED <<loaded, idar, benches>>
           ELSE /\ loaded' = [loaded EXCEPT ![loading] = v]
                /\ idar' = Append(idar, loading)
                /\ benches' = BenchAppend(benches, v.word)
    /\ UNCHANGED <<stored, commits, reader, callVars, versions, rankVars>>

LoadEnds ==
    /\ phase = "load" /\ loading > NofFeatures
    /\ phase' = "ready"
    /\ UNCHANGED <<stored, commits, mapVars, limit, candidates, toSample, samples,
                   probSum, versions, rankVars>>

-----------------------------------------------------------------------------
(* The filter: SimHashFilter::search, SimHashBench::search and filter.     *)

\* Division of integers that rounds towards zero.
Quotient(a, b) == IF a >= 0 THEN a \div b ELSE -((-a) \div b)

\* relProbSimDist: an integer division before the conversion to double
RelProb(l) == l[2] \div ElementArSize

\* (fault: the limit of the sum is that of one bench less)
Fault_RelSum(n, l) ==
    Quotient(2 * ElementArSize * (n - 1) * RelProb(l) - (n - 1) * (l[2] - l[1]), 2 * ElementArSize)

\* relSumSimDist of the n-th bench, n > 1
RelSum(n, l) ==
    Quotient(2 * ElementArSize * n * RelProb(l) - (n - 1) * (l[2] - l[1]), 2 * ElementArSize)

Passes(word, l) ==
    \A n \in 1..NofBenches :
        /\ word[n] <= RelProb(l)
        /\ n > 1 => SumTo([word |-> word], n) <= RelSum(n, l)

Filtered(l) ==
    {[dist |-> SumTo([word |-> benches[p[1]].ar[p[2]]], NofBenches), idx |-> benches[p[1]].startIdx + p[2] - 1] :
        p \in {q \in (DOMAIN benches) \X (1..BenchSize) :
                   q[2] \in DOMAIN benches[q[1]].ar /\ Passes(benches[q[1]].ar[q[2]], l)}}

\* What a ranked list of n elements of S holds.
Best(S, n) == {c \in S : Cardinality({o \in S : Before(o, c)}) < n}

FindSimilar ==
    /\ phase = "ready"
    /\ \E l \in Limits :
          /\ limit' = l
          /\ candidates' = Filtered(l)
          /\ toSample' = Best(Filtered(l), NofSampleReads)
    /\ phase' = IF idar = << >> THEN "done" ELSE "sample"
    /\ versions' = [f \in Features |-> {stored[f]}]
    /\ UNCHANGED <<stored, commits, mapVars, samples, probSum, rankVars>>

-----------------------------------------------------------------------------
(* The samples: SimHashMap::getMaxSimDistFromBestFilterSamples.            *)

\* m_reader->load
Load(f) == IF reader = "memory" THEN loaded[f] ELSE stored[f]

Sample ==
    /\ phase = "sample"
    /\ \E c \in toSample :
          /\ \A o \in toSample : o = c \/ Before(c, o)
          /\ LET v == Load(idar[c.idx + 1])
             IN  samples' = IF v = Absent THEN samples ELSE Append(samples, Dist(v))
          /\ toSample' = toSample \ {c}
    /\ UNCHANGED <<stored, commits, mapVars, phase, limit, candidates, probSum, versions, rankVars>>

\* The distance of the first sample that would not be in the result, if any.
LastDist ==
    IF MaxNofRanks >= Len(samples) THEN 0
    ELSE Min({d \in Range(samples) :
                 MaxNofRanks < Cardinality({i \in DOMAIN samples : samples[i] <= d})})

\* (fault: the share of the benches is that of one bench)
Fault_MaxProbSumDist(sim, prob) == Quotient(prob, ElementArSize)

\* SimHashFilter::maxProbSumDist
MaxProbSumDist(sim, prob) == Quotient(prob + (NofBenches - 1) * sim, ElementArSize)

\* With a distance of 0 asked for the quotient of the limits is 0/0: its
\* conversion to int is undefined, and yields 0 or a large negative number.
SampleEnds ==
    /\ phase = "sample" /\ toSample = {}
    /\ LET sim == limit[1]
           d == IF LastDist = 0 THEN sim ELSE LastDist
       IN  \E scaled \in IF sim = 0 THEN {0, -(2 ^ 30)} ELSE {(d * limit[2]) \div sim + 1} :
              probSum' = MaxProbSumDist(sim, scaled)
    /\ phase' = "compare"
    /\ UNCHANGED <<stored, commits, mapVars, limit, candidates, toSample, samples, versions, rankVars>>

-----------------------------------------------------------------------------
(* The comparison: SimHashMap::findSimilar.                                *)

\* The candidates are compared in the order of the map.
Comparing(c) ==
    /\ phase = "compare" /\ ~inserting
    /\ \A o \in candidates : c.idx <= o.idx

\* (fault: the rank gets the differences counted by the filter)
Fault_Compare ==
    /\ \E c \in candidates :
          /\ Comparing(c)
          /\ candidates' = candidates \ {c}
          /\ LET f == idar[c.idx + 1]
             IN  IF c.dist < probSum /\ Load(f) # Absent /\ Dist(Load(f)) <= limit[1]
                 THEN Insert([dist |-> c.dist, idx |-> f])
                 ELSE UNCHANGED rankVars
    /\ UNCHANGED <<stored, commits, mapVars, phase, limit, toSample, samples, probSum, versions>>

Compare ==
    /\ \E c \in candidates :
          /\ Comparing(c)
          /\ candidates' = candidates \ {c}
          /\ LET f == idar[c.idx + 1]
             IN  IF c.dist < probSum /\ Load(f) # Absent /\ Dist(Load(f)) <= limit[1]
                 THEN Insert([dist |-> Dist(Load(f)), idx |-> f])
                 ELSE UNCHANGED rankVars
    /\ UNCHANGED <<stored, commits, mapVars, phase, limit, toSample, samples, probSum, versions>>

\* The loop of RankList::insert.  No two ranks are equal here, as no feature
\* is a candidate twice: the loop never ends with SearchEqual.
RankStep ==
    /\ SearchLeft \/ SearchRight \/ Scan
    /\ UNCHANGED <<stored, commits, mapVars, callVars, versions>>

Result ==
    /\ phase = "compare" /\ ~inserting /\ candidates = {}
    /\ phase' = "done"
    /\ UNCHANGED <<stored, commits, mapVars, limit, candidates, toSample, samples,
                   probSum, versions, rankVars>>

\* Another client commits a new value of a feature, or its deletion.
Commit ==
    /\ phase # "done" /\ commits < MaxCommits
    /\ commits' = commits + 1
    /\ \E f \in Features, v \in Values \cup {Absent} :
          /\ v # stored[f]
          /\ stored' = [stored EXCEPT ![f] = v]
          /\ versions' = [versions EXCEPT ![f] = @ \cup {v}]
    /\ UNCHANGED <<mapVars, callVars, rankVars>>

\* The search has returned: not a deadlock.
Returned == phase = "done" /\ UNCHANGED searchVars

SearchNext ==
    \/ LoadNext \/ LoadEnds \/ FindSimilar \/ Sample \/ SampleEnds
    \/ Compare \/ RankStep \/ Result \/ Commit \/ Returned

SearchSpec == SearchInit /\ [][SearchNext]_searchVars

-----------------------------------------------------------------------------
(* Properties.                                                             *)

Results == {Listed[i] : i \in DOMAIN Listed}

\* The value the map was loaded with is the one the feature had all along.
Unchanged(f) == loaded[f] # Absent /\ versions[f] = {loaded[f]}

FilterSum(v) == SumTo(v, NofBenches)

\* No stored value near enough is lost between the benches, the filter, the
\* samples, and the ranked list: it is in the result unless its differences
\* exceed the limits of the filter or better features fill the result.
FindsBest ==
    phase = "done" =>
        \A f \in Features :
            LET r == [dist |-> Dist(loaded[f]), idx |-> f]
            IN  /\ Unchanged(f) /\ r.dist <= limit[1]
                /\ Passes(loaded[f].word, limit) /\ FilterSum(loaded[f]) < probSum
                => \/ r \in Results
                   \/ Filled = MaxNofRanks /\ \A o \in Results : Before(o, r)

\* r is within the limit and the distance of a value its feature had during
\* the search; with the values in memory, of the one loaded.
Genuine(r) ==
    /\ r.dist <= limit[1]
    /\ \E v \in IF reader = "memory" THEN {loaded[r.idx]} ELSE versions[r.idx] :
          v # Absent /\ r.dist = Dist(v)

\* Whatever is committed between the filter, the samples and the comparison,
\* the results report distances of values the features had.
ResultsStored == \A r \in Results : Genuine(r)

\* An unchanged value equal to the one searched is found, unless the result
\* is full of values equal to it, if the distance asked for is not so small
\* that the limit of the sum rounds to zero.
ExactFound ==
    phase = "done" /\ (NofBenches - 1) * limit[1] + 2 >= ElementArSize /\ limit[1] > 0 =>
        \A f \in Features :
            Unchanged(f) /\ Dist(loaded[f]) = 0 =>
                \/ [dist |-> 0, idx |-> f] \in Results
                \/ Filled = MaxNofRanks /\ \A o \in Results : o.dist = 0

\* A value whose differences are spread evenly over its words is a candidate
\* if the limit of the filter is a multiple of the number of words.
EvenSpreadIsCandidate ==
    phase = "sample" /\ limit[2] % ElementArSize = 0 =>
        \A i \in DOMAIN idar :
            (\A n \in 1..NofBenches : loaded[idar[i]].word[n] * ElementArSize <= limit[1])
                => \E c \in candidates : c.idx = i - 1

=============================================================================
