-------------------------- MODULE VectorTransaction --------------------------
(***************************************************************************)
(* The transactions of one vector storage client                           *)
(* (src/src/vectorStorageTransaction.cpp): definitions are collected in    *)
(* tables local to the transaction, commit maps the local identifiers to   *)
(* numbers of the database, fills the database batch and commits it.  A    *)
(* commit holds the mutex of the client (TransactionLock) from its first   *)
(* read to the outcome of the database commit.                             *)
(*                                                                         *)
(* defs is a history variable: what the caller has defined in a            *)
(* transaction and not yet committed or rolled back.                       *)
(***************************************************************************)
EXTENDS VectorDatabase

CONSTANTS
    Trans,        \* transaction objects, each used by one thread
    NoTrans,      \* the client mutex is free
    LexerTypes,   \* the types createStorage numbers, a sequence
    Usage,        \* what callers do, see below
    MaxElements   \* bound on the elements defined in a transaction

(***************************************************************************)
(* Usage is a subset of                                                    *)
(*   "retry"  commit again, or define more, after a commit that failed;    *)
(*            without it a failed commit is followed by a rollback         *)
(*   "clear"  call clear() in a transaction of its own                     *)
(*   "mix"    call clear() and define elements in the same transaction     *)
(***************************************************************************)
ASSUME UsageAssumption == Usage \subseteq {"retry", "clear", "mix"}

ASSUME TransAssumption == NoTrans \notin Trans /\ MaxElements \in Nat

ASSUME LexerAssumption ==
    /\ LexerTypes \in Seq(Types)
    /\ Len(LexerTypes) <= MaxTypeno
    /\ \A i, j \in DOMAIN LexerTypes : LexerTypes[i] = LexerTypes[j] => i = j

VARIABLES
    db,         \* the committed database
    lock,       \* VectorStorageClient::m_transaction_mutex
    pc,         \* "open", "prepared" (inside commit) or "failed"
    typetab,    \* m_typetab: local type identifiers
    nametab,    \* m_nametab: local feature identifiers
    vecar,      \* m_vecar: per local type the elements defined
    relations,  \* m_featTypeRelations: pairs <<local feature, local type>>
    batch,      \* m_transaction: the database transaction
    defs        \* history: what the caller defined

locals == <<typetab, nametab, vecar, relations>>
vars == <<db, lock, pc, typetab, nametab, vecar, relations, batch, defs>>

VectorDef == [id : Nat, vec : Vecs \cup {Absent}]

Definitions ==
    [ types : SUBSET Types,
      elems : SUBSET (Types \X Feats),
      vec   : [Types \X Feats -> Vecs \cup {Absent}],
      clear : BOOLEAN ]

NoDefinitions ==
    [ types |-> {}, elems |-> {},
      vec |-> [e \in Types \X Feats |-> Absent], clear |-> FALSE ]

TypeOK ==
    /\ db \in Database
    /\ lock \in Trans \cup {NoTrans}
    /\ pc \in [Trans -> {"open", "prepared", "failed"}]
    /\ typetab \in [Trans -> Seq(Types)]
    /\ nametab \in [Trans -> Seq(Feats)]
    /\ vecar \in [Trans -> Seq(Seq(VectorDef))]
    /\ relations \in [Trans -> SUBSET (Nat \X Nat)]
    /\ batch \in [Trans -> Batch]
    /\ defs \in [Trans -> Definitions]

Init ==
    /\ db = CreateStorage(LexerTypes)
    /\ lock = NoTrans
    /\ pc = [x \in Trans |-> "open"]
    /\ typetab = [x \in Trans |-> << >>]
    /\ nametab = [x \in Trans |-> << >>]
    /\ vecar = [x \in Trans |-> << >>]
    /\ relations = [x \in Trans |-> {}]
    /\ batch = [x \in Trans |-> EmptyBatch]
    /\ defs = [x \in Trans |-> NoDefinitions]

-----------------------------------------------------------------------------
(* Definitions.                                                            *)

\* SymbolTable::getOrCreate: a known symbol keeps its index, a new one gets
\* the next.
GetOrCreate(tab, key) ==
    IF \E i \in DOMAIN tab : tab[i] = key THEN tab ELSE Append(tab, key)

SymbolIndex(tab, key) == CHOOSE i \in DOMAIN tab : tab[i] = key

MayDefine(x) ==
    /\ pc[x] = "open" \/ (pc[x] = "failed" /\ "retry" \in Usage)
    /\ defs[x].clear => "mix" \in Usage

\* (fault: a slot is added for a known type, too)
Fault_TypeSlots(x, tab) == Append(vecar[x], << >>)

\* One slot of m_vecar per local type.
TypeSlots(x, tab) ==
    IF Len(tab) > Len(vecar[x]) THEN Append(vecar[x], << >>) ELSE vecar[x]

DefineFeatureType(x, t) ==
    /\ MayDefine(x)
    /\ LET tab == GetOrCreate(typetab[x], t)
       IN  /\ typetab' = [typetab EXCEPT ![x] = tab]
           /\ vecar' = [vecar EXCEPT ![x] = TypeSlots(x, tab)]
    /\ defs' = [defs EXCEPT ![x].types = @ \cup {t}]
    /\ UNCHANGED <<db, lock, pc, nametab, relations, batch>>

\* The positions <<local type, element>> of m_vecar.
Positions(elems) ==
    {p \in (DOMAIN elems) \X (1 .. MaxElements) : p[2] \in DOMAIN elems[p[1]]}

WithElement(d, t, f, v) ==
    [ types |-> d.types \cup {t},
      elems |-> d.elems \cup {<<t, f>>},
      vec   |-> IF v = Absent THEN d.vec ELSE [d.vec EXCEPT ![<<t, f>>] = v],
      clear |-> d.clear ]

\* defineElement; v = Absent is a feature without a vector (defineFeature).
DefineElement(x, t, f, v) ==
    /\ MayDefine(x)
    /\ Cardinality(Positions(vecar[x])) < MaxElements
    /\ LET ttab == GetOrCreate(typetab[x], t)
           ntab == GetOrCreate(nametab[x], f)
           tid  == SymbolIndex(ttab, t)
           fid  == SymbolIndex(ntab, f)
           slots == TypeSlots(x, ttab)
       IN  /\ typetab' = [typetab EXCEPT ![x] = ttab]
           /\ nametab' = [nametab EXCEPT ![x] = ntab]
           /\ vecar' = [vecar EXCEPT ![x] =
                          [slots EXCEPT ![tid] = Append(@, [id |-> fid, vec |-> v])]]
           /\ relations' = [relations EXCEPT ![x] = @ \cup {<<fid, tid>>}]
    /\ defs' = [defs EXCEPT ![x] = WithElement(@, t, f, v)]
    /\ UNCHANGED <<db, lock, pc, batch>>

\* clear() queues deletions in the database batch and leaves the local
\* tables as they are.
Clear(x) ==
    /\ "clear" \in Usage
    /\ pc[x] = "open"
    /\ typetab[x] = << >> \/ "mix" \in Usage
    /\ batch' = [batch EXCEPT ![x] = Cleared(@, db)]
    /\ defs' = [defs EXCEPT ![x].clear = TRUE]
    /\ UNCHANGED <<db, lock, pc, typetab, nametab, vecar, relations>>

\* reset(): the local tables.
ResetLocals(x) ==
    /\ typetab' = [typetab EXCEPT ![x] = << >>]
    /\ nametab' = [nametab EXCEPT ![x] = << >>]
    /\ vecar' = [vecar EXCEPT ![x] = << >>]
    /\ relations' = [relations EXCEPT ![x] = {}]
    /\ defs' = [defs EXCEPT ![x] = NoDefinitions]

Rollback(x) ==
    /\ pc[x] \in {"open", "failed"}
    /\ batch' = [batch EXCEPT ![x] = EmptyBatch]
    /\ ResetLocals(x)
    /\ pc' = [pc EXCEPT ![x] = "open"]
    /\ UNCHANGED <<db, lock>>

-----------------------------------------------------------------------------
(* The mapping of local identifiers to numbers of the database.            *)

\* (fault: known symbols use up numbers, too)
Fault_Allocated(known, counter) ==
    [i \in DOMAIN known |->
        IF known[i] = 0 THEN counter + i ELSE known[i]]

\* The symbols a database lookup does not find (0) are numbered from the
\* counter on, in the order of the local table.
Allocated(known, counter) ==
    [i \in DOMAIN known |->
        IF known[i] = 0
        THEN counter + Cardinality({j \in 1 .. i : known[j] = 0})
        ELSE known[i]]

NofNew(known) == Cardinality({j \in DOMAIN known : known[j] = 0})

\* (fault: types are numbered without looking them up)
Fault_KnownTypes(d, tab) == [i \in DOMAIN tab |-> 0]

KnownTypes(d, tab) == [i \in DOMAIN tab |-> ReadTypeno(d, tab[i])]
KnownFeats(d, tab) == [i \in DOMAIN tab |-> ReadFeatno(d, tab[i])]

TypeNumbers(d, tab) == Allocated(KnownTypes(d, tab), ReadNofTypeno(d))
FeatNumbers(d, tab) == Allocated(KnownFeats(d, tab), ReadNofFeatno(d))

\* writeType and writeTypeno, or their counterparts for features: the name
\* to number entry and its inverse.
WrittenNumbers(map, tab, known, nums) ==
    [s \in DOMAIN map |->
        IF \E i \in DOMAIN tab : tab[i] = s /\ known[i] = 0
        THEN nums[CHOOSE i \in DOMAIN tab : tab[i] = s /\ known[i] = 0]
        ELSE map[s]]

\* (fault: the name is written for the local identifier)
Fault_WrittenNames(map, tab, known, nums) ==
    [n \in DOMAIN map |-> IF n \in DOMAIN tab /\ known[n] = 0 THEN tab[n] ELSE map[n]]

WrittenNames(map, tab, known, nums) ==
    [n \in DOMAIN map |->
        IF \E i \in DOMAIN tab : nums[i] = n /\ known[i] = 0
        THEN tab[CHOOSE i \in DOMAIN tab : nums[i] = n /\ known[i] = 0]
        ELSE map[n]]

\* The elements with their local feature identifiers replaced by feature
\* numbers (setId).  features[id-1] past the end of the array is a read of
\* memory that is not part of it: any number.
Numbered(elems, fnos, any) ==
    [j \in DOMAIN elems |->
        [elems[j] EXCEPT !.id = IF @ \in DOMAIN fnos THEN fnos[@] ELSE any]]

InRange(x) == \A i \in DOMAIN vecar[x] : \A j \in DOMAIN vecar[x][i] :
                vecar[x][i][j].id \in DOMAIN nametab[x]

\* What a read past the end may find, as far as it matters.
AnyNumber(x) == IF InRange(x) THEN {1} ELSE Featnos

\* The elements of the first k local types renumbered.
Renumbered(x, fnos, any, k) ==
    [i \in DOMAIN vecar[x] |->
        IF i <= k THEN Numbered(vecar[x][i], fnos, any) ELSE vecar[x][i]]

\* The positions <<type, element>> whose vector is written under a key.
Writes(elems, tnos, k, tno, fno) ==
    {p \in Positions(elems) :
        /\ p[1] <= k /\ tnos[p[1]] = tno
        /\ elems[p[1]][p[2]].id = fno
        /\ elems[p[1]][p[2]].vec # Absent}

\* (fault: the first of several writes counts)
Fault_Later(p, q) == p[1] < q[1] \/ (p[1] = q[1] /\ p[2] <= q[2])

Later(p, q) == p[1] > q[1] \/ (p[1] = q[1] /\ p[2] >= q[2])

\* writeVector and writeSimHash: the last one of several writes counts.
WrittenVectors(map, elems, tnos, k) ==
    [key \in DOMAIN map |->
        LET w == Writes(elems, tnos, k, key[1], key[2])
        IN  IF w = {} THEN map[key]
            ELSE LET last == CHOOSE p \in w : \A q \in w : Later(p, q)
                 IN  elems[last[1]][last[2]].vec]

\* (fault: counts definitions instead of features)
Fault_NewVectors(d, elems, tno) ==
    {j \in DOMAIN elems :
        elems[j].vec # Absent /\ d.vec[<<tno, elems[j].id>>] = Absent}

\* featset: the features that get their first vector of this type.
NewVectors(d, elems, tno) ==
    {elems[j].id : j \in {j \in DOMAIN elems :
        elems[j].vec # Absent /\ d.vec[<<tno, elems[j].id>>] = Absent}}

NewNofVectors(d, elems, tno, isnew) ==
    (IF isnew THEN 0 ELSE ReadNofVectors(d, tno))
        + Cardinality(NewVectors(d, elems, tno))

WrittenCounts(map, d, elems, known, tnos, k) ==
    [n \in DOMAIN map |->
        LET ts == {i \in 1 .. k : tnos[i] = n}
        IN  IF ts = {} THEN map[n]
            ELSE LET i == CHOOSE i \in ts : \A j \in ts : j <= i
                 IN  NewNofVectors(d, elems[i], n, known[i] = 0)]

\* (fault: the stored relations are overwritten)
Fault_MergedRelations(stored, added) == added

\* The relations of a feature are merged with the stored ones.
MergedRelations(stored, added) == stored \cup added

WrittenRelations(map, d, rels, tnos, fnos) ==
    [n \in DOMAIN map |->
        IF \E r \in rels : fnos[r[1]] = n
        THEN MergedRelations(ReadFeatureTypeRelations(d, n),
                             {tnos[r[2]] : r \in {r \in rels : fnos[r[1]] = n}})
        ELSE map[n]]

-----------------------------------------------------------------------------
(* Commit.                                                                 *)

\* The batch after the numbers have been written and the elements of the
\* first k local types, renumbered to elems, and the relations rels.
FilledBatch(x, elems, k, rels) ==
    LET b  == batch[x]
        kt == KnownTypes(db, typetab[x])
        kf == KnownFeats(db, nametab[x])
        tnos == TypeNumbers(db, typetab[x])
        fnos == FeatNumbers(db, nametab[x])
    IN  [ typeno    |-> WrittenNumbers(b.typeno, typetab[x], kt, tnos),
          typename  |-> WrittenNames(b.typename, typetab[x], kt, tnos),
          featno    |-> WrittenNumbers(b.featno, nametab[x], kf, fnos),
          featname  |-> WrittenNames(b.featname, nametab[x], kf, fnos),
          vec       |-> WrittenVectors(b.vec, elems, tnos, k),
          simhash   |-> WrittenVectors(b.simhash, elems, tnos, k),
          nofvec    |-> WrittenCounts(b.nofvec, db, elems, kt, tnos, k),
          noftypeno |-> ReadNofTypeno(db) + NofNew(kt),
          noffeatno |-> ReadNofFeatno(db) + NofNew(kf),
          rel       |-> WrittenRelations(b.rel, db, rels, tnos, fnos) ]

\* The bounds on the numbers (the code has the range of a 32 bit Index).
NumbersFit(x) ==
    /\ ReadNofTypeno(db) + NofNew(KnownTypes(db, typetab[x])) <= MaxTypeno
    /\ ReadNofFeatno(db) + NofNew(KnownFeats(db, nametab[x])) <= MaxFeatno

MayCommit(x) == pc[x] = "open" \/ (pc[x] = "failed" /\ "retry" \in Usage)

\* (fault: the commit does not take the mutex)
Fault_LockAcquired(x) == lock' = x
LockAcquired(x) == lock = NoTrans /\ lock' = x

\* The commit up to the database commit.  The mutex keeps every other
\* commit out, the database does not change in between.
PrepareCommit(x) ==
    /\ MayCommit(x)
    /\ LockAcquired(x)
    /\ Len(typetab[x]) = Len(vecar[x])
    /\ NumbersFit(x)
    /\ \E any \in AnyNumber(x) :
         LET k == Len(typetab[x])
             elems == Renumbered(x, FeatNumbers(db, nametab[x]), any, k)
         IN  /\ vecar' = [vecar EXCEPT ![x] = elems]
             /\ batch' = [batch EXCEPT ![x] = FilledBatch(x, elems, k, relations[x])]
    /\ pc' = [pc EXCEPT ![x] = "prepared"]
    /\ UNCHANGED <<db, typetab, nametab, relations, defs>>

\* A read of the database throws: at the first read, when nothing has been
\* written yet, or when the elements of the first k local types have been
\* written.  The exception leaves the batch and the local tables as they are.
CommitThrows(x) ==
    /\ MayCommit(x)
    /\ lock = NoTrans
    /\ NumbersFit(x)
    /\ \/ UNCHANGED <<vecar, batch>>
       \/ /\ Len(typetab[x]) = Len(vecar[x])
          /\ \E k \in 0 .. Len(typetab[x]), any \in AnyNumber(x) :
               LET elems == Renumbered(x, FeatNumbers(db, nametab[x]), any, k)
               IN  /\ vecar' = [vecar EXCEPT ![x] = elems]
                   /\ batch' = [batch EXCEPT ![x] = FilledBatch(x, elems, k, {})]
    /\ pc' = [pc EXCEPT ![x] = "failed"]
    /\ UNCHANGED <<db, lock, typetab, nametab, relations, defs>>

\* The database commit succeeds: the batch is applied, the transaction reset.
CommitSucceeds(x) ==
    /\ pc[x] = "prepared"
    /\ db' = Applied(batch[x], db)
    /\ batch' = [batch EXCEPT ![x] = EmptyBatch]
    /\ ResetLocals(x)
    /\ lock' = NoTrans
    /\ pc' = [pc EXCEPT ![x] = "open"]

\* The database commit fails: commit returns false without a reset.
CommitFails(x) ==
    /\ pc[x] = "prepared"
    /\ lock' = NoTrans
    /\ pc' = [pc EXCEPT ![x] = "failed"]
    /\ UNCHANGED <<db, typetab, nametab, vecar, relations, batch, defs>>

Step(x) ==
    \/ \E t \in Types : DefineFeatureType(x, t)
    \/ \E t \in Types, f \in Feats, v \in Vecs \cup {Absent} : DefineElement(x, t, f, v)
    \/ Clear(x)
    \/ Rollback(x)
    \/ PrepareCommit(x)
    \/ CommitThrows(x)
    \/ CommitSucceeds(x)
    \/ CommitFails(x)

Next == \E x \in Trans : Step(x)

Spec == Init /\ [][Next]_vars

-----------------------------------------------------------------------------
(* Properties.                                                             *)

\* A commit never meets the "logic error in vector transaction: array sizes
\* do not match": m_vecar has one slot per local type.
NoLogicError == \A x \in Trans : Len(typetab[x]) = Len(vecar[x])

\* A map from names to numbers and one from numbers to names.
InverseMaps(nos, names) ==
    /\ \A s \in DOMAIN nos : nos[s] # Absent => names[nos[s]] = s
    /\ \A n \in DOMAIN names : names[n] # Absent => nos[names[n]] = n

\* Names and numbers are inverse to each other: no two names share a number
\* and no number has lost its name, whatever the order in which concurrent
\* transactions number their types and features.
NumbersInverse ==
    /\ InverseMaps(db.typeno, db.typename)
    /\ InverseMaps(db.featno, db.featname)

\* nofTypes() and nofFeatures() return the number of types and features
\* stored: the counters and the numbers in use never drift apart.
CountersExact ==
    /\ {n \in Typenos : db.typename[n] # Absent} = 1 .. ReadNofTypeno(db)
    /\ {n \in Featnos : db.featname[n] # Absent} = 1 .. ReadNofFeatno(db)

\* nofVectors() of a type is the number of features that have a vector of
\* this type, also when a vector is defined twice in a transaction or
\* redefined by another one.
VectorCountExact ==
    \A n \in Typenos :
        ReadNofVectors(db, n) = Cardinality({f \in Featnos : db.vec[<<n, f>>] # Absent})

\* Every vector is stored under numbers that have a name and is listed in
\* the relations of its feature, every relation names a type, and the LSH
\* value stored is the one of the vector: neither the search (readFeatName)
\* nor featureTypes (readTypeName) meets a missing key.
NoDanglingNumbers ==
    /\ \A n \in Typenos, f \in Featnos : db.vec[<<n, f>>] # Absent =>
          /\ db.typename[n] # Absent /\ db.featname[f] # Absent
          /\ n \in ReadFeatureTypeRelations(db, f)
          /\ db.simhash[<<n, f>>] = db.vec[<<n, f>>]
    /\ \A n \in Typenos, f \in Featnos : db.simhash[<<n, f>>] # Absent =>
          db.vec[<<n, f>>] # Absent
    /\ \A f \in Feats : Absent \notin FeatureTypes(db, f)

\* A commit that returns true has stored what its caller defined: every
\* type, every relation and the last vector given to every element.
CommitStoresDefinitions ==
    [][\A x \in Trans : CommitSucceeds(x) =>
         /\ defs[x].types \subseteq StoredTypes(db')
         /\ \A e \in defs[x].elems : e[1] \in FeatureTypes(db', e[2])
         /\ \A e \in defs[x].elems : defs[x].vec[e] # Absent =>
              FeatureVector(db', e[1], e[2]) = defs[x].vec[e]]_vars

\* A number once given to a type or a feature is never given away: the LSH
\* maps that the client keeps in memory and the lexer refer to numbers.
NumbersStable ==
    [][/\ \A t \in StoredTypes(db) : db'.typeno[t] = db.typeno[t]
       /\ \A f \in Feats : db.featno[f] # Absent => db'.featno[f] = db.featno[f]]_vars

\* What the database holds for the interface: the state of VectorStore.
StoreOf(d) ==
    [ types |-> StoredTypes(d),
      elems |-> {e \in Types \X Feats : e[1] \in FeatureTypes(d, e[2])},
      vec   |-> [e \in Types \X Feats |-> FeatureVector(d, e[1], e[2])] ]

Store == INSTANCE VectorStore WITH
            store <- StoreOf(db), pending <- defs,
            InitialTypes <- {LexerTypes[i] : i \in DOMAIN LexerTypes},
            NoVector <- Absent

\* The transactions implement the abstract store: the effects of a commit
\* appear at once or not at all, and nothing else changes the store.
ImplementsStore == Store!Spec

=============================================================================
