--------------------------- MODULE VectorDatabase ---------------------------
(***************************************************************************)
(* The key/value database of a vector storage as DatabaseAdapter sees it   *)
(* (src/src/databaseAdapter.hpp, src/src/databaseAdapter.cpp).             *)
(*                                                                         *)
(* One field per key prefix; a key without an entry is mapped to Absent.   *)
(* A database transaction of the external key/value store is a write batch *)
(* with the same fields: the value Keep says that the batch does not touch *)
(* the key, Absent that it deletes it.  Reads never see the batch of a     *)
(* running transaction, DatabaseAdapter reads the committed database only. *)
(*                                                                         *)
(* Data abstraction: a vector is a member of Vecs; its LSH value is named  *)
(* by the vector it was computed from (the model is fixed when the storage *)
(* is created); the list of types of a feature is kept as a set.           *)
(***************************************************************************)
EXTENDS Integers, Sequences, FiniteSets

CONSTANTS
    Types,      \* names of feature types
    Feats,      \* names of features
    Vecs,       \* non-empty vectors
    MaxTypeno,  \* bound on type numbers (the range of Index in the code)
    MaxFeatno,  \* bound on feature numbers
    Absent,     \* the value of a key that has no entry
    Keep        \* in a batch: a key the batch does not touch

ASSUME BoundsAssumption == MaxTypeno \in Nat /\ MaxFeatno \in Nat

ASSUME MarkersAssumption ==
    /\ Absent # Keep
    /\ Absent \notin Types \cup Feats \cup Vecs
    /\ Keep \notin Types \cup Feats \cup Vecs
    /\ Absent \notin Nat /\ Keep \notin Nat
    /\ \A s \in SUBSET (1 .. MaxTypeno) : s # Absent /\ s # Keep

Typenos == 1 .. MaxTypeno
Featnos == 1 .. MaxFeatno

Database ==
    [ typeno    : [Types -> Typenos \cup {Absent}],
      typename  : [Typenos -> Types \cup {Absent}],
      featno    : [Feats -> Featnos \cup {Absent}],
      featname  : [Featnos -> Feats \cup {Absent}],
      vec       : [Typenos \X Featnos -> Vecs \cup {Absent}],
      simhash   : [Typenos \X Featnos -> Vecs \cup {Absent}],
      nofvec    : [Typenos -> Nat \cup {Absent}],
      noftypeno : Nat \cup {Absent},
      noffeatno : Nat \cup {Absent},
      rel       : [Featnos -> (SUBSET Typenos) \cup {Absent}] ]

Batch ==
    [ typeno    : [Types -> Typenos \cup {Absent, Keep}],
      typename  : [Typenos -> Types \cup {Absent, Keep}],
      featno    : [Feats -> Featnos \cup {Absent, Keep}],
      featname  : [Featnos -> Feats \cup {Absent, Keep}],
      vec       : [Typenos \X Featnos -> Vecs \cup {Absent, Keep}],
      simhash   : [Typenos \X Featnos -> Vecs \cup {Absent, Keep}],
      nofvec    : [Typenos -> Nat \cup {Absent, Keep}],
      noftypeno : Nat \cup {Absent, Keep},
      noffeatno : Nat \cup {Absent, Keep},
      rel       : [Featnos -> (SUBSET Typenos) \cup {Absent, Keep}] ]

-----------------------------------------------------------------------------
(* The external key/value store: batches.                                  *)

Overlay(new, old) == IF new = Keep THEN old ELSE new

MapOverlay(new, old) == [k \in DOMAIN old |-> Overlay(new[k], old[k])]

\* Commit of a batch: all its writes and deletions at once.
Applied(b, d) ==
    [ typeno    |-> MapOverlay(b.typeno, d.typeno),
      typename  |-> MapOverlay(b.typename, d.typename),
      featno    |-> MapOverlay(b.featno, d.featno),
      featname  |-> MapOverlay(b.featname, d.featname),
      vec       |-> MapOverlay(b.vec, d.vec),
      simhash   |-> MapOverlay(b.simhash, d.simhash),
      nofvec    |-> MapOverlay(b.nofvec, d.nofvec),
      noftypeno |-> Overlay(b.noftypeno, d.noftypeno),
      noffeatno |-> Overlay(b.noffeatno, d.noffeatno),
      rel       |-> MapOverlay(b.rel, d.rel) ]

EmptyBatch ==
    [ typeno    |-> [t \in Types |-> Keep],
      typename  |-> [n \in Typenos |-> Keep],
      featno    |-> [f \in Feats |-> Keep],
      featname  |-> [n \in Featnos |-> Keep],
      vec       |-> [k \in Typenos \X Featnos |-> Keep],
      simhash   |-> [k \in Typenos \X Featnos |-> Keep],
      nofvec    |-> [n \in Typenos |-> Keep],
      noftypeno |-> Keep,
      noffeatno |-> Keep,
      rel       |-> [n \in Featnos |-> Keep] ]

\* removeSubTree of the external store queues the deletion of the keys that
\* exist when it is called; keys another commit adds later are not deleted.
Removed(b, d) == IF d # Absent THEN Absent ELSE b

MapRemoved(b, d) == [k \in DOMAIN d |-> Removed(b[k], d[k])]

\* (fault: a prefix is missing in the list of subtrees)
Fault_Cleared(b, d) ==
    [ b EXCEPT
        !.typename  = MapRemoved(@, d.typename),
        !.featno    = MapRemoved(@, d.featno),
        !.featname  = MapRemoved(@, d.featname),
        !.vec       = MapRemoved(@, d.vec),
        !.simhash   = MapRemoved(@, d.simhash),
        !.nofvec    = MapRemoved(@, d.nofvec),
        !.noftypeno = Removed(@, d.noftypeno),
        !.noffeatno = Removed(@, d.noffeatno),
        !.rel       = MapRemoved(@, d.rel) ]

\* DatabaseAdapter::Transaction::clear
Cleared(b, d) ==
    [ typeno    |-> MapRemoved(b.typeno, d.typeno),
      typename  |-> MapRemoved(b.typename, d.typename),
      featno    |-> MapRemoved(b.featno, d.featno),
      featname  |-> MapRemoved(b.featname, d.featname),
      vec       |-> MapRemoved(b.vec, d.vec),
      simhash   |-> MapRemoved(b.simhash, d.simhash),
      nofvec    |-> MapRemoved(b.nofvec, d.nofvec),
      noftypeno |-> Removed(b.noftypeno, d.noftypeno),
      noffeatno |-> Removed(b.noffeatno, d.noffeatno),
      rel       |-> MapRemoved(b.rel, d.rel) ]

-----------------------------------------------------------------------------
(* Reads.  A number that is not found is read as 0, a list of types that   *)
(* is not found as the empty list, a vector that is not found is empty.    *)

IndexValue(v) == IF v = Absent THEN 0 ELSE v

ReadTypeno(d, t) == IndexValue(d.typeno[t])
ReadFeatno(d, f) == IndexValue(d.featno[f])
ReadNofTypeno(d) == IndexValue(d.noftypeno)
ReadNofFeatno(d) == IndexValue(d.noffeatno)
ReadNofVectors(d, tno) == IndexValue(d.nofvec[tno])
ReadFeatureTypeRelations(d, fno) == IF d.rel[fno] = Absent THEN {} ELSE d.rel[fno]

\* The vector found by VectorStorageClient::featureVector.
FeatureVector(d, t, f) ==
    IF ReadTypeno(d, t) = 0 \/ ReadFeatno(d, f) = 0
    THEN Absent
    ELSE d.vec[<<d.typeno[t], d.featno[f]>>]

\* VectorStorageClient::types (by DatabaseAdapter::readTypes).
StoredTypes(d) == {t \in Types : d.typeno[t] # Absent}

\* The type numbers that featureTypes lists for a feature.
FeatureTypenos(d, f) ==
    IF ReadFeatno(d, f) = 0 THEN {} ELSE ReadFeatureTypeRelations(d, d.featno[f])

\* The names of these types; readTypeName throws "required key not found in
\* vector database" for a number that has no name.
FeatureTypes(d, f) == {d.typename[n] : n \in FeatureTypenos(d, f)}

\* VectorStorageClient::nofVectors
NofVectors(d, t) ==
    IF ReadTypeno(d, t) = 0 THEN 0 ELSE ReadNofVectors(d, d.typeno[t])

-----------------------------------------------------------------------------
\* VectorStorage::createStorage: the types of the lexer configuration are
\* numbered from 1 on, nothing else is stored.
CreateStorage(lexerTypes) ==
    [ typeno    |-> [t \in Types |->
                        IF \E i \in DOMAIN lexerTypes : lexerTypes[i] = t
                        THEN CHOOSE i \in DOMAIN lexerTypes : lexerTypes[i] = t
                        ELSE Absent],
      typename  |-> [n \in Typenos |->
                        IF n \in DOMAIN lexerTypes THEN lexerTypes[n] ELSE Absent],
      featno    |-> [f \in Feats |-> Absent],
      featname  |-> [n \in Featnos |-> Absent],
      vec       |-> [k \in Typenos \X Featnos |-> Absent],
      simhash   |-> [k \in Typenos \X Featnos |-> Absent],
      nofvec    |-> [n \in Typenos |-> Absent],
      noftypeno |-> Len(lexerTypes),
      noffeatno |-> Absent,
      rel       |-> [n \in Featnos |-> Absent] ]

=============================================================================
