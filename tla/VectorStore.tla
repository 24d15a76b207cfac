----------------------------- MODULE VectorStore -----------------------------
(***************************************************************************)
(* What a vector storage promises its callers: a store of types, of        *)
(* features that have types, and of vectors, that changes only by commits  *)
(* of transactions, each atomic.  A transaction collects definitions; a    *)
(* commit adds all of them to the store, a rollback drops them and a       *)
(* commit that fails leaves store and transaction as they are.             *)
(***************************************************************************)
EXTENDS Integers

CONSTANTS Types, Feats, Vecs, Trans, InitialTypes, NoVector

VARIABLES
    store,   \* the types, the elements <<type, feature>> and their vectors
    pending  \* per transaction the definitions not yet committed

NoVectors == [e \in Types \X Feats |-> NoVector]

Empty == [types |-> {}, elems |-> {}, vec |-> NoVectors]

Nothing == [types |-> {}, elems |-> {}, vec |-> NoVectors, clear |-> FALSE]

\* The store s after the definitions p.
After(s, p) ==
    LET base == IF p.clear THEN Empty ELSE s
    IN  [ types |-> base.types \cup p.types,
          elems |-> base.elems \cup p.elems,
          vec   |-> [e \in Types \X Feats |->
                        IF p.vec[e] = NoVector THEN base.vec[e] ELSE p.vec[e]] ]

Init ==
    /\ store = [types |-> InitialTypes, elems |-> {}, vec |-> NoVectors]
    /\ pending = [x \in Trans |-> Nothing]

DefineType(x, t) ==
    /\ pending' = [pending EXCEPT ![x].types = @ \cup {t}]
    /\ UNCHANGED store

Define(x, t, f, v) ==
    /\ pending' = [pending EXCEPT
                     ![x].types = @ \cup {t},
                     ![x].elems = @ \cup {<<t, f>>},
                     ![x].vec[<<t, f>>] = IF v = NoVector THEN @ ELSE v]
    /\ UNCHANGED store

Clear(x) ==
    /\ pending' = [pending EXCEPT ![x].clear = TRUE]
    /\ UNCHANGED store

Rollback(x) ==
    /\ pending' = [pending EXCEPT ![x] = Nothing]
    /\ UNCHANGED store

Commit(x) ==
    /\ store' = After(store, pending[x])
    /\ pending' = [pending EXCEPT ![x] = Nothing]

Next ==
    \E x \in Trans :
        \/ \E t \in Types : DefineType(x, t)
        \/ \E t \in Types, f \in Feats, v \in Vecs \cup {NoVector} : Define(x, t, f, v)
        \/ Clear(x)
        \/ Rollback(x)
        \/ Commit(x)

Spec == Init /\ [][Next]_<<store, pending>>

=============================================================================
