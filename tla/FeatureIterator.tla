--------------------------- MODULE FeatureIterator ---------------------------
(***************************************************************************)
(* The iterator on the values of the features of a vector storage          *)
(* (FeatureValueIterator in src/src/vectorStorageClient.cpp) on a cursor   *)
(* of the database (DatabaseAdapter::FeatureCursor).                       *)
(*                                                                         *)
(* The values stored are numbered in the order of the database, 1 .. N.    *)
(* A string passed to skip is known by the pair <<a, b>>: a is the first   *)
(* value not less than the string, N + 1 if there is none, and a .. b are  *)
(* the values that have the string as prefix.                              *)
(***************************************************************************)
EXTENDS Integers

CONSTANTS
    N,          \* the number of values stored
    FetchSizes  \* the values callers pass to fetchValues as a maximum

ASSUME IteratorAssumption == N \in Nat /\ FetchSizes \subseteq Nat \ {0}

VARIABLES
    cursor,     \* position of the cursor: 0 before, N + 1 after all values
    hasInit,    \* m_hasInit
    hasValue,   \* m_hasValue
    value,      \* m_value
    keyprefix,  \* m_keyprefix: the last value that has the prefix
    result      \* the values returned by the last fetchValues

vars == <<cursor, hasInit, hasValue, value, keyprefix, result>>

TypeOK ==
    /\ cursor \in 0 .. N + 1
    /\ hasInit \in BOOLEAN
    /\ hasValue \in BOOLEAN
    /\ value \in 0 .. N
    /\ keyprefix \in 0 .. N
    /\ result \subseteq 1 .. N

Init ==
    /\ cursor = 0
    /\ hasInit = FALSE
    /\ hasValue = FALSE
    /\ value = 0
    /\ keyprefix = N
    /\ result = {}

\* FeatureCursor::skip: a value found is returned, otherwise the one returned
\* before is left as it is.
Seek(a) ==
    /\ cursor' = a
    /\ value' = IF a <= N THEN a ELSE value
    /\ hasInit' = TRUE
    /\ UNCHANGED result

\* An empty prefix is the prefix of all values.
Skip(a) ==
    /\ Seek(a)
    /\ keyprefix' = N
    /\ hasValue' = (a <= N)

SkipPrefix(a, b) ==
    /\ Seek(a)
    /\ keyprefix' = b
    /\ hasValue' = (a <= N /\ a <= b)

\* (fault: a cursor at the end moves on)
Fault_Advance(c) == c + 1

\* seekNext: a cursor at the end stays there.
Advance(c) == IF c <= N THEN c + 1 ELSE c

\* (fault: the value skipped to stays)
Fault_Taken(taken) == hasValue

\* The value the iterator holds is returned only once.
Taken(taken) == hasValue /\ ~ taken

\* The loop of fetchValues: loadNext or loadNextPrefix until n values have
\* been returned or a value without the prefix, or the end, has been met.
LoadMore(c, n, got) ==
    IF n = 0
    THEN cursor' = c /\ result' = got
    ELSE IF c + n <= keyprefix
    THEN cursor' = c + n /\ result' = got \cup (c + 1 .. c + n)
    ELSE /\ cursor' = Advance(IF c <= keyprefix THEN keyprefix ELSE c)
         /\ result' = got \cup (c + 1 .. keyprefix)

\* fetchValues; n = 0 would return the value the iterator holds.
FetchValues(n) ==
    /\ IF ~ hasInit
       THEN LoadMore(1, IF N = 0 THEN n ELSE n - 1, {1} \cap 1 .. N)
       ELSE IF hasValue
       THEN LoadMore(cursor, n - 1, {value})
       ELSE LoadMore(cursor, n, {})
    /\ value' = IF hasInit /\ hasValue THEN 0 ELSE value
    /\ hasValue' = Taken(hasInit)
    /\ hasInit' = TRUE
    /\ UNCHANGED keyprefix

Next ==
    \/ \E a \in 1 .. N + 1 : Skip(a)
    \/ \E a \in 1 .. N + 1 : \E b \in a - 1 .. N : SkipPrefix(a, b)
    \/ \E n \in FetchSizes : FetchValues(n)

Spec == Init /\ [][Next]_vars

-----------------------------------------------------------------------------
(* Properties.                                                             *)

\* The next value to be delivered, as the caller sees it.
NextValue ==
    IF ~ hasInit THEN 1
    ELSE IF hasValue THEN value
    ELSE IF cursor <= keyprefix THEN cursor + 1 ELSE keyprefix + 1

Iterator == INSTANCE OrderedIterator WITH
                next <- NextValue, bound <- keyprefix, result <- result

\* Skips, skips to a prefix and fetches in any order deliver the values of
\* the abstract iterator: none twice, none left out, none without the prefix.
ImplementsIterator == Iterator!Spec

=============================================================================
