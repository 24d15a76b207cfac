--------------------------- MODULE MCVectorClient ---------------------------
(* Instances of VectorClient for TLC.                                       *)
EXTENDS VectorClient, TLC

CONSTANTS t1, t2, f1, f2, v1, v2, x1, s1, s2

NoLexerTypes == << >>
OneLexerType == <<t1>>

SymmetricVecs == Permutations({v1, v2})
SymmetricFeats == Permutations({f1, f2}) \cup Permutations({s1, s2})

=============================================================================
