------------------------- MODULE MCVectorTransaction -------------------------
(* Instances of VectorTransaction for TLC.                                  *)
EXTENDS VectorTransaction, TLC

CONSTANTS t1, t2, f1, f2, v1, v2, x1, x2

NoLexerTypes == << >>
OneLexerType == <<t1>>

\* Types are told apart when the lexer configuration names one of them: they
\* are interchangeable only with NoLexerTypes.
SymmetricTypes == Permutations({t1, t2}) \cup Permutations({x1, x2})
SymmetricSingle == Permutations({f1, f2}) \cup Permutations({v1, v2})

=============================================================================
