------------------------- MODULE MCSentenceKeySearch -------------------------
(* Instance of SentenceKeySearch for TLC.                                  *)
EXTENDS SentenceKeySearch

CONSTANTS a, b, s, l

\* Names in the order of the database: link before space before letters
Pool == << <<a>>, <<a, l>>, <<a, l, b>>, <<a, s, b>>, <<a, s, b, s, a>>, <<a, b>>, <<b>>, <<b, l, a>>, <<b, s, a>> >>

MCNames == {SelectSeq(Pool, LAMBDA n : n \in S) : S \in SUBSET Range(Pool)}

MCFields == {<<a>>, <<a, s>>, <<a, s, b>>, <<a, l, b>>, <<a, s, b, s, a>>, <<a, b, s, b>>,
             <<l, s, a>>, <<a, s, l, b>>, <<a, b, s, a, b>>, <<a, s, b, l, a>>, <<a, s, s, b>>, <<l, l>>, << >>}
=============================================================================
