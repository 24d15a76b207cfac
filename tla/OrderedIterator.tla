--------------------------- MODULE OrderedIterator ---------------------------
(***************************************************************************)
(* What an iterator on the values of the features promises its caller: the *)
(* values are delivered in their order, each once, from the value the      *)
(* caller has skipped to on and as long as they have the prefix asked for. *)
(*                                                                         *)
(* The values stored are numbered in their order, 1 .. N.                  *)
(***************************************************************************)
EXTENDS Integers

CONSTANTS N, FetchSizes

VARIABLES
    next,   \* the value to be delivered next
    bound,  \* the last value to be delivered
    result  \* the values delivered by the last fetch

Init == next = 1 /\ bound = N /\ result = {}

Skip(a, b) ==
    /\ next' = a
    /\ bound' = b
    /\ UNCHANGED result

\* The next n values, or as many as are left.
Fetch(n) ==
    LET to == IF next + n - 1 <= bound THEN next + n - 1 ELSE bound
    IN  /\ result' = next .. to
        /\ next' = IF next <= to THEN to + 1 ELSE next
        /\ UNCHANGED bound

Next ==
    \/ \E a \in 1 .. N + 1 : \E b \in a - 1 .. N : Skip(a, b)
    \/ \E n \in FetchSizes : Fetch(n)

Spec == Init /\ [][Next]_<<next, bound, result>>

=============================================================================
