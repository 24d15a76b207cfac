-------------------------- MODULE MCSimhashBuilder --------------------------
(* Instances of SimhashBuilder for TLC.                                     *)
EXTENDS SimhashBuilder

CONSTANTS a, b, c

=============================================================================
