---------------------------- MODULE MCDatabaseDump ----------------------------
(* Instance of DatabaseDump for TLC.                                       *)
EXTENDS DatabaseDump

\* A prefix without keys, one with two, one with a single key
MCNofKeys == <<0, 2, 1>>
=============================================================================
