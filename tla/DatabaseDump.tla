----------------------------- MODULE DatabaseDump -----------------------------
(***************************************************************************)
(* The dump of a storage: VectorStorageDump::nextChunk collects rows of    *)
(* the iterator DatabaseAdapter::DumpIterator, which goes through the      *)
(* prefixes of the keys in a fixed order.  A row is the pair of the        *)
(* position of its prefix in that order and the position of its key among  *)
(* those with the prefix.  Nobody commits meanwhile.                       *)
(***************************************************************************)
EXTENDS Integers, Sequences

CONSTANTS
    NofKeys,   \* per prefix, in the order of the dump, the number of its keys
    ChunkRows  \* NofKeyValuePairsPerChunk

VARIABLES
    keyidx,    \* m_keyidx, counted from 1
    first,     \* m_first: the next key is the first with its prefix
    cursor,    \* the position of the cursor among the keys of the prefix
    phase,     \* "idle", "collect", "done"
    rowcnt, chunk, \* the counter and the rows of the chunk collected
    dumped     \* the rows returned to the caller

vars == <<keyidx, first, cursor, phase, rowcnt, chunk, dumped>>

DumpInit ==
    /\ keyidx = 1 /\ first = TRUE /\ cursor = 0
    /\ phase = "idle" /\ rowcnt = 0 /\ chunk = << >>
    /\ dumped = {}

\* The caller asks for chunks until one is empty.
NextChunk ==
    /\ phase = "idle"
    /\ phase' = "collect" /\ rowcnt' = 0 /\ chunk' = << >>
    /\ UNCHANGED <<keyidx, first, cursor, dumped>>

\* The key the cursor is set to, past the last one if there is none
SoughtKey == IF first THEN 1 ELSE cursor + 1

Collecting == phase = "collect" /\ rowcnt <= ChunkRows

\* The cursor finds a key; "first" is left as it is.
DumpRow ==
    /\ Collecting /\ keyidx <= Len(NofKeys)
    /\ SoughtKey <= NofKeys[keyidx]
    /\ cursor' = SoughtKey
    /\ chunk' = Append(chunk, <<keyidx, SoughtKey>>)
    /\ rowcnt' = rowcnt + 1
    /\ UNCHANGED <<keyidx, first, phase, dumped>>

NextPrefix ==
    /\ Collecting /\ keyidx <= Len(NofKeys)
    /\ SoughtKey > NofKeys[keyidx]
    /\ keyidx' = keyidx + 1 /\ first' = TRUE
    /\ UNCHANGED <<cursor, phase, rowcnt, chunk, dumped>>

ChunkEnds ==
    /\ phase = "collect"
    /\ rowcnt > ChunkRows \/ keyidx > Len(NofKeys)
    /\ dumped' = dumped \cup {chunk[i] : i \in DOMAIN chunk}
    /\ phase' = IF chunk = << >> THEN "done" ELSE "idle"
    /\ UNCHANGED <<keyidx, first, cursor, rowcnt, chunk>>

Step == NextChunk \/ DumpRow \/ NextPrefix \/ ChunkEnds

\* The dump has ended: not a deadlock.
Ended == phase = "done" /\ UNCHANGED vars

\* One thread calls nextChunk until it returns false.
DumpSpec == DumpInit /\ [][Step \/ Ended]_vars /\ WF_vars(Step)

-----------------------------------------------------------------------------

\* Every row stored is dumped in the end: "Interface for fetching the dump of
\* a strus vector storage".
DumpComplete == \A i \in DOMAIN NofKeys : \A j \in 1..NofKeys[i] : <>(<<i, j>> \in dumped)

=============================================================================
