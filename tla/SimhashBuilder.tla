---------------------------- MODULE SimhashBuilder ----------------------------
(***************************************************************************)
(* Calculation of the LSH values of an array by several threads            *)
(* (src/src/getSimhashValues.cpp).  The threads take chunks of the array   *)
(* from a shared atomic counter until it is past the end of the array; a   *)
(* thread that got an index past the end gives it back.  The caller joins  *)
(* all threads and throws if one of them has reported an error.            *)
(***************************************************************************)
EXTENDS Integers, FiniteSets

CONSTANTS
    Threads,    \* the threads started
    Size,       \* length of the array of vectors
    ChunkSize   \* elements per chunk

ASSUME SizeAssumption ==
    /\ IsFiniteSet(Threads) /\ Threads # {}
    /\ Size \in Nat
    /\ ChunkSize \in Nat \ {0}

VARIABLES
    chunkIndex, \* m_chunkIndex
    pc,         \* per thread: "fetch", "giveback", "build", "done"
    chunk,      \* per thread the elements of its chunk not yet calculated
    result,     \* the elements of the array calculated
    errors,     \* the threads that have reported an error
    outcome     \* of the call: "running", "returned" or "thrown"

vars == <<chunkIndex, pc, chunk, result, errors, outcome>>

Elements == 0 .. Size - 1

\* (fault: the last chunk has the size of the others)
Fault_ChunkOf(index) == index * ChunkSize .. (index + 1) * ChunkSize - 1

\* fetch: the elements of a chunk.
ChunkOf(index) == {e \in Elements : index * ChunkSize <= e /\ e < (index + 1) * ChunkSize}

PastEnd(index) == index * ChunkSize >= Size

TypeOK ==
    /\ chunkIndex \in Nat
    /\ pc \in [Threads -> {"fetch", "giveback", "build", "done"}]
    /\ chunk \in [Threads -> SUBSET Elements]
    /\ result \in [Elements -> BOOLEAN]
    /\ errors \subseteq Threads
    /\ outcome \in {"running", "returned", "thrown"}

Init ==
    /\ chunkIndex = 0
    /\ pc = [t \in Threads |-> "fetch"]
    /\ chunk = [t \in Threads |-> {}]
    /\ result = [e \in Elements |-> FALSE]
    /\ errors = {}
    /\ outcome = "running"

\* allocIncrement: atomic, the old value is the index fetched.
Fetch(t) ==
    /\ pc[t] = "fetch"
    /\ chunkIndex' = chunkIndex + 1
    /\ IF PastEnd(chunkIndex)
       THEN /\ pc' = [pc EXCEPT ![t] = "giveback"]
            /\ UNCHANGED chunk
       ELSE /\ pc' = [pc EXCEPT ![t] = "build"]
            /\ chunk' = [chunk EXCEPT ![t] = ChunkOf(chunkIndex)]
    /\ UNCHANGED <<result, errors, outcome>>

\* (fault: the index is given back twice)
Fault_Given(index) == index - 2

Given(index) == index - 1

\* (fault: the thread fetches again instead of ending)
Fault_GiveBack(t) ==
    /\ pc[t] = "giveback"
    /\ chunkIndex' = Given(chunkIndex)
    /\ pc' = [pc EXCEPT ![t] = "fetch"]
    /\ UNCHANGED <<chunk, result, errors, outcome>>

\* decrement: the index past the end is given back, the thread ends.
GiveBack(t) ==
    /\ pc[t] = "giveback"
    /\ chunkIndex' = Given(chunkIndex)
    /\ pc' = [pc EXCEPT ![t] = "done"]
    /\ UNCHANGED <<chunk, result, errors, outcome>>

FirstOf(s) == CHOOSE e \in s : \A f \in s : e <= f

\* One element of the chunk is calculated, in the order of the array.
Build(t) ==
    /\ pc[t] = "build"
    /\ chunk[t] # {}
    /\ result' = [result EXCEPT ![FirstOf(chunk[t])] = TRUE]
    /\ chunk' = [chunk EXCEPT ![t] = @ \ {FirstOf(@)}]
    /\ UNCHANGED <<chunkIndex, pc, errors, outcome>>

NextChunk(t) ==
    /\ pc[t] = "build"
    /\ chunk[t] = {}
    /\ pc' = [pc EXCEPT ![t] = "fetch"]
    /\ UNCHANGED <<chunkIndex, chunk, result, errors, outcome>>

\* (fault: the error is caught and not reported)
Fault_Reported(t) == errors

Reported(t) == errors \cup {t}

\* An element cannot be calculated: the thread reports the error and ends,
\* the rest of its chunk is left to nobody.
Fail(t) ==
    /\ pc[t] = "build"
    /\ chunk[t] # {}
    /\ errors' = Reported(t)
    /\ pc' = [pc EXCEPT ![t] = "done"]
    /\ UNCHANGED <<chunkIndex, chunk, result, outcome>>

\* The caller after the last join.
Join ==
    /\ outcome = "running"
    /\ \A t \in Threads : pc[t] = "done"
    /\ outcome' = IF errors # {} THEN "thrown" ELSE "returned"
    /\ UNCHANGED <<chunkIndex, pc, chunk, result, errors>>

Step(t) == Fetch(t) \/ GiveBack(t) \/ Build(t) \/ NextChunk(t) \/ Fail(t)

Next == Join \/ \E t \in Threads : Step(t)

\* Every thread runs until it ends, the caller waits for all of them.
Fairness == WF_vars(Join) /\ \A t \in Threads : WF_vars(Step(t))

Spec == Init /\ [][Next]_vars

FairSpec == Spec /\ Fairness

-----------------------------------------------------------------------------
(* Properties.                                                             *)

\* No two threads write the same element, and no thread calculates what has
\* been calculated: giving an index back never lets a chunk be fetched twice.
ChunksDisjoint ==
    /\ \A t, u \in Threads : t # u => chunk[t] \cap chunk[u] = {}
    /\ \A t \in Threads : \A e \in chunk[t] : ~ result[e]

\* An array is returned only when all its elements have been calculated; a
\* chunk that a failed thread has left undone makes the call throw.
ReturnedComplete == outcome = "returned" => \A e \in Elements : result[e]

\* The call ends, with or without errors.
Ends == <>(outcome # "running")

=============================================================================
