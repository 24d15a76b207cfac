\* Three threads and an array whose last chunk is shorter than the others.
SPECIFICATION FairSpec
CONSTANTS
    a = a
    b = b
    c = c
    Threads = {a, b, c}
    Size = 5
    ChunkSize = 2
CHECK_DEADLOCK FALSE
INVARIANTS
    TypeOK
    ChunksDisjoint
    ReturnedComplete
PROPERTIES
    Ends
