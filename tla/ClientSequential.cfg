\* Searches and commits of one thread after the other, with both kinds of readers.
SPECIFICATION ClientSpec
CONSTANTS
    t1 = t1
    t2 = t2
    f1 = f1
    f2 = f2
    v1 = v1
    v2 = v2
    x1 = x1
    s1 = s1
    s2 = s2
    Types = {t1, t2}
    Feats = {f1}
    Vecs = {v1, v2}
    Trans = {x1}
    NoTrans = NoTrans
    Absent = Absent
    Keep = Keep
    NoMap = NoMap
    Searchers = {s1}
    MemTypes = {t2}
    ChunkSize = 1
    Overlap = FALSE
    LexerTypes <- OneLexerType
    Usage = {}
    MaxElements = 1
    MaxTypeno = 2
    MaxFeatno = 1
SYMMETRY SymmetricVecs
INVARIANTS
    ClientTypeOK
    SearchIsCurrent
