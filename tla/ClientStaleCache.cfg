\* A search while a transaction commits, and the map it leaves in the cache.
SPECIFICATION ClientSpec
CONSTANTS
    t1 = t1
    t2 = t2
    f1 = f1
    f2 = f2
    v1 = v1
    v2 = v2
    x1 = x1
    s1 = s1
    s2 = s2
    Types = {t1}
    Feats = {f1, f2}
    Vecs = {v1}
    Trans = {x1}
    NoTrans = NoTrans
    Absent = Absent
    Keep = Keep
    NoMap = NoMap
    Searchers = {s1}
    MemTypes = {}
    ChunkSize = 1
    Overlap = TRUE
    LexerTypes <- OneLexerType
    Usage = {}
    MaxElements = 1
    MaxTypeno = 1
    MaxFeatno = 2
INVARIANTS
    SearchIsCurrent
