\* Callers commit again after a commit that failed.
SPECIFICATION Spec
CONSTANTS
    t1 = t1
    t2 = t2
    f1 = f1
    f2 = f2
    v1 = v1
    v2 = v2
    x1 = x1
    x2 = x2
    Types = {t1, t2}
    Feats = {f1, f2}
    Vecs = {v1, v2}
    Trans = {x1}
    NoTrans = NoTrans
    Absent = Absent
    Keep = Keep
    MaxTypeno = 2
    MaxFeatno = 2
    MaxElements = 2
    LexerTypes <- OneLexerType
    Usage = {"retry"}
PROPERTIES
    CommitStoresDefinitions
