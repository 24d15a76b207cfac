\* One transaction object, used again after each commit, that may define an
\* element twice or clear the storage.
SPECIFICATION Spec
CONSTANTS
    t1 = t1
    t2 = t2
    f1 = f1
    f2 = f2
    v1 = v1
    v2 = v2
    x1 = x1
    x2 = x2
    Types = {t1, t2}
    Feats = {f1, f2}
    Vecs = {v1, v2}
    Trans = {x1}
    NoTrans = NoTrans
    Absent = Absent
    Keep = Keep
    MaxTypeno = 3
    MaxFeatno = 2
    MaxElements = 2
    LexerTypes <- OneLexerType
    Usage = {"clear"}
SYMMETRY SymmetricSingle
INVARIANTS
    VectorCountExact
    NoDanglingNumbers
PROPERTIES
    ImplementsStore
