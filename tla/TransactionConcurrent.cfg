\* Two concurrent transactions number two types: each element defined in a
\* transaction or not at all, every failed commit rolled back.
SPECIFICATION Spec
CONSTANTS
    t1 = t1
    t2 = t2
    f1 = f1
    f2 = f2
    v1 = v1
    v2 = v2
    x1 = x1
    x2 = x2
    Types = {t1, t2}
    Feats = {f1}
    Vecs = {v1}
    Trans = {x1, x2}
    NoTrans = NoTrans
    Absent = Absent
    Keep = Keep
    MaxTypeno = 2
    MaxFeatno = 2
    MaxElements = 1
    LexerTypes <- NoLexerTypes
    Usage = {}
SYMMETRY SymmetricTypes
INVARIANTS
    TypeOK
    NoLogicError
    NumbersInverse
    CountersExact
PROPERTIES
    NumbersStable
    ImplementsStore
