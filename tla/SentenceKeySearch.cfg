SPECIFICATION Spec
CONSTANTS
    a = a
    b = b
    s = s
    l = l
    End = End
    Space = s
    Link = l
    Fields <- MCFields
    NameLists <- MCNames
INVARIANTS
    TypeOK
    SolutionsCoverField
    ElementsNamed
    FewestUnresolved
    WholeFieldFound
PROPERTY Terminates
