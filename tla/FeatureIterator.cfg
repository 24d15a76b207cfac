\* Fetches of different size between skips, on five values.
SPECIFICATION Spec
CONSTANTS
    N = 5
    FetchSizes = {1, 2, 4}
INVARIANTS
    TypeOK
PROPERTIES
    ImplementsIterator
