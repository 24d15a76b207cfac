SPECIFICATION SearchSpec
CONSTANTS
    MaxNofRanks = 4
    Ranks <- MCRanks
    NofFeatures = 5
    Values <- MCValues
    InitialStores <- MCStores
    ElementArSize = 8
    BenchSize = 2
    NofSampleReads = 5
    Limits <- MCLimits
    MaxCommits = 1
INVARIANTS
    SearchTypeOK
    PlaceInInterval
    FindsBest
    ResultsStored
    ExactFound
    EvenSpreadIsCandidate
PROPERTY ImplementsBestRanks
