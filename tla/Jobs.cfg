SPECIFICATION Spec
CONSTANTS
    j1 = j1
    j2 = j2
    n1 = n1
    n2 = n2
    d = d
    Jobs <- MCJobIds
    Nodes <- MCNodes
    Definitions <- MCDefinitions
    Slices = {0, 1}
    Counts = {1, 2}
    MaxCounts <- MCMaxCounts
    MaxResultsPerJob = 2
    MaxSaved = 3
INVARIANTS
    TypeOK
    ResultsNewest
    AnswersExact
    RetriesOffered
SYMMETRY MCSymmetry
