\* Files of one and of three chunks, results cut to two; one restart.
SPECIFICATION Spec
CONSTANTS
    short = short
    long = long
    Files <- TwoFiles
    Length <- TwoLengths
    Queries = {q1}
    TopK = 2
    MaxRestarts = 1
    None = None
INVARIANTS
    TypeOK
    IndexedOrReplaced
    FusionRanks
    AnswersWithoutMilvus
