\* Two uploads and one deletion, two workers, a queue of one, one restart.
SPECIFICATION Spec
CONSTANTS
    Files = {file1, file2}
    Deletes = {del1}
    Workers = {w1, w2}
    QueueSize = 1
    MaxRestarts = 1
    None = None
SYMMETRY Interchangeable
INVARIANTS
    TypeOK
    IndexedMeansStored
    OneIndexer
    RowHasFile
    UnsettledHasCause
    CloseSettles
PROPERTY
    StatusMovesForward
