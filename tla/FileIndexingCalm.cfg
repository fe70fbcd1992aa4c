\* Three uploads and one worker: the queue can be full, nothing fails.
\* Such a system stops when every upload has been answered and settled.
CHECK_DEADLOCK FALSE
SPECIFICATION CalmSpec
CONSTANTS
    Files = {file1, file2, file3}
    Deletes = {}
    Workers = {w1}
    QueueSize = 1
    MaxRestarts = 0
    None = None
PROPERTY
    EveryUploadSettles
