\* Liveness of two uploads, one worker, no restart.
SPECIFICATION FairSpec
CONSTANTS
    Files = {file1, file2}
    Deletes = {}
    Workers = {w1}
    QueueSize = 1
    MaxRestarts = 0
    None = None
PROPERTY
    CreatedSettles
