\* One upload, one worker and one restart, whose start-up loses the upload.
SPECIFICATION Spec
CONSTANTS
    Files = {file1}
    Deletes = {}
    Workers = {w1}
    QueueSize = 1
    MaxRestarts = 1
    None = None
PROPERTY
    StartupKeepsChunks
