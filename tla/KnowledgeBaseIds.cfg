\* Two files that share the ids of their chunks; nothing else goes wrong.
SPECIFICATION Spec
CONSTANTS
    short = short
    long = long
    Files <- TwoFiles
    Length <- TwoLengths
    Queries = {q1}
    TopK = 2
    MaxRestarts = 0
    None = None
INVARIANT
    IndexedIsWhole
