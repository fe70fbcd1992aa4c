\* Two events over two connections; sizes of group files up to one byte, and
\* downloads up to two bytes longer.
SPECIFICATION FairSpec
CONSTANTS
    Events = {e1, e2}
    Conns = {c1, c2}
    MaxSize = 1
    None = None
INVARIANTS
    TypeOK
    OneWriter
    TempFilesOwned
    NothingCut
    RepliesGoHome
PROPERTY
    EventsEnd
