\* Three requests of a session against an odd bound that the third one reaches.
SPECIFICATION Spec
CONSTANTS
    a1 = a1
    a2 = a2
    a3 = a3
    b1 = b1
    sa = sa
    sb = sb
    Requests <- WebOnly
    WebRequests <- WebOnly
    Sessions <- WebSession
    SessionOf <- WebOnlySessionOf
    MaxMessages = 5
SYMMETRY Interchangeable
INVARIANTS
    TypeOK
    HistoryIsTurns
    QuestionOnce
    OutcomeMatchesMemory
PROPERTY
    LossNeedsOverlap
