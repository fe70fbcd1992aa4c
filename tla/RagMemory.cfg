\* Four turns: once one has been saved the other three can share its Session.
SPECIFICATION Spec
CONSTANTS
    Turns = {t1, t2, t3, t4}
    None = None
SYMMETRY Interchangeable
INVARIANTS
    TypeOK
    MessagesOnce
    NothingForgotten
    HistoryInBounds
