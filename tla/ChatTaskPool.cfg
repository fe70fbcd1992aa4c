\* Two web requests and a QQ message, two workers, a queue of two.  Calls of
\* the model may hang, unless a property says otherwise.
SPECIFICATION FairSpec
CONSTANTS
    WebRequests = {web1, web2}
    QQRequests = {qq1}
    Workers = {w1, w2}
    QueueSize = 2
    None = None
INVARIANTS
    TypeOK
    NoStrandedCaller
    CloseDrains
PROPERTIES
    ImplementsDispatch
    CancelledReturns
    SubmitReturns
    CloseReturns
