\* One request of each session: nothing has to interleave for this.
SPECIFICATION Spec
CONSTANTS
    a1 = a1
    a2 = a2
    a3 = a3
    b1 = b1
    sa = sa
    sb = sb
    Requests <- OneEach
    WebRequests <- OneWeb
    Sessions <- BothSessions
    SessionOf <- OneEachSessionOf
    MaxMessages = 5
PROPERTIES
    SqlQuestionsAnalysed
