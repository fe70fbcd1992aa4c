\* A stream and a plain chat of one user who may delete the conversation;
\* replies of up to three characters, in pieces of two.
SPECIFICATION FairSpec
CONSTANTS
    Streams = {s1}
    Onces = {o1}
    Deletes = {d1}
    Capacity = 1
    Servers = 1
    Size = 2
    MaxLength = 3
    MaxConversations = 2
    None = None
INVARIANTS
    TypeOK
    AnswerFollowsPrompt
    MissingAnswerHasCause
    LogMatchesOutcome
PROPERTIES
    LeftHandlerReturns
    StreamEnds
