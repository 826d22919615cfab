SPECIFICATION Spec
CONSTANTS
    Scripts <- MCScripts
    Clients = {c1, c2}
    Streams = {s1}
    ChannelSize = 1
    MaxTries = 2
    MaxCrashes = 1
    MaxCancels = 1
INVARIANTS
    TypeOK
    AnswerWasMeantForIt
    CheckedAnswerIsUsable
    RepliesAreTrue
PROPERTIES
    UnansweredMovesOn
CHECK_DEADLOCK FALSE
