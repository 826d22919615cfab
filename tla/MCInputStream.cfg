SPECIFICATION Spec
CONSTANTS
    Scripts <- MCStreamScripts
    Clients = {c1}
    Streams = {s1}
    ChannelSize = 10
    MaxTries = 1
    MaxCrashes = 0
    MaxCancels = 0
PROPERTIES
    PendingIsAnnounced
CHECK_DEADLOCK FALSE
