CONSTANTS
    Task = {"f", "u"}
    Process = {"p1", "p2"}
    Commit = {1, 2}
    Entry = {"a", "b"}
    Executable = {"x", "y"}
    Exports <- MCExports
    Depends <- MCDepends
    Defaults <- MCDefaults
    Invocation <- MCInvocation
    MaxTroubles = 2
SPECIFICATION Spec
CHECK_DEADLOCK FALSE
INVARIANTS
    BodyRunsWhatWasPrepared
    
    ObjectsResolve
PROPERTY
    TasksEnd
