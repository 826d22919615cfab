SPECIFICATION Spec
CONSTANTS
    Plans <- MCPlans
    MaxAttempts = 2
    MaxCrashes = 1
    MaxRestarts = 1
    Calls = {1, 2}
INVARIANTS
    TypeOK
    NativeChildExistsOnce
    ChildrenAreTracked
    OutputMatchesJobs
    NoChildUnattended
PROPERTIES
    OpEnds
