SPECIFICATION Spec
CONSTANTS
    Worker <- MCWorker
    Alloc <- MCAlloc
    Needs <- MCNeeds
    Asks <- MCAsks
    NoDemand = NoDemand
    MaxInvocations = 2
    MaxCatches = 1
    MaxUpdates = 1
INVARIANT
    StagedDemandIsCurrent
