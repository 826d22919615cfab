SPECIFICATION Spec
CONSTANTS
    Setups <- MCRootRetry
    MaxHash = 4
    MaxWorkspace = 3
    MaxDepth = 3
INVARIANTS
    RestoreFindsItsPack
