SPECIFICATION Spec
CONSTANTS
    Setups <- MCSetups
    MaxHash = 4
    MaxWorkspace = 3
    MaxDepth = 3
INVARIANTS
    TypeOK
    RestoreFindsItsPack
    SnapshotsStayHome
    ResultMatchesCommit
