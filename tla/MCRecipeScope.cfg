SPECIFICATION Spec
CONSTANTS
    Node <- MCNode
    NoNode <- MCNoNode
    Root <- MCRoot
    Kind <- MCKind
    Parent <- MCParent
    First <- MCFirst
    Succ <- MCSucc
    Catch <- MCCatch
    RouteTo <- MCRouteTo
    MaxAttempts <- MCMaxAttempts
    Timed <- MCTimed
    RetrySteps <- MCRetrySteps
    MaxFaults = 3
    MaxCrashes = 1
INVARIANTS
    TypeOK
    PublishedWasAccepted
    PublishedOnce
    AcceptedFrameReconstructed
    ReplayFollowsHistory
    SucceededChildHasOutput
PROPERTY
    JobEnds
