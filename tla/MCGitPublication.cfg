SPECIFICATION Spec
CONSTANTS
    Publisher = {"p", "q"}
    Setups <- MCSetups
    Outside = "outside"
    MaxAttempts = 2
    MaxCrashes = 1
    MaxOutside = 1
    MaxRewrites = 1
INVARIANTS
    TypeOK
    SuccessWasPublished
    ChangeLandsOnce
    AdvancedMeansUnpublished
PROPERTIES
    ImplementsBranch
    PublicationsEnd
