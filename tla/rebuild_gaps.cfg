SPECIFICATION RebuildSpec
CONSTANTS
    NULL = NULL
    Word <- MCWord
    GNodeId <- MCGNodeId
    PositionPointId <- MCPositionPointId
    ServiceClass = {"TimeCoordinator"}
    Proof = {"proof"}
    Universe = "d1"
    WriteProof = "proof"
    CreateCmd <- GapStream
    ReparentCmd <- SubAndAgain
    SeedNodes <- NoNodes
    Edges = {}
    Positions = {}
    RowOrders = {"by alias", "as stored"}
    Busy = FALSE
    PerMs = 2
    MaxPublished = 3
    MaxWaiting = 2
    MaxSnapshots = 1
    MaxFaults = 2
CHECK_DEADLOCK FALSE
INVARIANTS
    MismatchIsDivergence
    
    OkKeepsNames
