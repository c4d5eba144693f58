SPECIFICATION FifoSpec
CONSTANTS
    NULL = NULL
    Word <- MCWord
    GNodeId <- MCGNodeId
    PositionPointId <- MCPositionPointId
    ServiceClass = {"TimeCoordinator"}
    Proof = {"proof"}
    Universe = "d1"
    WriteProof = "proof"
    CreateCmd <- OperatorCreates
    ReparentCmd <- SubOnly
    SeedNodes <- Backbone
    Edges = {}
    Positions = {}
    Operator = {"first", "rival", "leaf", "wrong"}
    Args <- LeafAsks
CHECK_DEADLOCK FALSE
INVARIANTS
    AckMeansThere
    AckedNameIsOwn
    RefusedMeansNotApplied
