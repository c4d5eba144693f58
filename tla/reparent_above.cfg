SPECIFICATION Spec
CONSTANTS
    NULL = NULL
    Word <- MCWord
    GNodeId <- MCGNodeId
    PositionPointId <- MCPositionPointId
    ServiceClass = {"TimeCoordinator"}
    Proof = {"proof"}
    Universe = "d1"
    WriteProof = "proof"
    CreateCmd <- PlainCreates
    ReparentCmd <- AboveOnly
    SeedNodes <- NoNodes
    Edges = {}
    Positions = {}
INVARIANT ReparentsBeneathN
