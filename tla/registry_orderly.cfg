SPECIFICATION OrderlySpec
CONSTANTS
    NULL = NULL
    Word <- MCWord
    GNodeId <- MCGNodeId
    PositionPointId <- MCPositionPointId
    ServiceClass = {"TimeCoordinator"}
    Proof = {"proof"}
    Universe = "d1"
    WriteProof = "proof"
    CreateCmd <- FleetCreates
    ReparentCmd <- FleetReparents
    SeedNodes <- NoNodes
    Edges = {}
    Positions = {}
INVARIANTS
    ReparentsBeneathN
    ForestComplete
    CommandAnswered
PROPERTIES
    PrevAliasIsPrevious
