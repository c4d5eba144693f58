SPECIFICATION FacadeSpec
CONSTANTS
    NULL = NULL
    NotFound = NotFound
    Word <- MCWord
    GNodeId <- MCGNodeId
    PositionPointId <- MCPositionPointId
    ServiceClass = {"TimeCoordinator"}
    Proof = {"proof"}
    Universe = "d1"
    WriteProof = "proof"
    CreateCmd <- FacadeCreates
    ReparentCmd <- FacadeReparents
    SeedNodes <- NoNodes
    Edges = {}
    Positions = {}
    AskedAlias <- Lookups
    AskedId = {"keene"}
    AskedRoots <- RootLists
INVARIANTS
    AliasResolvesAtOneInstant
    ForestShowsSettled
