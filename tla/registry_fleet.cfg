SPECIFICATION Spec
CONSTANTS
    NULL = NULL
    Word <- MCWord
    GNodeId <- MCGNodeId
    PositionPointId <- MCPositionPointId
    ServiceClass = {"TimeCoordinator"}
    Proof = {"proof"}
    Universe = "d1"
    WriteProof = "proof"
    CreateCmd <- AllCreates
    ReparentCmd <- AllReparents
    SeedNodes <- InUse
    Edges <- TieEdges
    Positions <- Located
INVARIANTS
    TypeOK
    LedgerCoversLive
    LogAccountsForNodes
    RowsDecode
    CreateAnswered
    ValidateClean
    ActivePathToRoot
PROPERTIES
    ImplementsAliasAuthority
    SubtreesMoveWhole
    AliasOwnedForever
