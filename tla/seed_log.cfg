SPECIFICATION DevSpec
CONSTANTS
    NULL = NULL
    Word <- MCWord
    GNodeId <- MCGNodeId
    PositionPointId <- DevIds
    ServiceClass <- MCServiceClass
    Proof = {"proof"}
    Universe = "d1"
    WriteProof = "proof"
    CreateCmd <- OneCreate
    ReparentCmd <- None
    SeedNodes <- None
    Edges = {}
    Positions <- DevPositionIds
    DevId <- DottedId
    startswith <- StartsWith
INVARIANTS
    LoggedMeansThere
