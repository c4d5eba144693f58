SPECIFICATION RabbitSpec
CONSTANTS
    NULL = NULL
    Word <- MCWord
    GNodeId <- MCGNodeId
    PositionPointId = {}
    ServiceClass = {}
    Proof = {}
    Universe = "d1"
    WriteProof = NULL
    CreateCmd <- WillowOnly
    ReparentCmd <- SameOnly
    SeedNodes <- Backbone
    Edges = {}
    Positions = {}
    Noise = {}
    Garbage = {garbled}
    FromClass = {"known", NULL}
    Joiners <- None
    MaxSends = 2
    MaxFaults = 1
    MaxWire = 2
INVARIANTS
    RabbitTypeOK
    LockDiscipline
    SnapshotCurrent
    WireInOrder
    AckMeansLogged
PROPERTIES
    AckIsFinal
    NackMeansNotApplied
    ChannelCoversMoved
