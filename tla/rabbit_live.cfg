SPECIFICATION FairRabbitSpec
CONSTANTS
    NULL = NULL
    Word <- MCWord
    GNodeId <- MCGNodeId
    PositionPointId = {}
    ServiceClass = {}
    Proof = {}
    Universe = "d1"
    WriteProof = NULL
    CreateCmd <- WillowOnly
    ReparentCmd <- SubOnly
    SeedNodes <- Backbone
    Edges = {}
    Positions = {}
    Noise = {other}
    Garbage = {}
    FromClass = {"known"}
    Joiners <- WillowAndSub
    MaxSends = 1
    MaxFaults = 1
    MaxWire = 1
PROPERTIES
    ListenersLearn
