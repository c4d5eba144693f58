SPECIFICATION FairRabbitSpec
CONSTANTS
    NULL = NULL
    Word <- MCWord
    GNodeId <- MCGNodeId
    PositionPointId = {}
    ServiceClass = {}
    Proof = {}
    Universe = "d1"
    WriteProof = NULL
    CreateCmd <- WillowOnly
    ReparentCmd <- KnownOnly
    SeedNodes <- Backbone
    Edges = {}
    Positions = {}
    Noise = {}
    Garbage = {}
    FromClass = {"known"}
    Joiners <- None
    MaxSends = 3
    MaxFaults = 1
    MaxWire = 1
PROPERTIES
    EveryCommandAnswered
