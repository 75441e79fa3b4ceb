SPECIFICATION Spec
CONSTANTS
    Blocks <- MCBlocks
    Base = "g"
    Parent <- MCParent
    MWEBBlocks <- MCBlocks
    Outputs <- MCOutputs
    Inputs <- MCInputs
    IDs <- MCIDs
    ByteSize = 2
    None = None
    Thrown = Thrown
    MaxIndex = 2
    MaxActions = 2
    Torn = Torn
INVARIANTS
    HalvesAgreeUnreplayed
    HashesExactUnlessOverwritten
    NothingThrows
    VerifyDB
    DiskIntact
