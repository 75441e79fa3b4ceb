SPECIFICATION FairSpec
CONSTANTS
    Blocks <- MCBlocks
    Base = "g"
    Parent <- MCParent
    Work <- MCWork
    Verdicts <- MCVerdicts
    Address <- MCAddress
    MinBlocksToKeep = 1
    MaxCalls <- MCMaxCalls
    MaxSteps = 7
    None = None
INVARIANTS
    CandidatesExact
    IndexConsistent
    ChainValid
    PathUsable
    TipIsBestUndisturbed
PROPERTY
    ActivationEnds
CHECK_DEADLOCK FALSE
