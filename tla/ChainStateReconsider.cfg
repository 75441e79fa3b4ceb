SPECIFICATION Spec
CONSTANTS
    Blocks <- MCBlocks
    Base = "g"
    Parent <- MCParent
    Work <- MCWork
    Verdicts <- MCVerdicts
    Address <- MCAddress
    MinBlocksToKeep = 1
    MaxCalls <- MCMaxCalls
    MaxSteps = 7
    None = None
INVARIANT
    TipIsBest
CHECK_DEADLOCK FALSE
