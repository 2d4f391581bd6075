SPECIFICATION Spec
CONSTANTS
    NLayers = 3
    Attention = {1}
    Passes <- MCPasses
    PrefetchOn = TRUE
INVARIANTS
    TypeOK
    GemmReadsItsWeights
    PrefetchIsUsed
