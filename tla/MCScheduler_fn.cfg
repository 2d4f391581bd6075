SPECIFICATION Spec
CONSTANTS
    r1 = r1
    r2 = r2
    r3 = r3
    r4 = r4
    Jobs = {r1, r2, r3, r4}
    NSlots = 3
    Token <- MCToken
    Stop <- MCStop
    Greedy <- MCGreedy
    Prompt <- MCPrompt
    MaxTokens <- MCMaxTokens
    Sampled = {}
    Streaming = {}
    MaxCtx = 8
    Margin = 2
    Chunk = 1
    MaxRows = 4
    Backend = "fn"
    NDraft = 2
    FrameReuse = FALSE
INVARIANTS
    GreedyExact
    EngineInStep
    EveryPassAccepted
