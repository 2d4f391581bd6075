SPECIFICATION Spec
CONSTANTS
    r1 = r1
    r2 = r2
    r3 = r3
    r4 = r4
    Jobs = {r1, r2}
    NSlots = 1
    Token <- MCToken
    Stop <- MCStop
    Greedy <- MCGreedy
    Prompt <- MCPrompt
    MaxTokens <- MCMaxTokens
    Sampled = {}
    Streaming = {}
    MaxCtx = 5
    Margin = 2
    Chunk = 2
    MaxRows = 4
    Backend = "fn"
    NDraft = 1
    FrameReuse = FALSE
INVARIANT
    PassWithinContext
