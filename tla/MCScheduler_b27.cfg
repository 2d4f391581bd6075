SPECIFICATION Spec
CONSTANTS
    r1 = r1
    r2 = r2
    r3 = r3
    r4 = r4
    Jobs = {r1, r2, r3}
    NSlots = 2
    Token <- MCToken
    Stop <- MCStop
    Greedy <- MCGreedy
    Prompt <- MCPrompt
    MaxTokens <- MCMaxTokens
    Sampled = {r3}
    Streaming = {}
    MaxCtx = 8
    Margin = 2
    Chunk = 2
    MaxRows = 4
    Backend = "b27"
    NDraft = 1
    FrameReuse = FALSE
PROPERTY
    ImplementsService
