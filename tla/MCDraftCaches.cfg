SPECIFICATION Spec
CONSTANTS
    s1 = s1
    s2 = s2
    s3 = s3
    Slots = {s1, s2, s3}
    MaxReqs = 3
    MaxCtx = 8
    MaxRows = 4
    Short = 4
    Chunk = 5
    PromptLens = {1, 6}
    Mtp = 2
    NDraft = 1
SYMMETRY Symmetry
INVARIANTS
    TypeOK
    TargetInStep
    DraftCacheExact
    DraftStartsExact
