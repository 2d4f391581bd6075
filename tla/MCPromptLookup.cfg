SPECIFICATION Spec
CONSTANTS
    Token <- MCToken
    N = 2
    M = 2
    MinHits = 1
    MaxValues = 2
    MaxCount = 3
    Buckets <- MCBuckets
    Hash <- MCHash
    NDraft = 2
    NGen = 18
    Prompts <- MCPrompts
    Targets <- MCTargets
    Greedy <- MCGreedy
INVARIANTS
    TypeOK
    SpecExact
    DraftRepeats
    ValuesFollowTheirKey
PROPERTY
    NeverLonger
CHECK_DEADLOCK FALSE
