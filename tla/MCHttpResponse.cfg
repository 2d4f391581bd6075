SPECIFICATION FairSpec
CONSTANTS
    Tokens <- MCTokens
    Piece <- MCPiece
    ThinkOpen = "open"
    ThinkClose = "close"
    Router = TRUE
    MaxIds = 4
    MaxAlive = 1
INVARIANTS
    TypeOK
    OneResponse
    Answered
    TextOfTokens
PROPERTY
    ThreadReturns
