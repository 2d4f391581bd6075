SPECIFICATION TextSpec
CONSTANTS
    Refused = Refused
    Throws = Throws
    JsonValues <- MCJsonValues
    Numbers = {"7"}
    Letter <- MCLetter
    Mark = {"^"}
    Digit = {"1"}
    Newline = {"n"}
    Blank = {" ", "t"}
    Space = " "
    Quote = "'"
    Short <- MCShort
    Long <- MCLong
    UserDefined <- MCUserDefined
    Control <- MCControl
    Char <- MCChar
    MaxText = 5
    Atom = {"a", "b"}
    MaxMerges = 3
    MaxAtoms = 6
    Sign = {"a", "b", "<", "n"}
    MaxSigns = 6
    Table <- MCTable
    CodePoints <- MCCodePoints
    Roles = {"system", "developer", "user", "assistant", "tool", "other"}
    MaxMessages = 4
    Answers <- MCAnswers
    NExp = 3
    Narrow = 2
    Ct = 1
    Wide = 3
    MaxSlots = 8
    Tensor <- MCTensor
    MaxTensors = 4
    Headers = {1, 5}
    Aligns = {2, 4}
    Paces <- MCPaces
    DefaultAlign = 3
    FirstArena = 10
    NextArena = 6
    Big = 5
    Fine = 2
    Coarse = 4
    Requantized <- MCRequantized
    Types <- MCTypes
    MaxBlocks = 2
INVARIANTS
    ChunksFollowTheRegex
    TokensAsTrained
    SpecialsStayWhole
    CodePointsSurvive
    TurnsClose
    AnswerParsesBack
    JsonReadsBack
    TilesCoverTheSlots
    WeightsInPlace
    KernelReadsTheReference
CHECK_DEADLOCK FALSE
