SPECIFICATION Spec
CONSTANTS
    LuhnCounts = {2, 3, 6, 7}
    Scheme <- Schema
    Use <- Names
    Step <- Take
    Finish <- Settle
    Typed <- MCTyped
    Acc <- MCAcc
    Differ <- MCDiffer
    Turn <- MCTurn
    StdStart <- DocStart
    StdStep <- DocStep
    StdRight <- DocRight
    Exempt <- Departs
    Corrected <- DocCorrected
    Meets <- MCMeet
    Misfit <- MCMisfit
INVARIANTS
    TypeOK
    AcceptsDocumented
    IssuerTable
    Mirrored
    Versioned
    SuggestionRight
    Apart
    SlipCaught
PROPERTY LengthsAgree
