SPECIFICATION FairSpec
CONSTANTS
    Check <- MCCheck
    Generic <- MCGeneric
    Input <- MCInput
    NNMCK = 3
    MaxArgs = 2
    NoInput = NoInput
INVARIANTS
    TypeOK
    IInv
    StoresInBounds
    EntriesCurrent
    LineDiscipline
PROPERTIES
    ImplementsReport
    InputAnswered
    ArgsTerminate
