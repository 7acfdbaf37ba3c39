SPECIFICATION Spec
CONSTANTS
    Scheme <- MCScheme
    Use <- All
    Typed <- Few
    Misfit <- Long
    Wide <- MCWide
    Peak <- MCPeak
    Most <- MCMost
INVARIANTS
    TypeOK
    SumFits
    BufferFits
    SumIsRemainder
    AcceptsDocumented
PROPERTY LengthsAgree
