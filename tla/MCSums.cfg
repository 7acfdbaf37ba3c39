SPECIFICATION Spec
CONSTANTS
    Scheme <- MCScheme
    Use <- Sound
    Typed <- MCTyped
    Misfit <- Turned
    Most <- MCMost
INVARIANTS
    TypeOK
    NoWraparound
    AcceptsDocumented
    SuggestionTypable
    InStep
    SumsApart
    SlipCaught
PROPERTY LengthsAgree
