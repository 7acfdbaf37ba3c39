SPECIFICATION Spec
CONSTANTS
    Scheme <- MCScheme
    Use <- Nhi
    Typed <- MCTyped
    Misfit = {}
INVARIANT AlphabetKept
