SPECIFICATION Spec
CONSTANTS
    Scheme <- MCScheme
    Use <- Issn
    Typed <- MCTyped
    Misfit = {}
INVARIANT AcceptsDocumented
