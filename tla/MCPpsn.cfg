SPECIFICATION Spec
CONSTANTS
    Scheme <- MCScheme
    Use <- Ppsn
    Typed <- MCTyped
    Misfit = {}
INVARIANT AcceptsDocumented
