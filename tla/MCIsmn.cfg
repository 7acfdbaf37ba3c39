SPECIFICATION Spec
CONSTANTS
    Scheme <- MCScheme
    Use <- Ismn
    Typed <- MCTyped
    Misfit = {}
INVARIANT AcceptsDocumented
