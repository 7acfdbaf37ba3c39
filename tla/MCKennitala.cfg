SPECIFICATION Spec
CONSTANTS
    Scheme <- MCScheme
    Use <- Kennitala
    Typed <- MCTyped
    Misfit = {}
INVARIANT AcceptsDocumented
