SPECIFICATION Spec
CONSTANTS
    Group <- MCGroup
    Checks <- Generic
INVARIANTS
    QInv
    SlipCaught
