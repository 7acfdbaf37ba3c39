SPECIFICATION Spec
CONSTANTS
    AadhaarLengths = {1, 11, 12, 13, 14, 15}
    IposanLengths = {0, 11, 12, 13, 14, 15, 16}
    Space = Space
    Other = Other
INVARIANTS
    TypeOK
    SuggestsVerhoeff
    SuggestsDamm
