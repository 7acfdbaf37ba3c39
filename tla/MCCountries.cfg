SPECIFICATION Spec
CONSTANTS
    First = 65
    Last = 67
    Lengths = {0, 5, 261}
    Chunk = 1
    MaxLines = 3
INVARIANTS
    TypeOK
    OncePerCode
    TablesWritten
PROPERTY Implements
