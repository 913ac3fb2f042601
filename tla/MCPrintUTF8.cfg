SPECIFICATION Spec
CONSTANTS
    CommandLines <- MCCommandLines
    Inputs <- MCInputs
    Consoles <- MCConsoles
    MaxColumns = 12
    MaxLines = 2
    BufferSize = 6
    Bytes <- MCBytes
    Letters <- MCLetters
    HexDigits <- MCHexDigits
    OctDigits <- MCOctDigits
    ByteOf <- MCByteOf
    Wctomb <- MCWctomb
    None = None
CHECK_DEADLOCK FALSE
INVARIANTS
    TypeOK
    Aligned
    LinesKept
