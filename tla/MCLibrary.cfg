CONSTANTS
    N = 4
    Bytes <- MCBytes
    Formats <- MCFormats
    Words <- MCWords
    BufLen = 16

SPECIFICATION Spec

INVARIANTS
    ReadsAgree
    PrintfAgrees
PROPERTY CopiesAgree
