\* The keyboard-to-shell path with a 4-byte buffer and MAX_ARGS = 2.
CONSTANTS
    B = 4
    MaxArgs = 2
    ScanCodes <- MCScanCodes
SPECIFICATION Spec
INVARIANTS
    TypeOKTerminal
    ParseInBounds
PROPERTIES
    ParseMatchesWords
