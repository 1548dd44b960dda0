\* Two frames of one bitmap word: freeing one clears the other's bit, and the
\* next allocation hands out a frame a client still holds.
CONSTANTS
    WordBits = 4
    Words = 8
    MemsetWords = 4
    MaxPages = 32
    Regions <- MCRegions
    ReservedPages = 4
    MaxOwned = 6
SPECIFICATION Spec
INVARIANT
    NoDoubleAllocation
