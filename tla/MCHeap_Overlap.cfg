\* With kmalloc_pages in use, freeing a page-aligned last block unmaps its
\* own page and a later search hands a live block out again.
CONSTANTS
    PageUnits = 8
    HeaderUnits = 3
    MinBlock = 1
    HeapPages = 4
    FramePool = 5
    Sizes <- MCSizes
    MaxLive = 3
    FreshPagesZeroed = TRUE
    NULL = NULL
    GARBAGE = GARBAGE
SPECIFICATION Spec
CONSTANTS
    PageCounts <- MCPageCounts
    FatSize = 3
INVARIANT LiveDisjoint
CHECK_DEADLOCK FALSE
