\* The small-block path alone (kmalloc / kfree, no kmalloc_pages), after
\* fat_init's table: a stale prev link left when kfree absorbs a free
\* successor leads the growth path to write a header into a live buffer.
CONSTANTS
    PageUnits = 8
    HeaderUnits = 3
    MinBlock = 1
    HeapPages = 4
    FramePool = 5
    Sizes <- MCSizes
    MaxLive = 3
    FreshPagesZeroed = TRUE
    NULL = NULL
    GARBAGE = GARBAGE
SPECIFICATION Spec
CONSTANTS
    PageCounts <- MCNoPages
    FatSize = 3
INVARIANT NoClobber
CHECK_DEADLOCK FALSE
