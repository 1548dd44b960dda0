\* The kernel's heap clients as kmain sets them up: fat_init's table first,
\* then kmalloc, kfree and kmalloc_pages(1) in any order.
\* A wild access stops the kernel: such states are final.
CONSTANTS
    PageUnits = 8
    HeaderUnits = 3
    MinBlock = 1
    HeapPages = 4
    FramePool = 5
    Sizes <- MCPageSizes
    MaxLive = 3
    FreshPagesZeroed = TRUE
    NULL = NULL
    GARBAGE = GARBAGE
SPECIFICATION Spec
CONSTANTS
    PageCounts <- MCPageCounts
    FatSize = 3
INVARIANTS
    TypeOK
PROPERTIES
    SearchTerminates
CHECK_DEADLOCK FALSE
