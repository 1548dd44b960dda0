\* Boot the allocator, then create up to three processes from a 1-byte
\* image, grow and shrink their breaks and exit, with the kernel heap
\* holding up to two frames of its own in between.
CONSTANTS
    WordBits = 2
    Words = 7
    MemsetWords = 1
    MaxPages = 14
    Regions <- MCRegions
    ReservedPages = 2
    MaxOwned = 14
    PageBytes = 2
    PPT = 4
    UserDirs = 4
    EntryPage = 0
    StackPages = 1
    Blocks = {1, 2}
    ImageSizes = {1}
    Increments <- MCIncrements
    HeapWindow = 4
    MaxBreak = 18
    MaxLoads = 3
    MaxOther = 2
INIT PagingInit
NEXT PagingNext
INVARIANTS
    TypeOKPaging
    ReservedNeverAllocated
    NoReservedMapped
\* Behaviours end when MaxLoads processes were created and the frames are
\* gone: the bound, not the kernel, stops them.
CHECK_DEADLOCK FALSE
