\* One process grows its heap; no other client of the frame allocator
\* runs, so frames are reissued only through the paging code.
CONSTANTS
    WordBits = 2
    Words = 7
    MemsetWords = 1
    MaxPages = 14
    Regions <- MCRegions
    ReservedPages = 2
    MaxOwned = 14
    PageBytes = 2
    PPT = 4
    UserDirs = 4
    EntryPage = 0
    StackPages = 1
    Blocks = {1, 2}
    ImageSizes = {1}
    Increments <- MCIncrements
    HeapWindow = 4
    MaxBreak = 18
    MaxLoads = 2
    MaxOther = 0
INIT PagingInit
NEXT PagingNext
INVARIANT NoAlias
\* Behaviours end when MaxLoads processes were created and the frames are
\* gone: the bound, not the kernel, stops them.
CHECK_DEADLOCK FALSE
