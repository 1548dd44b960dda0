\* The directory and file system calls with name arguments and the root.
CONSTANTS
    a = a
    b = b
    NumEntries = 6
    SlotsPerCluster = 2
    BytesPerCluster = 2
    Names <- MCNames
    Paths <- MCPaths
    Sizes = {0, 1}
    Args <- MCArgs
    RenameArgs <- MCRenameArgs
    MaxCwd = 2
    BootFiles <- MCBootFiles
INIT SysInit
NEXT SysNext
INVARIANTS
    
    DirSizeCountsEntries
    UniqueNames
