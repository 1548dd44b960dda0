\* /main takes two clusters in the image; truncating it frees its first
\* cluster while its entry still starts there.
CONSTANTS
    a = a
    b = b
    NumEntries = 6
    SlotsPerCluster = 2
    BytesPerCluster = 2
    Names <- MCNames
    Paths <- MCPaths
    Sizes = {0}
    Args <- MCArgs
    RenameArgs <- MCRenameArgs
    MaxCwd = 2
    BootFiles <- MCBigBootFiles
INIT SysInit
NEXT SysNext
INVARIANT
    FatPartitionsClusters
