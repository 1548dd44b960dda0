\* Boot, then any sequence of process creations and exits, opens and closes
\* of descriptors a program opened, by programs that never close stderr.
CONSTANTS
    p1 = p1  p2 = p2  p3 = p3  f1 = f1  f2 = f2  d = d
    NoPath = NoPath
    Pids <- MCPids
    Paths <- MCPaths
    Dirs <- MCDirs
    Files0 = {}
    NumGlobal = 5
    NumLocal = 4
    OpenFlagSets <- MCFlagSets
    StdCloses = {0, 1}
    MaxRef = 3
SYMMETRY MCSymmetry
SPECIFICATION Spec
INVARIANTS
    TypeOK
    RefCountCoversHolders
    NoDanglingDescriptor
