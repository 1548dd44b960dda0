\* As MCFileDescriptors.cfg, with programs that may also close stderr.
CONSTANTS
    p1 = p1  p2 = p2  p3 = p3  f1 = f1  f2 = f2  d = d
    NoPath = NoPath
    Pids <- MCPids
    Paths <- MCPaths
    Dirs <- MCDirs
    Files0 = {}
    NumGlobal = 5
    NumLocal = 4
    OpenFlagSets <- MCFlagSets
    StdCloses = {0, 1, 2}
    MaxRef = 3
SYMMETRY MCSymmetry
SPECIFICATION Spec
INVARIANT
    NoDanglingDescriptor
