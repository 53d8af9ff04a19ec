SPECIFICATION Spec
CONSTANTS
    parent = parent
    child = child
    Procs = {parent, child}
    Root = parent
    Paths <- SmallTree
    Kind <- KindSmall
    LongPaths <- LongSmall
    Disks <- SmallDisks
    Workload = {"dir", "process"}
INVARIANTS ListingByRelativeName
