SPECIFICATION Spec
CONSTANTS
    parent = parent
    child = child
    Procs = {parent, child}
    Root = parent
    Paths <- SmallTree
    Kind <- KindSmall
    LongPaths <- LongSmall
    Disks <- SmallDisks
    Workload = {"dir", "file", "move", "movedir", "handle", "process"}
INVARIANTS TypeOK  StatAgreesWithOpen MissingLeaf
    ChildStartsWhereAsked 
PROPERTIES RealTreeUntouched
