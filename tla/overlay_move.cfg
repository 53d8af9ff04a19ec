SPECIFICATION Spec
CONSTANTS
    a = a
    b = b
    o = o
    inp = inp
    p1 = p1
    p2 = p2
    n1 = n1
    n2 = n2
    n3 = n3
    NoInode = NoInode
    Empty = Empty
    Absent = Absent
    Procs = {p1, p2}
    Paths = {a, o}
    Kind <- KindScratchOutput
    FilterInputs = FALSE
    Workload = {"copy", "move", "delete", "link"}
    Foreign = {}
    CopyMayFail = FALSE
    NewInodes = {n1, n2}
VIEW LiveView
SYMMETRY ProcSymmetry
PROPERTIES ExecrootUntouched RemovalHides
