SPECIFICATION Spec
CONSTANTS
    a = a
    b = b
    o = o
    inp = inp
    p1 = p1
    p2 = p2
    n1 = n1
    n2 = n2
    n3 = n3
    NoInode = NoInode
    Empty = Empty
    Absent = Absent
    Procs = {p1, p2}
    Paths = {a}
    Kind <- KindScratch
    FilterInputs = FALSE
    Workload = {"read", "create", "modify", "delete"}
    Foreign = {}
    CopyMayFail = FALSE
    NewInodes = {n1, n2}
VIEW LiveView
SYMMETRY ProcSymmetry
INVARIANTS TypeOK
PROPERTIES CreateNewIsExclusive OpenKeepsContent
