SPECIFICATION Spec
CONSTANTS
    a = a
    b = b
    o = o
    inp = inp
    p1 = p1
    p2 = p2
    n1 = n1
    n2 = n2
    n3 = n3
    NoInode = NoInode
    Empty = Empty
    Absent = Absent
    Procs = {p1}
    Paths = {a, b}
    Kind <- KindScratchTwo
    FilterInputs = FALSE
    Workload = {"link", "modify"}
    Foreign = {}
    CopyMayFail = FALSE
    NewInodes = {n1, n2}
VIEW LiveView
SYMMETRY Symmetry
INVARIANTS PreExistingUntouched
