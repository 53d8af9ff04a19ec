SPECIFICATION Spec
CONSTANTS
    root = root
    child = child
    f1 = f1
    f2 = f2
    Tree = {root, child}
    Root = root
    Files = {f1, f2}
    HasTimeout = TRUE
    HasKillDelay = TRUE
    Debug = FALSE
    SetupMayFail = TRUE
    JobMayFail = TRUE
    ToolMayHang = TRUE
INVARIANTS TypeOK TreeContained SuccessIsReal 
PROPERTIES TimeoutIsFailure  LauncherExits
