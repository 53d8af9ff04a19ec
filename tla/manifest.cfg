SPECIFICATION Spec
CONSTANTS
    Frag = {1, 2, 3}
    Looked <- MCLooked
    WorkingDir <- MCWorkingDir
    Tool <- MCTool
    OverlayRoot <- MCOverlayRoot
    Declarable <- MCDeclarable
    MaxOptions = 2
    Hashes = {0, 1, 3}
    Servers = {}
    TraceLengths = {6}
    DllLength = 5
INVARIANTS TypeOK  OffsetsLeaveFlagsFree OutputDirsReady
