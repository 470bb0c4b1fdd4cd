CONSTANTS
    x0 = x0
    x1 = x1
    x16 = x16
    x17 = x17
    v0 = v0
    Regs = {x0, x1, x16, x17, v0}
    Zero = {0}
    Alu <- MCAlu
    Load <- MCLoad
    Start = 1022
    Scratch <- MCScratch
    Twin <- MCTwin
    Windows <- MCWindows
    Inputs <- MCInputs
    PatchLoad <- MCPatchLoad
    PageSizes = {1024, 4096}
SPECIFICATION Spec
INVARIANTS NeverIntoPatch
PROPERTIES ImplementsOriginal
CHECK_DEADLOCK FALSE
