SPECIFICATION Spec
CONSTANTS
    f1 = f1  f2 = f2  f3 = f3  f4 = f4
    kernelFrame = kernelFrame
    shell = shell  tool = tool
    MaxPid = 4
    Roots <- Frames
    KernelRoot <- kernelFrame
    Programs <- Tools
    InitProgram <- shell
    ExitCodes <- Codes
    WaitArgs <- AnyChild
    ReadLen = 7
    MaxInput = 0
SYMMETRY FrameSymmetry
INVARIANTS TableConsistent RunsAsItself LoopStaysAlive
PROPERTIES ImplementsLifecycle NoOvertaking
