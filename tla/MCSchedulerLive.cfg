SPECIFICATION FairSpec
CONSTANTS
    f1 = f1  f2 = f2  f3 = f3  f4 = f4
    kernelFrame = kernelFrame
    shell = shell  tool = tool
    MaxPid = 3
    Roots <- FewFrames
    KernelRoot <- kernelFrame
    Programs <- OnlyInit
    InitProgram <- shell
    ExitCodes <- Codes
    WaitArgs <- OwnGroup
    ReadLen = 7
    MaxInput = 1
INVARIANT AnswersReachCaller
PROPERTIES
    RunnableRuns WaitReturns
