SPECIFICATION Spec
CONSTANTS
    NumFrames = 15
    Levels = 3
    IndexCount = 4
    KernelStart = 2
    UserPages <- MCUserPages
    KernelHeap <- MCKernelHeap
    MmioPages <- MCMmioPages
    Values = {0}
    Zero = 0
    Junk = 238
    None = None
    MaxSpaces = 3
PROPERTY NewPagesZeroed
