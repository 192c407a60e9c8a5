SPECIFICATION PipeSpec
CONSTANTS
    MaxWritten = 3
    MaxNum = 2
INVARIANT ReadsMatchWrites
