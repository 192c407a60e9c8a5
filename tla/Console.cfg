SPECIFICATION Spec
CONSTANTS
    chars_width = 2
    chars_height = 2
    InputLength = 3
    Keys <- MCKeys
    Codes <- MCCodes
    Breaks <- MCBreaks
    Char <- MCChar
    Shifts = {"shift"}
    CapsKey = "caps"
    Untaken = {"F7", "pause"}
    Misprinted = {"seven"}
    StrayByte = 28
    Output = {"x", "nl"}
    Nums = {2}
    MaxPresses <- MCPresses
    MaxCalls <- MCCalls
    MaxStray = 1
CONSTRAINT MCBound
INVARIANTS ScreenShowsBuffer TypedIsRead HaltsOnlyForCause
CHECK_DEADLOCK FALSE
