SPECIFICATION Spec
CONSTANTS
    BufferSize = 12
    CharBits = 3
    ShortBits = 4
    IntBits = 5
    LongBits = 6
    PointerDigits = 4
    Unit = 8
    MaxPrecision = 4
    DefaultPrecision = 2
    MaxDecimal = 2000
    Directives <- MCDirectives
    Numbers <- MCNumbers
    Floats <- MCFloats
    TextDirectives <- MCTextDirectives
    Strings <- MCStrings
    BufferLengths = {0, 1, 3, 20}
    GenRegs = 3
    FloatRegs = 3
    ArgLists <- MCArgLists
    Memory <- MCMemory
    Words <- MCWords
    Numerals <- MCNumerals
    Decimals <- MCDecimals
    Bases <- MCBases
    Characters <- MCCharacters
    alpha_table <- MCalpha
    punct_table <- MCpunct
    RuleOf <- MCRuleOf
    exceptions <- MCexceptions
    TableEnd = 256
    LargeLength = 4
    BigAmountOfRam = 4
    KernelText = 22
    HhdmOffset = 3
    MemoryMaps <- MCMemoryMaps
    Addresses <- MCAddresses
    InodeShift = 16
    WordRange = 32
    DirentSize = 4
    MaxVolumes = 2
    NameChars = 2
    BootSectors <- MCBootSectors
    DirEntries <- MCDirEntries
    DeviceTables <- MCDeviceTables
    Texts <- MCTexts
    Delims <- MCDelims
    ByteStrings <- MCByteStrings
    Chars <- MCChars
    MaxFile = 4
    Files <- MCFiles
    LineSize = 4
    NL = 10
    DirentBytes = 2
    PageSize = 8
    PtrSize = 2
    Top = 95
    StackPages = 2
    RamSize = 16
    HeaderSize = 2
    Executables <- MCExecutables
    Arguments <- MCArguments
    Root = "root"
    NewFile = "new"
    NoNode = "nowhere"
    MaxMounts = 2
    Tree <- MCTree
    Cwds <- MCCwds
    PathNames <- MCPathNames
    MountTables <- MCMountTables
    OpenFlags <- MCOpenFlags
    WordBits = 8
    PageBytes = 32
    IoPorts = 64
    FirstVector = 33
    LastVector = 36
    LapicAddress = 238
    Machines <- MCMachines
    ByteRange = 256
    IoapicLength = 12
    TimerRange = 4
    CounterRange = 64
    Calibration = 2
    Firmware <- MCFirmware
    TimerPorts <- MCTimerPorts
    MaxClock = 14
    PointersPerPage = 8
    Descriptors <- MCDescriptors
    Controllers <- MCControllerParams
    Protocols <- MCProtocols
INVARIANTS PrintfMeetsC NumbersParse StringsMeetC DecodesUtf8 StreamInOrder LoadsProgram PathsResolve 
CHECK_DEADLOCK FALSE
