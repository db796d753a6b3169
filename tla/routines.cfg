SPECIFICATION Spec
CONSTANTS
    Width = 4
    Height = 3
    Margin = 2
    Values = {1, 2, 3, 4}
    MaxLen = 4
    SecPerMin = 3
    MinPerHour = 2
    HourPerDay = 2
    ClockYears <- MCClockYears
    IntMax = 255
    Bases = {2, 10, 16, 36}
    Texts <- MCTexts
    MaxFormat = 5
    MaxSize = 5
    SizeMod = 32
    Memory = 5
    MaxString = 6
    Texts1 <- MCTexts1
    Texts2 <- MCTexts2
    BufSize = 4
    Pieces <- MCPieces
    MaxCalls = 3
    HeapSize = 5
    DupTexts <- MCDupTexts
    HeapCalls = 4
    TextLengths = {1, 3, 4}
    MaxItems = 3
    MaxTime = 8
    Precision = 4
    Scales = 20
    Unit = 128
    MaxReal = 2560
    Exponents = {0, 128, 192, 256, 384, 640, 896, 1408}
    Pi = 416
    MaxAngle = 15999
INVARIANTS SortsAndFinds DatesRight DigitsRight PrintsPrefix LineDrawn
INVARIANTS MovesAll TokensRight SearchesRight HeapContents FormatsTime MathsRight
PROPERTIES BufferImplements Returns
CHECK_DEADLOCK FALSE
