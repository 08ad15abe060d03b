SPECIFICATION Spec
CONSTANTS
    NanosPerSecond = 10
    MaxSeconds = 1000000
    MinPrecision = 5
    ExtraDigits = 4
    MaxDigits = 3
    PowerOfTen <- Powers
    Empty = Empty
    Malformed = Malformed
    TooFine = TooFine
    TooLong = TooLong
    None = None
    Invalid = Invalid
    MaxInt32 = 2147483647
    MaxPage = 1000
    MaxBulk = 1000
    MaxHeaderValue = 4
    MaxHeaderBytes = 8
    Inputs <- CalendarInputs
    Configs <- OneConfig
    Details <- AllDetails
CHECK_DEADLOCK FALSE
INVARIANT LocalRefusalsAreValueErrors
