CONSTANTS
    a = a
    b = b
    NoByte = NoByte
    Byte <- MCByte
    Msg <- MCMsg
    HeadLen = 2
    Size = 7
    MaxRead = 2
    MaxCrash = 1
SPECIFICATION FairSpec
INVARIANT TypeOK
INVARIANT WriteIsSafe
INVARIANT ReadIsSafe
PROPERTY IsFifo
PROPERTY Drains
