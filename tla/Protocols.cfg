\* Every sequence of five reads; bytes of two bits for the keyboard and the
\* clock chip; one W5100 socket with rings of two bytes and pointers that go
\* round.
SPECIFICATION ProtocolSpec
CONSTANTS
    MaxReads     = 5
    DataBits     = 2
    BitToClock   = 1
    SendByte     = 2
    BufSize      = 2
    Decode       <- MCDecode
    Reply        <- MCReply
    Keys         = {2}
    EventClocks  = {3}
    ByteBits     = 2
    RamSize      = 2
    TimeCells    = {0}
    RTC_ID       = 1
    TimeByte     = {2}
    MaxBits      = 9
    Sockets      = {0}
    Low          = 2
    Wide         = 4
    Ring         = 2
    Header       = 1
    MaxDatagrams = 2
    MaxStray     = 1
INVARIANTS
    ProtocolTypeOK
    RetiSeenAsExecuted
    Ps2SendsWhole
    I2cInStep
    W5100RxInStep
    W5100TxInStep
PROPERTY
    W5100Sends
\* The bounds on reads and bits stop some parts.
CHECK_DEADLOCK FALSE
