\* Small sets that still let every source of an interrupt happen; the counter
\* of the DUART is loaded with a value between its two clocks per tick.
SPECIFICATION MCSpec
CONSTANTS
    UartIer     = {{}, {"RXDA"}, {"RXDA", "TEMT", "MODEM"}}
    UartLine    = {"DSR", "DCD"}
    DsrTimer    = TRUE
    MaxArrive   = 5
    Console     = 0
    PortUsed    = {0}
    CounterLoad = {0, 20}
    DuartMask   = {{}, {0, 1, 3, 7}}
    DuartCmd    <- MCDuartCmd
    Acr         = {3, 6}
    Pin         = {2, 4}
INVARIANTS
    SerialTypeOK
    AciaLineTruth
    AciaOverrunTold
    UartLineTruth
    M6551Truth
    DuartTruth
    PhantomOnlyAfterRace
PROPERTIES
    SpuriousOnlyInSlice
    AllCharactersRead
