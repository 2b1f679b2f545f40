\* One channel with every register, every command and a modem line.
SPECIFICATION Spec
CONSTANTS
    NoChan = NoChan
    NoChar = NoChar
    Char   = {0, 1}
    Vector = {0}
    Mode   <- RxModes
    Sender = {"A"}
    Driven = {"A"}
    Modem  = {"A"}
    Cmd    = {"null", "extreset", "chanreset", "txreset", "errreset", "reti"}
    Reg    = {1, 2, 3, 5}
INVARIANTS
    TypeOK
    AvailableMeansData
PROPERTY
    ReceiverIsFifo
