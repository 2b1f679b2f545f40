\* Where does a character go that arrives when the FIFO is full?
SPECIFICATION Spec
CONSTANTS
    NoChan = NoChan
    NoChar = NoChar
    Char   = {0, 1}
    Vector = {0}
    Mode   <- RxModes
    Sender = {"A"}
    Driven = {"A"}
    Modem  = {"A"}
    Cmd    = {"null", "extreset", "chanreset", "txreset", "errreset", "reti"}
    Reg    = {1, 2, 3, 5}
PROPERTY
    OverrunReplacesLast
