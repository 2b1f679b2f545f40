\* Is the delivered vector the one that was raised?
SPECIFICATION Spec
CONSTANTS
    NoChan = NoChan
    NoChar = NoChar
    Char   = {0}
    Vector = {96}
    Mode   <- IrqModes
    Sender = {"A", "B"}
    Driven = {"A", "B"}
    Modem  = {}
    Cmd    = {"null", "txreset", "reti"}
    Reg    = {}
PROPERTY
    VectorIsRaisedPlusBase
