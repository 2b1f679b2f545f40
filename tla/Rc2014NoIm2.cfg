\* The chain not wired: does the SIO's service stay on the interrupt line?
SPECIFICATION Spec
CONSTANTS
    NoChan = NoChan
    NoChar = NoChar
    Char   = {0}
    Vector = {96}
    Mode   <- IrqModes
    Scale  = 1
    Ratio  = 1
    Wrap   = 2
    Chained = TRUE
    HaveIm2 = FALSE
    Legacy  = {}
    Clocks  = 2
    PulseRounds = 0
    Slices  = 1
    Ticks   = 1
    Port    = {"A"}
    SioCmd  = {"reti"}
    Timers  = {3}
    Words   <- StartStop
    TimeConst = {1}
    CtcBase = {}
    MaxNest = 0
INVARIANT
    ServiceStillRaised
