\* The daisy chain wired: one SIO channel, two timers, one board without IM2.
SPECIFICATION Spec
CONSTANTS
    NoChan = NoChan
    NoChar = NoChar
    Char   = {0}
    Vector = {96}
    Mode   <- IrqModes
    Scale  = 1
    Ratio  = 1
    Wrap   = 2
    Chained = TRUE
    HaveIm2 = TRUE
    Legacy  = {"vdp"}
    Clocks  = 2
    PulseRounds = 0
    Slices  = 1
    Ticks   = 1
    Port    = {"A"}
    SioCmd  = {"reti"}
    Timers  = {0, 3}
    Words   <- StartStop
    TimeConst = {1}
    CtcBase = {16}
    MaxNest = 0
INVARIANTS
    TypeOK
    ServiceIsLive
    VectorMatchesSource
PROPERTY
    LiveNotReplaced
