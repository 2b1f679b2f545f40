\* Both channels receive while a timer interrupts in every tick.
SPECIFICATION DSpec
CONSTANTS
    NoChan = NoChan
    NoChar = NoChar
    Char   = {0}
    Vector = {96}
    Mode   <- DriverModes
    Scale  = 1
    Ratio  = 1
    Wrap   = 2
    Chained = TRUE
    HaveIm2 = TRUE
    Legacy  = {}
    Clocks  = 2
    PulseRounds = 1
    Slices  = 2
    Ticks   = 2
    Port    = {"A", "B"}
    SioCmd  = {}
    Timers  = {}
    Words   = {}
    TimeConst = {}
    CtcBase = {}
    MaxNest = 2
    Arrivals = 4
INVARIANT
    HandlerNotInterrupted
PROPERTY
    CharactersAreRead
    TimerIsServed
