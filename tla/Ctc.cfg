\* The chained pair 2 and 3, every kind of control word.
SPECIFICATION MCSpec
CONSTANTS
    Scale     = 2
    Ratio     = 2
    Wrap      = 3
    Chained   = TRUE
    Channel   = {2, 3}
    Fed       = {2}
    Words     <- MCWords
    TimeConst = {0, 2}
    Slice     = {1, 6}
INVARIANTS
    CtcTypeOK
    SlicingIsInvisible
    PairCountsExactly
\* The bound on the pair's time stops it.
CHECK_DEADLOCK FALSE
