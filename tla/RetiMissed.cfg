\* Is there a RETI the chain does not see?
SPECIFICATION RetiSpec
CONSTANT
    MaxReads = 5
INVARIANT
    EveryRetiSeen
\* The bound stops it.
CHECK_DEADLOCK FALSE
