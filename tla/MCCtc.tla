------------------------------- MODULE MCCtc -------------------------------
(***************************************************************************)
(* The CTC with any software (CtcSystem) on small prescalers, or its       *)
(* chained pair of channels (CtcChain) with the code's own prescalers, the *)
(* slices of the RC2014 (tstate_steps * 10) and of the Micro80 (921), and  *)
(* time constants at both ends of their range.                             *)
(***************************************************************************)
EXTENDS CtcSystem

VARIABLES
    pair,           (* the CTC of the chained pair *)
    pairClock,
    alone           (* which of the two is run *)

Chain ==
    INSTANCE CtcChain WITH
        ctc <- pair, clock <- pairClock,
        Scale <- 256, Ratio <- 16, Wrap <- 256, Chained <- TRUE,
        TimerConst <- {0, 8, 72, 255}, CounterConst <- {1, 2, 3, 100, 255},
        Slice <- {921, 3650}, MaxClock <- 60000

ASSUME ChainAssumption == Chain!ChainConst

Word(irq, counter, presc, tconst, reset) ==
    [irq |-> irq, counter |-> counter, presc |-> presc, tconst |-> tconst, reset |-> reset]

\* A fast timer and a counter, restarted or reprogrammed on the run, and a
\* slow timer that is started once.
MCWords ==
    {Word(i, c, FALSE, t, r) : i \in BOOLEAN, c \in BOOLEAN, t \in BOOLEAN, r \in BOOLEAN}
        \cup {Word(TRUE, FALSE, TRUE, TRUE, TRUE)}

MCInit ==
    /\ alone \in BOOLEAN
    /\ Init /\ Chain!Init
    /\ alone => pair.ch[2].reload = 8 /\ pair.ch[3].reload = 2

AnySoftware == alone /\ Next /\ UNCHANGED <<pair, pairClock, alone>>

ChainedPair == ~alone /\ Chain!Next /\ UNCHANGED <<ctc, alone>>

MCNext == AnySoftware \/ ChainedPair

MCSpec == MCInit /\ [][MCNext]_<<ctc, pair, pairClock, alone>>

\* Every count keeps its 16 bit range, and no channel whose interrupt is
\* disabled has one pending.
CtcTypeOK == TypeOK /\ DisabledIsSilent

\* Whatever slices the main loop used, the timer of ctc_tick has lost no time,
\* and the channel that counts its timeouts has counted each of them once and
\* has asked for its interrupt when its constant was used up.
PairCountsExactly == Chain!PairCountsExactly
=============================================================================
