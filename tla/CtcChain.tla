------------------------------ MODULE CtcChain ------------------------------
(***************************************************************************)
(* The usual way to get a slow interrupt out of the CTC: channel 2 is a    *)
(* timer, it clocks channel 3, and channel 3 counts its timeouts and       *)
(* interrupts.  The main loop cuts time into slices of any length; the     *)
(* pair is compared with the closed form of what it should have counted.   *)
(***************************************************************************)
EXTENDS Z80Ctc

CONSTANTS
    TimerConst,     (* time constants of channel 2 *)
    CounterConst,   (* time constants of channel 3, at least 1 *)
    Slice,          (* the lengths of slices, in clocks *)
    MaxClock        (* bound: how long the machine runs *)

\* What the pair is made of: channel 2 clocks channel 3, constant 0 is the
\* largest for the timer, and the counter's is not 0.
ChainConst ==
    /\ Chained
    /\ TimerConst \subseteq 0 .. Wrap - 1 /\ CounterConst \subseteq 1 .. Wrap - 1
    /\ Slice \subseteq Nat

VARIABLES
    ctc,
    clock           (* how much time has passed since the pair was programmed *)

vars == <<ctc, clock>>

Program(k, i, counter, v) ==
    LoadConstant(LoadControl(k, i, [irq |-> counter, counter |-> counter, presc |-> FALSE,
                                    tconst |-> TRUE, reset |-> TRUE]), i, v)

Init ==
    /\ \E r2 \in TimerConst, r3 \in CounterConst :
           ctc = Program(Program(CtcCreated, 3, TRUE, r3), 2, FALSE, r2)
    /\ clock = 0

Tick ==
    \E clocks \in Slice :
        /\ clock + clocks <= MaxClock
        /\ ctc' = ctc_tick(ctc, clocks)
        /\ clock' = clock + clocks

Next == Tick

Spec == Init /\ [][Next]_vars

-----------------------------------------------------------------------------

\* The timer's constant, with 0 for the largest.
TimerPeriod == IF ctc.ch[2].reload = 0 THEN Wrap ELSE ctc.ch[2].reload

\* The first period is one unit short (count starts at reload - 1).
First == (TimerPeriod - 1) * Scale

\* How often channel 2 has timed out by now.
Timeouts ==
    LET e == clock * Ratio
    IN  IF e <= First THEN 0 ELSE 1 + ((e - First - 1) \div (TimerPeriod * Scale))

\* Whatever slices the main loop used, and however many timeouts fell into
\* one of them, the timer of ctc_tick has lost no time.
NoDrift == ctc.ch[2].count = (First - clock * Ratio) % (TimerPeriod * Scale)

\* Channel 3 has counted every timeout once (ctc_pulse runs once per turn of
\* ctc_tick's while loop) and has wanted to interrupt as soon as its constant
\* is used up.
DividesExactly ==
    LET r == ctc.ch[3].reload
    IN  /\ ctc.ch[3].count = Scale * (IF Timeouts = 0 THEN r - 1 ELSE r - ((Timeouts + 1) % r))
        /\ 3 \in ctc.irqmask <=> Timeouts > 0 /\ Timeouts + 1 >= r

PairCountsExactly == NoDrift /\ DividesExactly
=============================================================================
