----------------------------- MODULE CtcSystem -----------------------------
(***************************************************************************)
(* A Z80 CTC alone: the main loop ticks it in slices of any length and     *)
(* feeds pulses to its clock inputs, software programs it, and the machine *)
(* ends its interrupts.                                                    *)
(***************************************************************************)
EXTENDS Z80Ctc

CONSTANTS
    Channel,    (* the channels software programs *)
    Fed,        (* the channels with a clock input: 0, 1 and 2 on the EasyZ80 *)
    Words,      (* the control words software uses *)
    TimeConst,  (* the time constants software uses *)
    Slice       (* the lengths of slices, in clocks *)

ASSUME CtcUseAssumption ==
    /\ Channel \subseteq CtcChan /\ Fed \subseteq CtcChan
    /\ Words \subseteq Control /\ TimeConst \subseteq 0 .. Wrap - 1
    /\ Slice \subseteq Nat

VARIABLE ctc

vars == <<ctc>>

Init == ctc = CtcCreated

Tick == \E clocks \in Slice : ctc' = ctc_tick(ctc, clocks)

ReceivePulse(i) == ctc' = ctc_receive_pulse(ctc, i)

Reti(i) == ctc' = ctc_reti(ctc, i)

Write(i) ==
    IF ctc.ch[i].ctrl.tconst
    THEN \E v \in TimeConst : ctc' = LoadConstant(ctc, i, v)
    ELSE \/ \E w \in Words : ctc' = LoadControl(ctc, i, w)
         \/ ctc' = LoadVector(ctc, i, 16)

Next ==
    \/ Tick
    \/ \E i \in Fed : ReceivePulse(i)
    \/ \E i \in Channel : Write(i) \/ Reti(i)

Spec == Init /\ [][Next]_vars

-----------------------------------------------------------------------------

\* The 16 bit count never leaves its range, although ctc_tick computes it in
\* an int that goes negative and ctc_write subtracts 1 from a constant of 0.
TypeOK == ctc \in CtcState

\* A channel whose interrupts are off has none pending: ctc_interrupt does not
\* raise one, and ctc_write takes one back when it switches them off.
DisabledIsSilent == \A i \in ctc.irqmask : ctc.ch[i].ctrl.irq

\* How the main loop slices time does not matter: two ticks leave the same
\* counts and the same pending interrupts as one tick of their sum, down to
\* the pulses that channel 2 sends to channel 3 on the way.
SlicingIsInvisible ==
    \A a \in Slice, b \in Slice :
        ctc_tick(ctc_tick(ctc, a), b) = ctc_tick(ctc, a + b)
=============================================================================
