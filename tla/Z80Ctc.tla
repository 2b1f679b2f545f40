------------------------------- MODULE Z80Ctc -------------------------------
(***************************************************************************)
(* The Z80 CTC of rc2014.c: four counters, of which the third may clock    *)
(* the fourth, and the mask of the ones that want to interrupt.            *)
(*                                                                         *)
(* As in Z80Sio the chip is one record and each function that changes it   *)
(* is an operator.  What ctc_check_im2 and ctc_write do to live_irq is     *)
(* part of the machine, Rc2014Irq.                                         *)
(*                                                                         *)
(* Left out: the edge and pulse bits of a control word, which are stored   *)
(* and change nothing, and tracing.                                        *)
(***************************************************************************)
EXTENDS Integers

CONSTANTS
    Scale,      (* clocks per count when prescaling by the larger factor: 256 *)
    Ratio,      (* how much faster the smaller factor counts: 16 *)
    Wrap,       (* the number of time constants, and what constant 0 means: 256 *)
    Chained     (* FALSE on the SC121, where channel 2 does not clock channel 3 *)

ASSUME CtcAssumption ==
    /\ Scale \in Nat \ {0}
    /\ Ratio \in Nat \ {0}
    /\ Wrap \in Nat \ {0, 1}
    /\ Chained \in BOOLEAN

CtcChan == 0 .. 3

\* The bits of a control word that matter.
Control == [irq : BOOLEAN, counter : BOOLEAN, presc : BOOLEAN,
            tconst : BOOLEAN, reset : BOOLEAN]

\* struct z80_ctc; count is a 16 bit fixed point number, Scale to the unit.
CtcChanState == [ctrl : Control, count : 0 .. Scale * Wrap - 1, reload : 0 .. Wrap - 1]

\* ctc[], ctc_irqmask and the vector register of channel 0.
CtcState == [ch : [CtcChan -> CtcChanState], irqmask : SUBSET CtcChan, vector : 0 .. 255]

\* Static storage is zero, then ctc_init.
CtcCreated ==
    [ch |-> [i \in CtcChan |->
               [ctrl |-> [irq |-> FALSE, counter |-> FALSE, presc |-> FALSE,
                          tconst |-> FALSE, reset |-> TRUE],
                count |-> 0, reload |-> 0]],
     irqmask |-> {}, vector |-> 0]

-----------------------------------------------------------------------------

CTC_STOPPED(c) == c.ctrl.tconst /\ c.ctrl.reset

ctc_interrupt(k, i) ==
    IF k.ch[i].ctrl.irq THEN [k EXCEPT !.irqmask = @ \cup {i}] ELSE k

ctc_reti(k, i) == [k EXCEPT !.irqmask = @ \ {i}]

\* Does a pulse make counter c expire?
Expires(c) == c.ctrl.counter /\ ~CTC_STOPPED(c) /\ c.count < 2 * Scale

\* Mutant: reloads one short.
Pulsed_short(k, i) ==
    LET c == k.ch[i]
    IN  IF ~c.ctrl.counter \/ CTC_STOPPED(c) THEN k
        ELSE IF ~Expires(c) THEN [k EXCEPT !.ch[i].count = @ - Scale]
        ELSE ctc_interrupt([k EXCEPT !.ch[i].count = ((c.reload - 1) % Wrap) * Scale], i)

\* ctc_receive_pulse without the pulse it sends on.
Pulsed(k, i) ==
    LET c == k.ch[i]
    IN  IF ~c.ctrl.counter \/ CTC_STOPPED(c) THEN k
        ELSE IF ~Expires(c) THEN [k EXCEPT !.ch[i].count = @ - Scale]
        ELSE ctc_interrupt([k EXCEPT !.ch[i].count = c.reload * Scale], i)

\* ctc_pulse: n timeouts of channel i, seen by the channel it clocks.
ctc_pulse(k, i, n) ==
    LET after[m \in 0 .. n] == IF m = 0 THEN k ELSE Pulsed(after[m - 1], 3)
    IN  IF i = 2 /\ Chained THEN after[n] ELSE k

ctc_receive_pulse(k, i) ==
    LET p == Pulsed(k, i)
    IN  IF Expires(k.ch[i]) THEN ctc_pulse(p, i, 1) ELSE p

-----------------------------------------------------------------------------
(* ctc_tick: the timers *)

Period(c) == (IF c.reload = 0 THEN Wrap ELSE c.reload) * Scale

\* What is left of channel c's count after that many clocks, before it wraps.
Remaining(c, clocks) == c.count - (IF c.ctrl.presc THEN clocks ELSE clocks * Ratio)

\* Mutant: loses the part of a period that runs past the end.
Wraps_lossy(c, clocks) == IF Remaining(c, clocks) >= 0 THEN 0 ELSE 1

\* How often the while loop runs: until the count is not negative.
Wraps(c, clocks) ==
    LET n == Remaining(c, clocks)
    IN  IF n >= 0 THEN 0 ELSE (Period(c) - 1 - n) \div Period(c)

TimerTicked(k, i, clocks) ==
    LET c == k.ch[i]
        w == Wraps(c, clocks)
        t == [k EXCEPT !.ch[i].count = Remaining(c, clocks) + w * Period(c)]
    IN  IF CTC_STOPPED(c) \/ c.ctrl.counter THEN k
        ELSE IF w = 0 THEN t
        ELSE ctc_pulse(ctc_interrupt(t, i), i, w)

ctc_tick(k, clocks) ==
    TimerTicked(TimerTicked(TimerTicked(TimerTicked(k, 0, clocks),
                                        1, clocks), 2, clocks), 3, clocks)

-----------------------------------------------------------------------------
(* ctc_write: what a byte means depends on the control word before it *)

\* Mutant: a constant of 0 leaves a negative count.
Reloaded_signed(c) == [c EXCEPT !.count = (c.reload - 1) * Scale]

Reloaded(c) == [c EXCEPT !.count = ((c.reload - 1) % Wrap) * Scale]

\* The byte after a control word that announced a time constant.
LoadConstant(k, i, v) ==
    LET c == [k.ch[i] EXCEPT !.reload = v]
        d == IF CTC_STOPPED(c) THEN Reloaded(c) ELSE c
    IN  [k EXCEPT !.ch[i] = [d EXCEPT !.ctrl.tconst = FALSE]]

\* Mutant: keeps an interrupt of a channel that disables interrupts.
LoadControl_keeps(k, i, w) ==
    LET c == [k.ch[i] EXCEPT !.ctrl = w]
    IN  [k EXCEPT !.ch[i] = IF w.reset /\ ~w.tconst THEN Reloaded(c) ELSE c]

\* A control word.
LoadControl(k, i, w) ==
    LET c == [k.ch[i] EXCEPT !.ctrl = w]
    IN  [k EXCEPT !.ch[i] = IF w.reset /\ ~w.tconst THEN Reloaded(c) ELSE c,
                  !.irqmask = IF w.irq THEN @ ELSE @ \ {i}]

\* An interrupt vector, which only channel 0 keeps.
LoadVector(k, i, v) == IF i = 0 THEN [k EXCEPT !.vector = v] ELSE k
=============================================================================
