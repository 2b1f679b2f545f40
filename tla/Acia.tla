-------------------------------- MODULE Acia --------------------------------
(***************************************************************************)
(* The 6850 ACIA of acia.c between the main loop, which polls the device   *)
(* behind it (acia_timer), and software, which reads and writes its two    *)
(* registers in any order.                                                 *)
(***************************************************************************)
EXTENDS Naturals

VARIABLES
    acia,
    unread      (* history: characters taken from the device since the last
                   data read or the end of the last reset; 2 stands for more *)

aciaVars == <<acia, unread>>

(***************************************************************************)
(* rdrf, tdre, ovrn and irq are bits 0, 1, 5 and 7 of status; rie is bit 7 *)
(* of config, and tie says that its bits 5 and 6 are 01.                   *)
(***************************************************************************)
AciaState ==
    [rdrf : BOOLEAN, tdre : BOOLEAN, ovrn : BOOLEAN, irq : BOOLEAN,
     rie : BOOLEAN, tie : BOOLEAN, inreset : BOOLEAN, inint : BOOLEAN]

\* The control bytes, as far as the code looks at them.
AciaConfig == [rie : BOOLEAN, tie : BOOLEAN, reset : BOOLEAN]

AciaCreated ==
    [rdrf |-> FALSE, tdre |-> TRUE, ovrn |-> FALSE, irq |-> FALSE,
     rie |-> FALSE, tie |-> FALSE, inreset |-> FALSE, inint |-> FALSE]

AciaCause(a) == (a.rdrf /\ a.rie) \/ (a.tdre /\ a.tie)

\* Transmit interrupts need the receive enable bit too.
acia_irq_compute(a) ==
    [a EXCEPT !.irq = a.rie /\ AciaCause(a), !.inint = a.rie /\ AciaCause(a)]

\* Mutant: the overrun test after the new character is in.
acia_receive_late(a) ==
    IF a.inreset THEN a ELSE [a EXCEPT !.rdrf = TRUE, !.ovrn = TRUE]

acia_receive(a) ==
    IF a.inreset THEN a ELSE [a EXCEPT !.rdrf = TRUE, !.ovrn = a.ovrn \/ a.rdrf]

acia_transmit(a) == [a EXCEPT !.tdre = TRUE]

\* Mutant: the interrupt is computed before the character is in.
acia_timer_early(a, rx, tx) ==
    LET c == IF rx \/ tx THEN acia_irq_compute(a) ELSE a
        r == IF rx THEN acia_receive(c) ELSE c
    IN  IF tx THEN acia_transmit(r) ELSE r

\* Mutant: the interrupt is only recomputed when a character has arrived.
acia_timer_rxonly(a, rx, tx) ==
    LET r == IF rx THEN acia_receive(a) ELSE a
        t == IF tx THEN acia_transmit(r) ELSE r
    IN  IF rx THEN acia_irq_compute(t) ELSE t

acia_timer(a, rx, tx) ==
    LET r == IF rx THEN acia_receive(a) ELSE a
        t == IF tx THEN acia_transmit(r) ELSE r
    IN  IF rx \/ tx THEN acia_irq_compute(t) ELSE t

acia_read_data(a) == acia_irq_compute([a EXCEPT !.rdrf = FALSE, !.ovrn = FALSE])

\* A reset leaves the status alone when it begins and clears it at its end.
acia_write_config(a, c) ==
    LET ends == a.inreset /\ ~c.reset
        b    == [a EXCEPT !.rie = c.rie, !.tie = c.tie, !.inreset = c.reset]
    IN  acia_irq_compute(IF ends
                         THEN [b EXCEPT !.rdrf = FALSE, !.ovrn = FALSE, !.tdre = TRUE]
                         ELSE b)

acia_write_data(a) == acia_irq_compute([a EXCEPT !.tdre = FALSE])

-----------------------------------------------------------------------------

AciaInit == acia = AciaCreated /\ unread = 0

AciaTimer ==
    \E rx \in BOOLEAN, tx \in BOOLEAN :
        /\ acia' = acia_timer(acia, rx, tx)
        /\ unread' = IF rx /\ ~acia.inreset /\ unread < 2 THEN unread + 1 ELSE unread

AciaReadData == acia' = acia_read_data(acia) /\ unread' = 0

AciaWriteConfig ==
    \E c \in AciaConfig :
        /\ acia' = acia_write_config(acia, c)
        /\ unread' = IF acia.inreset /\ ~c.reset THEN 0 ELSE unread

AciaWriteData == acia' = acia_write_data(acia) /\ UNCHANGED unread

AciaNext == AciaTimer \/ AciaReadData \/ AciaWriteConfig \/ AciaWriteData

AciaSpec == AciaInit /\ [][AciaNext]_aciaVars

-----------------------------------------------------------------------------

AciaTypeOK == acia \in AciaState /\ unread \in 0 .. 2

\* The line and the status bit that announces it agree with the registers
\* whenever no function is running: every path that changes a register ends
\* in acia_irq_compute, acia_timer's early way out included.
AciaLineTruth ==
    /\ acia.inint <=> acia.rie /\ AciaCause(acia)
    /\ acia.irq <=> acia.inint

\* acia_receive overwrites the character that waits; software is told by OVRN
\* exactly when that has happened, and RDRF is set exactly when a character
\* waits, through resets and reads at any moment.
AciaOverrunTold ==
    /\ acia.rdrf <=> unread > 0
    /\ acia.ovrn <=> unread > 1
=============================================================================
