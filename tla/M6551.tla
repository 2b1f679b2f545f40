------------------------------- MODULE M6551 -------------------------------
(***************************************************************************)
(* The 6551 ACIA of 6551.c between the main loop's m6551_timer and the     *)
(* register accesses of software.                                          *)
(***************************************************************************)
EXTENDS Naturals

VARIABLES
    m6551,
    kept        (* history: characters taken since the last data read, 2 for more *)

m6551Vars == <<m6551, kept>>

(***************************************************************************)
(* ovrn, rdrf, tdre and irq are bits 2, 3, 4 and 7 of status; echo is bit  *)
(* 4 of cmd, which the code takes for the interrupt enable as well, and    *)
(* txirq says that its bits 2 and 3 are 01.                                *)
(***************************************************************************)
M6551State ==
    [rdrf : BOOLEAN, tdre : BOOLEAN, ovrn : BOOLEAN, irq : BOOLEAN,
     echo : BOOLEAN, txirq : BOOLEAN, inint : BOOLEAN]

M6551Created ==
    [rdrf |-> FALSE, tdre |-> FALSE, ovrn |-> FALSE, irq |-> FALSE,
     echo |-> FALSE, txirq |-> FALSE, inint |-> FALSE]

M6551Cause(a) == a.rdrf \/ (a.tdre /\ a.txirq)

m6551_irq_compute(a) ==
    [a EXCEPT !.irq = M6551Cause(a), !.inint = M6551Cause(a) /\ a.echo]

m6551_receive(a) == [a EXCEPT !.rdrf = TRUE, !.ovrn = a.ovrn \/ a.rdrf]

m6551_timer(a, rx, tx) ==
    LET r == IF rx THEN m6551_receive(a) ELSE a
        t == IF tx THEN [r EXCEPT !.tdre = TRUE] ELSE r
    IN  IF rx \/ tx THEN m6551_irq_compute(t) ELSE t

m6551_read_data(a) == m6551_irq_compute([a EXCEPT !.rdrf = FALSE, !.ovrn = FALSE])

\* The transmitter stays empty: the byte is gone at once.  The control
\* register's write does the same as this one.
m6551_write_data(a) == m6551_irq_compute(a)

\* Mutant: the reset clears the overrun flag.
m6551_reset_clears(a) ==
    m6551_irq_compute([a EXCEPT !.echo = TRUE, !.txirq = FALSE, !.ovrn = FALSE])

\* Sets the bits of cmd and the overrun flag, and clears nothing.
m6551_reset(a) == m6551_irq_compute([a EXCEPT !.echo = TRUE, !.txirq = FALSE, !.ovrn = TRUE])

m6551_write_cmd(a, echo, txirq) ==
    m6551_irq_compute([a EXCEPT !.echo = echo, !.txirq = txirq])

-----------------------------------------------------------------------------

M6551Init == m6551 = M6551Created /\ kept = 0

M6551Timer ==
    \E rx \in BOOLEAN, tx \in BOOLEAN :
        /\ m6551' = m6551_timer(m6551, rx, tx)
        /\ kept' = IF rx /\ kept < 2 THEN kept + 1 ELSE kept

M6551ReadData == m6551' = m6551_read_data(m6551) /\ kept' = 0

M6551Write ==
    /\ \/ m6551' = m6551_write_data(m6551)
       \/ m6551' = m6551_reset(m6551)
       \/ \E echo \in BOOLEAN, txirq \in BOOLEAN : m6551' = m6551_write_cmd(m6551, echo, txirq)
    /\ UNCHANGED kept

M6551Next == M6551Timer \/ M6551ReadData \/ M6551Write

M6551Spec == M6551Init /\ [][M6551Next]_m6551Vars

-----------------------------------------------------------------------------

M6551TypeOK == m6551 \in M6551State /\ kept \in 0 .. 2

\* The status bit follows the causes whenever no function is running, the line
\* is never up without the status bit to tell why, and no lost character goes
\* untold: m6551_receive overwrites, and nothing but a data read clears the flag,
\* a reset in between included.  (6551.c:32-33 wants the line up with every
\* request while the transmit register is empty; the code asks bit 4 of cmd.)
M6551Truth ==
    /\ m6551.irq <=> M6551Cause(m6551)
    /\ m6551.inint => m6551.irq
    /\ m6551.rdrf <=> kept > 0
    /\ kept > 1 => m6551.ovrn
=============================================================================
