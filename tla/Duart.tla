------------------------------- MODULE Duart -------------------------------
(***************************************************************************)
(* The 68681 of duart.c: two serial ports of which one is the console, a   *)
(* counter, six input pins and one interrupt, between the main loop's      *)
(* duart_tick and the register accesses of software.                       *)
(***************************************************************************)
EXTENDS Integers

CONSTANTS
    Console,        (* the port duart_set_input chose *)
    CounterLoad,    (* the values of ctr software uses *)
    DuartMask,      (* the values of imr software uses, as sets of bits *)
    Acr,            (* the counter modes software uses: bits 4-6 of acr *)
    DuartCmd,       (* the commands software uses *)
    PortUsed,       (* the ports software uses *)
    Pin             (* the input pins that move *)

Port == {0, 1}

\* A 16 bit register.
WordMax == 65535
Word == 0 .. WordMax

CommandByte ==
    [misc : 0 .. 7, rxon : BOOLEAN, rxoff : BOOLEAN, txon : BOOLEAN, txoff : BOOLEAN]

ASSUME DuartAssumption ==
    /\ Console \in Port
    /\ CounterLoad \subseteq Word
    /\ DuartMask \subseteq SUBSET (0 .. 7)
    /\ Acr \subseteq 0 .. 7
    /\ DuartCmd \subseteq CommandByte
    /\ PortUsed \subseteq Port
    /\ Pin \subseteq 0 .. 5

VARIABLES
    duart,
    due         (* history: where the counter should be, modulo ctr; -1 while
                   software has changed ctr and not restarted the counter *)

duartVars == <<duart, due>>

(***************************************************************************)
(* rxrdy and txrdy are bits 0 and 2 of a port's sr (bit 3 moves with bit   *)
(* 2).  isr, imr and irq are sets of bit numbers.                          *)
(***************************************************************************)
DuartPort == [rxrdy : BOOLEAN, txrdy : BOOLEAN, rxdis : BOOLEAN, txdis : BOOLEAN]

DuartState ==
    [port : [Port -> DuartPort], isr : SUBSET (0 .. 7), imr : SUBSET (0 .. 7),
     irq : SUBSET (0 .. 7), ct : Word, ctr : Word, ctstop : BOOLEAN,
     acr : 0 .. 7, ip : SUBSET (0 .. 5)]

\* acr is 0xFF after duart_reset, whose counter mode is 7.
DuartCreated ==
    [port |-> [p \in Port |-> [rxrdy |-> FALSE, txrdy |-> FALSE, rxdis |-> FALSE, txdis |-> FALSE]],
     isr |-> {}, imr |-> {}, irq |-> {}, ct |-> 0, ctr |-> WordMax, ctstop |-> FALSE,
     acr |-> 7, ip |-> {}]

TxBit(p) == 4 * p
RxBit(p) == 4 * p + 1

duart_irq_calc(d) == [d EXCEPT !.irq = d.isr \cap d.imr]

duart_irq_raise(d, b) ==
    IF b \in d.isr THEN d ELSE duart_irq_calc([d EXCEPT !.isr = @ \cup {b}])

\* Mutant: the line is left for the next event to recompute.
duart_irq_lower_lazy(d, b) == [d EXCEPT !.isr = @ \ {b}]

duart_irq_lower(d, b) ==
    IF b \in d.isr THEN duart_irq_calc([d EXCEPT !.isr = @ \ {b}]) ELSE d

duart_input(d, p) ==
    IF d.port[p].rxrdy
    THEN duart_irq_lower([d EXCEPT !.port[p].rxrdy = FALSE], RxBit(p))
    ELSE d

duart_output(d, p) ==
    LET e == duart_irq_lower(d, TxBit(p))
    IN  IF d.port[p].txdis \/ ~d.port[p].txrdy THEN e
        ELSE duart_irq_calc([e EXCEPT !.port[p].txrdy = FALSE])

\* misc is bits 5-7 of a command, of which the code keeps the middle of three
\* and so takes 20 and 30 for "reset receiver"; the others touch nothing here.
\* Bits 0-3 follow: receiver on, off, transmitter on, off.
duart_command(d, p, cmd) ==
    LET rxdis == d.port[p].rxdis \/ cmd.misc = 1
        txdis == d.port[p].txdis
    IN  [d EXCEPT !.port[p].rxdis = cmd.rxoff \/ (rxdis /\ ~cmd.rxon),
                  !.port[p].txdis = cmd.txoff \/ (txdis /\ ~cmd.txon)]

\* The clocks of a tick with and without the divider by 16.
CountClock(mode) == IF mode = 6 THEN 184 ELSE 11

\* Mutant: the counter restarts from its constant and the overrun is lost.
Overrun_restarts(ct, ctr) == ctr

\* Mutant: the remainder is kept with the sign C gives it.
Overrun_signed(ct, ctr) == IF ctr = 0 THEN 0 ELSE -((-ct) % ctr)

\* C's remainder of a negative count keeps its sign.
Overrun(ct, ctr) == IF ctr = 0 THEN 0 ELSE ctr - ((-ct) % ctr)

\* Whether a tick counts: a stopped counter stands, a timer never stops.
Counts(d) == d.acr \in {3, 6, 7} /\ ~(d.acr = 3 /\ d.ctstop)

duart_count(d) ==
    LET left == d.ct - CountClock(d.acr)
    IN  IF left < 0
        THEN duart_irq_raise([d EXCEPT !.ct = Overrun(left, d.ctr)], 3)
        ELSE [d EXCEPT !.ct = left]

TickReceive(d, rx) ==
    IF rx /\ ~d.port[Console].rxdis
    THEN duart_irq_raise([d EXCEPT !.port[Console].rxrdy = TRUE], RxBit(Console))
    ELSE d

TickTransmit(d, p) ==
    LET e == IF ~d.port[p].txdis /\ ~d.port[p].txrdy THEN duart_irq_raise(d, TxBit(p)) ELSE d
    IN  [e EXCEPT !.port[p].txrdy = TRUE]

duart_tick(d, rx, tx) ==
    LET r == TickReceive(d, rx)
        t == IF tx THEN TickTransmit(TickTransmit(r, 0), 1) ELSE r
    IN  IF Counts(t) THEN duart_count(t) ELSE t

\* The input port change register: the interrupt's cause goes, and the line
\* is not recomputed.
read_ipcr(d) == [d EXCEPT !.isr = @ \ {7}]

read_start(d) == [d EXCEPT !.ct = d.ctr, !.ctstop = FALSE]

read_stop(d) == duart_irq_lower([d EXCEPT !.ctstop = TRUE], 3)

\* duart_set_input_pin and duart_clear_input_pin; pins 4 and 5 tell nobody.
duart_pin(d, pin, on) ==
    LET moved == pin < 4 /\ (on # (pin \in d.ip))
    IN  duart_irq_calc([d EXCEPT !.ip = IF on THEN @ \cup {pin} ELSE @ \ {pin},
                                 !.isr = IF moved THEN @ \cup {7} ELSE @])

-----------------------------------------------------------------------------

\* Software has loaded the counter and started it before the first tick.
DuartInit ==
    /\ \E v \in CounterLoad : duart = read_start([DuartCreated EXCEPT !.ctr = v])
    /\ due = IF duart.ctr = 0 THEN -1 ELSE 0

DuartTick ==
    \E rx \in BOOLEAN, tx \in BOOLEAN :
        /\ duart' = duart_tick(duart, rx, tx)
        /\ due' = IF due = -1 \/ ~Counts(duart) THEN due
                  ELSE (due - CountClock(duart.acr)) % duart.ctr

DuartRead ==
    \/ \E p \in PortUsed : duart' = duart_input(duart, p) /\ UNCHANGED due
    \/ duart' = read_ipcr(duart) /\ UNCHANGED due
    \/ duart' = read_start(duart) /\ due' = IF duart.ctr = 0 THEN -1 ELSE 0
    \/ duart' = read_stop(duart) /\ UNCHANGED due

DuartWrite ==
    \/ \E p \in PortUsed, cmd \in DuartCmd : duart' = duart_command(duart, p, cmd) /\ UNCHANGED due
    \/ \E p \in PortUsed : duart' = duart_output(duart, p) /\ UNCHANGED due
    \/ \E a \in Acr : duart' = duart_irq_calc([duart EXCEPT !.acr = a]) /\ UNCHANGED due
    \/ \E m \in DuartMask : duart' = duart_irq_calc([duart EXCEPT !.imr = m]) /\ UNCHANGED due
    \/ \E v \in CounterLoad : duart' = [duart EXCEPT !.ctr = v] /\ due' = -1

DuartPins == \E pin \in Pin, on \in BOOLEAN : duart' = duart_pin(duart, pin, on) /\ UNCHANGED due

DuartNext == DuartTick \/ DuartRead \/ DuartWrite \/ DuartPins

DuartSpec == DuartInit /\ [][DuartNext]_duartVars

-----------------------------------------------------------------------------

DuartTypeOK == duart \in DuartState /\ due \in Word \cup {-1}

\* No request that software has enabled fails to reach the line, and only the
\* pin change request may linger there after its cause is gone, because the
\* read of IPCR is the one place that does not recompute; a receive request
\* stands exactly for a character that waits, a transmit request for a
\* transmitter that is ready.
DuartLineTruth ==
    /\ duart.irq \ {7} = (duart.isr \cap duart.imr) \ {7}
    /\ 7 \in duart.isr \cap duart.imr => 7 \in duart.irq
    /\ \A p \in Port : /\ RxBit(p) \in duart.isr <=> duart.port[p].rxrdy
                       /\ TxBit(p) \in duart.isr => duart.port[p].txrdy

\* However many clocks a tick brings, and whether or not several periods end
\* in one, duart_count keeps the counter's phase: C's negative remainder is
\* put right by adding one more period.
DuartNoDrift == due # -1 => duart.ct % duart.ctr = due

\* The DUART's registers tell the truth about its characters and its time.
DuartTruth == DuartLineTruth /\ DuartNoDrift
=============================================================================
