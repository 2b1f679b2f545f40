---------------------------- MODULE SerialProofs ----------------------------
(***************************************************************************)
(* Proofs about the serial chips with any software, each chip's type and   *)
(* the agreement of its interrupt line with its registers, about the ACIA  *)
(* and the 16x50 in an RC2014, and about the Z80 SIO with the main loop    *)
(* and the interrupt logic of its machine.                                 *)
(***************************************************************************)
EXTENDS SioSystem, MCSerial, Z80SioProofs

(***************************************************************************)
(* The 6850.  What acia_irq_compute establishes, whatever it is given.     *)
(***************************************************************************)
AciaLine(a) ==
    /\ a.inint <=> a.rie /\ AciaCause(a)
    /\ a.irq <=> a.inint

AciaInv == AciaTypeOK /\ AciaLineTruth /\ AciaOverrunTold

\* acia_irq_compute makes the line true and leaves the rest of the chip alone.
LEMMA AciaComputed ==
    ASSUME NEW a \in AciaState
    PROVE  /\ acia_irq_compute(a) \in AciaState
           /\ AciaLine(acia_irq_compute(a))
           /\ acia_irq_compute(a).rdrf = a.rdrf
           /\ acia_irq_compute(a).ovrn = a.ovrn
           /\ acia_irq_compute(a).inreset = a.inreset
  BY DEF acia_irq_compute, AciaState, AciaLine, AciaCause

\* acia_receive keeps the ranges, and tells of an overrun.
LEMMA AciaReceived ==
    ASSUME NEW a \in AciaState
    PROVE  /\ acia_receive(a) \in AciaState
           /\ acia_receive(a).inreset = a.inreset
           /\ acia_receive(a).rdrf <=> (a.rdrf \/ ~a.inreset)
           /\ acia_receive(a).ovrn <=> (a.ovrn \/ (a.rdrf /\ ~a.inreset))
  BY DEF acia_receive, AciaState

LEMMA AciaTransmitted ==
    ASSUME NEW a \in AciaState
    PROVE  /\ acia_transmit(a) \in AciaState
           /\ acia_transmit(a).inreset = a.inreset
           /\ acia_transmit(a).rdrf = a.rdrf
           /\ acia_transmit(a).ovrn = a.ovrn
  BY DEF acia_transmit, AciaState

\* acia_timer: a character, a transmitter that is ready, both or neither.
LEMMA AciaTicked ==
    ASSUME NEW a \in AciaState, NEW rx \in BOOLEAN, NEW tx \in BOOLEAN, AciaLine(a)
    PROVE  /\ acia_timer(a, rx, tx) \in AciaState
           /\ AciaLine(acia_timer(a, rx, tx))
           /\ acia_timer(a, rx, tx).rdrf <=> (a.rdrf \/ (rx /\ ~a.inreset))
           /\ acia_timer(a, rx, tx).ovrn <=> (a.ovrn \/ (a.rdrf /\ rx /\ ~a.inreset))
<1> DEFINE r == IF rx THEN acia_receive(a) ELSE a
           t == IF tx THEN acia_transmit(r) ELSE r
<1>1. /\ r \in AciaState
      /\ r.rdrf <=> (a.rdrf \/ (rx /\ ~a.inreset))
      /\ r.ovrn <=> (a.ovrn \/ (a.rdrf /\ rx /\ ~a.inreset))
  <2>1. CASE rx
    BY <2>1, AciaReceived
  <2>2. CASE ~rx
    BY <2>2 DEF AciaState
  <2> QED  BY <2>1, <2>2
<1> HIDE DEF r
<1>2. t \in AciaState /\ t.rdrf = r.rdrf /\ t.ovrn = r.ovrn
  BY <1>1, AciaTransmitted
<1> HIDE DEF t
<1>3. acia_timer(a, rx, tx) = IF rx \/ tx THEN acia_irq_compute(t) ELSE t
  BY DEF acia_timer, r, t
<1>4. CASE rx \/ tx
  BY <1>1, <1>2, <1>3, <1>4, AciaComputed
<1>5. CASE ~(rx \/ tx)
  <2>1. t = a
    BY <1>5 DEF r, t
  <2> QED  BY <1>1, <1>2, <1>3, <1>5, <2>1
<1> QED  BY <1>4, <1>5

(***************************************************************************)
(* The three invariants together are inductive: LineTruth says what the    *)
(* one early way out of acia_timer relies on.                              *)
(***************************************************************************)
LEMMA AciaInitInv == AciaInit => AciaInv
  BY DEF AciaInit, AciaInv, AciaCreated, AciaTypeOK, AciaState, AciaLineTruth, AciaCause,
         AciaOverrunTold

LEMMA AciaTimerInv == AciaInv /\ AciaTimer => AciaInv'
<1> SUFFICES ASSUME AciaInv, NEW rx \in BOOLEAN, NEW tx \in BOOLEAN,
                    acia' = acia_timer(acia, rx, tx),
                    unread' = IF rx /\ ~acia.inreset /\ unread < 2 THEN unread + 1 ELSE unread
             PROVE  AciaInv'
  BY DEF AciaTimer
<1>1. acia \in AciaState /\ AciaLine(acia) /\ unread \in 0 .. 2
  BY DEF AciaInv, AciaTypeOK, AciaLineTruth, AciaLine
<1>2. acia' \in AciaState /\ AciaLine(acia')
  BY <1>1, AciaTicked
<1>3. unread' \in 0 .. 2
  BY <1>1
<1>4. /\ acia'.rdrf <=> (acia.rdrf \/ (rx /\ ~acia.inreset))
      /\ acia'.ovrn <=> (acia.ovrn \/ (acia.rdrf /\ rx /\ ~acia.inreset))
  BY <1>1, AciaTicked
<1>5. (acia.rdrf <=> unread > 0) /\ (acia.ovrn <=> unread > 1)
  BY DEF AciaInv, AciaOverrunTold
<1>6. (acia'.rdrf <=> unread' > 0) /\ (acia'.ovrn <=> unread' > 1)
  <2>1. CASE rx /\ ~acia.inreset
    <3>1. unread' = IF unread < 2 THEN unread + 1 ELSE unread
      BY <2>1
    <3>2. unread' > 0 /\ (unread' > 1 <=> unread > 0)
      BY <1>1, <3>1
    <3>3. acia'.rdrf /\ (acia'.ovrn <=> acia.ovrn \/ acia.rdrf)
      BY <1>4, <2>1
    <3>4. acia.ovrn => acia.rdrf
      BY <1>1, <1>5
    <3> QED  BY <1>5, <3>2, <3>3, <3>4
  <2>2. CASE ~(rx /\ ~acia.inreset)
    BY <1>4, <1>5, <2>2
  <2> QED  BY <2>1, <2>2
<1> QED
  BY <1>2, <1>3, <1>6 DEF AciaInv, AciaTypeOK, AciaLineTruth, AciaLine, AciaOverrunTold

\* The accesses of software all end in acia_irq_compute.
LEMMA AciaAccessInv ==
    ASSUME AciaInv, NEW b \in AciaState, acia' = acia_irq_compute(b), unread' \in 0 .. 2,
           b.rdrf <=> unread' > 0, b.ovrn <=> unread' > 1
    PROVE  AciaInv'
<1>1. /\ acia' \in AciaState /\ AciaLine(acia')
      /\ acia'.rdrf = b.rdrf /\ acia'.ovrn = b.ovrn
  BY AciaComputed
<1> QED
  BY <1>1 DEF AciaInv, AciaTypeOK, AciaLineTruth, AciaLine, AciaOverrunTold

LEMMA AciaReadDataInv == AciaInv /\ AciaReadData => AciaInv'
<1> SUFFICES ASSUME AciaInv, AciaReadData PROVE AciaInv'
  OBVIOUS
<1> DEFINE b == [acia EXCEPT !.rdrf = FALSE, !.ovrn = FALSE]
<1>1. b \in AciaState /\ b.rdrf = FALSE /\ b.ovrn = FALSE
  BY DEF AciaInv, AciaTypeOK, AciaState
<1>2. acia' = acia_irq_compute(b) /\ unread' = 0
  BY DEF AciaReadData, acia_read_data
<1>3. unread' \in 0 .. 2 /\ ~(unread' > 0) /\ ~(unread' > 1)
  BY <1>2
<1> HIDE DEF b
<1> QED  BY <1>1, <1>2, <1>3, AciaAccessInv

LEMMA AciaWriteDataInv == AciaInv /\ AciaWriteData => AciaInv'
<1> SUFFICES ASSUME AciaInv, AciaWriteData PROVE AciaInv'
  OBVIOUS
<1> DEFINE b == [acia EXCEPT !.tdre = FALSE]
<1>1. b \in AciaState /\ b.rdrf = acia.rdrf /\ b.ovrn = acia.ovrn
  BY DEF AciaInv, AciaTypeOK, AciaState
<1>2. acia' = acia_irq_compute(b) /\ unread' = unread
  BY DEF AciaWriteData, acia_write_data
<1>3. unread' \in 0 .. 2 /\ (b.rdrf <=> unread' > 0) /\ (b.ovrn <=> unread' > 1)
  BY <1>1, <1>2 DEF AciaInv, AciaTypeOK, AciaOverrunTold
<1> HIDE DEF b
<1> QED  BY <1>1, <1>2, <1>3, AciaAccessInv

LEMMA AciaWriteConfigInv == AciaInv /\ AciaWriteConfig => AciaInv'
<1> SUFFICES ASSUME AciaInv, NEW c \in AciaConfig, acia' = acia_write_config(acia, c),
                    unread' = IF acia.inreset /\ ~c.reset THEN 0 ELSE unread
             PROVE  AciaInv'
  BY DEF AciaWriteConfig
<1> DEFINE d == [acia EXCEPT !.rie = c.rie, !.tie = c.tie, !.inreset = c.reset]
           b == IF acia.inreset /\ ~c.reset
                THEN [d EXCEPT !.rdrf = FALSE, !.ovrn = FALSE, !.tdre = TRUE] ELSE d
<1>1. acia' = acia_irq_compute(b)
  BY DEF acia_write_config
<1>2. d \in AciaState /\ d.rdrf = acia.rdrf /\ d.ovrn = acia.ovrn
  BY DEF AciaInv, AciaTypeOK, AciaState, AciaConfig
<1> HIDE DEF d
<1>3. CASE acia.inreset /\ ~c.reset
  <2>1. b \in AciaState /\ b.rdrf = FALSE /\ b.ovrn = FALSE
    BY <1>2, <1>3 DEF AciaState
  <2>2. unread' \in 0 .. 2 /\ ~(unread' > 0) /\ ~(unread' > 1)
    BY <1>3
  <2> HIDE DEF b
  <2> QED  BY <1>1, <2>1, <2>2, AciaAccessInv
<1>4. CASE ~(acia.inreset /\ ~c.reset)
  <2>1. b = d /\ unread' = unread
    BY <1>4
  <2>2. unread' \in 0 .. 2 /\ (b.rdrf <=> unread' > 0) /\ (b.ovrn <=> unread' > 1)
    BY <1>2, <2>1 DEF AciaInv, AciaTypeOK, AciaOverrunTold
  <2>3. b \in AciaState
    BY <1>2, <2>1
  <2> HIDE DEF b
  <2> QED  BY <1>1, <2>2, <2>3, AciaAccessInv
<1> QED  BY <1>3, <1>4

LEMMA AciaStepInv == AciaInv /\ [AciaNext]_aciaVars => AciaInv'
<1>1. AciaInv /\ AciaNext => AciaInv'
  BY AciaTimerInv, AciaReadDataInv, AciaWriteDataInv, AciaWriteConfigInv DEF AciaNext
<1>2. AciaInv /\ UNCHANGED aciaVars => AciaInv'
  BY DEF aciaVars, AciaInv, AciaTypeOK, AciaLineTruth, AciaCause, AciaOverrunTold
<1> QED  BY <1>1, <1>2

LEMMA AciaAlways == AciaSpec => []AciaInv
  BY AciaInitInv, AciaStepInv, PTL DEF AciaSpec

\* The 6850's line and its status bit agree with its registers at every moment,
\* whatever software and the main loop do.
THEOREM AciaLineFollows == AciaSpec => []AciaLineTruth
  BY AciaAlways, PTL DEF AciaInv

\* OVRN tells exactly of the characters that acia_receive has overwritten, and
\* the chip keeps its type.
THEOREM AciaCorrect == AciaSpec => [](AciaTypeOK /\ AciaOverrunTold)
  BY AciaAlways, PTL DEF AciaInv

-----------------------------------------------------------------------------

(***************************************************************************)
(* The 16x50.  UartLine and delta stand apart from the rest: only a modem  *)
(* interrupt looks at them.                                                *)
(***************************************************************************)
UartQuiet(u) == u.irqline # {} <=> u.irq # {}
UartNames(u) == u.iir = Highest(u.irq)
UartShown(u) == "MODEM" \in u.irq => u.delta # {}

UartSane(u) == u \in UartState /\ UartQuiet(u) /\ UartNames(u) /\ UartShown(u)

LEMMA HighestType ==
    ASSUME NEW irq PROVE Highest(irq) \in Source \cup {"none"}
  BY DEF Highest, Source

\* recalc_iir puts the line and the identification right.
LEMMA UartRecalc ==
    ASSUME NEW u \in UartState, UartShown(u)
    PROVE  UartSane(recalc_iir(u))
<1> DEFINE l == IF u.irq = {} THEN {} ELSE IF u.irqline # {} THEN u.irqline ELSE u.irq
           h == Highest(u.irq)
<1>1. l \in SUBSET Source /\ (l # {} <=> u.irq # {})
  BY DEF UartState
<1>2. h \in Source \cup {"none"}
  BY HighestType
<1>3. recalc_iir(u) = [u EXCEPT !.iir = h, !.irqline = l]
  BY DEF recalc_iir
<1> HIDE DEF l
<1>4. /\ recalc_iir(u) \in UartState
      /\ recalc_iir(u).irq = u.irq /\ recalc_iir(u).irqline = l
      /\ recalc_iir(u).iir = h /\ recalc_iir(u).delta = u.delta
  <2> HIDE DEF h
  <2> QED  BY <1>1, <1>2, <1>3 DEF UartState
<1> QED
  BY <1>1, <1>4 DEF UartSane, UartQuiet, UartNames, UartShown

LEMMA UartRaised ==
    ASSUME NEW u, UartSane(u), NEW n \in Source, n = "MODEM" => u.delta # {}
    PROVE  UartSane(uart_interrupt(u, n))
<1> DEFINE v == [u EXCEPT !.irq = @ \cup {n}]
<1>1. v \in UartState /\ v.irq = u.irq \cup {n} /\ v.delta = u.delta
  BY DEF UartSane, UartState
<1>2. UartShown(v)
  BY <1>1 DEF UartSane, UartShown
<1>3. uart_interrupt(u, n) = u \/ uart_interrupt(u, n) = recalc_iir(v)
  BY DEF uart_interrupt
<1> HIDE DEF v
<1> QED  BY <1>1, <1>2, <1>3, UartRecalc

\* A cleared modem interrupt needs no delta bit any more.
LEMMA UartCleared ==
    ASSUME NEW u \in UartState, UartQuiet(u), UartNames(u), NEW n \in Source,
           UartShown(u) \/ n = "MODEM"
    PROVE  UartSane(uart_clear_interrupt(u, n))
<1> DEFINE v == [u EXCEPT !.irq = @ \ {n}]
<1>1. v \in UartState /\ v.irq = u.irq \ {n} /\ v.delta = u.delta
  BY DEF UartState
<1>2. UartShown(v)
  BY <1>1 DEF UartShown
<1>3. CASE n \notin u.irq
  BY <1>3 DEF uart_clear_interrupt, UartSane, UartShown
<1>4. CASE n \in u.irq
  <2>1. uart_clear_interrupt(u, n) = recalc_iir(v)
    BY <1>4 DEF uart_clear_interrupt
  <2> HIDE DEF v
  <2> QED  BY <1>1, <1>2, <2>1, UartRecalc
<1> QED  BY <1>3, <1>4

\* A change that leaves the interrupt part alone and takes no delta bit away.
LEMMA UartAside ==
    ASSUME NEW u, UartSane(u), NEW v \in UartState,
           v.irq = u.irq, v.irqline = u.irqline, v.iir = u.iir, u.delta \subseteq v.delta
    PROVE  UartSane(v)
  BY DEF UartSane, UartQuiet, UartNames, UartShown

UartInv == UartSane(uart)

LEMMA UartInitInv == UartInit => UartInv
  BY DEF UartInit, UartInv, UartCreated, UartSane, UartState, UartQuiet, UartNames,
         UartShown, Highest, Source

LEMMA UartEventInv == UartInv /\ UartEvent => UartInv'
<1> SUFFICES ASSUME UartInv, NEW rx \in BOOLEAN, NEW tx \in BOOLEAN,
                    uart' = uart_event(uart, rx, tx)
             PROVE  UartInv'
  BY DEF UartEvent
<1> DEFINE v == [uart EXCEPT !.dr = rx, !.thre = tx]
<1>1. /\ v \in UartState /\ v.irq = uart.irq /\ v.irqline = uart.irqline
      /\ v.iir = uart.iir /\ v.delta = uart.delta
  BY DEF UartInv, UartSane, UartState
<1>2. uart' = v \/ uart' = uart_interrupt(v, "RXDA")
  BY DEF uart_event
<1> HIDE DEF v
<1>3. UartSane(v)
  BY <1>1, UartAside DEF UartInv
<1>4. UartSane(uart_interrupt(v, "RXDA"))
  BY <1>3, UartRaised DEF Source
<1> QED  BY <1>2, <1>3, <1>4 DEF UartInv

LEMMA UartSignalInv == UartInv /\ UartSignal => UartInv'
<1> SUFFICES ASSUME UartInv, NEW line \in SUBSET UartLine, uart' = signal_event(uart, line)
             PROVE  UartInv'
  BY DEF UartSignal
<1> DEFINE changed == (line \ uart.line) \cup (uart.line \ line)
           v == [uart EXCEPT !.delta = @ \cup changed, !.line = line]
<1>0. uart \in UartState
  BY DEF UartInv, UartSane
<1>1. changed \in SUBSET UartLine
  BY <1>0 DEF UartState
<1>2. CASE changed = {} /\ uart.delta = {}
  BY <1>2 DEF signal_event, UartInv
<1>3. CASE ~(changed = {} /\ uart.delta = {})
  <2>1. uart' = uart_interrupt(v, "MODEM")
    BY <1>3 DEF signal_event
  <2> HIDE DEF changed
  <2>2. /\ v \in UartState /\ v.irq = uart.irq /\ v.irqline = uart.irqline
        /\ v.iir = uart.iir /\ v.delta = uart.delta \cup changed
    BY <1>0, <1>1 DEF UartState
  <2> HIDE DEF v
  <2>3. UartSane(v) /\ v.delta # {}
    BY <1>3, <2>2, UartAside DEF UartInv
  <2> QED  BY <2>1, <2>3, UartRaised DEF UartInv, Source
<1> QED  BY <1>2, <1>3

LEMMA UartDsrInv == UartInv /\ UartDsr => UartInv'
<1> SUFFICES ASSUME UartInv, DsrTimer, uart' = dsr_timer(uart)
             PROVE  UartInv'
  BY DEF UartDsr
<1> DEFINE l == IF "DSR" \in uart.line THEN uart.line \ {"DSR"} ELSE uart.line \cup {"DSR"}
           v == [uart EXCEPT !.line = l, !.delta = @ \cup {"DSR"}]
<1>0. uart \in UartState /\ "DSR" \in UartLine
  BY UartAssumption DEF UartInv, UartSane
<1>1. l \in SUBSET UartLine
  BY <1>0 DEF UartState
<1>2. uart' = uart_interrupt(v, "MODEM")
  BY DEF dsr_timer
<1> HIDE DEF l
<1>3. /\ v \in UartState /\ v.irq = uart.irq /\ v.irqline = uart.irqline
      /\ v.iir = uart.iir /\ v.delta = uart.delta \cup {"DSR"}
  BY <1>0, <1>1 DEF UartState
<1> HIDE DEF v
<1>4. UartSane(v) /\ v.delta # {}
  BY <1>3, UartAside DEF UartInv
<1> QED  BY <1>2, <1>4, UartRaised DEF UartInv, Source

LEMMA UartWriteInv == UartInv /\ UartWrite => UartInv'
<1> SUFFICES ASSUME UartInv, UartWrite PROVE UartInv'
  OBVIOUS
<1>0. uart \in UartState
  BY DEF UartInv, UartSane
<1>1. CASE uart' = uart_write_data(uart)
  <2>1. UartSane(uart_clear_interrupt(uart, "TEMT"))
    BY UartCleared DEF UartInv, UartSane, Source
  <2>2. UartSane(uart_interrupt(uart_clear_interrupt(uart, "TEMT"), "TEMT"))
    BY <2>1, UartRaised DEF Source
  <2> QED  BY <1>1, <2>2 DEF uart_write_data, UartInv
<1>2. ASSUME NEW i \in UartIer, uart' = uart_write_ier(uart, i) PROVE UartInv'
  <2> DEFINE v == [uart EXCEPT !.ier = i]
  <2>1. i \in SUBSET Source
    BY UartAssumption
  <2>2. /\ v \in UartState /\ v.irq = uart.irq /\ v.irqline = uart.irqline
        /\ v.iir = uart.iir /\ v.delta = uart.delta
    BY <1>0, <2>1 DEF UartState
  <2>3. uart' = uart \/ uart' = v
    BY <1>2 DEF uart_write_ier
  <2> HIDE DEF v
  <2> QED  BY <2>2, <2>3, UartAside DEF UartInv
<1>3. ASSUME NEW i \in BOOLEAN, uart' = uart_write_lcr(uart, i) PROVE UartInv'
  <2>1. /\ uart' \in UartState /\ uart'.irq = uart.irq /\ uart'.irqline = uart.irqline
        /\ uart'.iir = uart.iir /\ uart'.delta = uart.delta
    BY <1>0, <1>3 DEF UartState, uart_write_lcr
  <2> QED  BY <2>1, UartAside DEF UartInv
<1> QED  BY <1>1, <1>2, <1>3 DEF UartWrite

LEMMA UartReadInv == UartInv /\ UartRead => UartInv'
<1> SUFFICES ASSUME UartInv, UartRead PROVE UartInv'
  OBVIOUS
<1>0. uart \in UartState
  BY DEF UartInv, UartSane
<1>1. CASE uart' = uart_read_data(uart)
  <2>1. UartSane(uart_clear_interrupt(uart, "RXDA"))
    BY UartCleared DEF UartInv, UartSane, Source
  <2> QED  BY <1>1, <2>1 DEF uart_read_data, UartInv
<1>2. CASE uart' = uart_read_lsr(uart)
  <2>1. /\ uart' \in UartState /\ uart'.irq = uart.irq /\ uart'.irqline = uart.irqline
        /\ uart'.iir = uart.iir /\ uart'.delta = uart.delta
    BY <1>0, <1>2 DEF UartState, uart_read_lsr
  <2> QED  BY <2>1, UartAside DEF UartInv
<1>3. CASE uart' = uart_read_msr(uart)
  <2> DEFINE v == [uart EXCEPT !.delta = {}]
  <2>1. v \in UartState /\ v.irq = uart.irq /\ v.irqline = uart.irqline /\ v.iir = uart.iir
    BY <1>0 DEF UartState
  <2>2. uart' = uart_clear_interrupt(v, "MODEM")
    BY <1>3 DEF uart_read_msr
  <2> HIDE DEF v
  <2>3. UartQuiet(v) /\ UartNames(v)
    BY <2>1 DEF UartInv, UartSane, UartQuiet, UartNames
  <2> QED  BY <2>1, <2>2, <2>3, UartCleared DEF UartInv, Source
<1> QED  BY <1>1, <1>2, <1>3 DEF UartRead

LEMMA UartStepInv == UartInv /\ [UartNext]_uartVars => UartInv'
<1>1. UartInv /\ UartNext => UartInv'
  BY UartEventInv, UartSignalInv, UartDsrInv, UartWriteInv, UartReadInv DEF UartNext
<1>2. UartInv /\ UNCHANGED uartVars => UartInv'
  BY DEF uartVars, UartInv
<1> QED  BY <1>1, <1>2

\* The 16x50's line is up exactly while something is pending, its
\* identification register names the highest pending source, and a modem
\* interrupt has a delta bit to show, for every set of modem lines and of
\* interrupt masks.
THEOREM UartCorrect == UartSpec => [](UartTypeOK /\ UartLineTruth)
<1>1. UartSpec => []UartInv
  BY UartInitInv, UartStepInv, PTL DEF UartSpec
<1>2. UartInv => UartTypeOK /\ UartLineTruth
  BY DEF UartInv, UartSane, UartTypeOK, UartLineTruth, UartQuiet, UartNames, UartShown
<1> QED  BY <1>1, <1>2, PTL

-----------------------------------------------------------------------------

(***************************************************************************)
(* The 6551, with a status that keeps the request that cmd masks.          *)
(***************************************************************************)
M6551Line(a) == (a.irq <=> M6551Cause(a)) /\ (a.inint <=> a.irq /\ a.echo)

LEMMA M6551Computed ==
    ASSUME NEW a \in M6551State
    PROVE  /\ m6551_irq_compute(a) \in M6551State
           /\ M6551Line(m6551_irq_compute(a))
           /\ m6551_irq_compute(a).rdrf = a.rdrf
           /\ m6551_irq_compute(a).ovrn = a.ovrn
  BY DEF m6551_irq_compute, M6551State, M6551Line, M6551Cause

\* The line itself is up with the status bit when bit 4 of cmd is set.
M6551Inv == M6551TypeOK /\ M6551Truth /\ M6551Line(m6551)

LEMMA M6551AccessInv ==
    ASSUME M6551Inv, NEW b \in M6551State, m6551' = m6551_irq_compute(b), kept' \in 0 .. 2,
           b.rdrf <=> kept' > 0, kept' > 1 => b.ovrn
    PROVE  M6551Inv'
<1>1. /\ m6551' \in M6551State /\ M6551Line(m6551')
      /\ m6551'.rdrf = b.rdrf /\ m6551'.ovrn = b.ovrn
  BY M6551Computed
<1> QED
  BY <1>1 DEF M6551Inv, M6551TypeOK, M6551Truth, M6551Line

LEMMA M6551TimerInv == M6551Inv /\ M6551Timer => M6551Inv'
<1> SUFFICES ASSUME M6551Inv, NEW rx \in BOOLEAN, NEW tx \in BOOLEAN,
                    m6551' = m6551_timer(m6551, rx, tx),
                    kept' = IF rx /\ kept < 2 THEN kept + 1 ELSE kept
             PROVE  M6551Inv'
  BY DEF M6551Timer
<1> DEFINE r == IF rx THEN m6551_receive(m6551) ELSE m6551
           t == IF tx THEN [r EXCEPT !.tdre = TRUE] ELSE r
<1>0. /\ m6551 \in M6551State /\ kept \in 0 .. 2
      /\ m6551.rdrf <=> kept > 0
      /\ kept > 1 => m6551.ovrn
  BY DEF M6551Inv, M6551TypeOK, M6551Truth
<1>1. kept' \in 0 .. 2
  BY <1>0
<1>2. r \in M6551State /\ (r.rdrf <=> m6551.rdrf \/ rx)
      /\ (r.ovrn <=> m6551.ovrn \/ (rx /\ m6551.rdrf))
  <2>1. CASE rx
    BY <1>0, <2>1 DEF m6551_receive, M6551State
  <2>2. CASE ~rx
    BY <1>0, <2>2 DEF M6551State
  <2> QED  BY <2>1, <2>2
<1>3. (m6551.rdrf \/ rx <=> kept' > 0) /\ (kept' > 1 => m6551.ovrn \/ (rx /\ m6551.rdrf))
  <2>1. CASE rx
    <3>1. kept' > 0 /\ (kept' > 1 => kept > 0)
      BY <1>0, <2>1
    <3> QED  BY <1>0, <2>1, <3>1
  <2>2. CASE ~rx
    BY <1>0, <2>2
  <2> QED  BY <2>1, <2>2
<1> HIDE DEF r
<1>4. t \in M6551State /\ t.rdrf = r.rdrf /\ t.ovrn = r.ovrn
  BY <1>2 DEF M6551State
<1>5. (t.rdrf <=> kept' > 0) /\ (kept' > 1 => t.ovrn)
  BY <1>2, <1>3, <1>4
<1> HIDE DEF t
<1>6. m6551' = IF rx \/ tx THEN m6551_irq_compute(t) ELSE t
  BY DEF m6551_timer, r, t
<1>7. CASE rx \/ tx
  BY <1>1, <1>4, <1>5, <1>6, <1>7, M6551AccessInv
<1>8. CASE ~(rx \/ tx)
  <2>1. m6551' = m6551 /\ kept' = kept
    BY <1>6, <1>8 DEF r, t
  <2> QED  BY <2>1 DEF M6551Inv, M6551TypeOK, M6551Truth, M6551Cause, M6551Line
<1> QED  BY <1>7, <1>8

LEMMA M6551ReadDataInv == M6551Inv /\ M6551ReadData => M6551Inv'
<1> SUFFICES ASSUME M6551Inv, M6551ReadData PROVE M6551Inv'
  OBVIOUS
<1> DEFINE b == [m6551 EXCEPT !.rdrf = FALSE, !.ovrn = FALSE]
<1>1. b \in M6551State /\ b.rdrf = FALSE
  BY DEF M6551Inv, M6551TypeOK, M6551State
<1>2. m6551' = m6551_irq_compute(b) /\ kept' = 0
  BY DEF M6551ReadData, m6551_read_data
<1>3. kept' \in 0 .. 2 /\ ~(kept' > 0) /\ ~(kept' > 1)
  BY <1>2
<1> HIDE DEF b
<1> QED  BY <1>1, <1>2, <1>3, M6551AccessInv

LEMMA M6551WriteInv == M6551Inv /\ M6551Write => M6551Inv'
<1> SUFFICES ASSUME M6551Inv, M6551Write PROVE M6551Inv'
  OBVIOUS
<1>0. /\ m6551 \in M6551State /\ kept' = kept /\ kept' \in 0 .. 2
      /\ m6551.rdrf <=> kept' > 0
      /\ kept' > 1 => m6551.ovrn
  BY DEF M6551Inv, M6551TypeOK, M6551Truth, M6551Write
<1>1. CASE m6551' = m6551_write_data(m6551)
  BY <1>0, <1>1, M6551AccessInv DEF m6551_write_data
<1>2. CASE m6551' = m6551_reset(m6551)
  <2> DEFINE b == [m6551 EXCEPT !.echo = TRUE, !.txirq = FALSE, !.ovrn = TRUE]
  <2>1. b \in M6551State /\ b.rdrf = m6551.rdrf /\ b.ovrn = TRUE
    BY <1>0 DEF M6551State
  <2>2. m6551' = m6551_irq_compute(b)
    BY <1>2 DEF m6551_reset
  <2> HIDE DEF b
  <2> QED  BY <1>0, <2>1, <2>2, M6551AccessInv
<1>3. ASSUME NEW e \in BOOLEAN, NEW t \in BOOLEAN, m6551' = m6551_write_cmd(m6551, e, t)
      PROVE  M6551Inv'
  <2> DEFINE b == [m6551 EXCEPT !.echo = e, !.txirq = t]
  <2>1. b \in M6551State /\ b.rdrf = m6551.rdrf /\ b.ovrn = m6551.ovrn
    BY <1>0 DEF M6551State
  <2>2. m6551' = m6551_irq_compute(b)
    BY <1>3 DEF m6551_write_cmd
  <2> HIDE DEF b
  <2> QED  BY <1>0, <2>1, <2>2, M6551AccessInv
<1> QED  BY <1>1, <1>2, <1>3 DEF M6551Write

LEMMA M6551StepInv == M6551Inv /\ [M6551Next]_m6551Vars => M6551Inv'
<1>1. M6551Inv /\ M6551Next => M6551Inv'
  BY M6551TimerInv, M6551ReadDataInv, M6551WriteInv DEF M6551Next
<1>2. M6551Inv /\ UNCHANGED m6551Vars => M6551Inv'
  BY DEF m6551Vars, M6551Inv, M6551TypeOK, M6551Truth, M6551Cause, M6551Line
<1> QED
  BY <1>1, <1>2

\* The 6551's status agrees with its registers at every moment, its line is up
\* only with the status bit, and no character is overwritten without the overrun
\* flag, resets included.
THEOREM M6551Correct == M6551Spec => [](M6551TypeOK /\ M6551Truth)
<1>1. M6551Init => M6551Inv
  BY DEF M6551Init, M6551Created, M6551Inv, M6551TypeOK, M6551State, M6551Truth, M6551Cause, M6551Line
<1>2. M6551Spec => []M6551Inv
  BY <1>1, M6551StepInv, PTL DEF M6551Spec
<1> QED  BY <1>2, PTL DEF M6551Inv

-----------------------------------------------------------------------------
(* Remainders. *)


\* Division with remainder.
LEMMA DivMod ==
    ASSUME NEW a \in Int, NEW m \in Nat, m > 0
    PROVE  a % m \in 0 .. m - 1 /\ a \div m \in Int /\ a = (a \div m) * m + (a % m)
  OBVIOUS

\* Two remainders that differ by a multiple are equal.
LEMMA ModEqual ==
    ASSUME NEW m \in Nat, m > 0, NEW q \in Int, NEW r \in 0 .. m - 1, NEW t \in 0 .. m - 1,
           r = q * m + t
    PROVE  r = t
<1>1. CASE q = 0
  BY <1>1
<1>2. CASE q >= 1
  <2>1. q * m >= m
    BY <1>2
  <2> QED
    BY <2>1
<1>3. CASE q <= -1
  <2>1. q * m <= -m
    BY <1>3
  <2> QED
    BY <2>1
<1> QED
  BY <1>1, <1>2, <1>3

\* The remainder is the one number in range that differs by a multiple.
LEMMA ModIs ==
    ASSUME NEW a \in Int, NEW m \in Nat, m > 0, NEW q \in Int, NEW r \in 0 .. m - 1, a = q * m + r
    PROVE  (a % m) = r
<1> DEFINE d == a \div m
<1>1. (a % m) \in 0 .. m - 1 /\ d \in Int /\ a = d * m + (a % m)
  BY DivMod
<1> HIDE DEF d
<1>2. d * m + (a % m) = q * m + r
  BY <1>1
<1>3. (d - q) * m = d * m - q * m /\ d - q \in Int
  BY <1>1
<1>4. r = (d - q) * m + (a % m)
  BY <1>1, <1>2, <1>3
<1> QED
  BY SMTT(60), <1>1, <1>4, ModEqual

\* Whole turns do not change a remainder.
LEMMA ModTurns ==
    ASSUME NEW a \in Int, NEW m \in Nat, m > 0, NEW q \in Int
    PROVE  (a + q * m) % m = (a % m)
<1> DEFINE d == a \div m
<1>1. (a % m) \in 0 .. m - 1 /\ d \in Int /\ a = d * m + (a % m)
  BY DivMod
<1> HIDE DEF d
<1>2. (d + q) * m = d * m + q * m /\ d + q \in Int /\ q * m \in Int
  BY <1>1
<1>3. a + q * m = (d + q) * m + (a % m) /\ a + q * m \in Int
  BY <1>1, <1>2
<1> QED
  BY <1>1, <1>2, <1>3, ModIs

LEMMA ModTurn ==
    ASSUME NEW a \in Int, NEW m \in Nat, m > 0
    PROVE  (a + m) % m = a % m
<1> DEFINE q == 1
<1>1. q \in Int /\ q * m = m
  OBVIOUS
<1> HIDE DEF q
<1>2. (a + q * m) % m = a % m
  BY <1>1, ModTurns
<1> QED
  BY <1>1, <1>2

\* A remainder taken first makes no difference to a sum,
LEMMA ModSum ==
    ASSUME NEW a \in Int, NEW b \in Int, NEW m \in Nat, m > 0
    PROVE  ((a % m) + b) % m = (a + b) % m /\ (b - (a % m)) % m = (b - a) % m
<1> DEFINE d == a \div m
<1>1. (a % m) \in 0 .. m - 1 /\ d \in Int /\ a = d * m + (a % m)
  BY DivMod
<1> HIDE DEF d
<1>2. a + b = ((a % m) + b) + d * m /\ (a % m) + b \in Int
  BY <1>1
<1>3. (a + b) % m = ((a % m) + b) % m
  BY ZenonT(60), <1>1, <1>2, ModTurns
<1>4. b - (a % m) = (b - a) + d * m /\ b - a \in Int
  BY <1>1
<1>5. ((b - a) + d * m) % m = (b - a) % m
  BY <1>1, <1>4, ModTurns
<1> QED
  BY <1>3, <1>4, <1>5

-----------------------------------------------------------------------------

(***************************************************************************)
(* The 68681.  The line, the ports and the counter are three arguments of  *)
(* their own: duart_irq_raise and duart_irq_lower move one bit of isr and  *)
(* keep the line right, each register access then answers for the bits of  *)
(* its port, and only duart_count and read_start move the count.           *)
(***************************************************************************)
DuartLine(d) ==
    /\ d.irq \ {7} = (d.isr \cap d.imr) \ {7}
    /\ 7 \in d.isr \cap d.imr => 7 \in d.irq

DuartPorts(d) ==
    \A p \in Port : /\ RxBit(p) \in d.isr <=> d.port[p].rxrdy
                    /\ TxBit(p) \in d.isr => d.port[p].txrdy

DuartSane(d) == d \in DuartState /\ DuartLine(d) /\ DuartPorts(d)

\* Nothing about the counter has changed.
SameCount(d, e) == e.ct = d.ct /\ e.ctr = d.ctr /\ e.ctstop = d.ctstop /\ e.acr = d.acr

LEMMA DuartBits ==
    /\ \A p \in Port, q \in Port : /\ RxBit(p) # TxBit(q)
                                   /\ RxBit(p) = RxBit(q) <=> p = q
                                   /\ TxBit(p) = TxBit(q) <=> p = q
    /\ \A p \in Port : /\ RxBit(p) \in 0 .. 7 /\ RxBit(p) # 7 /\ RxBit(p) # 3
                       /\ TxBit(p) \in 0 .. 7 /\ TxBit(p) # 7 /\ TxBit(p) # 3
  BY DEF Port, RxBit, TxBit

LEMMA DuartCalc ==
    ASSUME NEW d \in DuartState, NEW e, e = duart_irq_calc(d)
    PROVE  /\ e \in DuartState /\ DuartLine(e) /\ SameCount(d, e)
           /\ e.port = d.port /\ e.isr = d.isr
<1> DEFINE i == d.isr \cap d.imr
<1>1. i \in SUBSET (0 .. 7)
  BY DEF DuartState
<1>2. e = [d EXCEPT !.irq = i]
  BY DEF duart_irq_calc
<1>3. i = d.isr \cap d.imr
  OBVIOUS
<1> HIDE DEF i
<1>4. /\ e \in DuartState /\ e.irq = i /\ e.isr = d.isr /\ e.imr = d.imr /\ e.port = d.port
      /\ e.ct = d.ct /\ e.ctr = d.ctr /\ e.ctstop = d.ctstop /\ e.acr = d.acr
  BY <1>1, <1>2 DEF DuartState
<1> QED
  BY <1>3, <1>4 DEF DuartLine, SameCount

\* A set of requests put in the place of isr.
LEMMA DuartSetIsr ==
    ASSUME NEW d \in DuartState, NEW i \in SUBSET (0 .. 7), NEW e, e = [d EXCEPT !.isr = i]
    PROVE  /\ e \in DuartState /\ SameCount(d, e) /\ e.port = d.port /\ e.isr = i
           /\ e.irq = d.irq /\ e.imr = d.imr
<1>1. /\ e \in DuartState /\ e.port = d.port /\ e.isr = i /\ e.irq = d.irq /\ e.imr = d.imr
      /\ e.ct = d.ct /\ e.ctr = d.ctr /\ e.ctstop = d.ctstop /\ e.acr = d.acr
  BY DEF DuartState
<1> QED
  BY <1>1 DEF SameCount

LEMMA DuartRaise ==
    ASSUME NEW d \in DuartState, DuartLine(d), NEW b \in 0 .. 7, NEW e, e = duart_irq_raise(d, b)
    PROVE  /\ e \in DuartState /\ DuartLine(e) /\ SameCount(d, e)
           /\ e.port = d.port /\ e.isr = d.isr \cup {b}
<1>1. CASE b \in d.isr
  BY <1>1 DEF duart_irq_raise, SameCount
<1>2. CASE b \notin d.isr
  <2> DEFINE i == d.isr \cup {b}
             f == [d EXCEPT !.isr = i]
  <2>1. i \in SUBSET (0 .. 7)
    BY DEF DuartState
  <2>2. e = duart_irq_calc(f)
    BY <1>2 DEF duart_irq_raise
  <2> HIDE DEF i
  <2>3. f \in DuartState /\ SameCount(d, f) /\ f.port = d.port /\ f.isr = i
    BY <2>1, DuartSetIsr
  <2> HIDE DEF f
  <2>4. e \in DuartState /\ DuartLine(e) /\ SameCount(f, e) /\ e.port = f.port /\ e.isr = f.isr
    BY <2>2, <2>3, DuartCalc
  <2> QED
    BY <2>3, <2>4 DEF SameCount, i
<1> QED
  BY <1>1, <1>2

LEMMA DuartLower ==
    ASSUME NEW d \in DuartState, DuartLine(d), NEW b \in 0 .. 7, NEW e, e = duart_irq_lower(d, b)
    PROVE  /\ e \in DuartState /\ DuartLine(e) /\ SameCount(d, e)
           /\ e.port = d.port /\ e.isr = d.isr \ {b}
<1>1. CASE b \notin d.isr
  BY <1>1 DEF duart_irq_lower, SameCount
<1>2. CASE b \in d.isr
  <2> DEFINE i == d.isr \ {b}
             f == [d EXCEPT !.isr = i]
  <2>1. i \in SUBSET (0 .. 7)
    BY DEF DuartState
  <2>2. e = duart_irq_calc(f)
    BY <1>2 DEF duart_irq_lower
  <2> HIDE DEF i
  <2>3. f \in DuartState /\ SameCount(d, f) /\ f.port = d.port /\ f.isr = i
    BY <2>1, DuartSetIsr
  <2> HIDE DEF f
  <2>4. e \in DuartState /\ DuartLine(e) /\ SameCount(f, e) /\ e.port = f.port /\ e.isr = f.isr
    BY <2>2, <2>3, DuartCalc
  <2> QED
    BY <2>3, <2>4 DEF SameCount, i
<1> QED
  BY <1>1, <1>2

\* A port's registers put in its place.
WithPort(d, p, r) == [d EXCEPT !.port[p] = r]

LEMMA DuartSetPort ==
    ASSUME NEW d \in DuartState, NEW p \in Port, NEW r \in DuartPort, NEW e, e = WithPort(d, p, r)
    PROVE  /\ e \in DuartState /\ SameCount(d, e)
           /\ e.port[p] = r /\ \A q \in Port \ {p} : e.port[q] = d.port[q]
           /\ e.isr = d.isr /\ (DuartLine(d) => DuartLine(e))
<1> DEFINE f == [d.port EXCEPT ![p] = r]
<1>1. f \in [Port -> DuartPort] /\ f[p] = r /\ \A q \in Port \ {p} : f[q] = d.port[q]
  BY DEF DuartState
<1>2. e = [d EXCEPT !.port = f]
  BY DEF WithPort
<1> HIDE DEF f
<1>3. /\ e \in DuartState /\ e.port = f /\ e.isr = d.isr /\ e.irq = d.irq /\ e.imr = d.imr
      /\ e.ct = d.ct /\ e.ctr = d.ctr /\ e.ctstop = d.ctstop /\ e.acr = d.acr
  BY <1>1, <1>2 DEF DuartState
<1> QED
  BY <1>1, <1>3 DEF SameCount, DuartLine

\* A character is read: it goes with its request.
LEMMA DuartInput ==
    ASSUME NEW d, DuartSane(d), NEW p \in Port, NEW e, e = duart_input(d, p)
    PROVE  DuartSane(e) /\ SameCount(d, e)
<1>1. CASE ~d.port[p].rxrdy
  BY <1>1 DEF duart_input, SameCount
<1>2. CASE d.port[p].rxrdy
  <2> DEFINE v == FALSE
             r == [d.port[p] EXCEPT !.rxrdy = v]
             f == WithPort(d, p, r)
             b == RxBit(p)
  <2>1. e = duart_irq_lower(f, b)
    BY <1>2 DEF duart_input, WithPort
  <2>2. d \in DuartState /\ DuartLine(d) /\ d.port[p] \in DuartPort /\ v \in BOOLEAN
    BY DEF DuartSane, DuartState
  <2>3. b \in 0 .. 7
    BY DuartBits
  <2> HIDE DEF v, b
  <2>4. r \in DuartPort /\ r.rxrdy = v /\ r.txrdy = d.port[p].txrdy
    BY <2>2 DEF DuartPort
  <2> HIDE DEF r
  <2>5. /\ f \in DuartState /\ SameCount(d, f) /\ f.port[p] = r /\ f.isr = d.isr /\ DuartLine(f)
        /\ \A q \in Port \ {p} : f.port[q] = d.port[q]
    BY <2>2, <2>4, DuartSetPort
  <2> HIDE DEF f
  <2>6. /\ e \in DuartState /\ DuartLine(e) /\ SameCount(f, e)
        /\ e.port = f.port /\ e.isr = f.isr \ {b}
    BY <2>1, <2>3, <2>5, DuartLower
  <2>7. DuartPorts(e)
    BY <2>4, <2>5, <2>6, DuartBits DEF DuartSane, DuartPorts, v, b
  <2> QED
    BY <2>5, <2>6, <2>7 DEF DuartSane, SameCount
<1> QED
  BY <1>1, <1>2

\* A character is written: the request goes, and the transmitter is busy.
LEMMA DuartOutput ==
    ASSUME NEW d, DuartSane(d), NEW p \in Port, NEW e, e = duart_output(d, p)
    PROVE  DuartSane(e) /\ SameCount(d, e)
<1> DEFINE b == TxBit(p)
           c == duart_irq_lower(d, b)
<1>1. d \in DuartState /\ DuartLine(d)
  BY DEF DuartSane
<1>2. b \in 0 .. 7
  BY DuartBits
<1>3. \/ e = c
      \/ e = duart_irq_calc(WithPort(c, p, [c.port[p] EXCEPT !.txrdy = FALSE]))
  BY DEF duart_output, WithPort
<1> HIDE DEF b
<1>4. /\ c \in DuartState /\ DuartLine(c) /\ SameCount(d, c)
      /\ c.port = d.port /\ c.isr = d.isr \ {b}
  BY <1>1, <1>2, DuartLower
<1> HIDE DEF c
<1>5. CASE e = c
  BY <1>4, <1>5, DuartBits DEF DuartSane, DuartPorts, SameCount, b
<1>6. CASE e = duart_irq_calc(WithPort(c, p, [c.port[p] EXCEPT !.txrdy = FALSE]))
  <2> DEFINE v == FALSE
             r == [c.port[p] EXCEPT !.txrdy = v]
             f == WithPort(c, p, r)
  <2>1. e = duart_irq_calc(f) /\ v \in BOOLEAN
    BY <1>6
  <2>2. c.port[p] \in DuartPort
    BY <1>4 DEF DuartState
  <2> HIDE DEF v
  <2>3. r \in DuartPort /\ r.txrdy = v /\ r.rxrdy = c.port[p].rxrdy
    BY <2>1, <2>2 DEF DuartPort
  <2> HIDE DEF r
  <2>4. /\ f \in DuartState /\ SameCount(c, f) /\ f.port[p] = r /\ f.isr = c.isr
        /\ \A q \in Port \ {p} : f.port[q] = c.port[q]
    BY <1>4, <2>3, DuartSetPort
  <2> HIDE DEF f
  <2>5. e \in DuartState /\ DuartLine(e) /\ SameCount(f, e) /\ e.port = f.port /\ e.isr = f.isr
    BY <2>1, <2>4, DuartCalc
  <2>6. DuartPorts(e)
    BY <1>4, <2>3, <2>4, <2>5, DuartBits DEF DuartSane, DuartPorts, b
  <2> QED
    BY <1>4, <2>4, <2>5, <2>6 DEF DuartSane, SameCount
<1> QED
  BY <1>3, <1>5, <1>6

\* A command switches the receiver and the transmitter, and nothing else.
LEMMA DuartCommanded ==
    ASSUME NEW d, DuartSane(d), NEW p \in Port, NEW cmd \in CommandByte,
           NEW e, e = duart_command(d, p, cmd)
    PROVE  DuartSane(e) /\ SameCount(d, e)
<1> DEFINE x == cmd.rxoff \/ ((d.port[p].rxdis \/ cmd.misc = 1) /\ ~cmd.rxon)
           y == cmd.txoff \/ (d.port[p].txdis /\ ~cmd.txon)
           r == [d.port[p] EXCEPT !.rxdis = x]
           t == [r EXCEPT !.txdis = y]
           f == WithPort(d, p, r)
           g == WithPort(f, p, t)
<1>1. d \in DuartState /\ DuartLine(d) /\ d.port[p] \in DuartPort
  BY DEF DuartSane, DuartState
<1>2. x \in BOOLEAN /\ y \in BOOLEAN
  BY <1>1 DEF CommandByte, DuartPort
<1>3. f.port[p] = r
  BY <1>1 DEF DuartState, WithPort
<1>4. e = [f EXCEPT !.port[p].txdis = y]
  BY DEF duart_command, WithPort
<1> HIDE DEF x, y
<1>5. r \in DuartPort /\ r.rxrdy = d.port[p].rxrdy /\ r.txrdy = d.port[p].txrdy
  BY <1>1, <1>2 DEF DuartPort
<1> HIDE DEF r
<1>6. t \in DuartPort /\ t.rxrdy = r.rxrdy /\ t.txrdy = r.txrdy
  BY <1>2, <1>5 DEF DuartPort
<1>7. /\ f \in DuartState /\ SameCount(d, f) /\ f.isr = d.isr /\ DuartLine(f)
      /\ \A q \in Port \ {p} : f.port[q] = d.port[q]
  BY <1>1, <1>5, DuartSetPort
<1> HIDE DEF f
<1>8. e = g
  BY <1>3, <1>4 DEF WithPort
<1> HIDE DEF t
<1>9. /\ e \in DuartState /\ SameCount(f, e) /\ e.port[p] = t /\ e.isr = f.isr /\ DuartLine(e)
      /\ \A q \in Port \ {p} : e.port[q] = f.port[q]
  BY <1>6, <1>7, <1>8, DuartSetPort
<1>10. DuartPorts(e)
  BY <1>5, <1>6, <1>7, <1>9 DEF DuartSane, DuartPorts
<1> QED
  BY <1>7, <1>9, <1>10 DEF DuartSane, SameCount

\* A character comes in: it waits, and its request is up.
LEMMA DuartReceives ==
    ASSUME NEW d, DuartSane(d), NEW rx \in BOOLEAN, NEW e, e = TickReceive(d, rx)
    PROVE  DuartSane(e) /\ SameCount(d, e)
<1>1. CASE e = d
  BY <1>1 DEF SameCount
<1>2. CASE e # d
  <2> DEFINE p == Console
             v == TRUE
             r == [d.port[p] EXCEPT !.rxrdy = v]
             f == WithPort(d, p, r)
             b == RxBit(p)
  <2>1. e = duart_irq_raise(f, b)
    BY <1>2 DEF TickReceive, WithPort
  <2>2. p \in Port /\ d \in DuartState /\ DuartLine(d) /\ d.port[p] \in DuartPort /\ v \in BOOLEAN
    BY DuartAssumption DEF DuartSane, DuartState
  <2>3. b \in 0 .. 7
    BY <2>2, DuartBits
  <2> HIDE DEF p, v, b
  <2>4. r \in DuartPort /\ r.rxrdy = v /\ r.txrdy = d.port[p].txrdy
    BY <2>2 DEF DuartPort
  <2> HIDE DEF r
  <2>5. /\ f \in DuartState /\ SameCount(d, f) /\ f.port[p] = r /\ f.isr = d.isr /\ DuartLine(f)
        /\ \A q \in Port \ {p} : f.port[q] = d.port[q]
    BY <2>2, <2>4, DuartSetPort
  <2> HIDE DEF f
  <2>6. /\ e \in DuartState /\ DuartLine(e) /\ SameCount(f, e)
        /\ e.port = f.port /\ e.isr = f.isr \cup {b}
    BY <2>1, <2>3, <2>5, DuartRaise
  <2>7. DuartPorts(e)
    BY <2>2, <2>4, <2>5, <2>6, DuartBits DEF DuartSane, DuartPorts, v, b
  <2> QED
    BY <2>5, <2>6, <2>7 DEF DuartSane, SameCount
<1> QED
  BY <1>1, <1>2

\* A transmitter becomes ready, and asks for a character unless it is off.
LEMMA DuartTransmits ==
    ASSUME NEW d, DuartSane(d), NEW p \in Port, NEW e, e = TickTransmit(d, p)
    PROVE  DuartSane(e) /\ SameCount(d, e)
<1> DEFINE b == TxBit(p)
           c == IF ~d.port[p].txdis /\ ~d.port[p].txrdy THEN duart_irq_raise(d, b) ELSE d
           v == TRUE
           r == [c.port[p] EXCEPT !.txrdy = v]
<1>1. d \in DuartState /\ DuartLine(d)
  BY DEF DuartSane
<1>2. b \in 0 .. 7
  BY DuartBits
<1>3. e = WithPort(c, p, r) /\ v \in BOOLEAN /\ v = TRUE
  BY DEF TickTransmit, WithPort
<1> HIDE DEF b, v
<1>4. /\ c \in DuartState /\ DuartLine(c) /\ SameCount(d, c) /\ c.port = d.port
      /\ c.isr = d.isr \cup {b} \/ c.isr = d.isr
  <2>1. CASE c = d
    BY <1>1, <2>1 DEF SameCount
  <2>2. CASE c # d
    <3>1. c = duart_irq_raise(d, b)
      BY <2>2
    <3> HIDE DEF c
    <3> QED
      BY <1>1, <1>2, <3>1, DuartRaise
  <2> QED
    BY <2>1, <2>2
<1> HIDE DEF c
<1>5. c.port[p] \in DuartPort
  BY <1>4 DEF DuartState
<1>6. r \in DuartPort /\ r.txrdy = v /\ r.rxrdy = c.port[p].rxrdy
  BY <1>3, <1>5 DEF DuartPort
<1> HIDE DEF r
<1>7. /\ e \in DuartState /\ SameCount(c, e) /\ e.port[p] = r /\ e.isr = c.isr /\ DuartLine(e)
      /\ \A q \in Port \ {p} : e.port[q] = c.port[q]
  BY <1>3, <1>4, <1>6, DuartSetPort
<1>8. DuartPorts(e)
  <2> SUFFICES ASSUME NEW q \in Port
               PROVE  /\ RxBit(q) \in e.isr <=> e.port[q].rxrdy
                      /\ TxBit(q) \in e.isr => e.port[q].txrdy
    BY DEF DuartPorts
  <2>1. /\ RxBit(q) \in d.isr <=> d.port[q].rxrdy
        /\ TxBit(q) \in d.isr => d.port[q].txrdy
    BY DEF DuartSane, DuartPorts
  <2>2. RxBit(q) # b /\ (TxBit(q) = b => q = p)
    BY DuartBits DEF b
  <2>3. CASE q = p
    BY <1>3, <1>4, <1>6, <1>7, <2>1, <2>2, <2>3
  <2>4. CASE q # p
    BY <1>4, <1>7, <2>1, <2>2, <2>4
  <2> QED
    BY <2>3, <2>4
<1> QED
  BY <1>4, <1>7, <1>8 DEF DuartSane, SameCount

LEMMA WordType == WordMax \in Nat /\ 0 \in Word /\ \A n \in Word : n \in Nat /\ n <= WordMax
<1>1. WordMax \in Nat
  BY DEF WordMax
<1> QED
  BY <1>1 DEF Word

\* What duart_count puts into the counter is a 16 bit value in phase with the
\* count below zero that C's remainder is taken of.
LEMMA DuartOverrun ==
    ASSUME NEW n \in Int, n < 0, NEW m \in Word
    PROVE  /\ Overrun(n, m) \in Word
           /\ m > 0 => Overrun(n, m) % m = n % m
<1>1. WordMax \in Nat /\ m \in Nat /\ m <= WordMax /\ 0 \in Word
  BY WordType
<1>2. CASE m = 0
  BY <1>1, <1>2 DEF Overrun
<1>3. CASE m > 0
  <2> DEFINE k == -n
             r == k % m
  <2>1. k \in Int /\ r \in 0 .. m - 1
    BY <1>1, <1>3, DivMod
  <2>2. Overrun(n, m) = m - r
    BY <1>1, <1>3 DEF Overrun
  <2>3. m - k = n + m
    BY <1>1
  <2> HIDE DEF k
  <2>4. (m - r) % m = (m - k) % m
    BY <1>1, <1>3, <2>1, ModSum
  <2>5. (n + m) % m = n % m
    BY <1>1, <1>3, ModTurn
  <2>6. m - r \in Word
    <3> HIDE DEF r
    <3> QED
      BY <1>1, <1>3, <2>1 DEF Word
  <2> QED
    BY <2>2, <2>3, <2>4, <2>5, <2>6
<1> QED
  BY <1>1, <1>2, <1>3

\* The count after a tick.
CountedTo(d) ==
    LET left == d.ct - CountClock(d.acr)
    IN  IF left < 0 THEN Overrun(left, d.ctr) ELSE left

LEMMA DuartCountTo ==
    ASSUME NEW d \in DuartState
    PROVE  /\ CountedTo(d) \in Word
           /\ d.ctr > 0 => CountedTo(d) % d.ctr = ((d.ct % d.ctr) - CountClock(d.acr)) % d.ctr
<1> DEFINE c == CountClock(d.acr)
           n == d.ct - c
           m == d.ctr
           x == d.ct
<1>1. c \in Nat /\ c > 0
  BY DEF CountClock
<1>2. x \in Word /\ m \in Word
  BY DEF DuartState
<1>3. WordMax \in Nat /\ x \in Nat /\ x <= WordMax /\ m \in Nat
  BY <1>2, WordType
<1>4. CountedTo(d) = IF n < 0 THEN Overrun(n, m) ELSE n
  BY DEF CountedTo
<1>5. n = x - c
  OBVIOUS
<1> HIDE DEF c, n, m, x
<1>6. n \in Int /\ (n >= 0 => n \in Word)
  BY <1>1, <1>3, <1>5 DEF Word
<1>7. m > 0 => ((x % m) - c) % m = n % m
  <2> DEFINE b == -c
  <2>1. b \in Int /\ x + b = n /\ \A y \in Int : y + b = y - c
    BY <1>1, <1>3, <1>5
  <2> HIDE DEF b
  <2>2. ASSUME m > 0
        PROVE  ((x % m) + b) % m = (x + b) % m
    <3>1. x \in Int /\ m \in Nat /\ b \in Int
      BY <1>3, <2>1
    <3> QED
      BY <2>2, <3>1, ModSum
  <2>3. m > 0 => x % m \in Int
    BY <1>3, DivMod
  <2> QED
    BY <2>1, <2>2, <2>3
<1>8. CASE n < 0
  <2>1. Overrun(n, m) \in Word /\ (m > 0 => Overrun(n, m) % m = n % m)
    BY <1>2, <1>6, <1>8, DuartOverrun
  <2>2. CountedTo(d) = Overrun(n, m)
    BY <1>4, <1>8
  <2>3. CountedTo(d) \in Word /\ (m > 0 => CountedTo(d) % m = ((x % m) - c) % m)
    BY <1>7, <2>1, <2>2
  <2> QED
    BY <2>3 DEF m, x, c
<1>9. CASE ~(n < 0)
  <2>1. n >= 0 /\ CountedTo(d) = n
    BY <1>4, <1>6, <1>9
  <2>2. CountedTo(d) \in Word /\ (m > 0 => CountedTo(d) % m = ((x % m) - c) % m)
    BY <1>6, <1>7, <2>1
  <2> QED
    BY <2>2 DEF m, x, c
<1> QED
  BY <1>8, <1>9

LEMMA DuartCounts ==
    ASSUME NEW d, DuartSane(d), NEW e, e = duart_count(d)
    PROVE  DuartSane(e) /\ e.ct = CountedTo(d) /\ e.ctr = d.ctr
<1> DEFINE v == CountedTo(d)
           f == [d EXCEPT !.ct = v]
           b == 3
<1>1. d \in DuartState /\ v \in Word
  BY DuartCountTo DEF DuartSane
<1>2. e = duart_irq_raise(f, b) \/ e = f
  BY DEF duart_count, CountedTo
<1>3. b \in 0 .. 7 /\ \A p \in Port : b # RxBit(p) /\ b # TxBit(p)
  BY DuartBits
<1> HIDE DEF v, b
<1>4. /\ f \in DuartState /\ f.ct = v /\ f.ctr = d.ctr /\ f.isr = d.isr /\ f.irq = d.irq
      /\ f.imr = d.imr /\ f.port = d.port
  BY <1>1 DEF DuartState
<1> HIDE DEF f
<1>5. DuartSane(f)
  BY <1>4 DEF DuartSane, DuartLine, DuartPorts
<1>6. CASE e = f
  BY <1>4, <1>5, <1>6 DEF v
<1>7. CASE e = duart_irq_raise(f, b)
  <2>1. /\ e \in DuartState /\ DuartLine(e) /\ SameCount(f, e)
        /\ e.port = f.port /\ e.isr = f.isr \cup {b}
    BY <1>3, <1>4, <1>5, <1>7, DuartRaise DEF DuartSane
  <2>2. DuartPorts(e)
    BY <1>3, <1>5, <2>1 DEF DuartSane, DuartPorts
  <2> QED
    BY <1>4, <2>1, <2>2 DEF DuartSane, SameCount, v
<1> QED
  BY <1>2, <1>6, <1>7

\* A tick: the ports, then the counter.
LEMMA DuartTicked ==
    ASSUME NEW d, DuartSane(d), NEW rx \in BOOLEAN, NEW tx \in BOOLEAN,
           NEW e, e = duart_tick(d, rx, tx)
    PROVE  DuartSane(e) /\ e.ctr = d.ctr /\ e.ct = IF Counts(d) THEN CountedTo(d) ELSE d.ct
<1> DEFINE r == TickReceive(d, rx)
           o == TickTransmit(r, 0)
           t == IF tx THEN TickTransmit(o, 1) ELSE r
<1>1. e = IF Counts(t) THEN duart_count(t) ELSE t
  BY DEF duart_tick
<1>2. DuartSane(r) /\ SameCount(d, r)
  BY DuartReceives
<1> HIDE DEF r
<1>3. DuartSane(o) /\ SameCount(r, o)
  BY <1>2, DuartTransmits DEF Port
<1> HIDE DEF o
<1>4. DuartSane(TickTransmit(o, 1)) /\ SameCount(o, TickTransmit(o, 1))
  BY <1>3, DuartTransmits DEF Port
<1>5. DuartSane(t) /\ SameCount(d, t)
  BY <1>2, <1>3, <1>4 DEF SameCount
<1> HIDE DEF t
<1>6. (Counts(t) <=> Counts(d)) /\ CountedTo(t) = CountedTo(d) /\ t.ctr = d.ctr /\ t.ct = d.ct
  BY <1>5 DEF SameCount, Counts, CountedTo
<1>7. CASE Counts(d)
  BY <1>1, <1>5, <1>6, <1>7, DuartCounts
<1>8. CASE ~Counts(d)
  BY <1>1, <1>5, <1>6, <1>8
<1> QED
  BY <1>7, <1>8

\* A request that belongs to no port comes or goes.
LEMMA DuartIsrAside ==
    ASSUME NEW d, DuartPorts(d), NEW e, e.port = d.port,
           \A p \in Port : (RxBit(p) \in e.isr <=> RxBit(p) \in d.isr)
                           /\ (TxBit(p) \in e.isr <=> TxBit(p) \in d.isr)
    PROVE  DuartPorts(e)
  BY DEF DuartPorts

LEMMA DuartPinMoved ==
    ASSUME NEW d, DuartSane(d), NEW pin \in 0 .. 5, NEW on \in BOOLEAN, NEW e, e = duart_pin(d, pin, on)
    PROVE  DuartSane(e) /\ SameCount(d, e)
<1> DEFINE moved == pin < 4 /\ (on # (pin \in d.ip))
           w == IF on THEN d.ip \cup {pin} ELSE d.ip \ {pin}
           i == IF moved THEN d.isr \cup {7} ELSE d.isr
           c == [d EXCEPT !.ip = w]
           f == [c EXCEPT !.isr = i]
<1>1. d \in DuartState
  BY DEF DuartSane
<1>2. w \in SUBSET (0 .. 5) /\ i \in SUBSET (0 .. 7)
  BY <1>1 DEF DuartState
<1>3. \A p \in Port : (RxBit(p) \in i <=> RxBit(p) \in d.isr) /\ (TxBit(p) \in i <=> TxBit(p) \in d.isr)
  BY DuartBits
<1>4. e = duart_irq_calc(f)
  BY DEF duart_pin
<1> HIDE DEF w, i
<1>5. /\ c \in DuartState /\ c.port = d.port /\ c.ct = d.ct /\ c.ctr = d.ctr
      /\ c.ctstop = d.ctstop /\ c.acr = d.acr
  BY <1>1, <1>2 DEF DuartState
<1> HIDE DEF c
<1>6. f \in DuartState /\ SameCount(c, f) /\ f.port = c.port /\ f.isr = i
  BY <1>2, <1>5, DuartSetIsr
<1> HIDE DEF f
<1>7. e \in DuartState /\ DuartLine(e) /\ SameCount(f, e) /\ e.port = f.port /\ e.isr = f.isr
  BY <1>4, <1>6, DuartCalc
<1>8. DuartPorts(e)
  BY <1>3, <1>5, <1>6, <1>7, DuartIsrAside DEF DuartSane
<1> QED
  BY <1>5, <1>6, <1>7, <1>8 DEF DuartSane, SameCount

LEMMA DuartReadIpcr ==
    ASSUME NEW d, DuartSane(d), NEW e, e = read_ipcr(d)
    PROVE  DuartSane(e) /\ SameCount(d, e)
<1> DEFINE i == d.isr \ {7}
<1>1. d \in DuartState /\ i \in SUBSET (0 .. 7) /\ e = [d EXCEPT !.isr = i]
  BY DEF DuartSane, DuartState, read_ipcr
<1>2. \A p \in Port : (RxBit(p) \in i <=> RxBit(p) \in d.isr) /\ (TxBit(p) \in i <=> TxBit(p) \in d.isr)
  BY DuartBits
<1>3. i = d.isr \ {7}
  OBVIOUS
<1> HIDE DEF i
<1>4. /\ e \in DuartState /\ SameCount(d, e) /\ e.port = d.port /\ e.isr = i
      /\ e.irq = d.irq /\ e.imr = d.imr
  BY <1>1, DuartSetIsr
<1>5. DuartPorts(e)
  BY <1>2, <1>4, DuartIsrAside DEF DuartSane
<1>6. DuartLine(e)
  BY <1>3, <1>4 DEF DuartSane, DuartLine
<1> QED
  BY <1>4, <1>5, <1>6 DEF DuartSane

LEMMA DuartStarted ==
    ASSUME NEW d, DuartSane(d), NEW e, e = read_start(d)
    PROVE  DuartSane(e) /\ e.ct = d.ctr /\ e.ctr = d.ctr
<1>1. d \in DuartState
  BY DEF DuartSane
<1>2. /\ e \in DuartState /\ e.ct = d.ctr /\ e.ctr = d.ctr /\ e.port = d.port /\ e.isr = d.isr
      /\ e.irq = d.irq /\ e.imr = d.imr
  BY <1>1 DEF DuartState, read_start
<1> QED
  BY <1>2 DEF DuartSane, DuartLine, DuartPorts

LEMMA DuartStopped ==
    ASSUME NEW d, DuartSane(d), NEW e, e = read_stop(d)
    PROVE  DuartSane(e) /\ e.ct = d.ct /\ e.ctr = d.ctr
<1> DEFINE f == [d EXCEPT !.ctstop = TRUE]
           b == 3
<1>1. d \in DuartState
  BY DEF DuartSane
<1>2. e = duart_irq_lower(f, b)
  BY DEF read_stop
<1>3. b \in 0 .. 7 /\ \A p \in Port : b # RxBit(p) /\ b # TxBit(p)
  BY DuartBits
<1>4. /\ f \in DuartState /\ f.ct = d.ct /\ f.ctr = d.ctr /\ f.port = d.port /\ f.isr = d.isr
      /\ f.irq = d.irq /\ f.imr = d.imr
  BY <1>1 DEF DuartState
<1> HIDE DEF f, b
<1>5. DuartLine(f)
  BY <1>4 DEF DuartSane, DuartLine
<1>6. /\ e \in DuartState /\ DuartLine(e) /\ SameCount(f, e)
      /\ e.port = f.port /\ e.isr = f.isr \ {b}
  BY <1>2, <1>3, <1>4, <1>5, DuartLower
<1>7. DuartPorts(e)
  BY <1>3, <1>4, <1>6, DuartIsrAside DEF DuartSane
<1> QED
  BY <1>4, <1>6, <1>7 DEF DuartSane, SameCount

\* Mode, mask and constant.
LEMMA DuartLoaded ==
    ASSUME NEW d, DuartSane(d)
    PROVE  /\ \A a \in 0 .. 7 :
                  /\ DuartSane(duart_irq_calc([d EXCEPT !.acr = a]))
                  /\ duart_irq_calc([d EXCEPT !.acr = a]).ct = d.ct
                  /\ duart_irq_calc([d EXCEPT !.acr = a]).ctr = d.ctr
           /\ \A m \in SUBSET (0 .. 7) :
                  /\ DuartSane(duart_irq_calc([d EXCEPT !.imr = m]))
                  /\ duart_irq_calc([d EXCEPT !.imr = m]).ct = d.ct
                  /\ duart_irq_calc([d EXCEPT !.imr = m]).ctr = d.ctr
           /\ \A v \in Word : DuartSane([d EXCEPT !.ctr = v])
<1>1. d \in DuartState
  BY DEF DuartSane
<1>2. ASSUME NEW f \in DuartState, f.ct = d.ct, f.ctr = d.ctr, f.port = d.port, f.isr = d.isr
      PROVE  /\ DuartSane(duart_irq_calc(f)) /\ duart_irq_calc(f).ct = d.ct
             /\ duart_irq_calc(f).ctr = d.ctr
  <2> DEFINE e == duart_irq_calc(f)
  <2>1. e \in DuartState /\ DuartLine(e) /\ SameCount(f, e) /\ e.port = f.port /\ e.isr = f.isr
    BY DuartCalc
  <2> HIDE DEF e
  <2>2. DuartSane(e) /\ e.ct = d.ct /\ e.ctr = d.ctr
    BY <1>2, <2>1, DuartIsrAside DEF DuartSane, SameCount
  <2> QED
    BY <2>2 DEF e
<1>3. ASSUME NEW a \in 0 .. 7
      PROVE  /\ DuartSane(duart_irq_calc([d EXCEPT !.acr = a]))
             /\ duart_irq_calc([d EXCEPT !.acr = a]).ct = d.ct
             /\ duart_irq_calc([d EXCEPT !.acr = a]).ctr = d.ctr
  <2> DEFINE f == [d EXCEPT !.acr = a]
  <2>1. f \in DuartState /\ f.ct = d.ct /\ f.ctr = d.ctr /\ f.port = d.port /\ f.isr = d.isr
    BY <1>1 DEF DuartState
  <2> HIDE DEF f
  <2>2. DuartSane(duart_irq_calc(f)) /\ duart_irq_calc(f).ct = d.ct /\ duart_irq_calc(f).ctr = d.ctr
    BY <1>2, <2>1
  <2> QED
    BY <2>2 DEF f
<1>4. ASSUME NEW m \in SUBSET (0 .. 7)
      PROVE  /\ DuartSane(duart_irq_calc([d EXCEPT !.imr = m]))
             /\ duart_irq_calc([d EXCEPT !.imr = m]).ct = d.ct
             /\ duart_irq_calc([d EXCEPT !.imr = m]).ctr = d.ctr
  <2> DEFINE f == [d EXCEPT !.imr = m]
  <2>1. f \in DuartState /\ f.ct = d.ct /\ f.ctr = d.ctr /\ f.port = d.port /\ f.isr = d.isr
    BY <1>1 DEF DuartState
  <2> HIDE DEF f
  <2>2. DuartSane(duart_irq_calc(f)) /\ duart_irq_calc(f).ct = d.ct /\ duart_irq_calc(f).ctr = d.ctr
    BY <1>2, <2>1
  <2> QED
    BY <2>2 DEF f
<1>5. ASSUME NEW v \in Word
      PROVE  DuartSane([d EXCEPT !.ctr = v])
  <2> DEFINE f == [d EXCEPT !.ctr = v]
  <2>1. f \in DuartState /\ f.irq = d.irq /\ f.imr = d.imr /\ f.port = d.port /\ f.isr = d.isr
    BY <1>1 DEF DuartState
  <2> HIDE DEF f
  <2>2. DuartSane(f)
    BY <2>1 DEF DuartSane, DuartLine, DuartPorts
  <2> QED
    BY <2>2 DEF f
<1> QED
  BY <1>3, <1>4, <1>5

(***************************************************************************)
(* The three arguments together.  A history that follows the count is only *)
(* kept for a constant that is not 0.                                      *)
(***************************************************************************)
DuartInv ==
    /\ DuartSane(duart)
    /\ due \in Word \cup {-1}
    /\ due # -1 => duart.ctr > 0 /\ duart.ct % duart.ctr = due

LEMMA DuartMade == DuartSane(DuartCreated)
<1>1. WordMax \in Word /\ 0 \in Word
  <2>1. WordMax \in Nat
    BY WordType
  <2> QED
    BY <2>1 DEF Word
<1>2. DuartCreated \in DuartState
  BY <1>1 DEF DuartCreated, DuartState, DuartPort
<1> QED
  BY <1>2 DEF DuartSane, DuartCreated, DuartLine, DuartPorts

\* A counter that has just been started stands at its constant.
LEMMA DuartRestarted ==
    ASSUME NEW d, DuartSane(d), duart' = read_start(d), due' = IF d.ctr = 0 THEN -1 ELSE 0
    PROVE  DuartInv'
<1> DEFINE m == d.ctr
<1>1. DuartSane(duart') /\ duart'.ct = m /\ duart'.ctr = m
  BY DuartStarted
<1>2. m \in Word
  BY DEF DuartSane, DuartState
<1>3. m \in Nat /\ 0 \in Word
  BY <1>2, WordType
<1> HIDE DEF m
<1>4. m > 0 => m % m = 0
  BY <1>3
<1>5. (m = 0 /\ due' = -1) \/ (m > 0 /\ due' = 0)
  BY <1>3 DEF m
<1>6. due' # -1 => m > 0 /\ m % m = due'
  BY <1>4, <1>5
<1> QED
  BY <1>1, <1>3, <1>5, <1>6 DEF DuartInv

LEMMA DuartStarts == DuartInit => DuartInv
<1> SUFFICES ASSUME DuartInit
             PROVE  DuartInv
  OBVIOUS
<1>1. PICK v \in CounterLoad : duart = read_start([DuartCreated EXCEPT !.ctr = v])
  BY DEF DuartInit
<1> DEFINE d == [DuartCreated EXCEPT !.ctr = v]
           m == d.ctr
<1>2. v \in Word
  BY DuartAssumption
<1>3. DuartSane(d)
  BY <1>2, DuartMade, DuartLoaded
<1>4. DuartSane(duart) /\ duart.ct = m /\ duart.ctr = m
  BY <1>1, <1>3, DuartStarted
<1>5. m \in Word
  BY <1>3 DEF DuartSane, DuartState
<1>6. m \in Nat /\ 0 \in Word
  BY <1>5, WordType
<1>7. due = IF m = 0 THEN -1 ELSE 0
  BY <1>4 DEF DuartInit
<1> HIDE DEF m, d
<1>8. m > 0 => m % m = 0
  BY <1>6
<1>9. due # -1 => m > 0 /\ m % m = due
  BY <1>6, <1>7, <1>8
<1> QED
  BY <1>4, <1>6, <1>7, <1>9 DEF DuartInv

\* An access that leaves the counter and the history alone.
LEMMA DuartAside ==
    ASSUME DuartInv, NEW e, duart' = e, DuartSane(e), e.ct = duart.ct, e.ctr = duart.ctr, due' = due
    PROVE  DuartInv'
  BY DEF DuartInv

LEMMA DuartTickInv == DuartInv /\ DuartTick => DuartInv'
<1> SUFFICES ASSUME DuartInv, DuartTick
             PROVE  DuartInv'
  OBVIOUS
<1>1. PICK rx \in BOOLEAN, tx \in BOOLEAN : duart' = duart_tick(duart, rx, tx)
  BY DEF DuartTick
<1>2. due' = IF due = -1 \/ ~Counts(duart) THEN due
             ELSE (due - CountClock(duart.acr)) % duart.ctr
  BY DEF DuartTick
<1>3. DuartSane(duart) /\ duart \in DuartState /\ duart.ctr \in Word
  BY DEF DuartInv, DuartSane, DuartState
<1>4. /\ DuartSane(duart') /\ duart'.ctr = duart.ctr
      /\ duart'.ct = IF Counts(duart) THEN CountedTo(duart) ELSE duart.ct
  BY <1>1, <1>3, DuartTicked
<1>5. CASE due = -1
  BY <1>2, <1>4, <1>5 DEF DuartInv
<1>6. CASE ~Counts(duart)
  BY <1>2, <1>4, <1>6 DEF DuartInv
<1>7. CASE due # -1 /\ Counts(duart)
  <2> DEFINE m == duart.ctr
             n == due - CountClock(duart.acr)
  <2>1. m > 0 /\ duart.ct % m = due /\ due \in Word
    BY <1>7 DEF DuartInv
  <2>2. due' = n % m /\ duart'.ct = CountedTo(duart)
    BY <1>2, <1>4, <1>7
  <2>3. CountedTo(duart) % m = n % m
    BY <1>3, <2>1, DuartCountTo
  <2>4. CountClock(duart.acr) \in Nat
    BY DEF CountClock
  <2>5. n \in Int /\ m \in Nat /\ m <= WordMax /\ WordMax \in Nat
    BY <1>3, <2>1, <2>4, WordType
  <2> HIDE DEF m, n
  <2>6. n % m \in 0 .. m - 1
    BY <2>1, <2>5, DivMod
  <2>7. due' \in Word
    BY <2>2, <2>5, <2>6 DEF Word
  <2>8. duart'.ctr = m
    BY <1>4 DEF m
  <2> QED
    BY <1>4, <2>1, <2>2, <2>3, <2>7, <2>8 DEF DuartInv
<1> QED
  BY <1>5, <1>6, <1>7

LEMMA DuartReadInv == DuartInv /\ DuartRead => DuartInv'
<1> SUFFICES ASSUME DuartInv, DuartRead
             PROVE  DuartInv'
  OBVIOUS
<1>1. DuartSane(duart)
  BY DEF DuartInv
<1>2. ASSUME NEW p \in PortUsed, duart' = duart_input(duart, p), due' = due
      PROVE  DuartInv'
  <2>1. DuartSane(duart') /\ SameCount(duart, duart')
    BY <1>1, <1>2, DuartAssumption, DuartInput
  <2> QED
    BY <1>2, <2>1, DuartAside DEF SameCount
<1>3. CASE duart' = read_ipcr(duart) /\ due' = due
  <2>1. DuartSane(duart') /\ SameCount(duart, duart')
    BY <1>1, <1>3, DuartReadIpcr
  <2> QED
    BY <1>3, <2>1, DuartAside DEF SameCount
<1>4. CASE duart' = read_start(duart) /\ due' = IF duart.ctr = 0 THEN -1 ELSE 0
  BY <1>1, <1>4, DuartRestarted
<1>5. CASE duart' = read_stop(duart) /\ due' = due
  <2>1. DuartSane(duart') /\ duart'.ct = duart.ct /\ duart'.ctr = duart.ctr
    BY <1>1, <1>5, DuartStopped
  <2> QED
    BY <1>5, <2>1, DuartAside
<1> QED
  BY <1>2, <1>3, <1>4, <1>5 DEF DuartRead

LEMMA DuartWriteInv == DuartInv /\ DuartWrite => DuartInv'
<1> SUFFICES ASSUME DuartInv, DuartWrite
             PROVE  DuartInv'
  OBVIOUS
<1>1. DuartSane(duart)
  BY DEF DuartInv
<1>2. ASSUME NEW p \in PortUsed, NEW cmd \in DuartCmd, duart' = duart_command(duart, p, cmd),
             due' = due
      PROVE  DuartInv'
  <2>1. DuartSane(duart') /\ SameCount(duart, duart')
    BY <1>1, <1>2, DuartAssumption, DuartCommanded
  <2> QED
    BY <1>2, <2>1, DuartAside DEF SameCount
<1>3. ASSUME NEW p \in PortUsed, duart' = duart_output(duart, p), due' = due
      PROVE  DuartInv'
  <2>1. DuartSane(duart') /\ SameCount(duart, duart')
    BY <1>1, <1>3, DuartAssumption, DuartOutput
  <2> QED
    BY <1>3, <2>1, DuartAside DEF SameCount
<1>4. ASSUME NEW a \in Acr, duart' = duart_irq_calc([duart EXCEPT !.acr = a]), due' = due
      PROVE  DuartInv'
  <2>1. a \in 0 .. 7
    BY DuartAssumption
  <2>2. DuartSane(duart') /\ duart'.ct = duart.ct /\ duart'.ctr = duart.ctr
    BY <1>1, <1>4, <2>1, DuartLoaded
  <2> QED
    BY <1>4, <2>2, DuartAside
<1>5. ASSUME NEW m \in DuartMask, duart' = duart_irq_calc([duart EXCEPT !.imr = m]), due' = due
      PROVE  DuartInv'
  <2>1. m \in SUBSET (0 .. 7)
    BY DuartAssumption
  <2>2. DuartSane(duart') /\ duart'.ct = duart.ct /\ duart'.ctr = duart.ctr
    BY <1>1, <1>5, <2>1, DuartLoaded
  <2> QED
    BY <1>5, <2>2, DuartAside
<1>6. ASSUME NEW v \in CounterLoad, duart' = [duart EXCEPT !.ctr = v], due' = -1
      PROVE  DuartInv'
  <2>1. v \in Word
    BY DuartAssumption
  <2>2. DuartSane(duart')
    BY <1>1, <1>6, <2>1, DuartLoaded
  <2> QED
    BY <1>6, <2>2 DEF DuartInv
<1> QED
  BY <1>2, <1>3, <1>4, <1>5, <1>6 DEF DuartWrite

LEMMA DuartPinsInv == DuartInv /\ DuartPins => DuartInv'
<1> SUFFICES ASSUME DuartInv, NEW pin \in Pin, NEW on \in BOOLEAN,
                    duart' = duart_pin(duart, pin, on), due' = due
             PROVE  DuartInv'
  BY DEF DuartPins
<1>1. pin \in 0 .. 5 /\ DuartSane(duart)
  BY DuartAssumption DEF DuartInv
<1>2. DuartSane(duart') /\ SameCount(duart, duart')
  BY <1>1, DuartPinMoved
<1> QED
  BY <1>2, DuartAside DEF SameCount

LEMMA DuartStepInv == DuartInv /\ [DuartNext]_duartVars => DuartInv'
<1>1. DuartInv /\ DuartNext => DuartInv'
  BY DuartTickInv, DuartReadInv, DuartWriteInv, DuartPinsInv DEF DuartNext
<1>2. DuartInv /\ UNCHANGED duartVars => DuartInv'
  BY DEF duartVars, DuartInv
<1> QED
  BY <1>1, <1>2

LEMMA DuartHolds == DuartInv => DuartTypeOK /\ DuartTruth
  BY DEF DuartInv, DuartSane, DuartLine, DuartPorts, DuartTypeOK, DuartTruth, DuartLineTruth,
         DuartNoDrift

\* The 68681 tells the truth about its characters and its time, whichever
\* constants, masks, modes, commands and pins are used: no enabled request
\* fails to reach the line, a receive request stands exactly for a character
\* that waits, and the counter keeps its phase and its 16 bits however many
\* periods end in one tick.
THEOREM DuartCorrect == DuartSpec => [](DuartTypeOK /\ DuartTruth)
  BY DuartStarts, DuartStepInv, DuartHolds, PTL DEF DuartSpec

-----------------------------------------------------------------------------

(***************************************************************************)
(* The card in an RC2014.  The pin follows live_nonim2, which is the       *)
(* card's line of the last poll unless the handler has read since; and a   *)
(* data ready bit stands for a character unless the last slice ended       *)
(* between the handler's status read and its data read.                    *)
(***************************************************************************)
SerialCpuState == [IFF1 : BOOLEAN, defer_int : BOOLEAN, int_req : BOOLEAN]

LineFollowed ==
    /\ cpu.int_req => live_nonim2
    /\ live_nonim2 => CardIrq \/ cleared

ReadyBelieved ==
    card = "uart" =>
        /\ pc = "data" /\ ~raced => ~uart.dr /\ waiting > 0
        /\ pc # "data" /\ uart.dr => waiting > 0 \/ raced

\* The handler runs with interrupts off until its EI.
HandlerMasked == pc \in {"status", "data", "ei"} => ~cpu.IFF1

SerialMachine ==
    /\ AciaInv /\ UartInv /\ ~acia.inreset
    /\ card \in {"acia", "uart"} /\ waiting \in Nat /\ arrived \in Nat
    /\ cpu \in SerialCpuState /\ live_nonim2 \in BOOLEAN /\ raced \in BOOLEAN /\ cleared \in BOOLEAN
    /\ LineFollowed /\ ReadyBelieved /\ HandlerMasked

\* A started chip with the receive interrupt on.
LEMMA SerialChips ==
    ASSUME NEW fit, SerialInit(fit)
    PROVE  AciaInv /\ UartInv /\ ~acia.inreset
<1>1. AciaInv /\ ~acia.inreset
  <2>1. acia = [AciaCreated EXCEPT !.rie = TRUE] /\ unread = 0
    BY DEF SerialInit
  <2>2. /\ acia \in AciaState /\ acia.rdrf = FALSE /\ acia.ovrn = FALSE /\ acia.irq = FALSE
        /\ acia.inint = FALSE /\ acia.tie = FALSE /\ acia.inreset = FALSE
    BY <2>1 DEF AciaCreated, AciaState
  <2>3. AciaTypeOK /\ AciaOverrunTold
    BY <2>1, <2>2 DEF AciaTypeOK, AciaOverrunTold
  <2>4. AciaLineTruth
    BY <2>2 DEF AciaLineTruth, AciaCause
  <2> QED
    BY <2>2, <2>3, <2>4 DEF AciaInv
<1>2. UartInv
  <2> DEFINE i == {"RXDA"}
             v == UartCreated
  <2>1. uart = [v EXCEPT !.ier = i] /\ i \in SUBSET Source
    BY DEF SerialInit, Source
  <2>2. UartSane(v)
    BY UartInitInv DEF UartCreated, UartSane, UartState, UartQuiet, UartNames, UartShown,
                       Highest, Source
  <2> HIDE DEF i, v
  <2>3. /\ uart \in UartState /\ uart.irq = v.irq /\ uart.irqline = v.irqline
        /\ uart.iir = v.iir /\ uart.delta = v.delta
    BY <2>1, <2>2 DEF UartSane, UartState
  <2> QED
    BY <2>2, <2>3, UartAside DEF UartInv
<1> QED
  BY <1>1, <1>2

LEMMA SerialStarts == SerialInit({"acia", "uart"}) => SerialMachine
<1> SUFFICES ASSUME SerialInit({"acia", "uart"})
             PROVE  SerialMachine
  OBVIOUS
<1>1. AciaInv /\ UartInv /\ ~acia.inreset
  BY SerialChips
<1>2. ~uart.dr
  BY DEF SerialInit, UartCreated
<1>3. /\ card \in {"acia", "uart"} /\ waiting = 0 /\ arrived = 0 /\ live_nonim2 = FALSE
      /\ cleared = FALSE /\ raced = FALSE /\ pc = "main"
      /\ cpu = [IFF1 |-> TRUE, defer_int |-> FALSE, int_req |-> FALSE]
  BY DEF SerialInit
<1>4. cpu \in SerialCpuState /\ ~cpu.int_req
  BY <1>3 DEF SerialCpuState
<1>5. LineFollowed /\ ReadyBelieved /\ HandlerMasked
  BY <1>2, <1>3, <1>4 DEF LineFollowed, ReadyBelieved, HandlerMasked
<1> QED
  BY <1>1, <1>3, <1>4, <1>5 DEF SerialMachine

LEMMA SerialArrive == SerialMachine /\ Arrive => SerialMachine'
<1> SUFFICES ASSUME SerialMachine, Arrive
             PROVE  SerialMachine'
  OBVIOUS
<1>1. /\ acia' = acia /\ unread' = unread /\ uart' = uart /\ card' = card /\ live_nonim2' = live_nonim2
      /\ cpu' = cpu /\ pc' = pc /\ cleared' = cleared /\ raced' = raced
      /\ arrived' = arrived + 1 /\ waiting' = waiting + 1
  BY DEF Arrive, aciaVars, uartVars, hist
<1>2. AciaInv' /\ UartInv'
  BY <1>1, AciaStepInv, UartStepInv DEF SerialMachine, aciaVars, uartVars
<1>3. waiting \in Nat /\ waiting' \in Nat /\ arrived' \in Nat /\ waiting' > 0
  BY <1>1 DEF SerialMachine
<1>4. LineFollowed'
  BY <1>1 DEF SerialMachine, LineFollowed, CardIrq
<1>5. ReadyBelieved' /\ HandlerMasked'
  BY <1>1, <1>3 DEF SerialMachine, ReadyBelieved, HandlerMasked
<1> QED
  BY <1>1, <1>2, <1>3, <1>4, <1>5 DEF SerialMachine

\* Three records the CPU's steps leave.
LEMMA SerialCpuRecords ==
    ASSUME NEW c \in SerialCpuState, NEW v \in BOOLEAN
    PROVE  /\ Executed(c) \in SerialCpuState /\ Executed(c).int_req = c.int_req
           /\ Executed(c).IFF1 = c.IFF1
           /\ SetInterrupt(Executed(c), v) \in SerialCpuState
           /\ SetInterrupt(Executed(c), v).int_req = v
           /\ SetInterrupt(Executed(c), v).IFF1 = c.IFF1
           /\ SetInterrupt(c, v) \in SerialCpuState /\ SetInterrupt(c, v).int_req = v
           /\ SetInterrupt(c, v).IFF1 = c.IFF1
  BY DEF SerialCpuState, Executed, SetInterrupt

\* The instructions that do not touch the card.
LEMMA SerialPlain ==
    ASSUME SerialMachine, TakeInterrupt \/ Idle \/ EnableInterrupts \/ Return, UNCHANGED card
    PROVE  SerialMachine'
<1>1. /\ acia' = acia /\ unread' = unread /\ uart' = uart /\ live_nonim2' = live_nonim2
      /\ cleared' = cleared /\ raced' = raced /\ waiting' = waiting /\ arrived' = arrived
  BY DEF TakeInterrupt, Idle, EnableInterrupts, Return, aciaVars, uartVars, hist, host
<1>2. cpu \in SerialCpuState /\ live_nonim2 \in BOOLEAN /\ LineFollowed /\ HandlerMasked
  BY DEF SerialMachine
<1>3. AciaInv' /\ UartInv'
  BY <1>1, AciaStepInv, UartStepInv DEF SerialMachine, aciaVars, uartVars
<1>4. /\ pc # "data" /\ pc' # "data"
      /\ cpu' \in SerialCpuState /\ (cpu'.int_req => cpu.int_req \/ live_nonim2)
      /\ HandlerMasked'
  <2>1. CASE TakeInterrupt
    <3>1. cpu' \in SerialCpuState /\ ~cpu'.int_req /\ ~cpu'.IFF1 /\ cpu.IFF1 /\ pc' = "status"
      BY <1>2, <2>1 DEF TakeInterrupt, SerialCpuState, CardAccepts
    <3> QED
      BY <1>2, <3>1 DEF HandlerMasked
  <2>2. CASE Idle
    BY <1>2, <2>2, SerialCpuRecords DEF Idle, HandlerMasked
  <2>3. CASE EnableInterrupts
    <3>1. cpu' \in SerialCpuState /\ cpu'.int_req = cpu.int_req /\ pc = "ei" /\ pc' = "ret"
      BY <1>2, <2>3 DEF EnableInterrupts, SerialCpuState
    <3> QED
      BY <3>1 DEF HandlerMasked
  <2>4. CASE Return
    BY <1>2, <2>4, SerialCpuRecords DEF Return, HandlerMasked
  <2> QED
    BY <2>1, <2>2, <2>3, <2>4
<1>5. LineFollowed'
  BY <1>1, <1>2, <1>4 DEF LineFollowed, CardIrq
<1>6. ReadyBelieved'
  BY <1>1, <1>4 DEF SerialMachine, ReadyBelieved
<1> QED
  BY <1>1, <1>3, <1>4, <1>5, <1>6 DEF SerialMachine

\* The status read: the 16x50 forgets that data is ready, its line stays.
LEMMA SerialReadStatus ==
    ASSUME SerialMachine, ReadStatus, UNCHANGED card
    PROVE  SerialMachine'
<1>1. /\ acia' = acia /\ unread' = unread /\ live_nonim2' = live_nonim2
      /\ cleared' = cleared /\ raced' = raced /\ waiting' = waiting /\ arrived' = arrived
      /\ pc = "status" /\ cpu' = Executed(cpu)
      /\ pc' = IF (IF card = "acia" THEN acia.rdrf ELSE uart.dr) THEN "data" ELSE "ei"
      /\ uart' = IF card = "acia" THEN uart ELSE uart_read_lsr(uart)
  BY DEF ReadStatus, aciaVars, hist, host
<1>2. /\ cpu \in SerialCpuState /\ live_nonim2 \in BOOLEAN /\ LineFollowed /\ HandlerMasked
      /\ ReadyBelieved /\ uart \in UartState
  BY DEF SerialMachine, UartInv, UartSane
<1>3. AciaInv'
  BY <1>1, AciaStepInv DEF SerialMachine, aciaVars
<1>4. UartInv'
  BY <1>1, UartStepInv DEF SerialMachine, UartNext, UartRead, uartVars
<1>5. /\ cpu' \in SerialCpuState /\ cpu'.int_req = cpu.int_req /\ cpu'.IFF1 = cpu.IFF1
  BY <1>1, <1>2, SerialCpuRecords
<1>6. /\ uart'.irqline = uart.irqline /\ (card = "uart" => ~uart'.dr)
      /\ pc' \in {"data", "ei"} /\ (card = "uart" /\ pc' = "data" => uart.dr)
  BY <1>1, <1>2 DEF uart_read_lsr, UartState
<1>7. LineFollowed' /\ HandlerMasked'
  BY <1>1, <1>2, <1>5, <1>6 DEF LineFollowed, CardIrq, HandlerMasked
<1>8. ReadyBelieved'
  BY <1>1, <1>2, <1>6 DEF ReadyBelieved
<1> QED
  BY <1>1, <1>3, <1>4, <1>5, <1>7, <1>8 DEF SerialMachine

\* The data read may take the cause of the interrupt away.
LEMMA SerialReadCharacter ==
    ASSUME SerialMachine, ReadCharacter, UNCHANGED card
    PROVE  SerialMachine'
<1>1. /\ live_nonim2' = live_nonim2 /\ raced' = raced /\ arrived' = arrived /\ cleared' = TRUE
      /\ pc = "data" /\ pc' = "status"
  BY DEF ReadCharacter
<1>2. /\ cpu \in SerialCpuState /\ live_nonim2 \in BOOLEAN /\ LineFollowed /\ HandlerMasked
      /\ ReadyBelieved /\ uart \in UartState /\ waiting \in Nat
      /\ acia \in AciaState /\ ~acia.inreset
  BY DEF SerialMachine, UartInv, UartSane, AciaInv, AciaTypeOK
<1>3. /\ cpu' \in SerialCpuState /\ cpu'.IFF1 = cpu.IFF1
      /\ cpu'.int_req => cpu.int_req \/ live_nonim2
  <2>1. cpu' = Executed(cpu) \/ cpu' = SetInterrupt(Executed(cpu), live_nonim2)
    BY DEF ReadCharacter
  <2> QED
    BY <1>2, <2>1, SerialCpuRecords
<1>4. LineFollowed' /\ HandlerMasked'
  BY <1>1, <1>2, <1>3 DEF LineFollowed, HandlerMasked
<1>5. CASE card = "acia"
  <2>1. acia' = acia_read_data(acia) /\ unread' = 0 /\ uart' = uart /\ waiting' = waiting
    BY <1>5 DEF ReadCharacter
  <2>2. AciaInv'
    BY <2>1, AciaStepInv DEF SerialMachine, AciaNext, AciaReadData
  <2>3. UartInv'
    BY <2>1, UartStepInv DEF SerialMachine, uartVars
  <2>4. ~acia'.inreset
    <3> DEFINE b == [acia EXCEPT !.rdrf = FALSE, !.ovrn = FALSE]
    <3>1. b \in AciaState /\ b.inreset = acia.inreset /\ acia' = acia_irq_compute(b)
      BY <1>2, <2>1 DEF AciaState, acia_read_data
    <3> HIDE DEF b
    <3> QED
      BY <1>2, <3>1, AciaComputed
  <2>5. ReadyBelieved'
    BY <1>5 DEF ReadyBelieved
  <2> QED
    BY <1>1, <1>3, <1>4, <2>1, <2>2, <2>3, <2>4, <2>5 DEF SerialMachine
<1>6. CASE card = "uart"
  <2>1. /\ uart' = uart_read_data(uart) /\ waiting' = (IF waiting = 0 THEN 0 ELSE waiting - 1)
        /\ acia' = acia /\ unread' = unread
    BY <1>6 DEF ReadCharacter, aciaVars
  <2>2. AciaInv'
    BY <2>1, AciaStepInv DEF SerialMachine, aciaVars
  <2>3. UartInv'
    BY <2>1, UartStepInv DEF SerialMachine, UartNext, UartRead
  <2>4. uart'.dr = uart.dr
    BY <1>2, <2>1 DEF uart_read_data, uart_clear_interrupt, recalc_iir, UartState
  <2>5. waiting' \in Nat
    BY <1>2, <2>1
  <2>6. ReadyBelieved'
    BY <1>1, <1>2, <1>6, <2>4 DEF ReadyBelieved
  <2> QED
    BY <1>1, <1>2, <1>3, <1>4, <2>1, <2>2, <2>3, <2>5, <2>6 DEF SerialMachine
<1> QED
  BY <1>5, <1>6 DEF SerialMachine

\* The end of a slice: the card looks at the host and the poll at the card.
LEMMA SerialSliceEnds ==
    ASSUME SerialMachine, SerialSlice
    PROVE  SerialMachine'
<1>1. /\ card' = card /\ arrived' = arrived /\ pc' = pc /\ live_nonim2' = CardIrq'
      /\ cpu' = SetInterrupt(cpu, live_nonim2') /\ cleared' = FALSE /\ raced' = (pc = "data")
  BY DEF SerialSlice
<1>2. /\ cpu \in SerialCpuState /\ HandlerMasked /\ uart \in UartState /\ waiting \in Nat
      /\ acia \in AciaState /\ ~acia.inreset
  BY DEF SerialMachine, UartInv, UartSane, AciaInv, AciaTypeOK
<1>3. PICK tx \in BOOLEAN :
        \/ /\ card = "acia"
           /\ acia' = acia_timer(acia, waiting > 0, tx)
           /\ unread' = IF waiting > 0 /\ unread < 2 THEN unread + 1 ELSE unread
           /\ waiting' = IF waiting > 0 THEN waiting - 1 ELSE 0
           /\ UNCHANGED uart
        \/ /\ card = "uart"
           /\ uart' = uart_event(uart, waiting > 0, tx)
           /\ UNCHANGED <<aciaVars, waiting>>
  BY DEF SerialSlice
<1> DEFINE rx == waiting > 0
<1>4. rx \in BOOLEAN
  OBVIOUS
<1>5. /\ AciaInv' /\ UartInv' /\ ~acia'.inreset /\ waiting' \in Nat
      /\ card = "uart" => (uart'.dr <=> waiting' > 0)
  <2>1. CASE card = "acia"
    <3>1. acia' = acia_timer(acia, rx, tx) /\ uart' = uart
          /\ unread' = IF rx /\ ~acia.inreset /\ unread < 2 THEN unread + 1 ELSE unread
      BY <1>2, <1>3, <2>1
    <3>2. waiting' \in Nat
      BY <1>2, <1>3, <2>1
    <3> HIDE DEF rx
    <3>3. AciaTimer
      BY <1>4, <3>1 DEF AciaTimer
    <3>4. AciaInv' /\ UartInv'
      BY <3>1, <3>3, AciaStepInv, UartStepInv DEF SerialMachine, AciaNext, uartVars
    <3>5. ~acia'.inreset
      BY <1>2, <1>4, <3>1 DEF acia_timer, acia_receive, acia_transmit, acia_irq_compute, AciaState
    <3> QED
      BY <2>1, <3>2, <3>4, <3>5
  <2>2. CASE card = "uart"
    <3>1. uart' = uart_event(uart, rx, tx) /\ acia' = acia /\ unread' = unread /\ waiting' = waiting
      BY <1>3, <2>2 DEF aciaVars
    <3> HIDE DEF rx
    <3>2. UartEvent
      BY <1>4, <3>1 DEF UartEvent
    <3>3. AciaInv' /\ UartInv'
      BY <3>1, <3>2, AciaStepInv, UartStepInv DEF SerialMachine, UartNext, aciaVars
    <3>4. uart'.dr = rx
      BY <1>2, <1>4, <3>1 DEF uart_event, uart_interrupt, recalc_iir, UartState
    <3> QED
      BY <1>2, <3>1, <3>3, <3>4 DEF rx
  <2> QED
    BY <2>1, <2>2 DEF SerialMachine
<1>6. live_nonim2' \in BOOLEAN
  <2>1. acia' \in AciaState
    BY <1>5 DEF AciaInv, AciaTypeOK
  <2> QED
    BY <1>1, <2>1 DEF CardIrq, AciaState
<1>7. cpu' \in SerialCpuState /\ cpu'.int_req = live_nonim2' /\ cpu'.IFF1 = cpu.IFF1
  <2> DEFINE v == live_nonim2'
  <2>1. v \in BOOLEAN /\ cpu' = SetInterrupt(cpu, v)
    BY <1>1, <1>6
  <2> HIDE DEF v
  <2>2. cpu' \in SerialCpuState /\ cpu'.int_req = v /\ cpu'.IFF1 = cpu.IFF1
    BY <1>2, <2>1, SerialCpuRecords
  <2> QED
    BY <2>2 DEF v
<1>8. LineFollowed' /\ HandlerMasked'
  BY <1>1, <1>2, <1>7 DEF LineFollowed, HandlerMasked
<1>9. ReadyBelieved'
  BY <1>1, <1>5 DEF ReadyBelieved
<1>10. card' \in {"acia", "uart"} /\ arrived' \in Nat /\ raced' \in BOOLEAN /\ cleared' \in BOOLEAN
  BY <1>1 DEF SerialMachine
<1> QED
  BY <1>5, <1>6, <1>7, <1>8, <1>9, <1>10 DEF SerialMachine

LEMMA SerialStep == SerialMachine /\ [SerialNext]_serialVars => SerialMachine'
<1> SUFFICES ASSUME SerialMachine, [SerialNext]_serialVars
             PROVE  SerialMachine'
  OBVIOUS
<1>1. CASE Arrive
  BY <1>1, SerialArrive
<1>2. CASE SerialCpu
  BY <1>2, SerialPlain, SerialReadStatus, SerialReadCharacter DEF SerialCpu
<1>3. CASE SerialSlice
  BY <1>3, SerialSliceEnds
<1>4. CASE UNCHANGED serialVars
  <2>1. /\ acia' = acia /\ unread' = unread /\ uart' = uart /\ card' = card /\ live_nonim2' = live_nonim2
        /\ cpu' = cpu /\ pc' = pc /\ cleared' = cleared /\ raced' = raced
        /\ arrived' = arrived /\ waiting' = waiting
    BY <1>4 DEF serialVars, aciaVars, uartVars, hist, host
  <2>2. AciaInv' /\ UartInv'
    BY <2>1, AciaStepInv, UartStepInv DEF SerialMachine, aciaVars, uartVars
  <2>3. LineFollowed' /\ ReadyBelieved' /\ HandlerMasked'
    BY <2>1 DEF SerialMachine, LineFollowed, CardIrq, ReadyBelieved, HandlerMasked
  <2> QED
    BY <2>1, <2>2, <2>3 DEF SerialMachine
<1> QED
  BY <1>1, <1>2, <1>3, <1>4 DEF SerialNext

\* The handler is sent to read a character that does not exist only by a slice
\* that ended between its status read and its data read, for any number of
\* characters and any cutting of the program into slices.
THEOREM PhantomsExplained == SerialSpec => []PhantomOnlyAfterRace
<1>1. SerialMachine => PhantomOnlyAfterRace
  <2> SUFFICES ASSUME SerialMachine, card = "uart", pc = "data", waiting = 0
               PROVE  raced
    BY DEF PhantomOnlyAfterRace
  <2> QED
    BY DEF SerialMachine, ReadyBelieved
<1> QED
  BY <1>1, SerialStarts, SerialStep, PTL DEF SerialSpec

\* An interrupt without a cause is taken only in the slice in which the handler
\* has taken the cause away: live_nonim2 and the pin lag no longer than that.
THEOREM SpuriousExplained == SerialSpec => SpuriousOnlyInSlice
<1>1. SerialMachine /\ [SerialNext]_serialVars =>
          [cpu.IFF1 /\ ~cpu'.IFF1 /\ ~CardIrq => cleared]_serialVars
  <2> SUFFICES ASSUME SerialMachine, SerialNext, cpu.IFF1, ~cpu'.IFF1, ~CardIrq
               PROVE  cleared
    OBVIOUS
  <2>1. cpu \in SerialCpuState /\ live_nonim2 \in BOOLEAN /\ LineFollowed
    BY DEF SerialMachine
  <2>2. CASE TakeInterrupt
    BY <2>1, <2>2 DEF TakeInterrupt, CardAccepts, LineFollowed
  <2>3. CASE Arrive
    BY <2>3 DEF Arrive
  <2>4. CASE Idle \/ ReadStatus \/ Return \/ ReadCharacter
    <3>1. cpu' = Executed(cpu) \/ cpu' = SetInterrupt(Executed(cpu), live_nonim2)
      BY <2>4 DEF Idle, ReadStatus, Return, ReadCharacter
    <3> QED
      BY <2>1, <3>1, SerialCpuRecords
  <2>5. CASE EnableInterrupts
    BY <2>1, <2>5 DEF EnableInterrupts, SerialCpuState
  <2>6. CASE SerialSlice
    BY <2>1, <2>6 DEF SerialSlice, SetInterrupt, SerialCpuState
  <2> QED
    BY <2>2, <2>3, <2>4, <2>5, <2>6 DEF SerialNext, SerialCpu
<1> QED
  BY <1>1, SerialStarts, SerialStep, PTL DEF SerialSpec, SpuriousOnlyInSlice

-----------------------------------------------------------------------------

(***************************************************************************)
(* All the chips of the serial run, of which one at a time is fitted.      *)
(***************************************************************************)
AllChips ==
    /\ AciaInv /\ UartInv /\ M6551Inv /\ DuartInv
    /\ fitted = "rc2014" => SerialMachine

LEMMA AllChipsStart == MCInit => AllChips
<1> SUFFICES ASSUME MCInit
             PROVE  AllChips
  OBVIOUS
<1>1. AciaInv /\ UartInv
  BY SerialChips DEF MCInit
<1>2. M6551Inv
  BY DEF MCInit, M6551Init, M6551Created, M6551Inv, M6551TypeOK, M6551State, M6551Truth, M6551Cause, M6551Line
<1>3. DuartInv
  <2>1. CASE fitted = "duart"
    BY <2>1, DuartStarts DEF MCInit
  <2>2. CASE fitted # "duart"
    BY <2>2, DuartMade DEF MCInit, DuartInv
  <2> QED
    BY <2>1, <2>2
<1>4. fitted = "rc2014" => SerialMachine
  BY SerialStarts DEF MCInit
<1> QED
  BY <1>1, <1>2, <1>3, <1>4 DEF AllChips

LEMMA AllChipsStep == AllChips /\ [MCNext]_allVars => AllChips'
<1> SUFFICES ASSUME AllChips, [MCNext]_allVars
             PROVE  AllChips'
  OBVIOUS
<1>1. fitted' = fitted
  BY DEF MCNext, AloneAcia, AloneUart, AloneM6551, AloneDuart, MachineCpu, MachineSlice,
         MachineHost, RestOfRc2014, allVars
<1>2. [M6551Next]_m6551Vars /\ [DuartNext]_duartVars
  BY DEF MCNext, AloneAcia, AloneUart, AloneM6551, AloneDuart, MachineCpu, MachineSlice,
         MachineHost, RestOfRc2014, allVars
<1>3. M6551Inv' /\ DuartInv'
  BY <1>2, M6551StepInv, DuartStepInv DEF AllChips
<1>4. CASE fitted = "rc2014"
  <2>1. [SerialNext]_serialVars
    BY <1>4 DEF MCNext, AloneAcia, AloneUart, AloneM6551, AloneDuart, MachineCpu, MachineSlice,
                MachineHost, SerialNext, allVars
  <2>2. SerialMachine'
    BY <1>4, <2>1, SerialStep DEF AllChips
  <2> QED
    BY <1>3, <2>2 DEF AllChips, SerialMachine
<1>5. CASE fitted # "rc2014"
  <2>1. [AciaNext]_aciaVars /\ [UartNext]_uartVars
    BY <1>5 DEF MCNext, AloneAcia, AloneUart, AloneM6551, AloneDuart, MachineCpu, MachineSlice,
                MachineHost, allVars, serialVars
  <2>2. AciaInv' /\ UartInv'
    BY <2>1, AciaStepInv, UartStepInv DEF AllChips
  <2> QED
    BY <1>1, <1>3, <1>5, <2>2 DEF AllChips
<1> QED
  BY <1>4, <1>5

\* The machine that is not fitted has no card, and stands still.
LEMMA MachineTyped ==
    /\ MCInit => MachineTypeOK
    /\ AllChips /\ MachineTypeOK /\ [MCNext]_allVars => MachineTypeOK'
<1>1. ASSUME MCInit  PROVE MachineTypeOK
  <2>1. PICK fit \in {{"acia", "uart"}, {"none"}} : SerialInit(fit)
    BY <1>1 DEF MCInit
  <2>2. /\ card \in {"acia", "uart", "none"} /\ waiting = 0 /\ arrived = 0 /\ live_nonim2 = FALSE
        /\ ran = FALSE /\ cleared = FALSE /\ raced = FALSE /\ pc = "main"
        /\ cpu = [IFF1 |-> TRUE, defer_int |-> FALSE, int_req |-> FALSE]
    BY <2>1 DEF SerialInit
  <2>3. cpu \in [IFF1 : BOOLEAN, defer_int : BOOLEAN, int_req : BOOLEAN]
    BY <2>2
  <2>4. arrived \in 0 .. MaxArrive /\ waiting \in 0 .. arrived
    BY <2>2, ArriveAssumption
  <2> QED
    BY <2>2, <2>3, <2>4, Zenon DEF MachineTypeOK
<1>2. ASSUME AllChips, MachineTypeOK, [MCNext]_allVars  PROVE MachineTypeOK'
  <2>1. CASE Arrive
    BY <1>2, <2>1, ArriveAssumption DEF Arrive, MachineTypeOK, hist
  <2>2. CASE TakeInterrupt /\ ran' = TRUE /\ UNCHANGED card
    BY <1>2, <2>2 DEF TakeInterrupt, MachineTypeOK, host, hist
  <2>3. CASE (Idle \/ ReadStatus \/ EnableInterrupts) /\ ran' = TRUE /\ UNCHANGED card
    BY <1>2, <2>3 DEF Idle, ReadStatus, EnableInterrupts, Executed, MachineTypeOK, host, hist
  <2>4. CASE ReadCharacter /\ ran' = TRUE /\ UNCHANGED card
    <3>1. /\ cpu' = Executed(cpu) \/ cpu' = SetInterrupt(Executed(cpu), live_nonim2)
          /\ waiting' = waiting \/ waiting' = (IF waiting = 0 THEN 0 ELSE waiting - 1)
          /\ pc' = "status" /\ cleared' = TRUE
          /\ arrived' = arrived /\ live_nonim2' = live_nonim2 /\ raced' = raced /\ card' = card
      BY <2>4 DEF ReadCharacter
    <3>2. cpu' \in [IFF1 : BOOLEAN, defer_int : BOOLEAN, int_req : BOOLEAN]
      BY <1>2, <3>1 DEF Executed, SetInterrupt, MachineTypeOK
    <3>3. waiting' \in 0 .. arrived
      BY <1>2, <3>1, ArriveAssumption DEF MachineTypeOK
    <3> QED
      BY <1>2, <2>4, <3>1, <3>2, <3>3 DEF MachineTypeOK
  <2>5. CASE Return /\ ran' = TRUE /\ UNCHANGED card
    BY <1>2, <2>5 DEF Return, Executed, SetInterrupt, MachineTypeOK, host, hist
  <2>6. CASE SerialSlice
    <3>1. /\ waiting' = waiting \/ waiting' = (IF waiting > 0 THEN waiting - 1 ELSE 0)
          /\ cpu' = SetInterrupt(cpu, live_nonim2')
          /\ live_nonim2' = CardIrq' /\ raced' = (pc = "data")
          /\ cleared' = FALSE /\ ran' = FALSE
          /\ arrived' = arrived /\ card' = card /\ pc' = pc
      BY <2>6 DEF SerialSlice
    <3>2. waiting' \in 0 .. arrived
      BY <1>2, <3>1, ArriveAssumption DEF MachineTypeOK
    <3>3. live_nonim2' \in BOOLEAN
      <4>1. acia' \in AciaState
        BY <1>2, AllChipsStep DEF AllChips, AciaInv, AciaTypeOK
      <4> QED
        BY <3>1, <4>1 DEF CardIrq, AciaState
    <3>4. cpu' \in [IFF1 : BOOLEAN, defer_int : BOOLEAN, int_req : BOOLEAN]
      BY <1>2, <3>1, <3>3 DEF SetInterrupt, MachineTypeOK
    <3> QED
      BY <1>2, <3>1, <3>2, <3>3, <3>4 DEF MachineTypeOK
  <2>7. CASE UNCHANGED machineVars
    BY <1>2, <2>7 DEF machineVars, host, hist, MachineTypeOK
  <2> QED
    BY <1>2, <2>1, <2>2, <2>3, <2>4, <2>5, <2>6, <2>7
       DEF MCNext, AloneAcia, AloneUart, AloneM6551, AloneDuart, MachineCpu, MachineSlice,
           MachineHost, SerialCpu, allVars, serialVars, machineVars
<1> QED
  BY <1>1, <1>2

\* Every field of every serial chip, and of the machine around them, keeps its
\* range; in particular the count of the DUART is a 16 bit value after each tick,
\* which duart_count takes below zero.
THEOREM SerialInRange == MCSpec => []SerialTypeOK
<1>1. AllChips /\ MachineTypeOK => SerialTypeOK
  BY DuartHolds DEF AllChips, AciaInv, UartInv, UartSane, UartTypeOK, M6551Inv, SerialTypeOK
<1> QED
  BY <1>1, AllChipsStart, AllChipsStep, MachineTyped, PTL DEF MCSpec

-----------------------------------------------------------------------------
(* The Z80 SIO: type correctness *)

\* The chip software finds is one of the type, whatever it programs into it.
LEMMA InitType == Init => TypeOK
<1>1. SioCreated \in SioState
  BY CreatedType
<1>2. ASSUME NEW wr1 \in [Chan -> Mode \cup {WR1Off}], NEW rxen \in [Chan -> BOOLEAN],
             NEW v \in Vector
      PROVE  Programmed(wr1, rxen, v) \in SioState
  <2>1. v \in Byte /\ \A c \in Chan : wr1[c] \in WR1 /\ rxen[c] \in BOOLEAN
    <3>1. WR1Off \in WR1
      BY DEF WR1Off, WR1
    <3> QED
      BY <3>1, VectorAssumption, ModeAssumption
  <2> DEFINE N(c) == [SioCreated.chan[c] EXCEPT
                        !.wr1 = wr1[c], !.rxen = rxen[c],
                        !.wr2 = IF c = "B" THEN v ELSE @, !.rr2 = IF c = "B" THEN v ELSE @]
  <2>2. ASSUME NEW c \in Chan  PROVE N(c) \in ChanState
    <3> DEFINE x == IF c = "B" THEN v ELSE SioCreated.chan[c].wr2
               y == IF c = "B" THEN v ELSE SioCreated.chan[c].rr2
               k == SioCreated.chan[c]
    <3>1. k \in ChanState
      BY <1>1 DEF SioState
    <3>2. x \in Byte /\ y \in Byte
      BY <2>1, <3>1 DEF ChanState
    <3> HIDE DEF x, y, k
    <3>3. ASSUME NEW n \in WR1, NEW b \in BOOLEAN
          PROVE  [k EXCEPT !.wr1 = n, !.rxen = b, !.wr2 = x, !.rr2 = y] \in ChanState
      BY <3>1, <3>2 DEF ChanState
    <3>4. [k EXCEPT !.wr1 = wr1[c], !.rxen = rxen[c], !.wr2 = x, !.rr2 = y] \in ChanState
      BY <2>1, <3>3
    <3> QED
      BY <3>4 DEF x, y, k
  <2>3. [SioCreated EXCEPT !.chan = [c \in Chan |-> N(c)]] \in SioState
    <3> HIDE DEF N
    <3> QED
      BY <1>1, <2>2 DEF SioState
  <2> QED
    BY <2>3 DEF Programmed
<1> QED
  BY <1>2 DEF Init, TypeOK

\* Every step of the main loop, of the CPU and of the interrupt logic keeps
\* the types.
LEMMA NextType == TypeOK /\ [Next]_vars => TypeOK'
<1> SUFFICES ASSUME sio \in SioState, [Next]_vars  PROVE sio' \in SioState
  BY DEF TypeOK
<1>1. CASE Timer
  BY <1>1, TimerType DEF Timer
<1>2. CASE CheckIm2
  BY <1>2, CheckIm2Type DEF CheckIm2
<1>3. CASE Reti
  BY <1>3, RetiType DEF Reti
<1>4. ASSUME NEW c \in Modem, SetDcd(c)  PROVE sio' \in SioState
  BY <1>4, SetDcdType, UseAssumption DEF SetDcd
<1>5. ASSUME NEW c \in Driven, ReadCtl(c) \/ ReadDat(c) \/ WriteDat(c) PROVE sio' \in SioState
  BY <1>5, PortTypes, ReadDataType, UseAssumption DEF ReadCtl, ReadDat, WriteDat
<1>6. ASSUME NEW c \in Driven, WriteCtl(c)  PROVE sio' \in SioState
  <2>1. c \in Chan
    BY UseAssumption
  <2>2. ASSUME NEW cmd \in Cmd, NEW reg \in Reg \cup {0}
        PROVE  WriteCommand(sio, c, cmd, reg) \in SioState
    BY <2>1, CommandType, UseAssumption
  <2>3. \A mode \in Mode : WriteMode(sio, c, mode) \in SioState
    BY <2>1, PortTypes, ModeAssumption
  <2>4. \A v \in Vector : WriteVector(sio, c, v) \in SioState
    BY <2>1, PortTypes, VectorAssumption
  <2>5. /\ \A on \in BOOLEAN : WriteRxEnable(sio, c, on) \in SioState
        /\ WriteUnused(sio, c) \in SioState
    BY <2>1, PortTypes
  <2> QED
    BY <1>6, <2>2, <2>3, <2>4, <2>5 DEF WriteCtl
<1>7. CASE UNCHANGED vars
  BY <1>7 DEF vars
<1> QED
  BY <1>1, <1>2, <1>3, <1>4, <1>5, <1>6, <1>7 DEF Next

\* Whatever software, the line and the interrupt logic do to an SIO, in any
\* order, every field keeps its range: no index of data[] out of bounds, no
\* vector beyond a byte, irqchan a channel or none.
THEOREM SioTypeCorrect == Spec => []TypeOK
<1>1. Init => TypeOK
  BY InitType
<1>2. TypeOK /\ [Next]_vars => TypeOK'
  BY NextType
<1> QED
  BY <1>1, <1>2, PTL DEF Spec

-----------------------------------------------------------------------------
(* Interrupts with a cause *)

\* The invariant the proof carries: Sound is PendingHasCause and
\* AvailableMeansData together, and neither is inductive without the types.
Inv == TypeOK /\ Sound(sio)

\* A chip that software has just programmed has nothing pending.
LEMMA InitSound == Init => Sound(sio)
<1>1. SioCreated \in SioState /\ Sound(SioCreated)
  BY CreatedType, CreatedSound
<1>2. ASSUME NEW wr1 \in [Chan -> Mode \cup {WR1Off}], NEW rxen \in [Chan -> BOOLEAN],
             NEW v \in Vector
      PROVE  Sound(Programmed(wr1, rxen, v))
  <2> DEFINE r == Programmed(wr1, rxen, v)
  <2>1. SameStatus(SioCreated, r) /\ \A e \in Chan : r.chan[e].intbits = SioCreated.chan[e].intbits
    <3> DEFINE N(c) == [SioCreated.chan[c] EXCEPT
                          !.wr1 = wr1[c], !.rxen = rxen[c],
                          !.wr2 = IF c = "B" THEN v ELSE @, !.rr2 = IF c = "B" THEN v ELSE @]
    <3>1. ASSUME NEW e \in Chan
          PROVE  /\ N(e).dptr = SioCreated.chan[e].dptr
                 /\ N(e).txe = SioCreated.chan[e].txe
                 /\ N(e).rx = SioCreated.chan[e].rx
                 /\ N(e).intbits = SioCreated.chan[e].intbits
      <4> DEFINE k == SioCreated.chan[e]
      <4>1. k \in ChanState
        BY <1>1 DEF SioState
      <4> HIDE DEF k
      <4> QED
        BY <4>1 DEF ChanState, k
    <3>2. r = [SioCreated EXCEPT !.chan = [c \in Chan |-> N(c)]]
      BY DEF Programmed
    <3> HIDE DEF N, r
    <3>3. \A e \in Chan : r.chan[e] = N(e)
      BY <1>1, <3>2 DEF SioState
    <3> QED
      BY <3>1, <3>3 DEF SameStatus
  <2> HIDE DEF r
  <2>2. Sound(r)
    BY <1>1, <2>1, SoundFrom
  <2> QED
    BY <2>2 DEF r
<1> QED
  BY <1>2 DEF Init

\* Every step keeps a chip sound.
LEMMA NextSound == Inv /\ [Next]_vars => Sound(sio)'
<1> SUFFICES ASSUME sio \in SioState, Sound(sio), [Next]_vars  PROVE Sound(sio')
  BY DEF Inv, TypeOK, Sound, ChanSound
<1>1. CASE Timer
  BY <1>1, TimerSound DEF Timer
<1>2. CASE CheckIm2
  BY <1>2, CheckIm2Sound DEF CheckIm2
<1>3. CASE Reti
  BY <1>3, RetiSound DEF Reti
<1>4. ASSUME NEW c \in Modem, SetDcd(c)  PROVE Sound(sio')
  BY <1>4, SetDcdSound, UseAssumption DEF SetDcd
<1>5. ASSUME NEW c \in Driven, ReadCtl(c) \/ ReadDat(c) \/ WriteDat(c) PROVE Sound(sio')
  <2>1. c \in Chan
    BY UseAssumption
  <2> QED
    BY <1>5, <2>1, PortsQuiet, QuietSound, ReadDataSound, WriteDataSound
    DEF ReadCtl, ReadDat, WriteDat
<1>6. ASSUME NEW c \in Driven, WriteCtl(c)  PROVE Sound(sio')
  <2>1. c \in Chan
    BY UseAssumption
  <2>2. ASSUME NEW cmd \in Cmd, NEW reg \in Reg \cup {0}
        PROVE  Sound(WriteCommand(sio, c, cmd, reg))
    BY <2>1, CommandSound, UseAssumption
  <2>3. \A mode \in Mode : Sound(WriteMode(sio, c, mode))
    BY <2>1, PortsQuiet, QuietSound, ModeAssumption
  <2>4. \A v \in Vector : Sound(WriteVector(sio, c, v))
    BY <2>1, PortsQuiet, QuietSound, VectorAssumption
  <2>5. /\ \A on \in BOOLEAN : Sound(WriteRxEnable(sio, c, on))
        /\ Sound(WriteUnused(sio, c))
    BY <2>1, PortsQuiet, QuietSound
  <2> QED
    BY <1>6, <2>2, <2>3, <2>4, <2>5 DEF WriteCtl
<1>7. CASE UNCHANGED vars
  BY <1>7 DEF vars
<1> QED
  BY <1>1, <1>2, <1>3, <1>4, <1>5, <1>6, <1>7 DEF Next

LEMMA AlwaysSound == Spec => []Inv
<1>1. Init => Inv
  BY InitType, InitSound DEF Inv
<1>2. Inv /\ [Next]_vars => Inv'
  BY NextType, NextSound DEF Inv
<1> QED
  BY <1>1, <1>2, PTL DEF Spec

\* No interrupt outlives its cause, for any set of characters, vectors, modes
\* and commands, and any order of polls, port accesses, acknowledgements and
\* returns.
THEOREM InterruptsHaveCause == Spec => []PendingHasCause
<1>1. Inv => PendingHasCause
  BY DEF Inv, Sound, ChanSound, PendingHasCause
<1> QED
  BY <1>1, AlwaysSound, PTL

\* The character available bit never sends software to an empty receiver.
THEOREM AvailableIsTrue == Spec => []AvailableMeansData
<1>1. Inv => AvailableMeansData
  BY DEF Inv, Sound, ChanSound, AvailableMeansData
<1> QED
  BY <1>1, AlwaysSound, PTL

-----------------------------------------------------------------------------
(* Service *)

\* A step taken while a channel is in service leaves it, or ends it, and no
\* step but sio_check_im2 starts a service.
LEMMA NextKeeps ==
    ASSUME TypeOK, [Next]_vars, sio.irqchan # NoChan \/ ~CheckIm2
    PROVE  KeepsService(sio, sio')
<1> USE DEF TypeOK
<1>1. CASE Timer
  BY <1>1, TimerKeeps DEF Timer
<1>2. CASE CheckIm2
  BY <1>2, CheckIm2Service DEF CheckIm2, KeepsService
<1>3. CASE Reti
  BY <1>3, RetiService DEF Reti, KeepsService
<1>4. ASSUME NEW c \in Modem, SetDcd(c)  PROVE KeepsService(sio, sio')
  BY <1>4, SetDcdKeeps, UseAssumption DEF SetDcd
<1>5. ASSUME NEW c \in Driven, ReadCtl(c) \/ ReadDat(c) \/ WriteDat(c)
      PROVE  KeepsService(sio, sio')
  <2>1. c \in Chan
    BY UseAssumption
  <2> QED
    BY <1>5, <2>1, PortsQuiet, DataKeeps DEF ReadCtl, ReadDat, WriteDat, Quiet, KeepsService
<1>6. ASSUME NEW c \in Driven, WriteCtl(c)  PROVE KeepsService(sio, sio')
  <2>1. c \in Chan
    BY UseAssumption
  <2>2. ASSUME NEW cmd \in Cmd, NEW reg \in Reg \cup {0}
        PROVE  KeepsService(sio, WriteCommand(sio, c, cmd, reg))
    BY <2>1, CommandKeeps, UseAssumption
  <2>3. \A mode \in Mode : Quiet(sio, WriteMode(sio, c, mode))
    BY <2>1, PortsQuiet, ModeAssumption
  <2>4. \A v \in Vector : Quiet(sio, WriteVector(sio, c, v))
    BY <2>1, PortsQuiet, VectorAssumption
  <2>5. /\ \A on \in BOOLEAN : Quiet(sio, WriteRxEnable(sio, c, on))
        /\ Quiet(sio, WriteUnused(sio, c))
    BY <2>1, PortsQuiet
  <2> QED
    BY <1>6, <2>2, <2>3, <2>4, <2>5 DEF WriteCtl, Quiet, KeepsService
<1>7. CASE UNCHANGED vars
  BY <1>7 DEF vars, KeepsService
<1> QED
  BY <1>1, <1>2, <1>3, <1>4, <1>5, <1>6, <1>7 DEF Next

\* No step of anyone moves the service from one channel to the other without
\* ending it first: the pending bits of a busier channel have to wait.
THEOREM NoPreemption == Spec => ServiceNotPreempted
<1>1. ASSUME TypeOK, [Next]_vars, sio.irqchan # NoChan
      PROVE  sio'.irqchan \in {sio.irqchan, NoChan}
  BY <1>1, NextKeeps DEF KeepsService
<1>2. TypeOK /\ [Next]_vars
        => [sio.irqchan # NoChan => sio'.irqchan \in {sio.irqchan, NoChan}]_vars
  BY <1>1
<1> QED
  BY <1>2, SioTypeCorrect, PTL DEF Spec, ServiceNotPreempted

\* Channel B is never taken up while channel A has an interrupt pending, in
\* whatever order the flags of sio_raise_int, sio_reti and sio_recalc_interrupts
\* came to be set.
THEOREM AHasPriority == Spec => ChannelAFirst
<1>1. ASSUME TypeOK, [Next]_vars, sio.irqchan = NoChan, sio'.irqchan = "B"
      PROVE  sio.chan["A"].intbits = {}
  <2>1. NoChan # "B"
    BY NoneAssumption DEF Chan
  <2>2. CASE CheckIm2
    BY <1>1, <2>2, CheckIm2AFirst DEF CheckIm2, TypeOK
  <2> QED
    BY <1>1, <2>1, <2>2, NextKeeps DEF KeepsService
<1>2. TypeOK /\ [Next]_vars
        => [sio.irqchan = NoChan /\ sio'.irqchan = "B" => sio.chan["A"].intbits = {}]_vars
  BY <1>1
<1> QED
  BY <1>2, SioTypeCorrect, PTL DEF Spec, ChannelAFirst

-----------------------------------------------------------------------------
(* The receiver is a FIFO *)

\* Software finds both channels empty.
LEMMA InitEmpty == Init => \A c \in Chan : sio.chan[c].dptr = 0
<1>1. SioCreated \in SioState
  BY CreatedType
<1>2. ASSUME NEW wr1, NEW rxen, NEW v, NEW e \in Chan
      PROVE  Programmed(wr1, rxen, v).chan[e].dptr = 0
  <2> DEFINE N(c) == [SioCreated.chan[c] EXCEPT
                        !.wr1 = wr1[c], !.rxen = rxen[c],
                        !.wr2 = IF c = "B" THEN v ELSE @, !.rr2 = IF c = "B" THEN v ELSE @]
             r    == Programmed(wr1, rxen, v)
             k    == SioCreated.chan[e]
  <2>1. k \in ChanState /\ k.dptr = 0
    BY <1>1, CreatedEmpty DEF SioState
  <2>2. N(e).dptr = 0
    <3> HIDE DEF k
    <3> QED
      BY <2>1 DEF ChanState, k
  <2>3. r = [SioCreated EXCEPT !.chan = [c \in Chan |-> N(c)]]
    BY DEF Programmed
  <2> HIDE DEF N, r
  <2>4. r.chan[e] = N(e)
    BY <1>1, <2>3 DEF SioState
  <2> QED
    BY <2>2, <2>4 DEF r
<1> QED
  BY <1>2 DEF Init

\* Every step leaves a channel's characters, adds one or takes the oldest.
LEMMA NextMoves ==
    ASSUME TypeOK, [Next]_vars
    PROVE  \A e \in Chan : FifoMoves(sio.chan[e], sio'.chan[e])
<1> USE DEF TypeOK
<1>0. SUFFICES (~SameFifo(sio, sio')) => \A e \in Chan : FifoMoves(sio.chan[e], sio'.chan[e])
  BY SameMoves DEF SameFifo
<1>1. CASE Timer
  BY <1>1, TimerMoves DEF Timer
<1>2. CASE CheckIm2
  BY <1>2, CheckIm2Fifo DEF CheckIm2
<1>3. CASE Reti
  BY <1>3, RetiFifo DEF Reti
<1>4. ASSUME NEW c \in Modem, SetDcd(c)  PROVE SameFifo(sio, sio')
  BY <1>4, SetDcdFifo, UseAssumption DEF SetDcd
<1>5. ASSUME NEW c \in Driven, ReadCtl(c) \/ WriteDat(c)  PROVE SameFifo(sio, sio')
  BY <1>5, PortsFifo, WriteDataFifo, UseAssumption DEF ReadCtl, WriteDat
<1>6. ASSUME NEW c \in Driven, ReadDat(c)
      PROVE  \A e \in Chan : FifoMoves(sio.chan[e], sio'.chan[e])
  BY <1>6, ReadDataMoves, UseAssumption DEF ReadDat
<1>7. ASSUME NEW c \in Driven, WriteCtl(c)  PROVE SameFifo(sio, sio')
  <2>1. c \in Chan
    BY UseAssumption
  <2>2. ASSUME NEW cmd \in Cmd, NEW reg \in Reg \cup {0}
        PROVE  SameFifo(sio, WriteCommand(sio, c, cmd, reg))
    BY <2>1, CommandFifo, UseAssumption
  <2>3. \A mode \in Mode : SameFifo(sio, WriteMode(sio, c, mode))
    BY <2>1, PortsFifo, ModeAssumption
  <2>4. \A v \in Vector : SameFifo(sio, WriteVector(sio, c, v))
    BY <2>1, PortsFifo, VectorAssumption
  <2>5. /\ \A on \in BOOLEAN : SameFifo(sio, WriteRxEnable(sio, c, on))
        /\ SameFifo(sio, WriteUnused(sio, c))
    BY <2>1, PortsFifo
  <2> QED
    BY <1>7, <2>2, <2>3, <2>4, <2>5 DEF WriteCtl
<1>8. CASE UNCHANGED vars
  BY <1>8 DEF vars, SameFifo, SameChars
<1> QED
  BY <1>1, <1>2, <1>3, <1>4, <1>5, <1>6, <1>7, <1>8 DEF Next

\* Both receivers implement the abstract FIFO of BoundedFifo: in any order of
\* polls, reads, commands, resets and interrupts what a receiver holds changes
\* only by a character put behind the others while there is room, or by the oldest
\* being taken out. None is duplicated, reordered or invented. (That every arrival
\* is put in is not part of it.)
THEOREM ReceiversAreFifos == Spec => ReceiverIsFifo
<1>1. Init => FifoA!Init /\ FifoB!Init
  <2> SUFFICES ASSUME Init  PROVE Contents("A") = << >> /\ Contents("B") = << >>
    BY DEF FifoA!Init, FifoB!Init
  <2>1. sio.chan["A"].dptr = 0 /\ sio.chan["B"].dptr = 0
    BY InitEmpty DEF Chan
  <2> QED
    BY <2>1 DEF Contents
<1>2. TypeOK /\ TypeOK' /\ [Next]_vars
        => [FifoA!Next]_(Contents("A")) /\ [FifoB!Next]_(Contents("B"))
  <2> SUFFICES ASSUME TypeOK, TypeOK', [Next]_vars
               PROVE  [FifoA!Next]_(Contents("A")) /\ [FifoB!Next]_(Contents("B"))
    OBVIOUS
  <2>1. ASSUME NEW c \in Chan
        PROVE  \/ Contents(c)' = Contents(c)
               \/ Contents(c) # << >> /\ Contents(c)' = Tail(Contents(c))
               \/ \E x \in Char : Len(Contents(c)) < 2 /\ Contents(c)' = Append(Contents(c), x)
    <3>1. /\ sio.chan[c] \in ChanState /\ sio'.chan[c] \in ChanState
          /\ FifoMoves(sio.chan[c], sio'.chan[c])
      BY NextMoves DEF TypeOK, SioState
    <3>2. Contents(c) = Chars(sio.chan[c]) /\ Contents(c)' = Chars(sio'.chan[c])
      BY DEF Contents, Chars
    <3> QED
      BY <3>1, <3>2, MoveIsFifoStep
  <2>2. "A" \in Chan /\ "B" \in Chan
    BY DEF Chan
  <2>3. [FifoA!Next]_(Contents("A"))
    BY <2>1, <2>2 DEF FifoA!Next, FifoA!Dequeue, FifoA!Enqueue
  <2>4. [FifoB!Next]_(Contents("B"))
    BY <2>1, <2>2 DEF FifoB!Next, FifoB!Dequeue, FifoB!Enqueue
  <2> QED
    BY <2>3, <2>4
<1> QED
  BY <1>1, <1>2, SioTypeCorrect, PTL DEF Spec, ReceiverIsFifo, FifoA!Spec, FifoB!Spec
=============================================================================
