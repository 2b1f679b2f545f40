----------------------------- MODULE Uart16x50 -----------------------------
(***************************************************************************)
(* The 16x50 UART of 16x50.c: the main loop samples the device behind it   *)
(* (uart16x50_event), the machine moves its modem lines, and software      *)
(* reads and writes its registers in any order.                            *)
(***************************************************************************)
EXTENDS Naturals

CONSTANTS
    UartIer,    (* the values of the interrupt enable register in use *)
    UartLine,   (* the modem lines the machine drives (bits 4-7 of msr) *)
    DsrTimer    (* whether the machine toggles DSR as a clock (rbcv2, rb-mbc) *)

Source == {"RXDA", "TEMT", "MODEM"}

ASSUME UartAssumption ==
    /\ UartIer \subseteq SUBSET Source
    /\ DsrTimer \in BOOLEAN
    /\ DsrTimer => "DSR" \in UartLine

VARIABLE uart

uartVars == <<uart>>

(***************************************************************************)
(* dr and thre are bits 0 and 5-6 of lsr; delta and line the two halves of *)
(* msr; iir is the source the register names, "none" for 1.                *)
(***************************************************************************)
UartState ==
    [ier : SUBSET Source, iir : Source \cup {"none"}, irq : SUBSET Source,
     irqline : SUBSET Source, dr : BOOLEAN, thre : BOOLEAN, dlab : BOOLEAN,
     delta : SUBSET UartLine, line : SUBSET UartLine]

UartCreated ==
    [ier |-> {}, iir |-> "none", irq |-> {}, irqline |-> {}, dr |-> FALSE,
     thre |-> FALSE, dlab |-> FALSE, delta |-> {}, line |-> {}]

Highest(irq) ==
    CASE "RXDA" \in irq -> "RXDA"
      [] "RXDA" \notin irq /\ "TEMT" \in irq -> "TEMT"
      [] "RXDA" \notin irq /\ "TEMT" \notin irq /\ "MODEM" \in irq -> "MODEM"
      [] OTHER -> "none"

\* irqline keeps the sources that were pending when it went up.
recalc_iir(u) ==
    [u EXCEPT !.iir = Highest(u.irq),
              !.irqline = IF u.irq = {} THEN {} ELSE IF @ # {} THEN @ ELSE u.irq]

uart_interrupt(u, n) ==
    IF n \in u.irq \/ n \notin u.ier THEN u
    ELSE recalc_iir([u EXCEPT !.irq = @ \cup {n}])

uart_clear_interrupt(u, n) ==
    IF n \notin u.irq THEN u ELSE recalc_iir([u EXCEPT !.irq = @ \ {n}])

\* The transmitter becoming empty raises nothing: the code looks for it in
\* bit 1 of lsr, where it never is.
uart_event(u, rx, tx) ==
    LET v == [u EXCEPT !.dr = rx, !.thre = tx]
    IN  IF rx /\ ~u.dr THEN uart_interrupt(v, "RXDA") ELSE v

\* The data port; what the device does with a byte is outside.
uart_write_data(u) ==
    IF u.dlab THEN u ELSE uart_interrupt(uart_clear_interrupt(u, "TEMT"), "TEMT")

\* Nothing pending is withdrawn and nothing is raised.
uart_write_ier(u, v) == IF u.dlab THEN u ELSE [u EXCEPT !.ier = v]

uart_write_lcr(u, dlab) == [u EXCEPT !.dlab = dlab]

uart_read_data(u) == IF u.dlab THEN u ELSE uart_clear_interrupt(u, "RXDA")

\* Mutant: reading the status has no effect.
uart_read_lsr_pure(u) == u

\* Clears the low half of lsr, data ready with it.
uart_read_lsr(u) == [u EXCEPT !.dr = FALSE]

\* Mutant: the delta bits go, the interrupt stays.
uart_read_msr_keeps(u) == [u EXCEPT !.delta = {}]

uart_read_msr(u) == uart_clear_interrupt([u EXCEPT !.delta = {}], "MODEM")

dsr_timer(u) ==
    uart_interrupt([u EXCEPT !.line = IF "DSR" \in @ THEN @ \ {"DSR"} ELSE @ \cup {"DSR"},
                             !.delta = @ \cup {"DSR"}], "MODEM")

\* The machine passes its lines with the delta half clear, so delta bits that
\* wait to be read also count as a difference.
signal_event(u, line) ==
    LET changed == (line \ u.line) \cup (u.line \ line)
    IN  IF changed = {} /\ u.delta = {} THEN u
        ELSE uart_interrupt([u EXCEPT !.delta = @ \cup changed, !.line = line], "MODEM")

-----------------------------------------------------------------------------

UartInit == uart = UartCreated

UartEvent == \E rx \in BOOLEAN, tx \in BOOLEAN : uart' = uart_event(uart, rx, tx)

UartSignal == \E line \in SUBSET UartLine : uart' = signal_event(uart, line)

UartDsr == DsrTimer /\ uart' = dsr_timer(uart)

UartWrite ==
    \/ uart' = uart_write_data(uart)
    \/ \E v \in UartIer : uart' = uart_write_ier(uart, v)
    \/ \E dlab \in BOOLEAN : uart' = uart_write_lcr(uart, dlab)

UartRead ==
    \/ uart' = uart_read_data(uart)
    \/ uart' = uart_read_lsr(uart)
    \/ uart' = uart_read_msr(uart)

UartNext == UartEvent \/ UartSignal \/ UartDsr \/ UartWrite \/ UartRead

UartSpec == UartInit /\ [][UartNext]_uartVars

-----------------------------------------------------------------------------

UartTypeOK == uart \in UartState

\* The interrupt line is up exactly while a source is pending, and the
\* identification register names the one of highest priority, although the
\* line's own mask keeps the sources it went up with (uart16x50_recalc_iir).
\* A pending modem interrupt has a delta bit to show for it: the ways to raise
\* it set one first, and reading MSR takes both away.
UartLineTruth ==
    /\ uart.irqline # {} <=> uart.irq # {}
    /\ uart.iir = Highest(uart.irq)
    /\ "MODEM" \in uart.irq => uart.delta # {}
=============================================================================
