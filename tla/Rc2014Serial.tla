---------------------------- MODULE Rc2014Serial ----------------------------
(***************************************************************************)
(* An RC2014 with a serial card that knows nothing of the Z80's interrupt  *)
(* chain, an ACIA or a 16x50.  Its line reaches the CPU in two steps:      *)
(* poll_irq_nonim2 samples it into live_nonim2 after every slice, and      *)
(* set_interrupt copies live_nonim2 to the CPU's pin whenever it runs.     *)
(* The program is an interrupt handler that reads until the card says that *)
(* there is no more.                                                       *)
(***************************************************************************)
EXTENDS Acia, Uart16x50

CONSTANTS
    MaxArrive       (* bound: how many characters arrive *)

ASSUME ArriveAssumption == MaxArrive \in Nat

VARIABLES
    card,           (* the card that is fitted *)
    waiting,        (* characters waiting in the host, behind the card *)
    arrived,        (* how many have arrived there *)
    live_nonim2,    (* as of the last poll_irq_nonim2 *)
    cpu,            (* IFF1, defer_int and int_req of the Z80 *)
    pc,             (* where the program is *)
    ran,            (* the slice has executed an instruction *)
    cleared,        (* history: the handler read a character in this slice *)
    raced           (* history: the last slice ended between the handler's
                       status read and its data read *)

host == <<waiting, arrived>>
hist == <<cleared, raced>>
serialVars ==
    <<aciaVars, uartVars, card, host, live_nonim2, cpu, pc, ran, hist>>

CardIrq == IF card = "acia" THEN acia.inint ELSE uart.irqline # {}

\* Mutant: the pin is not let go.
SetInterrupt_held(c, live) == [c EXCEPT !.int_req = @ \/ live]

\* With nothing else on the bus live_irq is 0.
SetInterrupt(c, live) == [c EXCEPT !.int_req = live]

\* The program has enabled the receive interrupt and then the CPU's.
SerialInit(fitted) ==
    /\ card \in fitted
    /\ acia = [AciaCreated EXCEPT !.rie = TRUE] /\ unread = 0
    /\ uart = [UartCreated EXCEPT !.ier = {"RXDA"}]
    /\ waiting = 0 /\ arrived = 0
    /\ live_nonim2 = FALSE /\ ran = FALSE /\ cleared = FALSE /\ raced = FALSE
    /\ cpu = [IFF1 |-> TRUE, defer_int |-> FALSE, int_req |-> FALSE]
    /\ pc = "main"

Arrive ==
    /\ arrived < MaxArrive
    /\ arrived' = arrived + 1 /\ waiting' = waiting + 1
    /\ UNCHANGED <<aciaVars, uartVars, card, live_nonim2, cpu, pc, ran, hist>>

-----------------------------------------------------------------------------

CardAccepts == cpu.int_req /\ ~cpu.defer_int /\ cpu.IFF1

TakeInterrupt ==
    /\ CardAccepts
    /\ cpu' = [cpu EXCEPT !.IFF1 = FALSE, !.int_req = FALSE]
    /\ pc' = "status"
    /\ UNCHANGED <<aciaVars, uartVars, host, live_nonim2, hist>>

\* One instruction, which lets interrupts in again after EI's successor.
Executed(c) == [c EXCEPT !.defer_int = FALSE]

Idle ==
    /\ pc = "main"
    /\ cpu' = Executed(cpu)
    /\ UNCHANGED <<aciaVars, uartVars, host, live_nonim2, pc, hist>>

ReadStatus ==
    /\ pc = "status"
    /\ pc' = IF (IF card = "acia" THEN acia.rdrf ELSE uart.dr) THEN "data" ELSE "ei"
    /\ uart' = IF card = "acia" THEN uart ELSE uart_read_lsr(uart)
    /\ cpu' = Executed(cpu)
    /\ UNCHANGED <<aciaVars, host, live_nonim2, hist>>

\* The ACIA holds the character, the 16x50 passes the read on to the host.
\* acia_irq_compute calls set_interrupt when its line stays up.
ReadCharacter ==
    /\ pc = "data"
    /\ pc' = "status"
    /\ cleared' = TRUE
    /\ \/ /\ card = "acia"
          /\ acia' = acia_read_data(acia) /\ unread' = 0
          /\ cpu' = IF acia'.inint THEN SetInterrupt(Executed(cpu), live_nonim2) ELSE Executed(cpu)
          /\ UNCHANGED <<uart, waiting>>
       \/ /\ card = "uart"
          /\ uart' = uart_read_data(uart)
          /\ waiting' = IF waiting = 0 THEN 0 ELSE waiting - 1
          /\ cpu' = Executed(cpu)
          /\ UNCHANGED aciaVars
    /\ UNCHANGED <<arrived, live_nonim2, raced>>

EnableInterrupts ==
    /\ pc = "ei"
    /\ pc' = "ret"
    /\ cpu' = [cpu EXCEPT !.IFF1 = TRUE, !.defer_int = TRUE]
    /\ UNCHANGED <<aciaVars, uartVars, host, live_nonim2, hist>>

\* RET, or RETI, on which reti_event puts live_nonim2 on the pin once more.
Return ==
    /\ pc = "ret"
    /\ pc' = "main"
    /\ cpu' \in {Executed(cpu), SetInterrupt(Executed(cpu), live_nonim2)}
    /\ UNCHANGED <<aciaVars, uartVars, host, live_nonim2, hist>>

SerialCpu ==
    /\ \/ TakeInterrupt
       \/ /\ ~CardAccepts
          /\ Idle \/ ReadStatus \/ ReadCharacter \/ EnableInterrupts \/ Return
    /\ ran' = TRUE
    /\ UNCHANGED card

\* The slice is used up: acia_timer or uart16x50_event, then the poll.
SerialSlice ==
    /\ ran /\ ran' = FALSE
    /\ UNCHANGED <<card, arrived, pc>>
    /\ \E tx \in BOOLEAN :
        \/ /\ card = "acia"
           /\ acia' = acia_timer(acia, waiting > 0, tx)
           /\ unread' = IF waiting > 0 /\ unread < 2 THEN unread + 1 ELSE unread
           /\ waiting' = IF waiting > 0 THEN waiting - 1 ELSE 0
           /\ UNCHANGED uart
        \/ /\ card = "uart"
           /\ uart' = uart_event(uart, waiting > 0, tx)
           /\ UNCHANGED <<aciaVars, waiting>>
    /\ live_nonim2' = CardIrq'
    /\ cpu' = SetInterrupt(cpu, live_nonim2')
    /\ cleared' = FALSE /\ raced' = (pc = "data")

SerialNext == Arrive \/ SerialCpu \/ SerialSlice

SerialFairness == WF_serialVars(SerialCpu) /\ WF_serialVars(SerialSlice)

SerialSpec == SerialInit({"acia", "uart"}) /\ [][SerialNext]_serialVars /\ SerialFairness

-----------------------------------------------------------------------------

\* The machine around the cards keeps its types; with no card it stands still.
MachineTypeOK ==
    /\ card \in {"acia", "uart", "none"}
    /\ arrived \in 0 .. MaxArrive /\ waiting \in 0 .. arrived
    /\ cpu \in [IFF1 : BOOLEAN, defer_int : BOOLEAN, int_req : BOOLEAN]
    /\ pc \in {"main", "status", "data", "ei", "ret"}
    /\ live_nonim2 \in BOOLEAN /\ ran \in BOOLEAN /\ cleared \in BOOLEAN /\ raced \in BOOLEAN

\* A card has a character for the program.
HasCharacter == waiting > 0 \/ (card = "acia" /\ acia.rdrf)

\* The CPU is interrupted without cause only when the program has taken the
\* cause away in the very same slice: live_nonim2 and the pin lag behind the
\* card's line until poll_irq_nonim2 runs, and no longer, however the handler
\* returns.
SpuriousOnlyInSlice ==
    [][cpu.IFF1 /\ ~cpu'.IFF1 /\ ~CardIrq => cleared]_serialVars

\* The 16x50 invites the program to read a character that does not exist only
\* when uart16x50_event ran between its status read and its data read: the
\* event sets the data ready bit once more, and the data read does not clear
\* it.
PhantomOnlyAfterRace ==
    card = "uart" /\ pc = "data" /\ waiting = 0 => raced

\* Every character is fetched from the card and from the host behind it, in
\* spite of interrupts raised by edges: the loop of the handler makes up for
\* the edges that a race swallows.
AllCharactersRead == HasCharacter ~> ~HasCharacter
=============================================================================
