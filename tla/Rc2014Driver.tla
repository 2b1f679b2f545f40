---------------------------- MODULE Rc2014Driver ----------------------------
(***************************************************************************)
(* The machine of Rc2014Irq running a program that follows the rules: it   *)
(* runs with interrupts on, and its interrupt handler reads characters,    *)
(* resets errors, and ends with EI and RETI.  The program is external;     *)
(* what is checked is that the emulated chain gets every interrupt to it.  *)
(***************************************************************************)
EXTENDS Rc2014Irq

CONSTANT Arrivals       (* bound: how many characters arrive in all *)

ASSUME DriverAssumption == Arrivals \in Nat

VARIABLES
    pc,         (* where the program is *)
    ran,        (* Z80ExecuteTStates has executed something in this slice *)
    left        (* characters still to arrive *)

dvars == <<m, i, j, isr, pc, ran, left>>

Started(wr1, v) ==
    LET k == LoadConstant(LoadControl(CtcCreated, 3,
                 [irq |-> TRUE, counter |-> FALSE, presc |-> FALSE,
                  tconst |-> TRUE, reset |-> TRUE]), 3, 1)
    IN  [MachineOf(SioProgrammed(wr1, v)) EXCEPT !.ctc = k, !.cpu.IFF1 = TRUE]

DInit ==
    /\ \E wr1 \in Mode, v \in Vector : m = Started(wr1, v)
    /\ i = 0 /\ j = 0 /\ isr = <<>>
    /\ pc = "main" /\ ran = FALSE /\ left = Arrivals

Goes(from, to) == pc = from /\ pc' = to

Waiting == {c \in Port : m.sio.chan[c].rx}

Overrun == {c \in Port : m.sio.chan[c].ovr}

\* Reads one character or more if there are any, then resets the status of
\* the channels that have overrun (command 020: command 060 clears the flag
\* and leaves the interrupt pending).
Handle ==
    \/ \E c \in Waiting, to \in {"handler", "status"} :
           Goes("handler", to) /\ Executes([m EXCEPT !.sio = ReadData(@, c)])
    \/ Waiting = {} /\ Goes("handler", "status") /\ Executes(m)
    \/ \E c \in Overrun :
           /\ Goes("status", "status")
           /\ Executes([m EXCEPT !.sio = WriteCommand(@, c, "extreset", 0)])
    \/ Overrun = {} /\ Goes("status", "ei") /\ Executes(m)

\* The Z80 takes an interrupt whenever it can; otherwise the program goes on.
CpuStep ==
    /\ \/ Interrupt /\ pc' = "handler"
       \/ Goes("main", "main") /\ Executes(m)
       \/ Handle
       \/ Goes("ei", "reti") /\ SetIff(TRUE)
       \/ Goes("reti", "main") /\ Reti
    /\ ran' = TRUE
    /\ UNCHANGED left

DSlice ==
    \E ch \in [Chan -> Char \cup {NoChar}] :
        LET n == {c \in Chan : ch[c] # NoChar}
        IN  /\ ran
            /\ n \subseteq Port
            /\ \E k \in 0 .. left :
                   /\ k = (IF "A" \in n THEN 1 ELSE 0) + (IF "B" \in n THEN 1 ELSE 0)
                   /\ left' = left - k
            /\ EndSlice(ch, [c \in Chan |-> TRUE], {})
            /\ ran' = FALSE
            /\ UNCHANGED pc

LoopStep == DSlice \/ ((EndTick \/ EndFrame) /\ UNCHANGED <<pc, ran, left>>)

DNext == CpuStep \/ LoopStep

\* The main loop keeps turning: Z80ExecuteTStates returns once the T states of
\* the slice are used up, and has then executed at least one instruction.  As
\* CpuStep is enabled whenever LoopStep is not, this is weak fairness of both.
DSpec == DInit /\ [][DNext]_dvars /\ []<><<LoopStep>>_dvars

-----------------------------------------------------------------------------

\* Every received character gets its interrupt and is read: no order of
\* arrivals, handler steps, RETI and polls leaves one in the FIFO for good.
CharactersAreRead ==
    \A c \in Chan : m.sio.chan[c].dptr > 0 ~> m.sio.chan[c].dptr = 0

\* A CTC interrupt waits its turn behind the SIO and is then serviced.
TimerIsServed == 3 \in m.ctc.irqmask ~> 3 \notin m.ctc.irqmask

\* The handler is never interrupted: live_irq and the interrupt line stay up
\* during the service, but nothing gets in between EI and the end of RETI.
HandlerNotInterrupted == pc # "main" => Len(isr) = 1
=============================================================================
