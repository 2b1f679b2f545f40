------------------------------ MODULE Rc2014Irq ------------------------------
(***************************************************************************)
(* The interrupt path of rc2014.c: a Z80, an SIO and a CTC on the IM2      *)
(* daisy chain, boards that only pull the interrupt line, and the main     *)
(* loop that gives each its turn.  The machine is one record, m, and each  *)
(* function of rc2014.c that changes it is an operator; the actions below  *)
(* are the steps of the CPU and of the main loop.                          *)
(*                                                                         *)
(* External: the boards that only pull the line (tms9918a, 16x50, acia),   *)
(* seen as a set that changes freely, and the program the Z80 runs, seen   *)
(* as any sequence of the instructions that matter here.                   *)
(***************************************************************************)
EXTENDS Z80Sio, Z80Ctc

CONSTANTS
    HaveIm2,        (* have_im2: is the daisy chain wired? *)
    Legacy,         (* the boards that only pull the interrupt line *)
    Clocks,         (* clocks per ctc_tick: tstate_steps * 10, or 921 *)
    PulseRounds,    (* rounds of UART clock pulses per tick: 46 on the EasyZ80 *)
    Slices,         (* slices of CPU time per CTC tick: 100 *)
    Ticks,          (* CTC ticks per frame: 40 *)
    Port,           (* the SIO channels in use *)
    SioCmd,         (* the SIO commands the program uses *)
    Timers,         (* the CTC channels the program uses *)
    Words,          (* the CTC control words it uses *)
    TimeConst,      (* the CTC time constants it uses *)
    CtcBase,        (* the CTC vectors it uses *)
    MaxNest         (* bound: how deep isr remembers nesting *)

ASSUME MachineAssumption ==
    /\ HaveIm2 \in BOOLEAN
    /\ Clocks \in Nat /\ PulseRounds \in Nat
    /\ Slices \in Nat \ {0} /\ Ticks \in Nat \ {0} /\ MaxNest \in Nat
    /\ Port \subseteq Chan /\ SioCmd \subseteq Command /\ Timers \subseteq CtcChan
    /\ Words \subseteq Control /\ TimeConst \subseteq 0 .. Wrap - 1
    /\ CtcBase \subseteq Byte

VARIABLES
    m,              (* the machine *)
    i, j,           (* where the main loop is: tick i of the frame, slice j of the tick *)
    isr             (* history: the sources of the interrupts accepted and not yet ended *)

vars == <<m, i, j, isr>>

IRQ_NONE == 0
IRQ_SIO  == 1
IRQ_CTC  == 3       (* 3 4 5 6 *)
LiveIrq  == {IRQ_NONE, IRQ_SIO} \cup {IRQ_CTC + n : n \in CtcChan}

\* The fields of Z80Context that decide when an interrupt is taken.
Cpu == [int_req : BOOLEAN, int_vector : Byte, IFF1 : BOOLEAN, defer_int : BOOLEAN]

Machine ==
    [sio : SioState, ctc : CtcState, live_irq : LiveIrq, intvec : Byte,
     live_nonim2 : SUBSET Legacy, cpu : Cpu]

-----------------------------------------------------------------------------
(* The interrupt chain *)

Z80INT(cpu, v) == [cpu EXCEPT !.int_req = TRUE, !.int_vector = v]

Z80NOINT(cpu) == [cpu EXCEPT !.int_req = FALSE]

set_interrupt(mm) ==
    [mm EXCEPT !.cpu = IF mm.live_irq # IRQ_NONE THEN Z80INT(@, mm.intvec)
                       ELSE IF mm.live_nonim2 # {} THEN Z80INT(@, 120)
                       ELSE Z80NOINT(@)]

poll_irq_nonim2(mm, pulling) == set_interrupt([mm EXCEPT !.live_nonim2 = pulling])

\* The lowest channel that wants to interrupt.
First(mask) == CHOOSE n \in mask : \A o \in mask : n <= o

CtcVector(k, n) == k.vector - (k.vector % 8) + 2 * n

\* A source takes the daisy chain.
Takes(mm, irq, v) == [mm EXCEPT !.live_irq = irq, !.intvec = v]

ctc_check_im2(mm) ==
    LET n == First(mm.ctc.irqmask)
    IN  IF mm.ctc.irqmask = {} THEN mm
        ELSE Takes(mm, IRQ_CTC + n, CtcVector(mm.ctc, n))

\* Mutant: keeps the vector of the last delivery.
AskSio_oldvector(mm) ==
    LET t == [mm EXCEPT !.sio = sio_check_im2(@)]
    IN  IF Delivers(mm.sio)
        THEN Takes(t, IRQ_SIO, mm.sio.vector)
        ELSE t

\* The part of poll_irq_event that asks the SIO.
AskSio(mm) ==
    LET t == [mm EXCEPT !.sio = sio_check_im2(@)]
    IN  IF Delivers(mm.sio)
        THEN Takes(t, IRQ_SIO, t.sio.vector)
        ELSE t

\* Mutant: lets the CTC override the SIO, as without the daisy chain.
poll_irq_event_flat(mm) == set_interrupt(ctc_check_im2(AskSio(mm)))

poll_irq_event(mm) ==
    set_interrupt(
        IF HaveIm2
        THEN IF mm.live_irq # IRQ_NONE THEN mm
             ELSE IF Delivers(mm.sio) THEN AskSio(mm)
             ELSE ctc_check_im2(AskSio(mm))
        ELSE ctc_check_im2(AskSio(mm)))

\* Mutant: forgets the CTC.
Acknowledged_sio(mm) == [mm EXCEPT !.sio = sio_reti(@)]

\* The devices that take the RETI as the end of their interrupt.
Acknowledged(mm) ==
    IF ~HaveIm2
    THEN [mm EXCEPT !.sio = sio_reti(@),
                    !.ctc = ctc_reti(ctc_reti(ctc_reti(ctc_reti(@, 0), 1), 2), 3)]
    ELSE IF mm.live_irq = IRQ_SIO THEN [mm EXCEPT !.sio = sio_reti(@)]
    ELSE IF mm.live_irq # IRQ_NONE THEN [mm EXCEPT !.ctc = ctc_reti(@, mm.live_irq - IRQ_CTC)]
    ELSE mm

reti_event(mm) == poll_irq_event([Acknowledged(mm) EXCEPT !.live_irq = IRQ_NONE])

\* A control word, which may also end the channel's live interrupt.
CtcControl(mm, n, w) ==
    LET k == LoadControl(mm.ctc, n, w)
    IN  [mm EXCEPT !.ctc = k,
                   !.live_irq = IF /\ ~w.irq /\ n \in mm.ctc.irqmask
                                   /\ k.irqmask = {} /\ @ = IRQ_CTC + n
                                THEN IRQ_NONE ELSE @]

-----------------------------------------------------------------------------
(* The CPU, while a slice runs *)

Running == i < Ticks /\ j < Slices

Accepts == m.cpu.int_req /\ ~m.cpu.defer_int /\ m.cpu.IFF1

Interrupt ==
    /\ Running /\ Accepts
    /\ m' = [m EXCEPT !.cpu = [@ EXCEPT !.IFF1 = FALSE, !.int_req = FALSE]]
    /\ isr' = IF Len(isr) < MaxNest THEN Append(isr, m.live_irq) ELSE isr
    /\ UNCHANGED <<i, j>>

\* An instruction that does mm to the rest of the machine.
Executes(mm) ==
    /\ Running /\ ~Accepts
    /\ m' = [mm EXCEPT !.cpu = [@ EXCEPT !.defer_int = FALSE]]
    /\ UNCHANGED <<i, j, isr>>

\* Mutant: an interrupt may follow EI at once.
SetIff_nodefer(on) ==
    /\ Running /\ ~Accepts
    /\ m' = [m EXCEPT !.cpu.IFF1 = on]
    /\ UNCHANGED <<i, j, isr>>

\* EI and DI: no interrupt is taken before the next instruction.
SetIff(on) ==
    /\ Running /\ ~Accepts
    /\ m' = [m EXCEPT !.cpu = [@ EXCEPT !.IFF1 = on, !.defer_int = TRUE]]
    /\ UNCHANGED <<i, j, isr>>

\* ED 4D, seen by mem_read while it is fetched.
Reti ==
    /\ Running /\ ~Accepts
    /\ m' = reti_event([m EXCEPT !.cpu = [@ EXCEPT !.defer_int = FALSE]])
    /\ isr' = IF isr = <<>> THEN isr ELSE SubSeq(isr, 1, Len(isr) - 1)
    /\ UNCHANGED <<i, j>>

SioIo(c) ==
    \/ Executes([m EXCEPT !.sio = ReadData(@, c)])
    \/ Executes([m EXCEPT !.sio = WriteData(@, c)])
    \/ \E cmd \in SioCmd : Executes([m EXCEPT !.sio = WriteCommand(@, c, cmd, 0)])

CtcIo(n) ==
    IF m.ctc.ch[n].ctrl.tconst
    THEN \E v \in TimeConst : Executes([m EXCEPT !.ctc = LoadConstant(@, n, v)])
    ELSE \/ \E w \in Words : Executes(CtcControl(m, n, w))
         \/ \E v \in CtcBase : Executes([m EXCEPT !.ctc = LoadVector(@, n, v)])

Instruction ==
    \/ Executes(m)
    \/ SetIff(TRUE)
    \/ SetIff(FALSE)
    \/ \E c \in Port : SioIo(c)
    \/ \E n \in Timers : CtcIo(n)

-----------------------------------------------------------------------------
(* The main loop, between slices *)

\* The slice is over: sio_timer, then poll_irq_nonim2.
EndSlice(ch, txrdy, pulling) ==
    /\ Running
    /\ m' = poll_irq_nonim2([m EXCEPT !.sio = sio_timer(@, ch, txrdy)], pulling)
    /\ j' = j + 1
    /\ UNCHANGED <<i, isr>>

\* The pulses the EasyZ80 feeds to channels 0, 1 and 2.
UartClock(k) ==
    LET order == <<0, 1, 2, 0, 1>>
        after[n \in 0 .. 5 * PulseRounds] ==
            IF n = 0 THEN k ELSE ctc_receive_pulse(after[n - 1], order[((n - 1) % 5) + 1])
    IN  after[5 * PulseRounds]

EndTick ==
    /\ i < Ticks /\ j = Slices
    /\ m' = [m EXCEPT !.ctc = UartClock(ctc_tick(@, Clocks))]
    /\ i' = i + 1 /\ j' = 0
    /\ UNCHANGED isr

\* Mutant: polls the chain only while an interrupt is live.
EndFrame_inverted ==
    /\ i = Ticks
    /\ m' = IF m.live_irq # IRQ_NONE THEN poll_irq_event(m) ELSE m
    /\ i' = 0
    /\ UNCHANGED <<j, isr>>

\* Mutant: asks the devices although an interrupt is live.
EndFrame_asks ==
    /\ i = Ticks
    /\ m' = set_interrupt(ctc_check_im2(AskSio(m)))
    /\ i' = 0
    /\ UNCHANGED <<j, isr>>

EndFrame ==
    /\ i = Ticks
    /\ m' = IF m.live_irq = IRQ_NONE \/ ~HaveIm2 THEN poll_irq_event(m) ELSE m
    /\ i' = 0
    /\ UNCHANGED <<j, isr>>

Slice ==
    \E ch \in [Chan -> Char \cup {NoChar}], txrdy \in [Chan -> BOOLEAN],
       pulling \in SUBSET Legacy :
        /\ \A c \in Chan \ Port : ch[c] = NoChar
        /\ EndSlice(ch, txrdy, pulling)

-----------------------------------------------------------------------------

\* The program has set the SIO up and has not enabled interrupts yet.
MachineOf(s) ==
    [sio |-> s, ctc |-> CtcCreated, live_irq |-> IRQ_NONE, intvec |-> 0, live_nonim2 |-> {},
     cpu |-> [int_req |-> FALSE, int_vector |-> 0, IFF1 |-> FALSE, defer_int |-> FALSE]]

SioProgrammed(wr1, v) ==
    [SioCreated EXCEPT
       !.chan = [c \in Chan |->
         [SioCreated.chan[c] EXCEPT !.wr1 = IF c \in Port THEN wr1 ELSE @,
                                    !.rxen = c \in Port,
                                    !.wr2 = IF c = "B" THEN v ELSE @,
                                    !.rr2 = IF c = "B" THEN v ELSE @]]]

Init ==
    /\ \E wr1 \in Mode, v \in Vector : m = MachineOf(SioProgrammed(wr1, v))
    /\ i = 0 /\ j = 0
    /\ isr = <<>>

Next ==
    \/ Interrupt
    \/ Instruction
    \/ Reti
    \/ Slice
    \/ EndTick
    \/ EndFrame

Spec == Init /\ [][Next]_vars

-----------------------------------------------------------------------------

\* Every field keeps the range its C type and the code's masks give it.
TypeOK ==
    /\ m \in Machine
    /\ i \in 0 .. Ticks /\ j \in 0 .. Slices
    /\ isr \in Seq(LiveIrq)

\* With the daisy chain wired the SIO and rc2014.c agree on who is being
\* serviced: whenever the SIO waits for a RETI, live_irq says that the RETI
\* belongs to it.  Were it otherwise reti_event would hand the RETI to
\* another device, and sio_check_im2 would never deliver again.
ServiceIsLive == m.sio.irqchan # NoChan => m.live_irq = IRQ_SIO

\* The vector the Z80 would read now is the one of the source being serviced.
VectorMatchesSource ==
    m.cpu.int_req /\ m.live_irq = IRQ_SIO => m.cpu.int_vector = m.sio.vector

\* With the daisy chain wired only a RETI lets another source take the place
\* of the one being serviced; until then live_irq stays, or is dropped.
LiveNotReplaced ==
    [][m.live_irq # IRQ_NONE /\ m'.live_irq \notin {IRQ_NONE, m.live_irq} => Reti]_vars

\* irqchan is the "Pointer to channel currently running the live interrupt":
\* while it is set, there is a live interrupt.
ServiceStillRaised == m.sio.irqchan # NoChan => m.live_irq # IRQ_NONE
=============================================================================
