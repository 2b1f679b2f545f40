---------------------------- MODULE Rc2014Proofs ----------------------------
(***************************************************************************)
(* The interrupt path of rc2014.c, proved for every value of the           *)
(* constants: who is being serviced (ServiceAgreed), the types and the     *)
(* vector on the bus (MachineTypeCorrect, VectorTrue), who may take the    *)
(* chain (LiveKept), and a program's handler on it (HandlerWhole).         *)
(***************************************************************************)
EXTENDS Rc2014Driver, Z80SioProofs, Z80CtcProofs

IsMachine(mm) ==
    /\ mm = [sio |-> mm.sio, ctc |-> mm.ctc, live_irq |-> mm.live_irq, intvec |-> mm.intvec,
             live_nonim2 |-> mm.live_nonim2, cpu |-> mm.cpu]
    /\ mm.sio \in SioState

\* mm's SIO and live_irq agree; ServiceIsLive of the machine mm.
Agrees(mm) == IsMachine(mm) /\ (mm.sio.irqchan # NoChan => mm.live_irq = IRQ_SIO)

\* mm has the interrupt devices and the live interrupt of nn.
SameService(nn, mm) == IsMachine(mm) /\ mm.sio = nn.sio /\ mm.live_irq = nn.live_irq

LEMMA SameServiceAgrees ==
    ASSUME NEW nn, NEW mm, Agrees(nn), SameService(nn, mm)
    PROVE  Agrees(mm)
  BY DEF Agrees, SameService

-----------------------------------------------------------------------------
(* The functions of rc2014.c *)

\* Assignments to the other fields of a machine.
LEMMA Assign ==
    ASSUME NEW mm, IsMachine(mm), NEW v, NEW r,
           \/ r = [mm EXCEPT !.ctc = v]
           \/ r = [mm EXCEPT !.cpu = v]
           \/ r = [mm EXCEPT !.live_nonim2 = v]
    PROVE  SameService(mm, r)
  BY DEF IsMachine, SameService

LEMMA AssignLive ==
    ASSUME NEW mm, IsMachine(mm), NEW l, NEW v, NEW r,
           r = Takes(mm, l, v)
    PROVE  IsMachine(r) /\ r.sio = mm.sio /\ r.live_irq = l
  BY DEF IsMachine, Takes

LEMMA AssignNone ==
    ASSUME NEW mm, IsMachine(mm), NEW l, NEW r,
           r = [mm EXCEPT !.live_irq = l]
    PROVE  IsMachine(r) /\ r.sio = mm.sio /\ r.live_irq = l
  BY DEF IsMachine

LEMMA AssignSio ==
    ASSUME NEW mm, IsMachine(mm), NEW s \in SioState, NEW r,
           r = [mm EXCEPT !.sio = s]
    PROVE  IsMachine(r) /\ r.sio = s /\ r.live_irq = mm.live_irq
  BY DEF IsMachine

\* set_interrupt and poll_irq_nonim2 only drive the line.
LEMMA SetInterruptSame ==
    ASSUME NEW mm, IsMachine(mm)
    PROVE  SameService(mm, set_interrupt(mm))
<1> DEFINE c == IF mm.live_irq # IRQ_NONE THEN Z80INT(mm.cpu, mm.intvec)
                ELSE IF mm.live_nonim2 # {} THEN Z80INT(mm.cpu, 120)
                ELSE Z80NOINT(mm.cpu)
           r == set_interrupt(mm)
<1>1. r = [mm EXCEPT !.cpu = c]
  BY DEF set_interrupt
<1> HIDE DEF c, r
<1>2. SameService(mm, r)
  BY <1>1, Assign
<1> QED
  BY <1>2 DEF r

\* The SIO is asked while it is idle, and live_irq follows its answer.
LEMMA AskSioAgrees ==
    ASSUME NEW mm, IsMachine(mm), mm.sio.irqchan = NoChan
    PROVE  Agrees(AskSio(mm)) /\ (~Delivers(mm.sio) => AskSio(mm).sio.irqchan = NoChan)
<1> DEFINE s == sio_check_im2(mm.sio)
           t == [mm EXCEPT !.sio = s]
           r == Takes(t, IRQ_SIO, t.sio.vector)
<1>1. mm.sio \in SioState
  BY DEF IsMachine
<1>2. s \in SioState
  BY <1>1, CheckIm2Type
<1>3. IsMachine(t) /\ t.sio = s /\ t.live_irq = mm.live_irq
  <2> HIDE DEF s
  <2> QED
    BY <1>2, AssignSio
<1>4. IsMachine(r) /\ r.live_irq = IRQ_SIO
  <2> DEFINE v == t.sio.vector
  <2>1. r = Takes(t, IRQ_SIO, v)
    OBVIOUS
  <2> HIDE DEF t, r, v
  <2> QED
    BY <1>3, <2>1, AssignLive
<1>5. ~Delivers(mm.sio) => s.irqchan = NoChan
  BY <1>1, CheckIm2Service
<1>6. AskSio(mm) = IF Delivers(mm.sio) THEN r ELSE t
  BY DEF AskSio
<1> HIDE DEF r, t, s
<1> QED
  BY <1>3, <1>4, <1>5, <1>6 DEF Agrees

\* The CTC may take live_irq while the SIO is idle.
LEMMA CtcCheckAgrees ==
    ASSUME NEW mm, IsMachine(mm), mm.sio.irqchan = NoChan
    PROVE  Agrees(ctc_check_im2(mm))
<1> DEFINE l == IRQ_CTC + First(mm.ctc.irqmask)
           v == CtcVector(mm.ctc, First(mm.ctc.irqmask))
           r == Takes(mm, l, v)
<1>1. ctc_check_im2(mm) = IF mm.ctc.irqmask = {} THEN mm ELSE r
  BY DEF ctc_check_im2
<1>2. r = Takes(mm, l, v)
  OBVIOUS
<1> HIDE DEF r, l, v
<1>3. IsMachine(r) /\ r.sio = mm.sio
  BY <1>2, AssignLive
<1> QED
  BY <1>1, <1>3 DEF Agrees

\* poll_irq_event asks the chain only when nothing is live.
LEMMA PollAgrees ==
    ASSUME HaveIm2, NEW mm, Agrees(mm)
    PROVE  Agrees(poll_irq_event(mm))
<1> DEFINE a == AskSio(mm)
           p == IF mm.live_irq # IRQ_NONE THEN mm
                ELSE IF Delivers(mm.sio) THEN a ELSE ctc_check_im2(a)
<1>1. Agrees(p)
  <2>1. CASE mm.live_irq # IRQ_NONE
    BY <2>1
  <2>2. CASE mm.live_irq = IRQ_NONE
    <3>1. IsMachine(mm) /\ mm.sio.irqchan = NoChan
      BY <2>2 DEF Agrees, IRQ_NONE, IRQ_SIO
    <3>2. Agrees(a) /\ (~Delivers(mm.sio) => a.sio.irqchan = NoChan)
      BY <3>1, AskSioAgrees
    <3>3. ~Delivers(mm.sio) => Agrees(ctc_check_im2(a))
      <4> HIDE DEF a
      <4> QED
        BY <3>2, CtcCheckAgrees DEF Agrees
    <3> HIDE DEF a
    <3> QED
      BY <2>2, <3>2, <3>3
  <2> QED
    BY <2>1, <2>2
<1>2. poll_irq_event(mm) = set_interrupt(p)
  BY DEF poll_irq_event
<1> HIDE DEF p
<1>3. SameService(p, set_interrupt(p))
  BY <1>1, SetInterruptSame DEF Agrees
<1> QED
  BY <1>1, <1>2, <1>3, SameServiceAgrees

\* reti_event ends the SIO's service whenever it ends the live interrupt.
LEMMA RetiAgrees ==
    ASSUME HaveIm2, NEW mm, Agrees(mm)
    PROVE  Agrees(reti_event(mm))
<1> DEFINE a == Acknowledged(mm)
           b == [a EXCEPT !.live_irq = IRQ_NONE]
<1>0. mm.sio \in SioState /\ IsMachine(mm)
  BY DEF Agrees, IsMachine
<1>1. IsMachine(a) /\ a.sio.irqchan = NoChan
  <2>1. CASE mm.live_irq = IRQ_SIO
    <3> DEFINE s == sio_reti(mm.sio)
    <3>1. s \in SioState /\ s.irqchan = NoChan
      BY <1>0, RetiType, RetiService
    <3>2. a = [mm EXCEPT !.sio = s]
      BY <2>1 DEF Acknowledged
    <3> HIDE DEF s, a
    <3> QED
      BY <1>0, <3>1, <3>2, AssignSio
  <2>2. CASE mm.live_irq # IRQ_SIO /\ mm.live_irq # IRQ_NONE
    <3> DEFINE k == ctc_reti(mm.ctc, mm.live_irq - IRQ_CTC)
    <3>1. a = [mm EXCEPT !.ctc = k]
      BY <2>2 DEF Acknowledged
    <3> HIDE DEF k, a
    <3>2. SameService(mm, a)
      BY <1>0, <3>1, Assign
    <3> QED
      BY <2>2, <3>2 DEF SameService, Agrees
  <2>3. CASE mm.live_irq = IRQ_NONE
    <3>1. a = mm
      BY <2>3 DEF Acknowledged, IRQ_NONE, IRQ_SIO
    <3> QED
      BY <2>3, <3>1, <1>0 DEF Agrees, IRQ_NONE, IRQ_SIO
  <2> QED
    BY <2>1, <2>2, <2>3
<1>2. Agrees(b)
  <2> HIDE DEF a
  <2>1. IsMachine(b) /\ b.sio = a.sio
    BY <1>1, AssignNone
  <2> HIDE DEF b
  <2> QED
    BY <1>1, <2>1 DEF Agrees
<1>3. reti_event(mm) = poll_irq_event(b)
  BY DEF reti_event
<1> HIDE DEF b
<1> QED
  BY <1>2, <1>3, PollAgrees

\* ctc_write may drop live_irq, but only when the CTC holds it.
LEMMA CtcControlAgrees ==
    ASSUME NEW mm, Agrees(mm), NEW n \in CtcChan, NEW w
    PROVE  Agrees(CtcControl(mm, n, w))
<1> DEFINE k == LoadControl(mm.ctc, n, w)
           l == IF /\ ~w.irq /\ n \in mm.ctc.irqmask
                   /\ k.irqmask = {} /\ mm.live_irq = IRQ_CTC + n
                THEN IRQ_NONE ELSE mm.live_irq
           r == CtcControl(mm, n, w)
<1>1. r = [mm EXCEPT !.ctc = k, !.live_irq = l]
  BY DEF CtcControl
<1>2. mm.live_irq = IRQ_SIO => l = IRQ_SIO
  BY DEF CtcChan, IRQ_SIO, IRQ_CTC
<1> HIDE DEF k, l, r
<1>3. IsMachine(r) /\ r.sio = mm.sio /\ r.live_irq = l
  BY <1>1 DEF Agrees, IsMachine
<1>4. Agrees(r)
  BY <1>2, <1>3 DEF Agrees
<1> QED
  BY <1>4 DEF r

\* An SIO that services what it serviced before, or nothing, agrees.
LEMMA SioAgrees ==
    ASSUME NEW mm, Agrees(mm), NEW s \in SioState, KeepsService(mm.sio, s), NEW r,
           r = [mm EXCEPT !.sio = s]
    PROVE  Agrees(r)
<1>1. IsMachine(r) /\ r.sio = s /\ r.live_irq = mm.live_irq
  BY AssignSio DEF Agrees
<1> QED
  BY <1>1 DEF Agrees, KeepsService

-----------------------------------------------------------------------------
(* The steps of the CPU and of the main loop *)

LEMMA CpuAgrees ==
    ASSUME NEW mm, Agrees(mm), NEW v, NEW r, r = [mm EXCEPT !.cpu = v]
    PROVE  Agrees(r)
  BY Assign, SameServiceAgrees DEF Agrees

LEMMA ExecutesAgrees ==
    ASSUME NEW mm, Agrees(mm), Executes(mm)
    PROVE  Agrees(m')
<1> DEFINE v == [mm.cpu EXCEPT !.defer_int = FALSE]
<1>1. m' = [mm EXCEPT !.cpu = v]
  BY DEF Executes
<1> HIDE DEF v
<1> QED
  BY <1>1, CpuAgrees

\* Whatever an instruction does to the ports.
LEMMA InstructionAgrees ==
    ASSUME Agrees(m), Instruction
    PROVE  Agrees(m')
<1>0. m.sio \in SioState
  BY DEF Agrees, IsMachine
<1>1. CASE Executes(m)
  BY <1>1, ExecutesAgrees
<1>2. ASSUME NEW on \in BOOLEAN, SetIff(on)  PROVE Agrees(m')
  <2> DEFINE v == [m.cpu EXCEPT !.IFF1 = on, !.defer_int = TRUE]
  <2>1. m' = [m EXCEPT !.cpu = v]
    BY <1>2 DEF SetIff
  <2> HIDE DEF v
  <2> QED
    BY <2>1, CpuAgrees
<1>3. ASSUME NEW c \in Port, SioIo(c)  PROVE Agrees(m')
  <2>0. c \in Chan
    BY MachineAssumption
  <2>1. ASSUME NEW s \in SioState, KeepsService(m.sio, s), Executes([m EXCEPT !.sio = s])
        PROVE  Agrees(m')
    <3> DEFINE r == [m EXCEPT !.sio = s]
    <3>1. r = [m EXCEPT !.sio = s] /\ Executes(r)
      BY <2>1
    <3> HIDE DEF r
    <3> QED
      BY <2>1, <3>1, SioAgrees, ExecutesAgrees
  <2>2. CASE Executes([m EXCEPT !.sio = ReadData(@, c)])
    <3> DEFINE s == ReadData(m.sio, c)
    <3>1. s \in SioState /\ KeepsService(m.sio, s)
      BY <1>0, <2>0, ReadDataType, DataKeeps
    <3> HIDE DEF s
    <3>2. Executes([m EXCEPT !.sio = s])
      BY <2>2 DEF s
    <3> QED
      BY <2>1, <3>1, <3>2
  <2>3. CASE Executes([m EXCEPT !.sio = WriteData(@, c)])
    <3> DEFINE s == WriteData(m.sio, c)
    <3>1. s \in SioState /\ KeepsService(m.sio, s)
      BY <1>0, <2>0, PortTypes, DataKeeps
    <3> HIDE DEF s
    <3>2. Executes([m EXCEPT !.sio = s])
      BY <2>3 DEF s
    <3> QED
      BY <2>1, <3>1, <3>2
  <2>4. ASSUME NEW cmd \in SioCmd, Executes([m EXCEPT !.sio = WriteCommand(@, c, cmd, 0)])
        PROVE  Agrees(m')
    <3> DEFINE s == WriteCommand(m.sio, c, cmd, 0)
    <3>1. s \in SioState /\ KeepsService(m.sio, s)
      <4>1. cmd \in Command /\ 0 \in 0 .. 7
        BY MachineAssumption
      <4> QED
        BY <1>0, <2>0, <4>1, CommandType, CommandKeeps
    <3> HIDE DEF s
    <3>2. Executes([m EXCEPT !.sio = s])
      BY <2>4 DEF s
    <3> QED
      BY <2>1, <3>1, <3>2
  <2> QED
    BY <1>3, <2>2, <2>3, <2>4 DEF SioIo
<1>4. ASSUME NEW n \in Timers, CtcIo(n)  PROVE Agrees(m')
  <2>1. ASSUME NEW w, Executes(CtcControl(m, n, w))  PROVE Agrees(m')
    <3>1. Agrees(CtcControl(m, n, w))
      BY CtcControlAgrees, MachineAssumption
    <3> QED
      BY <2>1, <3>1, ExecutesAgrees
  <2>2. ASSUME NEW v, Executes([m EXCEPT !.ctc = LoadConstant(@, n, v)])  PROVE Agrees(m')
    <3> DEFINE k == LoadConstant(m.ctc, n, v)
               r == [m EXCEPT !.ctc = k]
    <3>1. r = [m EXCEPT !.ctc = k] /\ Executes(r)
      BY <2>2
    <3> HIDE DEF r, k
    <3>2. Agrees(r)
      BY <3>1, Assign, SameServiceAgrees DEF Agrees
    <3> QED
      BY <3>1, <3>2, ExecutesAgrees
  <2>3. ASSUME NEW v, Executes([m EXCEPT !.ctc = LoadVector(@, n, v)])  PROVE Agrees(m')
    <3> DEFINE k == LoadVector(m.ctc, n, v)
               r == [m EXCEPT !.ctc = k]
    <3>1. r = [m EXCEPT !.ctc = k] /\ Executes(r)
      BY <2>3
    <3> HIDE DEF r, k
    <3>2. Agrees(r)
      BY <3>1, Assign, SameServiceAgrees DEF Agrees
    <3> QED
      BY <3>1, <3>2, ExecutesAgrees
  <2> QED
    BY <1>4, <2>1, <2>2, <2>3 DEF CtcIo
<1> QED
  BY <1>1, <1>2, <1>3, <1>4 DEF Instruction

\* Every step of a machine with the daisy chain wired keeps the agreement.
LEMMA NextAgrees ==
    ASSUME HaveIm2, Agrees(m), [Next]_vars
    PROVE  Agrees(m')
<1>0. m.sio \in SioState
  BY DEF Agrees, IsMachine
<1>1. CASE Interrupt
  <2> DEFINE v == [m.cpu EXCEPT !.IFF1 = FALSE, !.int_req = FALSE]
  <2>1. m' = [m EXCEPT !.cpu = v]
    BY <1>1 DEF Interrupt
  <2> HIDE DEF v
  <2> QED
    BY <2>1, CpuAgrees
<1>2. CASE Instruction
  BY <1>2, InstructionAgrees
<1>3. CASE Reti
  <2> DEFINE v == [m.cpu EXCEPT !.defer_int = FALSE]
             r == [m EXCEPT !.cpu = v]
  <2>1. m' = reti_event(r)
    BY <1>3 DEF Reti
  <2>2. r = [m EXCEPT !.cpu = v]
    OBVIOUS
  <2> HIDE DEF v, r
  <2> QED
    BY <2>1, <2>2, CpuAgrees, RetiAgrees
<1>4. CASE Slice
  <2> PICK ch \in [Chan -> Char \cup {NoChar}], txrdy \in [Chan -> BOOLEAN],
           pulling \in SUBSET Legacy : EndSlice(ch, txrdy, pulling)
    BY <1>4 DEF Slice
  <2> DEFINE s == sio_timer(m.sio, ch, txrdy)
             r == [m EXCEPT !.sio = s]
             p == [r EXCEPT !.live_nonim2 = pulling]
  <2>1. m' = set_interrupt(p)
    BY DEF EndSlice, poll_irq_nonim2
  <2>2. s \in SioState /\ KeepsService(m.sio, s)
    BY <1>0, TimerType, TimerKeeps
  <2> HIDE DEF s
  <2>3. Agrees(r)
    BY <2>2, SioAgrees
  <2> HIDE DEF r
  <2>4. SameService(r, p)
    BY <2>3, Assign DEF Agrees
  <2> HIDE DEF p
  <2>5. Agrees(p)
    BY <2>3, <2>4, SameServiceAgrees
  <2>6. SameService(p, set_interrupt(p))
    BY <2>5, SetInterruptSame DEF Agrees
  <2> QED
    BY <2>1, <2>5, <2>6, SameServiceAgrees
<1>5. CASE EndTick
  <2> DEFINE k == UartClock(ctc_tick(m.ctc, Clocks))
  <2>1. m' = [m EXCEPT !.ctc = k]
    BY <1>5 DEF EndTick
  <2> HIDE DEF k
  <2>2. SameService(m, m')
    BY <2>1, Assign DEF Agrees
  <2> QED
    BY <2>2, SameServiceAgrees
<1>6. CASE EndFrame
  BY <1>6, PollAgrees DEF EndFrame
<1>7. CASE UNCHANGED vars
  BY <1>7 DEF vars
<1> QED
  BY <1>1, <1>2, <1>3, <1>4, <1>5, <1>6, <1>7 DEF Next

\* A machine that has just been set up services nobody.
LEMMA InitAgrees == Init => Agrees(m)
<1>1. SioCreated \in SioState /\ SioCreated.irqchan = NoChan
  BY CreatedType
<1>2. ASSUME NEW wr1 \in Mode, NEW v \in Vector, m = MachineOf(SioProgrammed(wr1, v))
      PROVE  Agrees(m)
  <2> DEFINE s == SioProgrammed(wr1, v)
  <2>1. s \in SioState
    <3> DEFINE N(c) == [SioCreated.chan[c] EXCEPT
                          !.wr1 = IF c \in Port THEN wr1 ELSE @, !.rxen = c \in Port,
                          !.wr2 = IF c = "B" THEN v ELSE @, !.rr2 = IF c = "B" THEN v ELSE @]
    <3>1. ASSUME NEW c \in Chan  PROVE N(c) \in ChanState
      <4> DEFINE k == SioCreated.chan[c]
                 n == IF c \in Port THEN wr1 ELSE k.wr1
                 b == c \in Port
                 x == IF c = "B" THEN v ELSE k.wr2
                 y == IF c = "B" THEN v ELSE k.rr2
      <4>1. k \in ChanState
        BY <1>1 DEF SioState
      <4>2. n \in WR1 /\ b \in BOOLEAN /\ x \in Byte /\ y \in Byte
        BY <4>1, VectorAssumption, ModeAssumption DEF ChanState
      <4> HIDE DEF k, n, b, x, y
      <4>3. [k EXCEPT !.wr1 = n, !.rxen = b, !.wr2 = x, !.rr2 = y] \in ChanState
        BY <4>1, <4>2 DEF ChanState
      <4> QED
        BY <4>3 DEF k, n, b, x, y
    <3> HIDE DEF N
    <3>2. [SioCreated EXCEPT !.chan = [c \in Chan |-> N(c)]] \in SioState
      BY <1>1, <3>1 DEF SioState
    <3> QED
      BY <3>2 DEF SioProgrammed, N
  <2>2. s.irqchan = NoChan
    BY <1>1 DEF SioProgrammed, SioState
  <2> HIDE DEF s
  <2>3. m = MachineOf(s)
    BY <1>2 DEF s
  <2> QED
    BY <2>1, <2>2, <2>3 DEF MachineOf, Agrees, IsMachine
<1> QED
  BY <1>2 DEF Init

\* With the daisy chain wired, whatever the program does and however its
\* instructions fall between the steps of the main loop, live_irq names the
\* SIO for as long as the SIO waits for a RETI: reti_event never hands that
\* RETI to the CTC, and the SIO is never left waiting for ever.
THEOREM ServiceAgreed == HaveIm2 /\ Spec => []ServiceIsLive
<1>1. Init => Agrees(m)
  BY InitAgrees
<1>2. HaveIm2 /\ Agrees(m) /\ [Next]_vars => Agrees(m)'
  <2> SUFFICES ASSUME HaveIm2, Agrees(m), [Next]_vars  PROVE Agrees(m')
    BY DEF Agrees, IsMachine
  <2> QED
    BY NextAgrees
<1>3. Agrees(m) => ServiceIsLive
  BY DEF Agrees, ServiceIsLive
<1>4. HaveIm2 => (Spec => []ServiceIsLive)
  <2> SUFFICES ASSUME HaveIm2  PROVE Spec => []ServiceIsLive
    OBVIOUS
  <2>1. Agrees(m) /\ [Next]_vars => Agrees(m)'
    BY <1>2
  <2> QED
    BY <1>1, <1>3, <2>1, PTL DEF Spec
<1> QED
  BY <1>4

-----------------------------------------------------------------------------
(* The types of the machine, and the vector it shows *)

\* A machine in order: its parts are, and the vector rc2014.c keeps for a live
\* interrupt of the SIO is the one the SIO shows.
InOrder(mm) ==
    /\ mm \in Machine
    /\ Good(mm.ctc)
    /\ mm.live_irq = IRQ_SIO => mm.intvec = mm.sio.vector

\* The Z80, if it is asked, is shown the vector of the live interrupt.
Shows(mm) == mm.live_irq # IRQ_NONE /\ mm.cpu.int_req => mm.cpu.int_vector = mm.intvec

\* One device or register of a machine changes.
LEMMA PutSio ==
    ASSUME NEW mm, InOrder(mm), NEW s \in SioState, s.vector = mm.sio.vector,
           NEW r, r = [mm EXCEPT !.sio = s]
    PROVE  /\ InOrder(r) /\ r.sio = s /\ r.ctc = mm.ctc /\ r.cpu = mm.cpu
           /\ r.live_irq = mm.live_irq /\ r.intvec = mm.intvec
  BY DEF InOrder, Machine

LEMMA PutCtc ==
    ASSUME NEW mm, InOrder(mm), NEW k, Good(k), NEW r, r = [mm EXCEPT !.ctc = k]
    PROVE  /\ InOrder(r) /\ r.sio = mm.sio /\ r.ctc = k /\ r.cpu = mm.cpu
           /\ r.live_irq = mm.live_irq /\ r.intvec = mm.intvec
<1>1. k \in CtcState
  BY DEF Good
<1> QED
  BY <1>1 DEF InOrder, Machine

LEMMA PutCpu ==
    ASSUME NEW mm, InOrder(mm), NEW c \in Cpu, NEW r, r = [mm EXCEPT !.cpu = c]
    PROVE  /\ InOrder(r) /\ r.sio = mm.sio /\ r.ctc = mm.ctc /\ r.cpu = c
           /\ r.live_irq = mm.live_irq /\ r.intvec = mm.intvec
  BY DEF InOrder, Machine

LEMMA PutLive ==
    ASSUME NEW mm \in Machine, Good(mm.ctc), NEW l \in LiveIrq, NEW v \in Byte,
           l = IRQ_SIO => v = mm.sio.vector, NEW r, r = Takes(mm, l, v)
    PROVE  InOrder(r) /\ r.sio = mm.sio /\ r.ctc = mm.ctc /\ r.live_irq = l /\ r.cpu = mm.cpu
  BY DEF InOrder, Machine, Takes

LEMMA PutNone ==
    ASSUME NEW mm, InOrder(mm), NEW l \in LiveIrq, l # IRQ_SIO \/ l = mm.live_irq,
           NEW r, r = [mm EXCEPT !.live_irq = l]
    PROVE  /\ InOrder(r) /\ r.sio = mm.sio /\ r.ctc = mm.ctc /\ r.live_irq = l /\ r.cpu = mm.cpu
           /\ r.intvec = mm.intvec
  BY DEF InOrder, Machine

LEMMA PutLegacy ==
    ASSUME NEW mm, InOrder(mm), NEW p \in SUBSET Legacy, NEW r, r = [mm EXCEPT !.live_nonim2 = p]
    PROVE  InOrder(r) /\ r.live_irq = mm.live_irq /\ r.sio = mm.sio
  BY DEF InOrder, Machine

LEMMA LiveNumbers ==
    /\ IRQ_NONE \in LiveIrq /\ IRQ_SIO \in LiveIrq /\ IRQ_NONE # IRQ_SIO
    /\ \A n \in CtcChan : /\ IRQ_CTC + n \in LiveIrq
                          /\ IRQ_CTC + n # IRQ_SIO /\ IRQ_CTC + n # IRQ_NONE
    /\ \A l \in LiveIrq \ {IRQ_NONE, IRQ_SIO} : l - IRQ_CTC \in CtcChan
  BY DEF LiveIrq, IRQ_NONE, IRQ_SIO, IRQ_CTC, CtcChan

\* set_interrupt shows the vector of a live interrupt.
LEMMA SetInterruptShows ==
    ASSUME NEW mm, InOrder(mm), NEW r, r = set_interrupt(mm)
    PROVE  InOrder(r) /\ Shows(r) /\ r.live_irq = mm.live_irq
<1> DEFINE c == IF mm.live_irq # IRQ_NONE THEN Z80INT(mm.cpu, mm.intvec)
                ELSE IF mm.live_nonim2 # {} THEN Z80INT(mm.cpu, 120)
                ELSE Z80NOINT(mm.cpu)
<1>1. mm.cpu \in Cpu /\ mm.intvec \in Byte /\ 120 \in Byte
  BY DEF InOrder, Machine, Byte
<1>2. /\ \A v \in Byte : Z80INT(mm.cpu, v) \in Cpu /\ Z80INT(mm.cpu, v).int_vector = v
      /\ Z80NOINT(mm.cpu) \in Cpu
  BY <1>1 DEF Cpu, Z80INT, Z80NOINT
<1>3. c \in Cpu /\ (mm.live_irq # IRQ_NONE => c.int_vector = mm.intvec)
  BY <1>1, <1>2
<1>4. r = [mm EXCEPT !.cpu = c]
  BY DEF set_interrupt
<1> HIDE DEF c
<1>5. InOrder(r) /\ r.cpu = c /\ r.live_irq = mm.live_irq /\ r.intvec = mm.intvec
  BY <1>3, <1>4, PutCpu
<1> QED
  BY <1>3, <1>5 DEF Shows

\* The vector rc2014.c keeps is the one of the SIO's delivery.
LEMMA AskSioInOrder ==
    ASSUME NEW mm, InOrder(mm), NEW r, r = AskSio(mm)
    PROVE  /\ InOrder(r) /\ r.ctc = mm.ctc
           /\ r.live_irq = IF Delivers(mm.sio) THEN IRQ_SIO ELSE mm.live_irq
<1> DEFINE s == sio_check_im2(mm.sio)
           t == [mm EXCEPT !.sio = s]
           v == t.sio.vector
           q == Takes(t, IRQ_SIO, v)
<1>1. mm.sio \in SioState /\ mm \in Machine
  BY DEF InOrder, Machine
<1>2. s \in SioState
  BY <1>1, CheckIm2Type
<1>3. AskSio(mm) = IF Delivers(mm.sio) THEN q ELSE t
  BY DEF AskSio
<1>4. ASSUME ~Delivers(mm.sio)  PROVE s.vector = mm.sio.vector
  BY <1>1, <1>4, CheckIm2Vector, SioIsChip DEF SameVector
<1> HIDE DEF s
<1>5. t \in Machine /\ t.sio = s /\ t.ctc = mm.ctc /\ t.live_irq = mm.live_irq /\ v \in Byte
  BY <1>1, <1>2 DEF Machine, SioState
<1>6. Good(t.ctc) /\ IRQ_SIO \in LiveIrq
  BY <1>5, LiveNumbers DEF InOrder
<1>7. CASE Delivers(mm.sio)
  <2> HIDE DEF t
  <2>1. v = t.sio.vector /\ q = Takes(t, IRQ_SIO, v) /\ r = q
    BY <1>3, <1>7
  <2> HIDE DEF v, q
  <2> QED
    BY <1>5, <1>6, <1>7, <2>1, PutLive
<1>8. CASE ~Delivers(mm.sio)
  <2>1. r = [mm EXCEPT !.sio = s]
    BY <1>3, <1>8
  <2> QED
    BY <1>2, <1>4, <1>8, <2>1, PutSio
<1> QED
  BY <1>7, <1>8

\* There is a first channel in a mask, and its vector is a byte.
LEMMA FirstIn ==
    ASSUME NEW mask \in SUBSET CtcChan, mask # {}
    PROVE  First(mask) \in mask /\ \A o \in mask : First(mask) <= o
<1>1. \E n \in mask : \A o \in mask : n <= o
  <2>1. CASE 0 \in mask
    BY <2>1 DEF CtcChan
  <2>2. CASE 0 \notin mask /\ 1 \in mask
    BY <2>2 DEF CtcChan
  <2>3. CASE 0 \notin mask /\ 1 \notin mask /\ 2 \in mask
    BY <2>3 DEF CtcChan
  <2>4. CASE 0 \notin mask /\ 1 \notin mask /\ 2 \notin mask
    <3>1. \A n \in mask : n = 3
      BY <2>4 DEF CtcChan
    <3>2. PICK n \in mask : TRUE
      OBVIOUS
    <3> QED
      BY <3>1, <3>2
  <2> QED
    BY <2>1, <2>2, <2>3, <2>4
<1> QED
  BY <1>1 DEF First

LEMMA CtcVectorType ==
    ASSUME NEW k \in CtcState, NEW n \in CtcChan
    PROVE  CtcVector(k, n) \in Byte
<1>1. k.vector \in 0 .. 255
  BY DEF CtcState
<1> QED
  BY <1>1 DEF CtcVector, CtcChan, Byte

LEMMA CtcCheckInOrder ==
    ASSUME NEW mm, InOrder(mm), NEW r, r = ctc_check_im2(mm)
    PROVE  /\ InOrder(r) /\ r.sio = mm.sio
           /\ r.live_irq = IF mm.ctc.irqmask = {} THEN mm.live_irq
                           ELSE IRQ_CTC + First(mm.ctc.irqmask)
<1> DEFINE n == First(mm.ctc.irqmask)
           l == IRQ_CTC + n
           v == CtcVector(mm.ctc, n)
           q == Takes(mm, l, v)
<1>0. mm.ctc \in CtcState /\ mm.ctc.irqmask \in SUBSET CtcChan /\ mm \in Machine /\ Good(mm.ctc)
  BY DEF InOrder, Machine, CtcState
<1>1. r = IF mm.ctc.irqmask = {} THEN mm ELSE q
  BY DEF ctc_check_im2
<1>2. CASE mm.ctc.irqmask # {}
  <2>1. n \in CtcChan
    BY <1>0, <1>2, FirstIn
  <2>2. l \in LiveIrq /\ l # IRQ_SIO /\ v \in Byte
    <3> HIDE DEF n
    <3> QED
      BY <1>0, <2>1, LiveNumbers, CtcVectorType
  <2>3. r = Takes(mm, l, v)
    BY <1>1, <1>2
  <2> HIDE DEF l, v
  <2>4. InOrder(r) /\ r.sio = mm.sio /\ r.live_irq = l
    BY <1>0, <2>2, <2>3, PutLive
  <2> QED
    BY <1>2, <2>4 DEF l
<1>3. CASE mm.ctc.irqmask = {}
  BY <1>1, <1>3
<1> QED
  BY <1>2, <1>3

LEMMA PollInOrder ==
    ASSUME NEW mm, InOrder(mm), NEW r, r = poll_irq_event(mm)
    PROVE  /\ InOrder(r) /\ Shows(r)
           /\ HaveIm2 /\ mm.live_irq # IRQ_NONE => r.live_irq = mm.live_irq
<1> DEFINE a == AskSio(mm)
           b == ctc_check_im2(a)
           p == IF HaveIm2
                THEN IF mm.live_irq # IRQ_NONE THEN mm
                     ELSE IF Delivers(mm.sio) THEN a ELSE b
                ELSE b
<1>1. r = set_interrupt(p)
  BY DEF poll_irq_event
<1>2. InOrder(a)
  BY AskSioInOrder
<1>3. InOrder(b)
  <2> HIDE DEF a
  <2> QED
    BY <1>2, CtcCheckInOrder
<1> HIDE DEF a, b
<1>4. InOrder(p) /\ (HaveIm2 /\ mm.live_irq # IRQ_NONE => p.live_irq = mm.live_irq)
  BY <1>2, <1>3
<1> HIDE DEF p
<1> QED
  BY <1>1, <1>4, SetInterruptShows

LEMMA AckInOrder ==
    ASSUME NEW mm, InOrder(mm)
    PROVE  InOrder(Acknowledged(mm))
<1> DEFINE s == sio_reti(mm.sio)
           x == ctc_reti(mm.ctc, 0)
           y == ctc_reti(x, 1)
           z == ctc_reti(y, 2)
           k == ctc_reti(z, 3)
           g == ctc_reti(mm.ctc, mm.live_irq - IRQ_CTC)
           t == [mm EXCEPT !.sio = s]
           a == Acknowledged(mm)
<1>0. mm.sio \in SioState /\ Good(mm.ctc) /\ mm.live_irq \in LiveIrq
  BY DEF InOrder, Machine
<1>1. s \in SioState /\ s.vector = mm.sio.vector
  BY <1>0, RetiType, RetiVector, SioIsChip DEF SameVector
<1>2. Good(k)
  <2>0. 0 \in CtcChan /\ 1 \in CtcChan /\ 2 \in CtcChan /\ 3 \in CtcChan
    BY DEF CtcChan
  <2>1. Good(x)
    BY <1>0, <2>0, WriteGood
  <2> HIDE DEF x
  <2>2. Good(y)
    BY <2>0, <2>1, WriteGood
  <2> HIDE DEF y
  <2>3. Good(z)
    BY <2>0, <2>2, WriteGood
  <2> HIDE DEF z
  <2> QED
    BY <2>0, <2>3, WriteGood
<1>3. InOrder(t)
  <2> HIDE DEF s
  <2> QED
    BY <1>1, PutSio
<1>4. CASE ~HaveIm2
  <2>1. a = [t EXCEPT !.ctc = k]
    BY <1>4 DEF Acknowledged, InOrder, Machine
  <2> HIDE DEF t, k, a
  <2>2. InOrder(a)
    BY <1>2, <1>3, <2>1, PutCtc
  <2> QED
    BY <2>2 DEF a
<1>5. CASE HaveIm2 /\ mm.live_irq = IRQ_SIO
  BY <1>3, <1>5 DEF Acknowledged
<1>6. CASE HaveIm2 /\ mm.live_irq # IRQ_SIO /\ mm.live_irq # IRQ_NONE
  <2>1. Good(g)
    <3>1. mm.live_irq - IRQ_CTC \in CtcChan
      BY <1>0, <1>6, LiveNumbers
    <3> QED
      BY <1>0, <3>1, WriteGood
  <2>2. a = [mm EXCEPT !.ctc = g]
    BY <1>6 DEF Acknowledged
  <2> HIDE DEF g, a
  <2>3. InOrder(a)
    BY <2>1, <2>2, PutCtc
  <2> QED
    BY <2>3 DEF a
<1>7. CASE HaveIm2 /\ mm.live_irq = IRQ_NONE
  BY <1>7, LiveNumbers DEF Acknowledged
<1> QED
  BY <1>4, <1>5, <1>6, <1>7

LEMMA RetiInOrder ==
    ASSUME NEW mm, InOrder(mm), NEW r, r = reti_event(mm)
    PROVE  InOrder(r) /\ Shows(r)
<1> DEFINE a == Acknowledged(mm)
           b == [a EXCEPT !.live_irq = IRQ_NONE]
<1>1. InOrder(a)
  BY AckInOrder
<1>2. r = poll_irq_event(b)
  BY DEF reti_event
<1> HIDE DEF a
<1>3. InOrder(b)
  BY <1>1, PutNone, LiveNumbers
<1> HIDE DEF b
<1> QED
  BY <1>2, <1>3, PollInOrder

\* A control word may end a live interrupt, and never starts one.
LEMMA CtcControlInOrder ==
    ASSUME NEW mm, InOrder(mm), Shows(mm), NEW n \in CtcChan, NEW w \in Control,
           NEW r, r = CtcControl(mm, n, w)
    PROVE  InOrder(r) /\ Shows(r) /\ r.live_irq \in {IRQ_NONE, mm.live_irq}
<1> DEFINE k == LoadControl(mm.ctc, n, w)
           l == IF /\ ~w.irq /\ n \in mm.ctc.irqmask
                   /\ k.irqmask = {} /\ mm.live_irq = IRQ_CTC + n
                THEN IRQ_NONE ELSE mm.live_irq
           t == [mm EXCEPT !.ctc = k]
<1>1. r = [mm EXCEPT !.ctc = k, !.live_irq = l]
  BY DEF CtcControl
<1>2. l \in LiveIrq /\ (l # IRQ_SIO \/ l = mm.live_irq) /\ l \in {IRQ_NONE, mm.live_irq}
  BY LiveNumbers DEF InOrder, Machine
<1>3. Good(k)
  BY WriteGood DEF InOrder
<1> HIDE DEF k, l
<1>4. r = [t EXCEPT !.live_irq = l]
  BY <1>1
<1>5. InOrder(t) /\ t.live_irq = mm.live_irq /\ t.cpu = mm.cpu /\ t.intvec = mm.intvec
  BY <1>3, PutCtc
<1> HIDE DEF t
<1>6. InOrder(r) /\ r.live_irq = l /\ r.cpu = t.cpu /\ r.intvec = t.intvec
  BY <1>2, <1>4, <1>5, PutNone
<1> QED
  BY <1>2, <1>5, <1>6 DEF Shows
-----------------------------------------------------------------------------
(* The EasyZ80's UART clock *)

\* The function UartClock chooses, for n pulses.
ClockBody(k, n, f) ==
    [x \in 0 .. n |-> IF x = 0 THEN k
                      ELSE ctc_receive_pulse(f[x - 1], <<0, 1, 2, 0, 1>>[((x - 1) % 5) + 1])]

\* It exists for every number of pulses.
LEMMA ClockExists ==
    ASSUME NEW k
    PROVE  \A n \in Nat : \E f : f = ClockBody(k, n, f)
<1> DEFINE S == {n \in Nat : \E f : f = ClockBody(k, n, f)}
<1>1. 0 \in S
  <2> DEFINE f == [x \in 0 .. 0 |-> k]
  <2>1. f = ClockBody(k, 0, f)
    BY DEF ClockBody
  <2> QED
    BY <2>1
<1>2. ASSUME NEW n \in Nat, n \in S  PROVE n + 1 \in S
  <2>1. PICK f : f = ClockBody(k, n, f)
    BY <1>2
  <2> DEFINE P(y, x) == ctc_receive_pulse(y, <<0, 1, 2, 0, 1>>[((x - 1) % 5) + 1])
             g == [x \in 0 .. n + 1 |-> IF x = n + 1 THEN P(f[n], n + 1) ELSE f[x]]
  <2>2. \A x \in 0 .. n : f[x] = IF x = 0 THEN k ELSE P(f[x - 1], x)
    BY <2>1 DEF ClockBody
  <2>3. ClockBody(k, n + 1, g) = [x \in 0 .. n + 1 |-> IF x = 0 THEN k ELSE P(g[x - 1], x)]
    BY DEF ClockBody
  <2> HIDE DEF P
  <2>4. ASSUME NEW x \in 0 .. n + 1  PROVE g[x] = IF x = 0 THEN k ELSE P(g[x - 1], x)
    <3>1. CASE x = n + 1
      BY <3>1
    <3>2. CASE x # n + 1
      BY <2>2, <3>2
    <3> QED
      BY <3>1, <3>2
  <2>5. g = ClockBody(k, n + 1, g)
    BY <2>3, <2>4
  <2> QED
    BY <2>5
<1> HIDE DEF S
<1>3. \A n \in Nat : n \in S
  BY <1>1, <1>2, SetInduction
<1> QED
  BY <1>3 DEF S

\* However many rounds of pulses the board sends, the CTC stays in order.
LEMMA ClockGood ==
    ASSUME NEW k, Good(k)
    PROVE  Good(UartClock(k))
<1> DEFINE N == 5 * PulseRounds
           f == CHOOSE h : h = ClockBody(k, N, h)
           S == {n \in Nat : n <= N => Good(f[n])}
<1>1. N \in Nat
  BY MachineAssumption
<1>2. UartClock(k) = f[N]
  BY DEF UartClock, ClockBody
<1> HIDE DEF N
<1>3. f = ClockBody(k, N, f)
  BY <1>1, ClockExists
<1> HIDE DEF f
<1>4. \A x \in 0 .. N :
         f[x] = IF x = 0 THEN k
                ELSE ctc_receive_pulse(f[x - 1], <<0, 1, 2, 0, 1>>[((x - 1) % 5) + 1])
  BY <1>3 DEF ClockBody
<1>5. 0 \in S
  BY <1>1, <1>4
<1>6. ASSUME NEW n \in Nat, n \in S  PROVE n + 1 \in S
  <2> SUFFICES ASSUME n + 1 <= N  PROVE Good(f[n + 1])
    OBVIOUS
  <2> DEFINE c == <<0, 1, 2, 0, 1>>[(n % 5) + 1]
  <2>1. c \in CtcChan
    BY DEF CtcChan
  <2>2. Good(f[n])
    BY <1>1, <1>6
  <2>3. f[n + 1] = ctc_receive_pulse(f[n], c)
    BY <1>1, <1>4
  <2> HIDE DEF c
  <2> QED
    BY <2>1, <2>2, <2>3, PulseGood
<1> HIDE DEF S
<1>7. \A n \in Nat : n \in S
  BY <1>5, <1>6, SetInduction
<1> QED
  BY <1>1, <1>2, <1>7 DEF S

-----------------------------------------------------------------------------
(* The steps keep the machine in order *)

\* What is known of every state, and what every step does to it.
Invariant == TypeOK /\ InOrder(m) /\ Shows(m)

LEMMA InitInOrder == Init => Invariant
<1> SUFFICES ASSUME Init  PROVE Invariant
  OBVIOUS
<1>1. PICK wr1 \in Mode, v \in Vector : m = MachineOf(SioProgrammed(wr1, v))
  BY DEF Init
<1> DEFINE s == SioProgrammed(wr1, v)
           c == [int_req |-> FALSE, int_vector |-> 0, IFF1 |-> FALSE, defer_int |-> FALSE]
<1>2. s \in SioState
  <2>1. Agrees(m)
    BY InitAgrees
  <2>2. m.sio = s
    BY <1>1 DEF MachineOf
  <2> QED
    BY <2>1, <2>2 DEF Agrees, IsMachine
<1>3. CtcCreated \in CtcState /\ Good(CtcCreated)
  BY CtcCreatedType DEF Good, Silent
<1>4. 0 \in Byte
  BY DEF Byte
<1>5. c \in Cpu
  BY <1>4 DEF Cpu
<1>6. m = [sio |-> s, ctc |-> CtcCreated, live_irq |-> IRQ_NONE, intvec |-> 0,
           live_nonim2 |-> {}, cpu |-> c]
  BY <1>1 DEF MachineOf
<1>7. c.int_req = FALSE
  OBVIOUS
<1> HIDE DEF s, c
<1>8. m \in Machine
  BY <1>2, <1>3, <1>4, <1>5, <1>6, LiveNumbers DEF Machine
<1>9. InOrder(m)
  BY <1>3, <1>6, <1>8, LiveNumbers DEF InOrder
<1>10. Shows(m)
  BY <1>6 DEF Shows
<1>11. i \in 0 .. Ticks /\ j \in 0 .. Slices /\ isr \in Seq(LiveIrq)
  BY MachineAssumption DEF Init
<1> QED
  BY <1>8, <1>9, <1>10, <1>11 DEF Invariant, TypeOK

\* An instruction that leaves the machine in order.
LEMMA ExecutesInOrder ==
    ASSUME NEW mm, InOrder(mm), Shows(mm), Executes(mm)
    PROVE  InOrder(m') /\ Shows(m') /\ m'.live_irq = mm.live_irq
<1> DEFINE c == [mm.cpu EXCEPT !.defer_int = FALSE]
<1>1. m' = [mm EXCEPT !.cpu = c]
  BY DEF Executes
<1>2. mm.cpu \in Cpu
  BY DEF InOrder, Machine
<1>3. c \in Cpu /\ c.int_req = mm.cpu.int_req /\ c.int_vector = mm.cpu.int_vector
  BY <1>2 DEF Cpu
<1> HIDE DEF c
<1>4. /\ InOrder(m') /\ m'.cpu = c
      /\ m'.live_irq = mm.live_irq /\ m'.intvec = mm.intvec
  BY <1>1, <1>3, PutCpu
<1> QED
  BY <1>3, <1>4 DEF Shows

\* An access to a port changes one device, and live_irq only to drop it.
LEMMA InstructionInOrder ==
    ASSUME InOrder(m), Shows(m), Instruction
    PROVE  InOrder(m') /\ Shows(m') /\ m'.live_irq \in {IRQ_NONE, m.live_irq}
<1>0. m.sio \in SioState /\ m.cpu \in Cpu /\ Good(m.ctc) /\ IsChip(m.sio)
  BY SioIsChip DEF InOrder, Machine
<1>1. CASE Executes(m)
  BY <1>1, ExecutesInOrder
<1>2. ASSUME NEW on \in BOOLEAN, SetIff(on)
      PROVE  InOrder(m') /\ Shows(m') /\ m'.live_irq = m.live_irq
  <2> DEFINE c == [m.cpu EXCEPT !.IFF1 = on, !.defer_int = TRUE]
  <2>1. m' = [m EXCEPT !.cpu = c]
    BY <1>2 DEF SetIff
  <2>2. c \in Cpu /\ c.int_req = m.cpu.int_req /\ c.int_vector = m.cpu.int_vector
    BY <1>0 DEF Cpu
  <2> HIDE DEF c
  <2>3. /\ InOrder(m') /\ m'.cpu = c
        /\ m'.live_irq = m.live_irq /\ m'.intvec = m.intvec
    BY <2>1, <2>2, PutCpu
  <2> QED
    BY <2>2, <2>3 DEF Shows
<1>3. ASSUME NEW s \in SioState, s.vector = m.sio.vector, Executes([m EXCEPT !.sio = s])
      PROVE  InOrder(m') /\ Shows(m') /\ m'.live_irq = m.live_irq
  <2> DEFINE r == [m EXCEPT !.sio = s]
  <2>1. /\ InOrder(r) /\ r.cpu = m.cpu
        /\ r.live_irq = m.live_irq /\ r.intvec = m.intvec
    BY <1>3, PutSio
  <2>2. Executes(r)
    BY <1>3
  <2> HIDE DEF r
  <2>3. Shows(r)
    BY <2>1 DEF Shows
  <2> QED
    BY <2>1, <2>2, <2>3, ExecutesInOrder
<1>4. ASSUME NEW k, Good(k), Executes([m EXCEPT !.ctc = k])
      PROVE  InOrder(m') /\ Shows(m') /\ m'.live_irq = m.live_irq
  <2> DEFINE r == [m EXCEPT !.ctc = k]
  <2>1. /\ InOrder(r) /\ r.cpu = m.cpu
        /\ r.live_irq = m.live_irq /\ r.intvec = m.intvec
    BY <1>4, PutCtc
  <2>2. Executes(r)
    BY <1>4
  <2> HIDE DEF r
  <2>3. Shows(r)
    BY <2>1 DEF Shows
  <2> QED
    BY <2>1, <2>2, <2>3, ExecutesInOrder
<1>5. ASSUME NEW c \in Port, SioIo(c)
      PROVE  InOrder(m') /\ Shows(m') /\ m'.live_irq = m.live_irq
  <2> DEFINE p == ReadData(m.sio, c)
             q == WriteData(m.sio, c)
             w(cmd) == WriteCommand(m.sio, c, cmd, 0)
  <2>0. c \in Chan
    BY MachineAssumption
  <2>1. p \in SioState /\ p.vector = m.sio.vector
    BY <1>0, <2>0, ReadDataType, DataVector DEF SameVector
  <2>2. q \in SioState /\ q.vector = m.sio.vector
    BY <1>0, <2>0, PortTypes, DataVector DEF SameVector
  <2>3. ASSUME NEW cmd \in SioCmd  PROVE w(cmd) \in SioState /\ w(cmd).vector = m.sio.vector
    <3>1. cmd \in Command /\ 0 \in 0 .. 7
      BY MachineAssumption
    <3> QED
      BY SMTT(60), <1>0, <2>0, <3>1, CommandType, CommandVector DEF SameVector
  <2>4. \/ Executes([m EXCEPT !.sio = p])
        \/ Executes([m EXCEPT !.sio = q])
        \/ \E cmd \in SioCmd : Executes([m EXCEPT !.sio = w(cmd)])
    BY <1>5 DEF SioIo
  <2> HIDE DEF p, q, w
  <2> QED
    BY <1>3, <2>1, <2>2, <2>3, <2>4
<1>6. ASSUME NEW n \in Timers, CtcIo(n)
      PROVE  InOrder(m') /\ Shows(m') /\ m'.live_irq \in {IRQ_NONE, m.live_irq}
  <2>0. n \in CtcChan /\ Words \subseteq Control /\ TimeConst \subseteq 0 .. Wrap - 1
        /\ CtcBase \subseteq 0 .. 255
    BY MachineAssumption DEF Byte
  <2>1. ASSUME NEW w \in Words, Executes(CtcControl(m, n, w))
        PROVE  InOrder(m') /\ Shows(m') /\ m'.live_irq \in {IRQ_NONE, m.live_irq}
    <3> DEFINE r == CtcControl(m, n, w)
    <3>1. InOrder(r) /\ Shows(r) /\ r.live_irq \in {IRQ_NONE, m.live_irq}
      BY <2>0, CtcControlInOrder
    <3>2. Executes(r)
      BY <2>1
    <3> HIDE DEF r
    <3> QED
      BY <3>1, <3>2, ExecutesInOrder
  <2>2. ASSUME NEW v \in TimeConst, Executes([m EXCEPT !.ctc = LoadConstant(@, n, v)])
        PROVE  InOrder(m') /\ Shows(m') /\ m'.live_irq = m.live_irq
    <3> DEFINE k == LoadConstant(m.ctc, n, v)
    <3>1. Good(k)
      BY <1>0, <2>0, WriteGood
    <3>2. Executes([m EXCEPT !.ctc = k])
      BY <2>2
    <3> HIDE DEF k
    <3> QED
      BY <1>4, <3>1, <3>2
  <2>3. ASSUME NEW v \in CtcBase, Executes([m EXCEPT !.ctc = LoadVector(@, n, v)])
        PROVE  InOrder(m') /\ Shows(m') /\ m'.live_irq = m.live_irq
    <3> DEFINE k == LoadVector(m.ctc, n, v)
    <3>1. Good(k)
      BY <1>0, <2>0, WriteGood
    <3>2. Executes([m EXCEPT !.ctc = k])
      BY <2>3
    <3> HIDE DEF k
    <3> QED
      BY <1>4, <3>1, <3>2
  <2> QED
    BY <1>6, <2>1, <2>2, <2>3 DEF CtcIo
<1> QED
  BY <1>1, <1>2, <1>5, <1>6 DEF Instruction

\* Every step, and only a RETI replaces a live interrupt.
LEMMA NextInOrder ==
    ASSUME InOrder(m), Shows(m), [Next]_vars
    PROVE  /\ InOrder(m') /\ Shows(m')
           /\ \/ m'.live_irq \in {IRQ_NONE, m.live_irq}
              \/ m.live_irq = IRQ_NONE
              \/ Reti
              \/ ~HaveIm2
<1>0. m.sio \in SioState /\ m.cpu \in Cpu /\ Good(m.ctc) /\ IsChip(m.sio)
  BY SioIsChip DEF InOrder, Machine
<1>1. CASE Interrupt
  <2> DEFINE c == [m.cpu EXCEPT !.IFF1 = FALSE, !.int_req = FALSE]
  <2>1. m' = [m EXCEPT !.cpu = c]
    BY <1>1 DEF Interrupt
  <2>2. c \in Cpu /\ c.int_req = FALSE
    BY <1>0 DEF Cpu
  <2> HIDE DEF c
  <2>3. InOrder(m') /\ m'.cpu = c /\ m'.live_irq = m.live_irq
    BY <2>1, <2>2, PutCpu
  <2> QED
    BY <2>2, <2>3 DEF Shows
<1>2. CASE Instruction
  BY <1>2, InstructionInOrder
<1>3. CASE Reti
  <2> DEFINE c == [m.cpu EXCEPT !.defer_int = FALSE]
             r == [m EXCEPT !.cpu = c]
  <2>1. m' = reti_event(r)
    BY <1>3 DEF Reti
  <2>2. c \in Cpu
    BY <1>0 DEF Cpu
  <2> HIDE DEF c
  <2>3. InOrder(r)
    BY <2>2, PutCpu
  <2> HIDE DEF r
  <2> QED
    BY <1>3, <2>1, <2>3, RetiInOrder
<1>4. CASE Slice
  <2> PICK ch \in [Chan -> Char \cup {NoChar}], txrdy \in [Chan -> BOOLEAN],
           pulling \in SUBSET Legacy : EndSlice(ch, txrdy, pulling)
    BY <1>4 DEF Slice
  <2> DEFINE s == sio_timer(m.sio, ch, txrdy)
             r == [m EXCEPT !.sio = s]
             p == [r EXCEPT !.live_nonim2 = pulling]
  <2>1. m' = set_interrupt(p)
    BY DEF EndSlice, poll_irq_nonim2
  <2>2. s \in SioState /\ s.vector = m.sio.vector
    BY <1>0, TimerType, TimerVector DEF SameVector
  <2> HIDE DEF s
  <2>3. InOrder(r) /\ r.live_irq = m.live_irq
    BY <2>2, PutSio
  <2> HIDE DEF r
  <2>4. InOrder(p) /\ p.live_irq = m.live_irq
    BY <2>3, PutLegacy
  <2> HIDE DEF p
  <2> QED
    BY <2>1, <2>4, SetInterruptShows
<1>5. CASE EndTick
  <2> DEFINE x == ctc_tick(m.ctc, Clocks)
             k == UartClock(x)
  <2>1. m' = [m EXCEPT !.ctc = k]
    BY <1>5 DEF EndTick
  <2>2. Good(x)
    BY <1>0, TickGood, MachineAssumption
  <2> HIDE DEF x
  <2>3. Good(k)
    BY <2>2, ClockGood
  <2> HIDE DEF k
  <2>4. /\ InOrder(m') /\ m'.cpu = m.cpu
        /\ m'.live_irq = m.live_irq /\ m'.intvec = m.intvec
    BY <2>1, <2>3, PutCtc
  <2> QED
    BY <2>4 DEF Shows
<1>6. CASE EndFrame
  <2>1. CASE m.live_irq = IRQ_NONE \/ ~HaveIm2
    BY <1>6, <2>1, PollInOrder DEF EndFrame
  <2>2. CASE ~(m.live_irq = IRQ_NONE \/ ~HaveIm2)
    BY <1>6, <2>2 DEF EndFrame
  <2> QED
    BY <2>1, <2>2
<1>7. CASE UNCHANGED vars
  BY <1>7 DEF vars
<1> QED
  BY <1>1, <1>2, <1>3, <1>4, <1>5, <1>6, <1>7 DEF Next

\* The rest of TypeOK: the loop counters and the history of handlers.
LEMMA NextCounters ==
    ASSUME TypeOK, [Next]_vars
    PROVE  i' \in 0 .. Ticks /\ j' \in 0 .. Slices /\ isr' \in Seq(LiveIrq)
<1>0. m.live_irq \in LiveIrq /\ isr \in Seq(LiveIrq) /\ i \in 0 .. Ticks /\ j \in 0 .. Slices
      /\ Ticks \in Nat \ {0} /\ Slices \in Nat \ {0}
  BY MachineAssumption DEF TypeOK, Machine
<1>1. CASE Interrupt
  BY <1>0, <1>1 DEF Interrupt
<1>2. CASE Instruction
  <2>1. UNCHANGED <<i, j, isr>>
    BY <1>2 DEF Instruction, Executes, SetIff, SioIo, CtcIo
  <2> QED
    BY <1>0, <2>1
<1>3. CASE Reti
  <2>1. isr # <<>> => SubSeq(isr, 1, Len(isr) - 1) \in Seq(LiveIrq)
    BY <1>0
  <2> QED
    BY <1>0, <1>3, <2>1 DEF Reti
<1>4. CASE Slice
  BY <1>0, <1>4 DEF Slice, EndSlice, Running
<1>5. CASE EndTick
  BY <1>0, <1>5 DEF EndTick
<1>6. CASE EndFrame
  BY <1>0, <1>6 DEF EndFrame
<1>7. CASE UNCHANGED vars
  BY <1>0, <1>7 DEF vars
<1> QED
  BY <1>1, <1>2, <1>3, <1>4, <1>5, <1>6, <1>7 DEF Next

LEMMA InvariantHolds == Spec => []Invariant
<1>1. Init => Invariant
  BY InitInOrder
<1>2. Invariant /\ [Next]_vars => Invariant'
  <2> SUFFICES ASSUME Invariant, [Next]_vars  PROVE Invariant'
    OBVIOUS
  <2>1. InOrder(m') /\ Shows(m')
    BY NextInOrder DEF Invariant
  <2>2. i' \in 0 .. Ticks /\ j' \in 0 .. Slices /\ isr' \in Seq(LiveIrq)
    BY NextCounters DEF Invariant
  <2> QED
    BY <2>1, <2>2 DEF Invariant, TypeOK, InOrder, Shows, Good, Silent
<1> QED
  BY <1>1, <1>2, PTL DEF Spec

\* Whatever the program does, and whether or not the daisy chain is wired, no
\* counter of the SIO or of the CTC leaves its range, live_irq always names a
\* source, and the vectors rc2014.c computes are bytes.
THEOREM MachineTypeCorrect == Spec => []TypeOK
  BY InvariantHolds, PTL DEF Invariant

\* Polls of the chain, RETIs, port accesses and slices may come in any order:
\* while the SIO's interrupt is live, the vector the Z80 would read is the one
\* the SIO has computed for it, and never one that a later raise, read or
\* reset has left behind.
THEOREM VectorTrue == Spec => []VectorMatchesSource
<1>1. Invariant => VectorMatchesSource
  BY LiveNumbers DEF Invariant, InOrder, Shows, VectorMatchesSource
<1> QED
  BY <1>1, InvariantHolds, PTL

\* With the daisy chain wired nothing but a RETI hands the chain to another
\* source: no poll, port access or step of the main loop replaces the live
\* interrupt.
THEOREM LiveKept == HaveIm2 /\ Spec => LiveNotReplaced
<1>1. HaveIm2 => (Spec => LiveNotReplaced)
  <2> SUFFICES ASSUME HaveIm2  PROVE Spec => LiveNotReplaced
    OBVIOUS
  <2>1. Invariant /\ [Next]_vars =>
          [m.live_irq # IRQ_NONE /\ m'.live_irq \notin {IRQ_NONE, m.live_irq} => Reti]_vars
    BY NextInOrder DEF Invariant
  <2> QED
    BY <2>1, InvariantHolds, PTL DEF Spec, LiveNotReplaced
<1> QED
  BY <1>1

-----------------------------------------------------------------------------
(* A program that follows the rules *)

HasCpu(mm) == "cpu" \in DOMAIN mm /\ {"IFF1", "defer_int"} \subseteq DOMAIN mm.cpu

\* r masks and defers interrupts as mm does.
SameMask(mm, r) ==
    HasCpu(mm) => /\ HasCpu(r)
                  /\ r.cpu.IFF1 = mm.cpu.IFF1 /\ r.cpu.defer_int = mm.cpu.defer_int

LEMMA SetInterruptMask ==
    ASSUME NEW mm
    PROVE  SameMask(mm, set_interrupt(mm))
<1> DEFINE c == IF mm.live_irq # IRQ_NONE THEN Z80INT(mm.cpu, mm.intvec)
                ELSE IF mm.live_nonim2 # {} THEN Z80INT(mm.cpu, 120)
                ELSE Z80NOINT(mm.cpu)
           r == [mm EXCEPT !.cpu = c]
<1>1. set_interrupt(mm) = r
  BY DEF set_interrupt
<1>2. HasCpu(mm) => /\ c.IFF1 = mm.cpu.IFF1 /\ c.defer_int = mm.cpu.defer_int
                    /\ {"IFF1", "defer_int"} \subseteq DOMAIN c
  BY DEF HasCpu, Z80INT, Z80NOINT
<1> HIDE DEF c
<1>3. HasCpu(mm) => HasCpu(r) /\ r.cpu = c
  BY <1>2 DEF HasCpu
<1> HIDE DEF r
<1> QED
  BY <1>1, <1>2, <1>3 DEF SameMask

\* Asking the devices does not touch the CPU.
LEMMA AskMask ==
    ASSUME NEW mm
    PROVE  SameMask(mm, AskSio(mm)) /\ SameMask(mm, ctc_check_im2(mm))
<1> DEFINE s == sio_check_im2(mm.sio)
           t == [mm EXCEPT !.sio = s]
<1>1. SameMask(mm, t)
  <2> HIDE DEF s
  <2> QED
    BY DEF SameMask, HasCpu
<1>2. ASSUME NEW r, NEW l, NEW v  PROVE SameMask(r, Takes(r, l, v))
  BY DEF SameMask, HasCpu, Takes
<1>3. AskSio(mm) = IF Delivers(mm.sio) THEN Takes(t, IRQ_SIO, t.sio.vector) ELSE t
  BY DEF AskSio
<1>4. SameMask(mm, AskSio(mm))
  <2>1. SameMask(t, Takes(t, IRQ_SIO, t.sio.vector))
    BY <1>2
  <2> HIDE DEF t
  <2> QED
    BY <1>1, <1>3, <2>1 DEF SameMask
<1>5. SameMask(mm, ctc_check_im2(mm))
  BY <1>2 DEF ctc_check_im2, SameMask
<1> QED
  BY <1>4, <1>5

LEMMA PollMask ==
    ASSUME NEW mm
    PROVE  SameMask(mm, poll_irq_event(mm))
<1> DEFINE a == AskSio(mm)
           b == ctc_check_im2(a)
           p == IF HaveIm2
                THEN IF mm.live_irq # IRQ_NONE THEN mm
                     ELSE IF Delivers(mm.sio) THEN a ELSE b
                ELSE b
<1>1. poll_irq_event(mm) = set_interrupt(p)
  BY DEF poll_irq_event
<1>2. SameMask(mm, a)
  BY AskMask
<1> HIDE DEF a
<1>3. SameMask(a, b)
  BY AskMask
<1> HIDE DEF b
<1>4. SameMask(mm, p)
  BY <1>2, <1>3 DEF SameMask
<1> HIDE DEF p
<1>5. SameMask(p, set_interrupt(p))
  BY SetInterruptMask
<1> QED
  BY <1>1, <1>4, <1>5 DEF SameMask

LEMMA RetiMask ==
    ASSUME NEW mm
    PROVE  SameMask(mm, reti_event(mm))
<1> DEFINE a == Acknowledged(mm)
           b == [a EXCEPT !.live_irq = IRQ_NONE]
<1>1. SameMask(mm, a)
  <2>1. ASSUME NEW s, NEW k
        PROVE  /\ SameMask(mm, [mm EXCEPT !.sio = s])
               /\ SameMask(mm, [mm EXCEPT !.ctc = k])
               /\ SameMask(mm, [mm EXCEPT !.sio = s, !.ctc = k])
    BY DEF SameMask, HasCpu
  <2> DEFINE s == sio_reti(mm.sio)
             k == ctc_reti(ctc_reti(ctc_reti(ctc_reti(mm.ctc, 0), 1), 2), 3)
             g == ctc_reti(mm.ctc, mm.live_irq - IRQ_CTC)
  <2>2. a = IF ~HaveIm2 THEN [mm EXCEPT !.sio = s, !.ctc = k]
            ELSE IF mm.live_irq = IRQ_SIO THEN [mm EXCEPT !.sio = s]
            ELSE IF mm.live_irq # IRQ_NONE THEN [mm EXCEPT !.ctc = g] ELSE mm
    BY DEF Acknowledged
  <2>3. SameMask(mm, mm)
    BY DEF SameMask
  <2> HIDE DEF s, k, g, a
  <2> QED
    BY <2>1, <2>2, <2>3
<1>2. reti_event(mm) = poll_irq_event(b)
  BY DEF reti_event
<1> HIDE DEF a
<1>3. SameMask(a, b)
  BY DEF SameMask, HasCpu
<1> HIDE DEF b
<1>4. SameMask(b, poll_irq_event(b))
  BY PollMask
<1> QED
  BY <1>1, <1>2, <1>3, <1>4 DEF SameMask

\* The handler runs with interrupts off, and between EI and RETI they are
\* deferred: the program is interrupted only in main.
Handling ==
    /\ HasCpu(m)
    /\ pc \in {"main", "handler", "status", "ei", "reti"}
    /\ pc \in {"handler", "status", "ei"} => m.cpu.IFF1 = FALSE
    /\ pc = "reti" => m.cpu.defer_int = TRUE
    /\ IF pc = "main" THEN isr = <<>> ELSE \E x : isr = <<x>>

LEMMA ExecutesMask ==
    ASSUME NEW mm, HasCpu(mm), Executes(mm)
    PROVE  HasCpu(m') /\ m'.cpu.IFF1 = mm.cpu.IFF1 /\ isr' = isr
<1> DEFINE c == [mm.cpu EXCEPT !.defer_int = FALSE]
<1>1. m' = [mm EXCEPT !.cpu = c] /\ isr' = isr
  BY DEF Executes
<1>2. {"IFF1", "defer_int"} \subseteq DOMAIN c /\ c.IFF1 = mm.cpu.IFF1
  BY DEF HasCpu
<1> HIDE DEF c
<1> QED
  BY <1>1, <1>2 DEF HasCpu

LEMMA CpuStepHandling ==
    ASSUME MaxNest >= 1, Handling, CpuStep
    PROVE  Handling'
<1>0. HasCpu(m)
  BY DEF Handling
<1>1. CASE Interrupt /\ pc' = "handler"
  <2> DEFINE c == [m.cpu EXCEPT !.IFF1 = FALSE, !.int_req = FALSE]
  <2>1. pc = "main" /\ isr = <<>>
    BY <1>1 DEF Interrupt, Accepts, Handling
  <2>2. m' = [m EXCEPT !.cpu = c] /\ isr' = Append(isr, m.live_irq)
    <3>1. Len(isr) < MaxNest
      BY <2>1, MachineAssumption
    <3> QED
      BY <1>1, <3>1 DEF Interrupt
  <2>3. c.IFF1 = FALSE /\ {"IFF1", "defer_int"} \subseteq DOMAIN c
    BY <1>0 DEF HasCpu
  <2> HIDE DEF c
  <2>4. HasCpu(m') /\ m'.cpu.IFF1 = FALSE
    BY <1>0, <2>2, <2>3 DEF HasCpu
  <2>5. isr' = <<m.live_irq>>
    BY <2>1, <2>2
  <2> QED
    BY <1>1, <2>4, <2>5 DEF Handling, HasCpu
<1>2. ASSUME NEW mm, SameMask(m, mm), NEW from \in {"main", "handler", "status"}, NEW to,
             to \in IF from = "main" THEN {"main"} ELSE {"handler", "status", "ei"},
             Goes(from, to), Executes(mm)
      PROVE  Handling'
  <2>1. HasCpu(mm) /\ mm.cpu.IFF1 = m.cpu.IFF1
    BY <1>0, <1>2 DEF SameMask
  <2>2. HasCpu(m') /\ m'.cpu.IFF1 = m.cpu.IFF1 /\ isr' = isr
    BY <1>2, <2>1, ExecutesMask
  <2> QED
    BY <1>2, <2>2 DEF Handling, Goes, HasCpu
<1>3. ASSUME NEW s  PROVE SameMask(m, [m EXCEPT !.sio = s])
  BY DEF SameMask, HasCpu
<1>4. SameMask(m, m)
  BY DEF SameMask
<1>5. CASE Goes("main", "main") /\ Executes(m)
  BY <1>2, <1>4, <1>5
<1>6. CASE Handle
  <2>1. ASSUME NEW c, NEW to \in {"handler", "status"},
               Goes("handler", to), Executes([m EXCEPT !.sio = ReadData(@, c)])
        PROVE  Handling'
    <3> DEFINE s == ReadData(m.sio, c)
               r == [m EXCEPT !.sio = s]
    <3>1. SameMask(m, r)
      BY <1>3
    <3>2. Executes(r)
      BY <2>1
    <3> HIDE DEF r
    <3> QED
      BY <1>2, <2>1, <3>1, <3>2
  <2>2. ASSUME NEW c,
               Goes("status", "status"),
               Executes([m EXCEPT !.sio = WriteCommand(@, c, "extreset", 0)])
        PROVE  Handling'
    <3> DEFINE s == WriteCommand(m.sio, c, "extreset", 0)
               r == [m EXCEPT !.sio = s]
    <3>1. SameMask(m, r)
      BY <1>3
    <3>2. Executes(r)
      BY <2>2
    <3> HIDE DEF r
    <3> QED
      BY <1>2, <2>2, <3>1, <3>2
  <2>3. CASE Goes("handler", "status") /\ Executes(m)
    BY <1>2, <1>4, <2>3
  <2>4. CASE Goes("status", "ei") /\ Executes(m)
    BY <1>2, <1>4, <2>4
  <2> QED
    BY <1>6, <2>1, <2>2, <2>3, <2>4 DEF Handle
<1>7. CASE Goes("ei", "reti") /\ SetIff(TRUE)
  <2> DEFINE c == [m.cpu EXCEPT !.IFF1 = TRUE, !.defer_int = TRUE]
  <2>1. m' = [m EXCEPT !.cpu = c] /\ isr' = isr /\ pc = "ei" /\ pc' = "reti"
    BY <1>7 DEF SetIff, Goes
  <2>2. c.defer_int = TRUE /\ {"IFF1", "defer_int"} \subseteq DOMAIN c
    BY <1>0 DEF HasCpu
  <2> HIDE DEF c
  <2>3. HasCpu(m') /\ m'.cpu.defer_int = TRUE
    BY <1>0, <2>1, <2>2 DEF HasCpu
  <2> QED
    BY <2>1, <2>3 DEF Handling, HasCpu
<1>8. CASE Goes("reti", "main") /\ Reti
  <2> DEFINE c == [m.cpu EXCEPT !.defer_int = FALSE]
             r == [m EXCEPT !.cpu = c]
  <2>1. m' = reti_event(r) /\ pc = "reti" /\ pc' = "main"
    BY <1>8 DEF Reti, Goes
  <2>2. HasCpu(r)
    BY <1>0 DEF HasCpu
  <2> HIDE DEF r
  <2>3. HasCpu(m')
    BY <2>1, <2>2, RetiMask DEF SameMask
  <2>4. isr' = <<>>
    <3>1. PICK x : isr = <<x>>
      BY <2>1 DEF Handling
    <3>2. isr' = SubSeq(isr, 1, Len(isr) - 1)
      BY <1>8, <3>1 DEF Reti
    <3>3. Len(isr) = 1
      BY <3>1
    <3> QED
      BY <3>2, <3>3
  <2> QED
    BY <2>1, <2>3, <2>4 DEF Handling, HasCpu
<1> QED
  BY <1>1, <1>5, <1>6, <1>7, <1>8 DEF CpuStep

LEMMA LoopStepHandling ==
    ASSUME Handling, LoopStep
    PROVE  Handling'
<1>0. HasCpu(m)
  BY DEF Handling
<1>1. ASSUME SameMask(m, m'), isr' = isr, pc' = pc  PROVE Handling'
  BY <1>0, <1>1 DEF Handling, SameMask, HasCpu
<1>2. CASE DSlice
  <2> PICK ch : EndSlice(ch, [c \in Chan |-> TRUE], {}) /\ pc' = pc
    BY <1>2 DEF DSlice
  <2> DEFINE s == sio_timer(m.sio, ch, [c \in Chan |-> TRUE])
             r == [m EXCEPT !.sio = s]
             p == [r EXCEPT !.live_nonim2 = {}]
  <2>1. m' = set_interrupt(p) /\ isr' = isr
    BY DEF EndSlice, poll_irq_nonim2
  <2> HIDE DEF s
  <2>2. SameMask(m, r)
    BY DEF SameMask, HasCpu
  <2> HIDE DEF r
  <2>3. SameMask(r, p)
    BY DEF SameMask, HasCpu
  <2> HIDE DEF p
  <2>4. SameMask(p, set_interrupt(p))
    BY SetInterruptMask
  <2> QED
    BY <1>1, <2>1, <2>2, <2>3, <2>4 DEF SameMask
<1>3. CASE EndTick /\ UNCHANGED <<pc, ran, left>>
  <2> DEFINE k == UartClock(ctc_tick(m.ctc, Clocks))
  <2>1. m' = [m EXCEPT !.ctc = k] /\ isr' = isr /\ pc' = pc
    BY <1>3 DEF EndTick
  <2> HIDE DEF k
  <2>2. SameMask(m, m')
    BY <2>1 DEF SameMask, HasCpu
  <2> QED
    BY <1>1, <2>1, <2>2
<1>4. CASE EndFrame /\ UNCHANGED <<pc, ran, left>>
  <2>1. SameMask(m, m')
    BY <1>4, PollMask DEF EndFrame, SameMask
  <2> QED
    BY <1>1, <1>4, <2>1 DEF EndFrame
<1> QED
  BY <1>2, <1>3, <1>4 DEF LoopStep

\* A program whose handler ends with EI and RETI is interrupted only in its
\* main code: the line is up and live_irq is set for the whole of a service,
\* but the Z80's one instruction of grace after EI always reaches the RETI,
\* however the handler is cut by slices, ticks and polls.
THEOREM HandlerWhole == MaxNest >= 1 /\ DSpec => []HandlerNotInterrupted
<1>1. DInit => Handling
  <2> SUFFICES ASSUME DInit  PROVE Handling
    OBVIOUS
  <2>1. PICK wr1 \in Mode, v \in Vector : m = Started(wr1, v)
    BY DEF DInit
  <2> DEFINE k == LoadConstant(LoadControl(CtcCreated, 3,
                     [irq |-> TRUE, counter |-> FALSE, presc |-> FALSE,
                      tconst |-> TRUE, reset |-> TRUE]), 3, 1)
             b == MachineOf(SioProgrammed(wr1, v))
  <2>2. HasCpu(b)
    BY DEF HasCpu, MachineOf
  <2>3. m = [b EXCEPT !.ctc = k, !.cpu.IFF1 = TRUE]
    BY <2>1 DEF Started
  <2> HIDE DEF k, b
  <2>4. HasCpu(m)
    BY <2>2, <2>3 DEF HasCpu
  <2> QED
    BY <2>4 DEF DInit, Handling
<1>2. MaxNest >= 1 => (DSpec => []HandlerNotInterrupted)
  <2> SUFFICES ASSUME MaxNest >= 1  PROVE DSpec => []HandlerNotInterrupted
    OBVIOUS
  <2>1. Handling /\ [DNext]_dvars => Handling'
    <3>1. CASE UNCHANGED dvars
      BY <3>1 DEF dvars, Handling, HasCpu
    <3> QED
      BY <3>1, CpuStepHandling, LoopStepHandling DEF DNext
  <2>2. Handling => HandlerNotInterrupted
    BY DEF Handling, HandlerNotInterrupted
  <2> QED
    BY <1>1, <2>1, <2>2, PTL DEF DSpec
<1> QED
  BY <1>2
=============================================================================
