----------------------------- MODULE SioSystem -----------------------------
(***************************************************************************)
(* A Z80 SIO between its three callers, which run in any order: the main   *)
(* loop's sio_timer, the CPU's port reads and writes, and the interrupt    *)
(* logic's sio_check_im2 and sio_reti.                                     *)
(***************************************************************************)
EXTENDS Z80Sio

CONSTANTS
    Sender,     (* the channels whose device sends characters *)
    Driven,     (* the channels software touches while traffic runs *)
    Modem,      (* the channels whose carrier line moves *)
    Cmd,        (* the WR0 commands software uses *)
    Reg         (* the registers software rewrites while traffic runs *)

ASSUME UseAssumption ==
    /\ Sender \subseteq Chan /\ Driven \subseteq Chan /\ Modem \subseteq Chan
    /\ Cmd \subseteq Command /\ Reg \subseteq 1 .. 7

VARIABLE sio

vars == <<sio>>

\* Software has programmed the chip and no traffic has passed.
Programmed(wr1, rxen, v) ==
    [SioCreated EXCEPT
       !.chan = [c \in Chan |->
         [SioCreated.chan[c] EXCEPT !.wr1 = wr1[c], !.rxen = rxen[c],
                                    !.wr2 = IF c = "B" THEN v ELSE @,
                                    !.rr2 = IF c = "B" THEN v ELSE @]]]

\* A channel that software leaves alone stays as sio_create made it.
Init ==
    \E wr1 \in [Chan -> Mode \cup {WR1Off}], rxen \in [Chan -> BOOLEAN], v \in Vector :
        /\ \A c \in Chan \ Driven : wr1[c] = WR1Off /\ ~rxen[c]
        /\ sio = Programmed(wr1, rxen, v)

Timer ==
    \E ch \in [Chan -> Char \cup {NoChar}], txrdy \in [Chan -> BOOLEAN] :
        /\ \A c \in Chan : c \notin Sender => ch[c] = NoChar
        /\ sio' = sio_timer(sio, ch, txrdy)

SetDcd(c) == \E on \in BOOLEAN : sio' = sio_set_dcd(sio, c, on)

CheckIm2 == sio' = sio_check_im2(sio)

Reti == sio' = sio_reti(sio)

ReadCtl(c) == sio' = ReadControl(sio, c)

ReadDat(c) == sio' = ReadData(sio, c)

WriteDat(c) == sio' = WriteData(sio, c)

WriteCtl(c) ==
    LET r == sio.chan[c].reg
    IN  \/ /\ r = 0
           /\ \E cmd \in Cmd, reg \in Reg \cup {0} :
                  sio' = WriteCommand(sio, c, cmd, reg)
        \/ /\ r = 1
           /\ \E mode \in Mode : sio' = WriteMode(sio, c, mode)
        \/ /\ r = 2
           /\ \E v \in Vector : sio' = WriteVector(sio, c, v)
        \/ /\ r = 3
           /\ \E on \in BOOLEAN : sio' = WriteRxEnable(sio, c, on)
        \/ /\ r > 3
           /\ sio' = WriteUnused(sio, c)

Next ==
    \/ Timer
    \/ CheckIm2
    \/ Reti
    \/ \E c \in Modem : SetDcd(c)
    \/ \E c \in Driven : ReadCtl(c) \/ ReadDat(c) \/ WriteDat(c) \/ WriteCtl(c)

Spec == Init /\ [][Next]_vars

-----------------------------------------------------------------------------

\* Every field keeps the range its C type and the code's masks give it; in
\* particular dptr stays inside data[].
TypeOK == sio \in SioState

\* A receive or transmit interrupt that is pending still has its cause: an
\* unread character, or an empty transmitter (sio_raise_int is only called
\* with the cause set, and whatever removes the cause clears the bit).
PendingHasCause ==
    \A c \in Chan :
        /\ INT_RX \in sio.chan[c].intbits => sio.chan[c].dptr > 0
        /\ INT_TX \in sio.chan[c].intbits => sio.chan[c].txe

\* The "character available" bit of rr[0] never invites software to read an
\* empty FIFO.
AvailableMeansData ==
    \A c \in Chan : sio.chan[c].rx => sio.chan[c].dptr > 0

\* The characters software can still read from channel c, oldest first.
Contents(c) == [i \in 1 .. sio.chan[c].dptr |-> sio.chan[c].data[i - 1]]

FifoA == INSTANCE BoundedFifo WITH Item <- Char, Depth <- 2, queue <- Contents("A")
FifoB == INSTANCE BoundedFifo WITH Item <- Char, Depth <- 2, queue <- Contents("B")

\* Each channel's receiver is a two character FIFO: whatever software does to
\* the registers, including resets, what it holds changes only by a character put
\* behind the others while there is room, or by the oldest being read (sio_queue
\* and the data half of sio_read).  Which arrivals are put in it does not say.
ReceiverIsFifo == FifoA!Spec /\ FifoB!Spec

\* Once a channel is being serviced sio_check_im2 never replaces it by the other
\* channel.  (Its service may end early: sio_clear_int ends it too.)
ServiceNotPreempted ==
    [][sio.irqchan # NoChan => sio'.irqchan \in {sio.irqchan, NoChan}]_vars

\* Channel B is only serviced when channel A has nothing pending, although
\* the irq flags lag behind the pending bits until sio_recalc_interrupts.
ChannelAFirst ==
    [][sio.irqchan = NoChan /\ sio'.irqchan = "B" => sio.chan["A"].intbits = {}]_vars

\* What the comment above sio_queue promises: "The SIO replaces the last
\* character in the FIFO on an overrun".
OverrunReplacesLast ==
    [][\A c \in Chan, ch \in Char :
         /\ sio' = sio_timer(sio, [d \in Chan |-> IF d = c THEN ch ELSE NoChar],
                                  [d \in Chan |-> FALSE])
         /\ sio.chan[c].rxen /\ sio.chan[c].dptr = 2
         => sio'.chan[c].data[1] = ch]_vars

\* "sio[1].wr[2] is added when delivered": the vector of a receive interrupt
\* is the one sio_raise_int computed, placed in WR2 of channel B.
VectorIsRaisedPlusBase ==
    [][\A c \in Chan :
         /\ sio.irqchan = NoChan /\ sio'.irqchan = c
         /\ sio.chan["B"].wr1.sav /\ sio.chan[c].intbits = {INT_RX}
         => sio'.vector = StatusBase(sio.chan["B"].wr2) + RaisedVector(sio, c)]_vars

=============================================================================
