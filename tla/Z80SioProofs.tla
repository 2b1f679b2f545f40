---------------------------- MODULE Z80SioProofs ----------------------------
(***************************************************************************)
(* What the operators of Z80Sio do to a chip, for every value of the       *)
(* constants: they keep its types, and the effects below are all they have *)
(* on the fields the safety properties speak of.                           *)
(***************************************************************************)
EXTENDS Z80Sio, TLAPS

-----------------------------------------------------------------------------
(* Updates of one channel *)

(* A channel stays a channel when the functions of z80sio.c update it. *)

\* The pending bits, in sio_clear_int and sio_raise_int.
LEMMA UpdIntbits ==
    ASSUME NEW d \in ChanState, NEW bits \in SUBSET IntBits
    PROVE  [d EXCEPT !.intbits = bits] \in ChanState
  BY DEF ChanState

\* The irq flag, in sio_clear_int and sio_reti.
LEMMA UpdIrq ==
    ASSUME NEW d \in ChanState, NEW b \in BOOLEAN
    PROVE  [d EXCEPT !.irq = b] \in ChanState
  BY DEF ChanState

\* The irq flag and the vector, in sio_raise_int.
LEMMA UpdIrqVector ==
    ASSUME NEW d \in ChanState, NEW b \in BOOLEAN, NEW v \in Byte
    PROVE  [d EXCEPT !.irq = b, !.vector = v] \in ChanState
  BY DEF ChanState

\* The vector, in sio_check_im2_chan.
LEMMA UpdVector ==
    ASSUME NEW d \in ChanState, NEW v \in Byte
    PROVE  [d EXCEPT !.vector = v] \in ChanState
  BY DEF ChanState

\* The transmitter status, in sio_channel_timer and sio_write.
LEMMA UpdTxe ==
    ASSUME NEW d \in ChanState, NEW b \in BOOLEAN
    PROVE  [d EXCEPT !.txe = b] \in ChanState
  BY DEF ChanState

\* The carrier status, in sio_set_dcd.
LEMMA UpdDcd ==
    ASSUME NEW d \in ChanState, NEW b \in BOOLEAN
    PROVE  [d EXCEPT !.nodcd = b] \in ChanState
  BY DEF ChanState

\* The overrun flag, in the commands of sio_write.
LEMMA UpdOvr ==
    ASSUME NEW d \in ChanState, NEW b \in BOOLEAN
    PROVE  [d EXCEPT !.ovr = b] \in ChanState
  BY DEF ChanState

\* The register pointer, in sio_read and sio_write.
LEMMA UpdReg ==
    ASSUME NEW d \in ChanState, NEW r \in 0 .. 7
    PROVE  [d EXCEPT !.reg = r] \in ChanState
  BY DEF ChanState

\* WR1, in sio_write.
LEMMA UpdMode ==
    ASSUME NEW d \in ChanState, NEW r \in 0 .. 7, NEW mode \in WR1
    PROVE  [d EXCEPT !.reg = r, !.wr1 = mode] \in ChanState
  BY DEF ChanState

\* WR2 and its copy in RR2, in sio_write.
LEMMA UpdWr2 ==
    ASSUME NEW d \in ChanState, NEW r \in 0 .. 7, NEW v \in Byte, NEW w \in Byte
    PROVE  [d EXCEPT !.reg = r, !.wr2 = v, !.rr2 = w] \in ChanState
  BY DEF ChanState

\* WR3, in sio_write.
LEMMA UpdRxEnable ==
    ASSUME NEW d \in ChanState, NEW r \in 0 .. 7, NEW b \in BOOLEAN
    PROVE  [d EXCEPT !.reg = r, !.rxen = b] \in ChanState
  BY DEF ChanState

\* The overrun path of sio_queue.
LEMMA UpdOverrun ==
    ASSUME NEW d \in ChanState, NEW f \in [0 .. 2 -> Char], NEW b \in BOOLEAN
    PROVE  [d EXCEPT !.data = f, !.ovr = b] \in ChanState
  BY DEF ChanState

\* The FIFO and its status bit, in sio_queue and sio_read.
LEMMA UpdFifo ==
    ASSUME NEW d \in ChanState, NEW f \in [0 .. 2 -> Char], NEW n \in 0 .. 2, NEW b \in BOOLEAN
    PROVE  [d EXCEPT !.data = f, !.dptr = n, !.rx = b] \in ChanState
  BY DEF ChanState

\* The status registers, in sio_channel_reset.
LEMMA UpdReset ==
    ASSUME NEW d \in ChanState, NEW b \in BOOLEAN, NEW e \in BOOLEAN, NEW v \in Byte
    PROVE  [d EXCEPT !.rx = b, !.txe = e, !.nodcd = e, !.ovr = b, !.rr2 = v] \in ChanState
  BY DEF ChanState

-----------------------------------------------------------------------------
(* Interrupt bookkeeping *)

\* sio_clear_int keeps the types.
LEMMA ClearIntType ==
    ASSUME NEW s \in SioState, NEW c \in Chan, NEW bits \in SUBSET IntBits
    PROVE  sio_clear_int(s, c, bits) \in SioState
<1> DEFINE t == [s EXCEPT !.chan[c].intbits = @ \ bits]
           u == [t EXCEPT !.rr1int = FALSE, !.chan[c].irq = FALSE,
                          !.irqchan = IF @ = c THEN NoChan ELSE @]
<1>1. s.chan[c] \in ChanState /\ s.chan[c].intbits \ bits \in SUBSET IntBits
  BY DEF SioState, ChanState
<1>2. t \in SioState
  BY <1>1, UpdIntbits DEF SioState
<1>3. u \in SioState
  <2> HIDE DEF t
  <2> QED
    BY <1>2, UpdIrq DEF SioState
<1>4. sio_clear_int(s, c, bits) \in {t, u}
  BY DEF sio_clear_int
<1> QED
  BY <1>2, <1>3, <1>4

\* The raised vector is a byte.
LEMMA RaisedVectorType ==
    ASSUME NEW s, NEW c
    PROVE  RaisedVector(s, c) \in Byte
<1> DEFINE unit   == IF c = "A" THEN 8 ELSE 0
           source == IF INT_RX \in s.chan[c].intbits THEN 4
                     ELSE IF INT_ERR \in s.chan[c].intbits THEN 2 ELSE 0
<1>1. unit \in {0, 8} /\ source \in {0, 2, 4}
  OBVIOUS
<1>2. RaisedVector(s, c) \in {0, unit + source}
  BY DEF RaisedVector
<1> HIDE DEF unit, source
<1>3. unit + source \in 0 .. 255
  BY <1>1
<1> QED
  BY <1>2, <1>3 DEF Byte

\* sio_raise_int keeps the types.
LEMMA RaiseIntType ==
    ASSUME NEW s \in SioState, NEW c \in Chan, NEW bits \in SUBSET IntBits,
           NEW recalc \in BOOLEAN
    PROVE  sio_raise_int(s, c, bits, recalc) \in SioState
<1> DEFINE t == [s EXCEPT !.chan[c].intbits = @ \cup bits]
           v == RaisedVector(t, c)
           u == [t EXCEPT !.chan[c].irq = TRUE, !.chan[c].vector = v, !.rr1int = TRUE]
<1>1. s.chan[c] \in ChanState /\ s.chan[c].intbits \cup bits \in SUBSET IntBits
  BY DEF SioState, ChanState
<1>2. t \in SioState
  BY <1>1, UpdIntbits DEF SioState
<1>3. v \in Byte
  BY RaisedVectorType
<1>4. u \in SioState
  <2> HIDE DEF t, v
  <2> QED
    BY <1>2, <1>3, UpdIrqVector DEF SioState
<1>5. sio_raise_int(s, c, bits, recalc) \in {t, u}
  BY DEF sio_raise_int
<1> QED
  BY <1>2, <1>4, <1>5

\* sio_recalc_interrupts keeps the types.
LEMMA RecalcType ==
    ASSUME NEW s \in SioState
    PROVE  sio_recalc_interrupts(s) \in SioState
  BY RaiseIntType DEF sio_recalc_interrupts, Chan

\* A delivered vector is a byte: the status bits fit under the base.
LEMMA DeliveredVectorType ==
    ASSUME NEW s \in SioState, NEW c \in Chan
    PROVE  DeliveredVector(s, c) \in Byte
<1> DEFINE w == s.chan["B"].wr2
<1>1. w \in Byte
  BY DEF SioState, ChanState, Chan
<1>2. StatusBase(w) \in 0 .. 241
  <2> HIDE DEF w
  <2> QED
    BY <1>1 DEF StatusBase, Byte
<1> DEFINE rx  == IF INT_RX \in s.chan[c].intbits THEN 4 ELSE 0
           err == IF INT_ERR \in s.chan[c].intbits THEN 2 ELSE 0
<1>3. rx \in {0, 4} /\ err \in {0, 2}
  OBVIOUS
<1>4. DeliveredVector(s, c) \in {w, StatusBase(w) + rx + err}
  BY DEF DeliveredVector
<1> HIDE DEF w, rx, err
<1>5. StatusBase(w) + rx + err \in 0 .. 255
  BY <1>2, <1>3
<1> QED
  BY <1>1, <1>4, <1>5 DEF Byte

\* A delivery keeps the types.
LEMMA DeliverType ==
    ASSUME NEW s \in SioState, NEW c \in Chan
    PROVE  Deliver(s, c) \in SioState
<1> DEFINE v == DeliveredVector(s, c)
           t == [s EXCEPT !.chan[c].vector = v]
           u == sio_clear_int(t, c, {INT_TX})
<1>1. v \in Byte
  BY DeliveredVectorType
<1>2. t \in SioState
  <2> HIDE DEF v
  <2> QED
    BY <1>1, UpdVector DEF SioState
<1>3. u \in SioState
  BY <1>2, ClearIntType DEF IntBits
<1>4. [u EXCEPT !.vector = v, !.irqchan = c] \in SioState
  <2> HIDE DEF u, v
  <2> QED
    BY <1>1, <1>3 DEF SioState
<1> QED
  BY <1>4 DEF Deliver

\* sio_check_im2 keeps the types.
LEMMA CheckIm2Type ==
    ASSUME NEW s \in SioState
    PROVE  sio_check_im2(s) \in SioState
<1>1. sio_recalc_interrupts(s) \in SioState
  BY RecalcType
<1> QED
  BY <1>1, DeliverType DEF sio_check_im2, Chan

\* sio_reti keeps the types.
LEMMA RetiType ==
    ASSUME NEW s \in SioState
    PROVE  sio_reti(s) \in SioState
<1>1. CASE s.irqchan = NoChan
  BY <1>1 DEF sio_reti
<1>2. CASE s.irqchan # NoChan
  <2>1. s.irqchan \in Chan
    BY <1>2 DEF SioState
  <2>2. [s EXCEPT !.irqchan = NoChan, !.chan[s.irqchan].irq = FALSE] \in SioState
    BY <2>1, UpdIrq DEF SioState
  <2> QED
    BY <1>2, <2>2 DEF sio_reti
<1> QED
  BY <1>1, <1>2

-----------------------------------------------------------------------------
(* Receive and transmit *)

\* sio_queue keeps the types: dptr never passes the end of data[].
LEMMA QueueType ==
    ASSUME NEW s \in SioState, NEW c \in Chan, NEW ch \in Char
    PROVE  sio_queue(s, c, ch) \in SioState
<1> DEFINE ptr  == s.chan[c].dptr
           full == [s EXCEPT !.chan[c].data[2] = ch, !.chan[c].ovr = TRUE]
           more == [s EXCEPT !.chan[c].data[ptr] = ch, !.chan[c].dptr = ptr + 1,
                             !.chan[c].rx = TRUE]
<1>1. /\ s.chan[c] \in ChanState
      /\ ptr \in 0 .. 2
      /\ s.chan[c].data \in [0 .. 2 -> Char]
  BY DEF SioState, ChanState
<1>2. full \in SioState
  <2>1. [s.chan[c].data EXCEPT ![2] = ch] \in [0 .. 2 -> Char]
    BY <1>1
  <2> QED
    BY <1>1, <2>1, UpdOverrun DEF SioState
<1>3. ASSUME ptr # 2  PROVE more \in SioState
  <2>1. [s.chan[c].data EXCEPT ![ptr] = ch] \in [0 .. 2 -> Char] /\ ptr + 1 \in 0 .. 2
    BY <1>1, <1>3
  <2> HIDE DEF ptr
  <2> QED
    BY <1>1, <2>1, UpdFifo DEF SioState
<1>4. {INT_ERR} \in SUBSET IntBits /\ {INT_RX} \in SUBSET IntBits
  BY DEF IntBits
<1>5. sio_raise_int(full, c, {INT_ERR}, FALSE) \in SioState
  <2> HIDE DEF full
  <2> QED
    BY <1>2, <1>4, RaiseIntType
<1>6. ASSUME ptr # 2  PROVE sio_raise_int(more, c, {INT_RX}, FALSE) \in SioState
  <2>1. more \in SioState
    BY <1>3, <1>6
  <2> HIDE DEF more
  <2> QED
    BY <2>1, <1>4, RaiseIntType
<1> QED
  BY <1>3, <1>5, <1>6 DEF sio_queue

\* sio_channel_timer keeps the types.
LEMMA ChannelTimerType ==
    ASSUME NEW s \in SioState, NEW c \in Chan, NEW ch \in Char \cup {NoChar},
           NEW txrdy \in BOOLEAN
    PROVE  sio_channel_timer(s, c, ch, txrdy) \in SioState
<1> DEFINE t == IF ch = NoChar THEN s ELSE sio_queue(s, c, ch)
           u == [t EXCEPT !.chan[c].txe = TRUE]
<1>1. t \in SioState
  BY QueueType
<1>2. u \in SioState
  <2> HIDE DEF t
  <2> QED
    BY <1>1, UpdTxe DEF SioState
<1>3. sio_raise_int(u, c, {INT_TX}, FALSE) \in SioState
  <2> HIDE DEF u
  <2> QED
    BY <1>2, RaiseIntType DEF IntBits
<1>4. sio_channel_timer(s, c, ch, txrdy) \in {t, u, sio_raise_int(u, c, {INT_TX}, FALSE)}
  BY DEF sio_channel_timer
<1> QED
  BY <1>1, <1>2, <1>3, <1>4

\* sio_timer keeps the types.
LEMMA TimerType ==
    ASSUME NEW s \in SioState, NEW ch \in [Chan -> Char \cup {NoChar}],
           NEW txrdy \in [Chan -> BOOLEAN]
    PROVE  sio_timer(s, ch, txrdy) \in SioState
<1>1. "A" \in Chan /\ "B" \in Chan
  BY DEF Chan
<1>2. sio_channel_timer(s, "A", ch["A"], txrdy["A"]) \in SioState
  BY <1>1, ChannelTimerType
<1> QED
  BY <1>1, <1>2, ChannelTimerType DEF sio_timer

\* sio_channel_reset keeps the types.
LEMMA ChannelResetType ==
    ASSUME NEW s \in SioState, NEW c \in Chan
    PROVE  sio_channel_reset(s, c) \in SioState
<1> DEFINE t == [s EXCEPT !.chan[c].rx = FALSE, !.chan[c].txe = TRUE,
                          !.chan[c].nodcd = TRUE, !.chan[c].ovr = FALSE,
                          !.chan[c].rr2 = 0,
                          !.rr1int = IF c = "A" THEN FALSE ELSE @]
<1>1. 0 \in Byte
  BY DEF Byte
<1>2. t \in SioState
  <2> DEFINE r == IF c = "A" THEN FALSE ELSE s.rr1int
  <2>1. r \in BOOLEAN
    BY DEF SioState
  <2>2. [s.chan[c] EXCEPT !.rx = FALSE, !.txe = TRUE, !.nodcd = TRUE, !.ovr = FALSE, !.rr2 = 0]
          \in ChanState
    BY <1>1, UpdReset DEF SioState
  <2> HIDE DEF r
  <2>3. [s EXCEPT !.chan[c].rx = FALSE, !.chan[c].txe = TRUE, !.chan[c].nodcd = TRUE,
                  !.chan[c].ovr = FALSE, !.chan[c].rr2 = 0, !.rr1int = r] \in SioState
    BY ZenonT(60), <2>1, <2>2 DEF SioState
  <2> QED
    BY <2>3 DEF r
<1>3. sio_clear_int(t, c, IntBits) \in SioState
  <2> HIDE DEF t
  <2> QED
    BY <1>2, ClearIntType
<1> QED
  BY <1>3 DEF sio_channel_reset

\* sio_set_dcd keeps the types.
LEMMA SetDcdType ==
    ASSUME NEW s \in SioState, NEW c \in Chan, NEW on \in BOOLEAN
    PROVE  sio_set_dcd(s, c, on) \in SioState
<1> DEFINE t == [s EXCEPT !.chan[c].nodcd = ~on]
<1>1. (~on) \in BOOLEAN
  OBVIOUS
<1>2. t \in SioState
  <2> DEFINE off == ~on
  <2> HIDE DEF off
  <2>1. [s EXCEPT !.chan[c].nodcd = off] \in SioState
    BY <1>1, UpdDcd DEF SioState, off
  <2> QED
    BY <2>1 DEF off
<1>3. sio_raise_int(t, c, {INT_ERR}, FALSE) \in SioState
  <2> HIDE DEF t
  <2> QED
    BY <1>2, RaiseIntType DEF IntBits
<1> QED
  BY <1>2, <1>3 DEF sio_set_dcd

-----------------------------------------------------------------------------
(* The CPU's side *)

\* A data read keeps the types.
LEMMA ReadDataType ==
    ASSUME NEW s \in SioState, NEW c \in Chan
    PROVE  ReadData(s, c) \in SioState
<1> DEFINE d    == s.chan[c].data
           left == IF s.chan[c].dptr = 0 THEN 0 ELSE s.chan[c].dptr - 1
           f    == [d EXCEPT ![0] = d[1], ![1] = d[2]]
           b    == s.chan[c].rx /\ left # 0
           t    == [s EXCEPT !.chan[c].data = f, !.chan[c].dptr = left, !.chan[c].rx = b]
           u    == sio_clear_int(t, c, {INT_RX})
<1>1. s.chan[c] \in ChanState /\ d \in [0 .. 2 -> Char] /\ s.chan[c].dptr \in 0 .. 2
  BY DEF SioState, ChanState
<1>2. f \in [0 .. 2 -> Char] /\ left \in 0 .. 2 /\ b \in BOOLEAN
  BY <1>1
<1>3. t \in SioState
  <2> HIDE DEF f, left, b
  <2> QED
    BY <1>1, <1>2, UpdFifo DEF SioState
<1>4. u \in SioState
  <2> HIDE DEF t
  <2> QED
    BY <1>3, ClearIntType DEF IntBits
<1>5. sio_raise_int(u, c, {INT_RX}, FALSE) \in SioState
  <2> HIDE DEF u
  <2> QED
    BY <1>4, RaiseIntType DEF IntBits
<1>6. ReadData(s, c) \in {u, sio_raise_int(u, c, {INT_RX}, FALSE)}
  BY DEF ReadData
<1> QED
  BY <1>4, <1>5, <1>6

\* The other port accesses of sio_read and sio_write keep the types.
LEMMA PortTypes ==
    ASSUME NEW s \in SioState, NEW c \in Chan
    PROVE  /\ ReadControl(s, c) \in SioState
           /\ WriteData(s, c) \in SioState
           /\ \A mode \in WR1 : WriteMode(s, c, mode) \in SioState
           /\ \A v \in Byte : WriteVector(s, c, v) \in SioState
           /\ \A on \in BOOLEAN : WriteRxEnable(s, c, on) \in SioState
           /\ WriteUnused(s, c) \in SioState
<1>1. s.chan[c] \in ChanState /\ 0 \in 0 .. 7
  BY DEF SioState
<1>2. ReadControl(s, c) \in SioState /\ WriteUnused(s, c) \in SioState
  BY <1>1, UpdReg DEF ReadControl, WriteUnused, SioState
<1>3. WriteData(s, c) \in SioState
  <2> DEFINE t == [s EXCEPT !.chan[c].txe = FALSE]
  <2>1. t \in SioState
    BY <1>1, UpdTxe DEF SioState
  <2>2. sio_clear_int(t, c, {INT_TX}) \in SioState
    <3> HIDE DEF t
    <3> QED
      BY <2>1, ClearIntType DEF IntBits
  <2> QED
    BY <2>2 DEF WriteData
<1>4. \A mode \in WR1 : WriteMode(s, c, mode) \in SioState
  BY <1>1, UpdMode DEF WriteMode, SioState
<1>5. \A v \in Byte : WriteVector(s, c, v) \in SioState
  <2> TAKE v \in Byte
  <2> DEFINE w == IF c = "B" THEN v ELSE s.chan[c].rr2
  <2>1. w \in Byte
    BY <1>1 DEF ChanState
  <2> HIDE DEF w
  <2>2. [s EXCEPT !.chan[c].reg = 0, !.chan[c].wr2 = v, !.chan[c].rr2 = w] \in SioState
    BY <1>1, <2>1, UpdWr2 DEF SioState
  <2> QED
    BY <2>2 DEF WriteVector, w
<1>6. \A on \in BOOLEAN : WriteRxEnable(s, c, on) \in SioState
  BY <1>1, UpdRxEnable DEF WriteRxEnable, SioState
<1> QED
  BY <1>2, <1>3, <1>4, <1>5, <1>6

\* A WR0 command keeps the types.
LEMMA CommandType ==
    ASSUME NEW s \in SioState, NEW c \in Chan, NEW cmd \in Command, NEW reg \in 0 .. 7
    PROVE  WriteCommand(s, c, cmd, reg) \in SioState
<1> DEFINE t == [s EXCEPT !.chan[c].reg = reg]
           e == sio_clear_int(t, c, {INT_ERR})
           a == [t EXCEPT !.chan["A"].irq = FALSE, !.rr1int = FALSE]
<1>1. t \in SioState
  BY UpdReg DEF SioState
<1> HIDE DEF t
<1>2. {INT_ERR} \in SUBSET IntBits /\ {INT_TX} \in SUBSET IntBits /\ "A" \in Chan /\ "B" \in Chan
  BY DEF IntBits, Chan
<1>3. /\ e \in SioState
      /\ sio_clear_int(t, c, {INT_TX}) \in SioState
  BY <1>1, <1>2, ClearIntType
<1>4. [e EXCEPT !.chan[c].ovr = FALSE] \in SioState
  <2> HIDE DEF e
  <2> QED
    BY <1>3, UpdOvr DEF SioState
<1>5. [t EXCEPT !.chan[c].ovr = FALSE] \in SioState
  BY <1>1, UpdOvr DEF SioState
<1>6. sio_channel_reset(t, c) \in SioState
  BY <1>1, ChannelResetType
<1>7. a \in SioState
  BY <1>1, <1>2, UpdIrq DEF SioState
<1>8. sio_clear_int(sio_clear_int(a, "A", IntBits), "B", IntBits) \in SioState
  <2> HIDE DEF a
  <2>1. sio_clear_int(a, "A", IntBits) \in SioState
    BY <1>2, <1>7, ClearIntType
  <2> QED
    BY <1>2, <2>1, ClearIntType
<1> QED
  BY <1>1, <1>3, <1>4, <1>5, <1>6, <1>8 DEF WriteCommand, Command, t

-----------------------------------------------------------------------------
(* Effects on the pending bits and their causes *)

\* r has the receive and transmit status of s.
SameStatus(s, r) ==
    \A e \in Chan : /\ r.chan[e].dptr = s.chan[e].dptr
                    /\ r.chan[e].txe  = s.chan[e].txe
                    /\ r.chan[e].rx   = s.chan[e].rx

\* r has lost, or gained, the pending bits m of channel c, and no others.
Cleared(s, r, c, m) ==
    \A e \in Chan : r.chan[e].intbits = IF e = c THEN s.chan[e].intbits \ m
                                       ELSE s.chan[e].intbits

Raised(s, r, c, m) ==
    \A e \in Chan : r.chan[e].intbits = IF e = c THEN s.chan[e].intbits \cup m
                                       ELSE s.chan[e].intbits

\* r services the channel s services, or none.
KeepsService(s, r) == r.irqchan = s.irqchan \/ r.irqchan = NoChan

\* sio_clear_int removes pending bits of its channel, and may end a service.
LEMMA ClearIntEffect ==
    ASSUME NEW s \in SioState, NEW c \in Chan, NEW bits \in SUBSET IntBits,
           NEW r, r = sio_clear_int(s, c, bits)
    PROVE  SameStatus(s, r) /\ Cleared(s, r, c, bits) /\ KeepsService(s, r)
  BY ZenonT(60) DEF sio_clear_int, SameStatus, Cleared, KeepsService, SioState, ChanState

\* sio_raise_int adds pending bits to its channel, and starts no service.
LEMMA RaiseIntEffect ==
    ASSUME NEW s \in SioState, NEW c \in Chan, NEW bits \in SUBSET IntBits,
           NEW recalc \in BOOLEAN, NEW r, r = sio_raise_int(s, c, bits, recalc)
    PROVE  SameStatus(s, r) /\ Raised(s, r, c, bits) /\ r.irqchan = s.irqchan
  BY ZenonT(60) DEF sio_raise_int, SameStatus, Raised, SioState, ChanState

\* What PendingHasCause and AvailableMeansData say of channel d.
ChanSound(d) ==
    /\ INT_RX \in d.intbits => d.dptr > 0
    /\ INT_TX \in d.intbits => d.txe
    /\ d.rx => d.dptr > 0

Sound(s) == \A e \in Chan : ChanSound(s.chan[e])

\* Clearing interrupts keeps a chip sound.
LEMMA ClearIntSound ==
    ASSUME NEW s \in SioState, NEW c \in Chan, NEW bits \in SUBSET IntBits, Sound(s)
    PROVE  Sound(sio_clear_int(s, c, bits))
<1> DEFINE r == sio_clear_int(s, c, bits)
<1>1. r = sio_clear_int(s, c, bits)
  OBVIOUS
<1> HIDE DEF r
<1>2. SameStatus(s, r) /\ Cleared(s, r, c, bits)
  BY <1>1, ClearIntEffect
<1>3. Sound(r)
  BY <1>2 DEF Sound, ChanSound, SameStatus, Cleared
<1> QED
  BY <1>3 DEF r

\* Raising interrupts whose cause is there keeps a chip sound.
LEMMA RaiseIntSound ==
    ASSUME NEW s \in SioState, NEW c \in Chan, NEW bits \in SUBSET IntBits,
           NEW recalc \in BOOLEAN, Sound(s),
           INT_RX \in bits => s.chan[c].dptr > 0,
           INT_TX \in bits => s.chan[c].txe
    PROVE  Sound(sio_raise_int(s, c, bits, recalc))
<1> DEFINE r == sio_raise_int(s, c, bits, recalc)
<1>1. SameStatus(s, r) /\ Raised(s, r, c, bits)
  BY RaiseIntEffect
<1> HIDE DEF r
<1>2. Sound(r)
  BY <1>1 DEF Sound, ChanSound, SameStatus, Raised
<1> QED
  BY <1>2 DEF r

\* sio_check_im2 keeps a chip sound.
LEMMA CheckIm2Sound ==
    ASSUME NEW s \in SioState, Sound(s)
    PROVE  Sound(sio_check_im2(s))
<1> DEFINE r == sio_recalc_interrupts(s)
<1>1. r \in SioState
  BY RecalcType
<1>2. Sound(r)
  <2> DEFINE a == sio_raise_int(s, "A", {}, TRUE)
  <2>1. "A" \in Chan /\ "B" \in Chan /\ {} \in SUBSET IntBits
    BY DEF Chan
  <2>2. a \in SioState /\ Sound(a)
    BY <2>1, RaiseIntType, RaiseIntSound
  <2>3. Sound(sio_raise_int(a, "B", {}, TRUE))
    <3> HIDE DEF a
    <3> QED
      BY <2>1, <2>2, RaiseIntSound
  <2> QED
    BY <2>3 DEF sio_recalc_interrupts
<1> HIDE DEF r
<1>3. ASSUME NEW c \in Chan  PROVE Sound(Deliver(r, c))
  <2> DEFINE v == DeliveredVector(r, c)
             t == [r EXCEPT !.chan[c].vector = v]
             u == sio_clear_int(t, c, {INT_TX})
  <2>1. v \in Byte
    BY <1>1, DeliveredVectorType
  <2> HIDE DEF v
  <2>2. t \in SioState
    BY <1>1, <2>1, UpdVector DEF SioState
  <2>3. Sound(t)
    BY <1>1, <1>2 DEF Sound, ChanSound, SioState, ChanState
  <2>4. u \in SioState /\ Sound(u)
    <3> HIDE DEF t
    <3> QED
      BY <2>2, <2>3, ClearIntType, ClearIntSound DEF IntBits
  <2>5. Sound([u EXCEPT !.vector = v, !.irqchan = c])
    <3> HIDE DEF u
    <3> QED
      BY <2>4 DEF Sound, SioState
  <2> QED
    BY <2>5 DEF Deliver, v
<1> QED
  BY <1>2, <1>3 DEF sio_check_im2, r, Chan

\* A chip with the status and at most the pending bits of a sound one is sound.
LEMMA SoundFrom ==
    ASSUME NEW s, NEW r, Sound(s), SameStatus(s, r),
           \A e \in Chan : r.chan[e].intbits \subseteq s.chan[e].intbits
    PROVE  Sound(r)
  BY DEF Sound, ChanSound, SameStatus

\* The irq flag of a channel does not count.
LEMMA IrqSound ==
    ASSUME NEW s \in SioState, NEW c \in Chan, NEW b \in BOOLEAN, Sound(s)
    PROVE  Sound([s EXCEPT !.chan[c].irq = b])
<1> DEFINE r == [s EXCEPT !.chan[c].irq = b]
<1>1. SameStatus(s, r) /\ \A e \in Chan : r.chan[e].intbits = s.chan[e].intbits
  BY DEF SameStatus, SioState, ChanState
<1> HIDE DEF r
<1>2. Sound(r)
  BY <1>1, SoundFrom
<1> QED
  BY <1>2 DEF r

\* sio_reti keeps a chip sound.
LEMMA RetiSound ==
    ASSUME NEW s \in SioState, Sound(s)
    PROVE  Sound(sio_reti(s))
<1>1. CASE s.irqchan = NoChan
  BY <1>1 DEF sio_reti
<1>2. CASE s.irqchan # NoChan
  <2> DEFINE c == s.irqchan
             t == [s EXCEPT !.chan[c].irq = FALSE]
             r == [s EXCEPT !.irqchan = NoChan, !.chan[c].irq = FALSE]
  <2>1. c \in Chan
    BY <1>2 DEF SioState
  <2>2. Sound(t)
    BY <2>1, IrqSound
  <2>3. r.chan = t.chan
    BY DEF SioState
  <2>4. Sound(r)
    <3> HIDE DEF r, t
    <3> QED
      BY <2>2, <2>3 DEF Sound
  <2> QED
    BY <1>2, <2>4 DEF sio_reti
<1> QED
  BY <1>1, <1>2

\* sio_queue keeps a chip sound: it counts the character before it raises
\* the interrupt.
LEMMA QueueSound ==
    ASSUME NEW s \in SioState, NEW c \in Chan, NEW ch \in Char, Sound(s)
    PROVE  Sound(sio_queue(s, c, ch))
<1> DEFINE ptr  == s.chan[c].dptr
           full == [s EXCEPT !.chan[c].data[2] = ch, !.chan[c].ovr = TRUE]
           more == [s EXCEPT !.chan[c].data[ptr] = ch, !.chan[c].dptr = ptr + 1,
                             !.chan[c].rx = TRUE]
<1>1. /\ s.chan[c] \in ChanState
      /\ ptr \in 0 .. 2
      /\ s.chan[c].data \in [0 .. 2 -> Char]
  BY DEF SioState, ChanState
<1>2. full \in SioState /\ Sound(full)
  <2>1. [s.chan[c].data EXCEPT ![2] = ch] \in [0 .. 2 -> Char]
    BY <1>1
  <2>2. full \in SioState
    BY <1>1, <2>1, UpdOverrun DEF SioState
  <2>3. SameStatus(s, full) /\ \A e \in Chan : full.chan[e].intbits = s.chan[e].intbits
    BY <1>1 DEF SameStatus, SioState, ChanState
  <2>4. Sound(full)
    <3> HIDE DEF full
    <3> QED
      BY <2>3, SoundFrom
  <2> QED
    BY <2>2, <2>4
<1>3. ASSUME ptr # 2
      PROVE  more \in SioState /\ Sound(more) /\ more.chan[c].dptr > 0
  <2>1. [s.chan[c].data EXCEPT ![ptr] = ch] \in [0 .. 2 -> Char] /\ ptr + 1 \in 0 .. 2
    BY <1>1, <1>3
  <2> HIDE DEF ptr
  <2>2. more \in SioState
    BY <1>1, <2>1, UpdFifo DEF SioState
  <2>3. more.chan[c].dptr = ptr + 1 /\ ptr + 1 > 0
    BY <1>1, <2>1 DEF SioState, ChanState
  <2>4. \A e \in Chan \ {c} : more.chan[e] = s.chan[e]
    BY DEF SioState
  <2>5. more.chan[c].intbits = s.chan[c].intbits /\ more.chan[c].txe = s.chan[c].txe
    BY <1>1 DEF SioState, ChanState
  <2> HIDE DEF more
  <2>6. Sound(more)
    BY <2>3, <2>4, <2>5 DEF Sound, ChanSound
  <2> QED
    BY <2>2, <2>3, <2>6
<1>4. {INT_ERR} \in SUBSET IntBits /\ {INT_RX} \in SUBSET IntBits
  BY DEF IntBits
<1>5. Sound(sio_raise_int(full, c, {INT_ERR}, FALSE))
  <2> HIDE DEF full
  <2> QED
    BY <1>2, <1>4, RaiseIntSound DEF INT_ERR, INT_RX, INT_TX
<1>6. ASSUME ptr # 2  PROVE Sound(more) /\ Sound(sio_raise_int(more, c, {INT_RX}, FALSE))
  <2>1. more \in SioState /\ Sound(more) /\ more.chan[c].dptr > 0
    BY <1>3, <1>6
  <2> HIDE DEF more
  <2> QED
    BY <2>1, <1>4, RaiseIntSound DEF INT_RX, INT_TX
<1> QED
  BY <1>5, <1>6 DEF sio_queue

\* Setting the transmitter empty bit keeps a chip sound.
LEMMA TxeSound ==
    ASSUME NEW s \in SioState, NEW c \in Chan, NEW r,
           r = [s EXCEPT !.chan[c].txe = TRUE], Sound(s)
    PROVE  Sound(r) /\ r.chan[c].txe
<1>1. \A e \in Chan : /\ r.chan[e].dptr = s.chan[e].dptr
                      /\ r.chan[e].rx = s.chan[e].rx
                      /\ r.chan[e].intbits = s.chan[e].intbits
                      /\ r.chan[e].txe = IF e = c THEN TRUE ELSE s.chan[e].txe
  BY ZenonT(60) DEF SioState, ChanState
<1> QED
  BY <1>1 DEF Sound, ChanSound

\* The poll of one channel keeps a chip sound.
LEMMA ChannelTimerSound ==
    ASSUME NEW s \in SioState, NEW c \in Chan, NEW ch \in Char \cup {NoChar},
           NEW txrdy \in BOOLEAN, Sound(s)
    PROVE  Sound(sio_channel_timer(s, c, ch, txrdy))
<1> DEFINE t == IF ch = NoChar THEN s ELSE sio_queue(s, c, ch)
           u == [t EXCEPT !.chan[c].txe = TRUE]
<1>1. t \in SioState /\ Sound(t)
  BY QueueType, QueueSound
<1> HIDE DEF t
<1>2. u \in SioState
  BY <1>1, UpdTxe DEF SioState
<1>3. Sound(u) /\ u.chan[c].txe
  BY <1>1, TxeSound
<1>4. Sound(sio_raise_int(u, c, {INT_TX}, FALSE))
  <2> HIDE DEF u
  <2> QED
    BY <1>2, <1>3, RaiseIntSound DEF IntBits, INT_RX, INT_TX
<1> QED
  BY <1>1, <1>3, <1>4 DEF sio_channel_timer, t

\* sio_timer keeps a chip sound.
LEMMA TimerSound ==
    ASSUME NEW s \in SioState, NEW ch \in [Chan -> Char \cup {NoChar}],
           NEW txrdy \in [Chan -> BOOLEAN], Sound(s)
    PROVE  Sound(sio_timer(s, ch, txrdy))
<1> DEFINE t == sio_channel_timer(s, "A", ch["A"], txrdy["A"])
<1>1. "A" \in Chan /\ "B" \in Chan
  BY DEF Chan
<1>2. t \in SioState /\ Sound(t)
  BY <1>1, ChannelTimerType, ChannelTimerSound
<1> HIDE DEF t
<1>3. Sound(sio_channel_timer(t, "B", ch["B"], txrdy["B"]))
  BY <1>1, <1>2, ChannelTimerSound
<1> QED
  BY <1>3 DEF sio_timer, t

\* A channel reset keeps a chip sound, although the FIFO keeps its characters.
LEMMA ChannelResetSound ==
    ASSUME NEW s \in SioState, NEW c \in Chan, Sound(s)
    PROVE  Sound(sio_channel_reset(s, c))
<1> DEFINE b == IF c = "A" THEN FALSE ELSE s.rr1int
           t == [s EXCEPT !.chan[c].rx = FALSE, !.chan[c].txe = TRUE,
                          !.chan[c].nodcd = TRUE, !.chan[c].ovr = FALSE,
                          !.chan[c].rr2 = 0, !.rr1int = b]
<1>0. b \in BOOLEAN /\ 0 \in Byte
  <2>1. s.rr1int \in BOOLEAN /\ 0 \in Byte
    BY DEF SioState, Byte
  <2> QED
    BY <2>1
<1> HIDE DEF b
<1>1. t \in SioState
  <2>1. [s.chan[c] EXCEPT !.rx = FALSE, !.txe = TRUE, !.nodcd = TRUE, !.ovr = FALSE, !.rr2 = 0]
          \in ChanState
    BY <1>0, UpdReset DEF SioState
  <2> QED
    BY ZenonT(60), <1>0, <2>1 DEF SioState
<1>2. /\ t.chan[c].dptr = s.chan[c].dptr
      /\ t.chan[c].intbits = s.chan[c].intbits
      /\ t.chan[c].txe
      /\ ~t.chan[c].rx
  BY DEF SioState, ChanState
<1>2a. \A e \in Chan \ {c} : t.chan[e] = s.chan[e]
  BY DEF SioState
<1> HIDE DEF t
<1>3. Sound(t)
  BY <1>2, <1>2a DEF Sound, ChanSound
<1>4. Sound(sio_clear_int(t, c, IntBits))
  BY <1>1, <1>3, ClearIntSound
<1> QED
  BY <1>4 DEF sio_channel_reset, t, b

\* A carrier change keeps a chip sound.
LEMMA SetDcdSound ==
    ASSUME NEW s \in SioState, NEW c \in Chan, NEW on \in BOOLEAN, Sound(s)
    PROVE  Sound(sio_set_dcd(s, c, on))
<1> DEFINE n == ~on
           t == [s EXCEPT !.chan[c].nodcd = n]
<1>1. n \in BOOLEAN
  OBVIOUS
<1> HIDE DEF n
<1>2. t \in SioState
  BY <1>1, UpdDcd DEF SioState
<1>3. SameStatus(s, t) /\ \A e \in Chan : t.chan[e].intbits = s.chan[e].intbits
  BY DEF SameStatus, SioState, ChanState
<1> HIDE DEF t
<1>4. Sound(t)
  BY <1>3, SoundFrom
<1>5. Sound(sio_raise_int(t, c, {INT_ERR}, FALSE))
  BY <1>2, <1>4, RaiseIntSound DEF IntBits, INT_ERR, INT_RX, INT_TX
<1> QED
  BY <1>4, <1>5 DEF sio_set_dcd, t, n

\* A data read keeps a chip sound: the interrupt it leaves pending or raises
\* again is for a character that is still there.
LEMMA ReadDataSound ==
    ASSUME NEW s \in SioState, NEW c \in Chan, Sound(s)
    PROVE  Sound(ReadData(s, c))
<1> DEFINE d    == s.chan[c].data
           left == IF s.chan[c].dptr = 0 THEN 0 ELSE s.chan[c].dptr - 1
           f    == [d EXCEPT ![0] = d[1], ![1] = d[2]]
           b    == s.chan[c].rx /\ left # 0
           t    == [s EXCEPT !.chan[c].data = f, !.chan[c].dptr = left, !.chan[c].rx = b]
           u    == sio_clear_int(t, c, {INT_RX})
<1>1. s.chan[c] \in ChanState /\ d \in [0 .. 2 -> Char] /\ s.chan[c].dptr \in 0 .. 2
  BY DEF SioState, ChanState
<1>2. /\ f \in [0 .. 2 -> Char] /\ left \in 0 .. 2 /\ b \in BOOLEAN
      /\ b => left > 0
  BY <1>1
<1>3. t \in SioState
  <2> HIDE DEF f, left, b
  <2> QED
    BY <1>1, <1>2, UpdFifo DEF SioState
<1>4. /\ t.chan[c].dptr = left
      /\ t.chan[c].rx => left > 0
      /\ t.chan[c].txe = s.chan[c].txe
      /\ t.chan[c].intbits = s.chan[c].intbits
      /\ \A e \in Chan \ {c} : t.chan[e] = s.chan[e]
  <2> HIDE DEF f, left, b
  <2>1. \A e \in Chan \ {c} : t.chan[e] = s.chan[e]
    BY DEF SioState
  <2>2. /\ t.chan[c].dptr = left
        /\ t.chan[c].rx = b
        /\ t.chan[c].txe = s.chan[c].txe
        /\ t.chan[c].intbits = s.chan[c].intbits
    BY DEF SioState, ChanState
  <2> QED
    BY <1>2, <2>1, <2>2
<1> HIDE DEF t
<1>5. u \in SioState
  BY <1>3, ClearIntType DEF IntBits
<1>6. SameStatus(t, u) /\ Cleared(t, u, c, {INT_RX})
  <2> DEFINE m == {INT_RX}
  <2>1. u = sio_clear_int(t, c, m) /\ m \in SUBSET IntBits
    BY DEF IntBits
  <2> HIDE DEF u, m
  <2>2. SameStatus(t, u) /\ Cleared(t, u, c, m)
    BY <1>3, <2>1, ClearIntEffect
  <2> QED
    BY <2>2 DEF m
<1> HIDE DEF u, left, b, f
<1>7. Sound(u) /\ u.chan[c].dptr = left
  BY ZenonT(60), <1>2, <1>4, <1>6 DEF Sound, ChanSound, SameStatus, Cleared
<1>8. ASSUME left # 0  PROVE Sound(sio_raise_int(u, c, {INT_RX}, FALSE))
  <2>1. u.chan[c].dptr > 0
    BY <1>2, <1>7, <1>8
  <2> QED
    BY <1>5, <1>7, <2>1, RaiseIntSound DEF IntBits, INT_RX, INT_TX
<1> QED
  BY <1>7, <1>8 DEF ReadData, u, t, left, b, f

\* Writing a character takes the transmit interrupt away with its cause.
LEMMA WriteDataSound ==
    ASSUME NEW s \in SioState, NEW c \in Chan, Sound(s)
    PROVE  Sound(WriteData(s, c))
<1> DEFINE t == [s EXCEPT !.chan[c].txe = FALSE]
           u == sio_clear_int(t, c, {INT_TX})
<1>1. t \in SioState
  BY UpdTxe DEF SioState
<1>2. /\ t.chan[c].dptr = s.chan[c].dptr
      /\ t.chan[c].rx = s.chan[c].rx
      /\ t.chan[c].intbits = s.chan[c].intbits
      /\ \A e \in Chan \ {c} : t.chan[e] = s.chan[e]
  BY DEF SioState, ChanState
<1> HIDE DEF t
<1>3. SameStatus(t, u) /\ Cleared(t, u, c, {INT_TX})
  <2> DEFINE m == {INT_TX}
  <2>1. u = sio_clear_int(t, c, m) /\ m \in SUBSET IntBits
    BY DEF IntBits
  <2> HIDE DEF u, m
  <2>2. SameStatus(t, u) /\ Cleared(t, u, c, m)
    BY <1>1, <2>1, ClearIntEffect
  <2> QED
    BY <2>2 DEF m
<1> HIDE DEF u
<1>4. Sound(u)
  BY ZenonT(60), <1>2, <1>3 DEF Sound, ChanSound, SameStatus, Cleared
<1> QED
  BY <1>4 DEF WriteData, u, t

\* r has the status, the pending bits and the service of s.
Quiet(s, r) ==
    /\ SameStatus(s, r)
    /\ \A e \in Chan : r.chan[e].intbits = s.chan[e].intbits
    /\ r.irqchan = s.irqchan

LEMMA QuietSound ==
    ASSUME NEW s, NEW r, Sound(s), Quiet(s, r)
    PROVE  Sound(r)
  BY DEF Sound, ChanSound, SameStatus, Quiet

\* Programming a register changes neither status nor pending bits.
LEMMA PortsQuiet ==
    ASSUME NEW s \in SioState, NEW c \in Chan
    PROVE  /\ Quiet(s, ReadControl(s, c))
           /\ Quiet(s, WriteUnused(s, c))
           /\ \A mode \in WR1 : Quiet(s, WriteMode(s, c, mode))
           /\ \A v \in Byte : Quiet(s, WriteVector(s, c, v))
           /\ \A on \in BOOLEAN : Quiet(s, WriteRxEnable(s, c, on))
<1>1. Quiet(s, ReadControl(s, c)) /\ Quiet(s, WriteUnused(s, c))
  BY DEF Quiet, SameStatus, ReadControl, WriteUnused, SioState, ChanState
<1>2. \A mode \in WR1 : Quiet(s, WriteMode(s, c, mode))
  BY DEF Quiet, SameStatus, WriteMode, SioState, ChanState
<1>3. \A v \in Byte : Quiet(s, WriteVector(s, c, v))
  BY DEF Quiet, SameStatus, WriteVector, SioState, ChanState
<1>4. \A on \in BOOLEAN : Quiet(s, WriteRxEnable(s, c, on))
  BY DEF Quiet, SameStatus, WriteRxEnable, SioState, ChanState
<1> QED
  BY <1>1, <1>2, <1>3, <1>4

\* So do the register pointer, the overrun flag and the irq flags.
LEMMA FlagsQuiet ==
    ASSUME NEW s \in SioState, NEW c \in Chan
    PROVE  /\ \A reg \in 0 .. 7 : Quiet(s, [s EXCEPT !.chan[c].reg = reg])
           /\ Quiet(s, [s EXCEPT !.chan[c].ovr = FALSE])
           /\ Quiet(s, [s EXCEPT !.chan[c].irq = FALSE, !.rr1int = FALSE])
<1>1. \A reg \in 0 .. 7 : Quiet(s, [s EXCEPT !.chan[c].reg = reg])
  BY DEF Quiet, SameStatus, SioState, ChanState
<1>2. Quiet(s, [s EXCEPT !.chan[c].ovr = FALSE])
  BY DEF Quiet, SameStatus, SioState, ChanState
<1>3. Quiet(s, [s EXCEPT !.chan[c].irq = FALSE, !.rr1int = FALSE])
  BY DEF Quiet, SameStatus, SioState, ChanState
<1> QED
  BY <1>1, <1>2, <1>3

\* A WR0 command keeps a chip sound.
LEMMA CommandSound ==
    ASSUME NEW s \in SioState, NEW c \in Chan, NEW cmd \in Command, NEW reg \in 0 .. 7,
           Sound(s)
    PROVE  Sound(WriteCommand(s, c, cmd, reg))
<1> DEFINE t == [s EXCEPT !.chan[c].reg = reg]
           e == sio_clear_int(t, c, {INT_ERR})
           a == [t EXCEPT !.chan["A"].irq = FALSE, !.rr1int = FALSE]
           o == [e EXCEPT !.chan[c].ovr = FALSE]
           p == [t EXCEPT !.chan[c].ovr = FALSE]
           f == sio_clear_int(a, "A", IntBits)
<1>1. t \in SioState /\ Sound(t)
  <2>1. t \in SioState
    BY UpdReg DEF SioState
  <2>2. Quiet(s, t)
    BY FlagsQuiet
  <2> HIDE DEF t
  <2> QED
    BY <2>1, <2>2, QuietSound
<1> HIDE DEF t
<1>2. {INT_ERR} \in SUBSET IntBits /\ {INT_TX} \in SUBSET IntBits /\ "A" \in Chan /\ "B" \in Chan
  BY DEF IntBits, Chan
<1>3. /\ e \in SioState /\ Sound(e)
      /\ Sound(sio_clear_int(t, c, {INT_TX}))
  BY <1>1, <1>2, ClearIntType, ClearIntSound
<1>4. Sound(o)
  <2> HIDE DEF e
  <2>1. Quiet(e, o)
    BY <1>3, FlagsQuiet
  <2> HIDE DEF o
  <2> QED
    BY <1>3, <2>1, QuietSound
<1>5. Sound(p)
  <2>1. Quiet(t, p)
    BY <1>1, FlagsQuiet
  <2> HIDE DEF p
  <2> QED
    BY <1>1, <2>1, QuietSound
<1>6. Sound(sio_channel_reset(t, c))
  BY <1>1, ChannelResetSound
<1>7. a \in SioState /\ Sound(a)
  <2>1. a \in SioState
    BY <1>1, <1>2, UpdIrq DEF SioState
  <2>2. Quiet(t, a)
    BY <1>1, <1>2, FlagsQuiet
  <2> HIDE DEF a
  <2> QED
    BY <1>1, <2>1, <2>2, QuietSound
<1>8. f \in SioState /\ Sound(f)
  <2> HIDE DEF a
  <2> QED
    BY <1>2, <1>7, ClearIntType, ClearIntSound
<1>9. Sound(sio_clear_int(f, "B", IntBits))
  <2> HIDE DEF f
  <2> QED
    BY <1>2, <1>8, ClearIntSound
<1> QED
  BY <1>1, <1>3, <1>4, <1>5, <1>6, <1>9 DEF WriteCommand, Command, t

\* The chip sio_create makes.
LEMMA CreatedType == SioCreated \in SioState /\ SioCreated.irqchan = NoChan
<1> DEFINE z == [chan |-> [c \in Chan |->
                   [reg |-> 0, wr1 |-> WR1Off, wr2 |-> 0, rxen |-> FALSE,
                    rx |-> FALSE, txe |-> FALSE, nodcd |-> FALSE, ovr |-> FALSE,
                    rr2 |-> 0, data |-> [i \in 0 .. 2 |-> 0], dptr |-> 0,
                    irq |-> FALSE, intbits |-> {}, vector |-> 0]],
                 irqchan |-> NoChan, vector |-> 0, rr1int |-> FALSE]
           p == sio_channel_reset(z, "A")
           q == sio_channel_reset(p, "B")
           r == [q EXCEPT !.irqchan = NoChan]
<1>1. z \in SioState
  BY CharAssumption DEF SioState, ChanState, WR1Off, WR1, Byte
<1>2. p \in SioState
  <2> HIDE DEF z
  <2> QED
    BY <1>1, ChannelResetType DEF Chan
<1>3. q \in SioState
  <2> HIDE DEF p
  <2> QED
    BY <1>2, ChannelResetType DEF Chan
<1>4. r \in SioState /\ r.irqchan = NoChan
  <2> HIDE DEF q
  <2> QED
    BY <1>3 DEF SioState
<1>5. SioCreated = r
  BY DEF SioCreated, sio_reset
<1> HIDE DEF r
<1> QED
  BY <1>4, <1>5

\* It has nothing pending.
LEMMA CreatedSound == Sound(SioCreated)
<1> DEFINE z == [chan |-> [c \in Chan |->
                   [reg |-> 0, wr1 |-> WR1Off, wr2 |-> 0, rxen |-> FALSE,
                    rx |-> FALSE, txe |-> FALSE, nodcd |-> FALSE, ovr |-> FALSE,
                    rr2 |-> 0, data |-> [i \in 0 .. 2 |-> 0], dptr |-> 0,
                    irq |-> FALSE, intbits |-> {}, vector |-> 0]],
                 irqchan |-> NoChan, vector |-> 0, rr1int |-> FALSE]
           p == sio_channel_reset(z, "A")
           q == sio_channel_reset(p, "B")
           r == [q EXCEPT !.irqchan = NoChan]
<1>1. z \in SioState
  BY CharAssumption DEF SioState, ChanState, WR1Off, WR1, Byte
<1>2. Sound(z)
  BY DEF Sound, ChanSound
<1>3. p \in SioState /\ Sound(p)
  <2> HIDE DEF z
  <2> QED
    BY <1>1, <1>2, ChannelResetType, ChannelResetSound DEF Chan
<1>4. q \in SioState /\ Sound(q)
  <2> HIDE DEF p
  <2> QED
    BY <1>3, ChannelResetType, ChannelResetSound DEF Chan
<1>5. Sound(r)
  <2> HIDE DEF q
  <2> QED
    BY <1>4 DEF SioState, Sound
<1>6. SioCreated = r
  BY DEF SioCreated, sio_reset
<1> HIDE DEF r
<1> QED
  BY <1>5, <1>6

-----------------------------------------------------------------------------
(* Who is in service *)

\* sio_clear_int and sio_raise_int start no service.
LEMMA ClearRaiseKeep ==
    ASSUME NEW s \in SioState, NEW c \in Chan, NEW bits \in SUBSET IntBits,
           NEW recalc \in BOOLEAN
    PROVE  /\ KeepsService(s, sio_clear_int(s, c, bits))
           /\ KeepsService(s, sio_raise_int(s, c, bits, recalc))
           /\ sio_raise_int(s, c, bits, recalc).irqchan = s.irqchan
  BY ClearIntEffect, RaiseIntEffect DEF KeepsService

\* sio_check_im2 starts a service exactly when it returns a vector.
LEMMA CheckIm2Service ==
    ASSUME NEW s \in SioState
    PROVE  /\ Delivers(s) => s.irqchan = NoChan
           /\ ~Delivers(s) => sio_check_im2(s).irqchan = s.irqchan
<1> DEFINE a == sio_raise_int(s, "A", {}, TRUE)
           r == sio_raise_int(a, "B", {}, TRUE)
<1>1. "A" \in Chan /\ "B" \in Chan /\ {} \in SUBSET IntBits
  BY DEF Chan
<1>2. a \in SioState /\ a.irqchan = s.irqchan
  BY <1>1, RaiseIntType, ClearRaiseKeep
<1>3. r.irqchan = s.irqchan
  <2> HIDE DEF a
  <2> QED
    BY <1>1, <1>2, ClearRaiseKeep
<1>4. sio_recalc_interrupts(s) = r
  BY DEF sio_recalc_interrupts
<1> HIDE DEF r
<1> QED
  BY <1>3, <1>4 DEF Delivers, sio_check_im2

\* A RETI ends whatever service the chip has.
LEMMA RetiService ==
    ASSUME NEW s \in SioState
    PROVE  sio_reti(s).irqchan = NoChan
  BY DEF sio_reti, SioState

\* The receiver and the transmitter start no service.
LEMMA TimerKeeps ==
    ASSUME NEW s \in SioState, NEW ch \in [Chan -> Char \cup {NoChar}],
           NEW txrdy \in [Chan -> BOOLEAN]
    PROVE  KeepsService(s, sio_timer(s, ch, txrdy))
<1>1. ASSUME NEW q \in SioState, NEW c \in Chan, NEW x \in Char
      PROVE  sio_queue(q, c, x).irqchan = q.irqchan
  <2> DEFINE ptr  == q.chan[c].dptr
             full == [q EXCEPT !.chan[c].data[2] = x, !.chan[c].ovr = TRUE]
             more == [q EXCEPT !.chan[c].data[ptr] = x, !.chan[c].dptr = ptr + 1,
                               !.chan[c].rx = TRUE]
  <2>1. /\ q.chan[c] \in ChanState
        /\ ptr \in 0 .. 2
        /\ q.chan[c].data \in [0 .. 2 -> Char]
    BY DEF SioState, ChanState
  <2>2. full \in SioState /\ full.irqchan = q.irqchan
    <3>1. [q.chan[c].data EXCEPT ![2] = x] \in [0 .. 2 -> Char]
      BY <2>1
    <3> QED
      BY <2>1, <3>1, UpdOverrun DEF SioState
  <2>3. ASSUME ptr # 2  PROVE more \in SioState /\ more.irqchan = q.irqchan
    <3>1. [q.chan[c].data EXCEPT ![ptr] = x] \in [0 .. 2 -> Char] /\ ptr + 1 \in 0 .. 2
      BY <2>1, <2>3
    <3> HIDE DEF ptr
    <3> QED
      BY <2>1, <3>1, UpdFifo DEF SioState
  <2>4. sio_raise_int(full, c, {INT_ERR}, FALSE).irqchan = q.irqchan
    <3> HIDE DEF full
    <3> QED
      BY <2>2, ClearRaiseKeep DEF IntBits
  <2>5. ASSUME ptr # 2  PROVE sio_raise_int(more, c, {INT_RX}, FALSE).irqchan = q.irqchan
    <3>1. more \in SioState /\ more.irqchan = q.irqchan
      BY <2>3, <2>5
    <3> HIDE DEF more
    <3> QED
      BY <3>1, ClearRaiseKeep DEF IntBits
  <2> QED
    BY <2>3, <2>4, <2>5 DEF sio_queue
<1>2. ASSUME NEW q \in SioState, NEW c \in Chan, NEW x \in Char \cup {NoChar},
             NEW b \in BOOLEAN
      PROVE  sio_channel_timer(q, c, x, b).irqchan = q.irqchan
  <2> DEFINE t == IF x = NoChar THEN q ELSE sio_queue(q, c, x)
             u == [t EXCEPT !.chan[c].txe = TRUE]
  <2>1. t \in SioState /\ t.irqchan = q.irqchan
    BY <1>1, QueueType
  <2> HIDE DEF t
  <2>2. u \in SioState /\ u.irqchan = t.irqchan
    BY <2>1, UpdTxe DEF SioState
  <2>3. sio_raise_int(u, c, {INT_TX}, FALSE).irqchan = u.irqchan
    <3> HIDE DEF u
    <3> QED
      BY <2>2, ClearRaiseKeep DEF IntBits
  <2>4. sio_channel_timer(q, c, x, b) \in {t, u, sio_raise_int(u, c, {INT_TX}, FALSE)}
    BY DEF sio_channel_timer, t
  <2> QED
    BY <2>1, <2>2, <2>3, <2>4
<1> DEFINE a == sio_channel_timer(s, "A", ch["A"], txrdy["A"])
<1>3. "A" \in Chan /\ "B" \in Chan
  BY DEF Chan
<1>4. a \in SioState /\ a.irqchan = s.irqchan
  BY <1>2, <1>3, ChannelTimerType
<1> HIDE DEF a
<1>5. sio_channel_timer(a, "B", ch["B"], txrdy["B"]).irqchan = s.irqchan
  BY <1>2, <1>3, <1>4
<1> QED
  BY <1>5 DEF sio_timer, a, KeepsService

\* Nor does a carrier change.
LEMMA SetDcdKeeps ==
    ASSUME NEW s \in SioState, NEW c \in Chan, NEW on \in BOOLEAN
    PROVE  KeepsService(s, sio_set_dcd(s, c, on))
<1> DEFINE n == ~on
           t == [s EXCEPT !.chan[c].nodcd = n]
<1>1. n \in BOOLEAN
  OBVIOUS
<1> HIDE DEF n
<1>2. t \in SioState /\ t.irqchan = s.irqchan
  BY <1>1, UpdDcd DEF SioState
<1> HIDE DEF t
<1>3. sio_raise_int(t, c, {INT_ERR}, FALSE).irqchan = t.irqchan
  BY <1>2, ClearRaiseKeep DEF IntBits
<1> QED
  BY <1>2, <1>3 DEF sio_set_dcd, t, n, KeepsService

\* Neither do data reads and writes.
LEMMA DataKeeps ==
    ASSUME NEW s \in SioState, NEW c \in Chan
    PROVE  KeepsService(s, ReadData(s, c)) /\ KeepsService(s, WriteData(s, c))
<1>1. KeepsService(s, ReadData(s, c))
  <2> DEFINE d    == s.chan[c].data
             left == IF s.chan[c].dptr = 0 THEN 0 ELSE s.chan[c].dptr - 1
             f    == [d EXCEPT ![0] = d[1], ![1] = d[2]]
             b    == s.chan[c].rx /\ left # 0
             t    == [s EXCEPT !.chan[c].data = f, !.chan[c].dptr = left, !.chan[c].rx = b]
             u    == sio_clear_int(t, c, {INT_RX})
             w    == sio_raise_int(u, c, {INT_RX}, FALSE)
  <2>1. s.chan[c] \in ChanState /\ d \in [0 .. 2 -> Char] /\ s.chan[c].dptr \in 0 .. 2
    BY DEF SioState, ChanState
  <2>2. f \in [0 .. 2 -> Char] /\ left \in 0 .. 2 /\ b \in BOOLEAN
    BY <2>1
  <2>3. t \in SioState /\ t.irqchan = s.irqchan
    <3> HIDE DEF f, left, b
    <3> QED
      BY <2>1, <2>2, UpdFifo DEF SioState
  <2>4. u \in SioState /\ KeepsService(t, u)
    <3> HIDE DEF t
    <3> QED
      BY <2>3, ClearIntType, ClearRaiseKeep DEF IntBits
  <2>5. w.irqchan = u.irqchan
    <3> HIDE DEF u
    <3> QED
      BY <2>4, ClearRaiseKeep DEF IntBits
  <2>6. ReadData(s, c) \in {u, w}
    BY DEF ReadData
  <2> HIDE DEF u, w, t
  <2> QED
    BY <2>3, <2>4, <2>5, <2>6 DEF KeepsService
<1>2. KeepsService(s, WriteData(s, c))
  <2> DEFINE t == [s EXCEPT !.chan[c].txe = FALSE]
  <2>1. t \in SioState /\ t.irqchan = s.irqchan
    BY UpdTxe DEF SioState
  <2>2. KeepsService(t, sio_clear_int(t, c, {INT_TX}))
    <3> HIDE DEF t
    <3> QED
      BY <2>1, ClearRaiseKeep DEF IntBits
  <2> QED
    BY <2>1, <2>2 DEF WriteData, KeepsService
<1> QED
  BY <1>1, <1>2

\* A channel reset may end a service.
LEMMA ChannelResetKeeps ==
    ASSUME NEW s \in SioState, NEW c \in Chan
    PROVE  KeepsService(s, sio_channel_reset(s, c))
<1> DEFINE b == IF c = "A" THEN FALSE ELSE s.rr1int
           t == [s EXCEPT !.chan[c].rx = FALSE, !.chan[c].txe = TRUE,
                          !.chan[c].nodcd = TRUE, !.chan[c].ovr = FALSE,
                          !.chan[c].rr2 = 0, !.rr1int = b]
<1>0. b \in BOOLEAN /\ 0 \in Byte
  <2>1. s.rr1int \in BOOLEAN /\ 0 \in Byte
    BY DEF SioState, Byte
  <2> QED
    BY <2>1
<1> HIDE DEF b
<1>1. t \in SioState
  <2>1. [s.chan[c] EXCEPT !.rx = FALSE, !.txe = TRUE, !.nodcd = TRUE, !.ovr = FALSE, !.rr2 = 0]
          \in ChanState
    BY <1>0, UpdReset DEF SioState
  <2> QED
    BY ZenonT(60), <1>0, <2>1 DEF SioState
<1>2. t.irqchan = s.irqchan
  BY DEF SioState
<1> HIDE DEF t
<1>3. KeepsService(t, sio_clear_int(t, c, IntBits))
  BY <1>1, ClearRaiseKeep
<1> QED
  BY <1>2, <1>3 DEF sio_channel_reset, t, b, KeepsService

\* Nor do the WR0 commands: the channel reset and the chip's own return from
\* interrupt only end one.
LEMMA CommandKeeps ==
    ASSUME NEW s \in SioState, NEW c \in Chan, NEW cmd \in Command, NEW reg \in 0 .. 7
    PROVE  KeepsService(s, WriteCommand(s, c, cmd, reg))
<1> DEFINE t == [s EXCEPT !.chan[c].reg = reg]
           e == sio_clear_int(t, c, {INT_ERR})
           a == [t EXCEPT !.chan["A"].irq = FALSE, !.rr1int = FALSE]
           o == [e EXCEPT !.chan[c].ovr = FALSE]
           p == [t EXCEPT !.chan[c].ovr = FALSE]
           f == sio_clear_int(a, "A", IntBits)
<1>1. t \in SioState /\ t.irqchan = s.irqchan
  BY UpdReg DEF SioState
<1> HIDE DEF t
<1>2. {INT_ERR} \in SUBSET IntBits /\ {INT_TX} \in SUBSET IntBits /\ "A" \in Chan /\ "B" \in Chan
  BY DEF IntBits, Chan
<1>3. KeepsService(t, e) /\ e \in SioState /\ KeepsService(t, sio_clear_int(t, c, {INT_TX}))
  BY <1>1, <1>2, ClearRaiseKeep, ClearIntType
<1>4. KeepsService(t, o)
  <2> HIDE DEF e
  <2>1. o.irqchan = e.irqchan
    BY <1>3 DEF SioState
  <2> QED
    BY <1>3, <2>1 DEF KeepsService
<1>5. KeepsService(t, p)
  BY <1>1 DEF KeepsService, SioState
<1>6. KeepsService(t, sio_channel_reset(t, c))
  BY <1>1, ChannelResetKeeps
<1>7. a \in SioState /\ a.irqchan = t.irqchan
  BY <1>1, <1>2, UpdIrq DEF SioState
<1>8. f \in SioState /\ KeepsService(a, f)
  <2> HIDE DEF a
  <2> QED
    BY <1>2, <1>7, ClearIntType, ClearRaiseKeep
<1>9. KeepsService(t, sio_clear_int(f, "B", IntBits))
  <2>1. KeepsService(f, sio_clear_int(f, "B", IntBits))
    <3> HIDE DEF f
    <3> QED
      BY <1>2, <1>8, ClearRaiseKeep
  <2> HIDE DEF f, a
  <2> QED
    BY <1>7, <1>8, <2>1 DEF KeepsService
<1>10. KeepsService(t, WriteCommand(s, c, cmd, reg))
  <2>1. KeepsService(t, t)
    BY DEF KeepsService
  <2> QED
    BY <2>1, <1>3, <1>4, <1>5, <1>6, <1>9 DEF WriteCommand, Command, t
<1> QED
  BY <1>1, <1>10 DEF KeepsService

-----------------------------------------------------------------------------
(* The receive FIFO *)

\* r has the characters of s, in one channel and in both.
SameChars(s, r, c) == r.chan[c].dptr = s.chan[c].dptr /\ r.chan[c].data = s.chan[c].data
SameFifo(s, r)     == \A e \in Chan : SameChars(s, r, e)

LEMMA SameFifoTransitive ==
    ASSUME NEW s, NEW r, NEW q, SameFifo(s, r), SameFifo(r, q)
    PROVE  SameFifo(s, q)
  BY DEF SameFifo, SameChars

\* The interrupt bookkeeping does not touch it.
LEMMA ClearIntFifo ==
    ASSUME NEW s \in SioState, NEW c \in Chan, NEW bits \in SUBSET IntBits
    PROVE  SameFifo(s, sio_clear_int(s, c, bits))
  BY DEF sio_clear_int, SameFifo, SameChars, SioState, ChanState

LEMMA RaiseIntFifo ==
    ASSUME NEW s \in SioState, NEW c \in Chan, NEW bits \in SUBSET IntBits,
           NEW recalc \in BOOLEAN
    PROVE  SameFifo(s, sio_raise_int(s, c, bits, recalc))
  BY DEF sio_raise_int, SameFifo, SameChars, SioState, ChanState

\* Neither does programming a register.
LEMMA PortsFifo ==
    ASSUME NEW s \in SioState, NEW c \in Chan
    PROVE  /\ SameFifo(s, ReadControl(s, c))
           /\ SameFifo(s, WriteUnused(s, c))
           /\ \A mode \in WR1 : SameFifo(s, WriteMode(s, c, mode))
           /\ \A v \in Byte : SameFifo(s, WriteVector(s, c, v))
           /\ \A on \in BOOLEAN : SameFifo(s, WriteRxEnable(s, c, on))
<1>1. SameFifo(s, ReadControl(s, c)) /\ SameFifo(s, WriteUnused(s, c))
  BY DEF SameFifo, SameChars, ReadControl, WriteUnused, SioState, ChanState
<1>2. \A mode \in WR1 : SameFifo(s, WriteMode(s, c, mode))
  BY DEF SameFifo, SameChars, WriteMode, SioState, ChanState
<1>3. \A v \in Byte : SameFifo(s, WriteVector(s, c, v))
  BY DEF SameFifo, SameChars, WriteVector, SioState, ChanState
<1>4. \A on \in BOOLEAN : SameFifo(s, WriteRxEnable(s, c, on))
  BY DEF SameFifo, SameChars, WriteRxEnable, SioState, ChanState
<1> QED
  BY <1>1, <1>2, <1>3, <1>4

\* A write, a carrier change, a RETI.
LEMMA WriteDataFifo ==
    ASSUME NEW s \in SioState, NEW c \in Chan
    PROVE  SameFifo(s, WriteData(s, c))
<1> DEFINE t == [s EXCEPT !.chan[c].txe = FALSE]
<1>1. t \in SioState
  BY UpdTxe DEF SioState
<1>2. SameFifo(s, t)
  BY DEF SameFifo, SameChars, SioState, ChanState
<1> HIDE DEF t
<1>3. SameFifo(t, sio_clear_int(t, c, {INT_TX}))
  BY <1>1, ClearIntFifo DEF IntBits
<1> QED
  BY <1>2, <1>3, SameFifoTransitive DEF WriteData, t

LEMMA SetDcdFifo ==
    ASSUME NEW s \in SioState, NEW c \in Chan, NEW on \in BOOLEAN
    PROVE  SameFifo(s, sio_set_dcd(s, c, on))
<1> DEFINE n == ~on
           t == [s EXCEPT !.chan[c].nodcd = n]
<1>1. n \in BOOLEAN
  OBVIOUS
<1> HIDE DEF n
<1>2. t \in SioState
  BY <1>1, UpdDcd DEF SioState
<1>3. SameFifo(s, t)
  BY DEF SameFifo, SameChars, SioState, ChanState
<1> HIDE DEF t
<1>4. SameFifo(t, sio_raise_int(t, c, {INT_ERR}, FALSE))
  BY <1>2, RaiseIntFifo DEF IntBits
<1> QED
  BY <1>3, <1>4, SameFifoTransitive DEF sio_set_dcd, t, n

LEMMA RetiFifo ==
    ASSUME NEW s \in SioState
    PROVE  SameFifo(s, sio_reti(s))
  BY DEF sio_reti, SameFifo, SameChars, SioState, ChanState

\* A poll of the interrupt logic.
LEMMA CheckIm2Fifo ==
    ASSUME NEW s \in SioState
    PROVE  SameFifo(s, sio_check_im2(s))
<1> DEFINE a == sio_raise_int(s, "A", {}, TRUE)
           r == sio_raise_int(a, "B", {}, TRUE)
<1>1. "A" \in Chan /\ "B" \in Chan /\ {} \in SUBSET IntBits
  BY DEF Chan
<1>2. a \in SioState /\ SameFifo(s, a)
  BY <1>1, RaiseIntType, RaiseIntFifo
<1>3. r \in SioState /\ SameFifo(s, r)
  <2> HIDE DEF a
  <2> QED
    BY <1>1, <1>2, RaiseIntType, RaiseIntFifo, SameFifoTransitive
<1>4. sio_recalc_interrupts(s) = r
  BY DEF sio_recalc_interrupts
<1> HIDE DEF r
<1>5. ASSUME NEW c \in Chan  PROVE SameFifo(r, Deliver(r, c))
  <2> DEFINE v == DeliveredVector(r, c)
             t == [r EXCEPT !.chan[c].vector = v]
             u == sio_clear_int(t, c, {INT_TX})
             w == [u EXCEPT !.vector = v, !.irqchan = c]
  <2>1. v \in Byte
    BY <1>3, DeliveredVectorType
  <2> HIDE DEF v
  <2>2. t \in SioState /\ SameFifo(r, t)
    <3>1. t \in SioState
      BY <1>3, <2>1, UpdVector DEF SioState
    <3>2. SameFifo(r, t)
      BY <1>3 DEF SameFifo, SameChars, SioState, ChanState
    <3> QED
      BY <3>1, <3>2
  <2> HIDE DEF t
  <2>3. u \in SioState /\ SameFifo(t, u)
    BY <2>2, ClearIntType, ClearIntFifo DEF IntBits
  <2> HIDE DEF u
  <2>4. SameFifo(u, w)
    BY <2>3 DEF SameFifo, SameChars, SioState
  <2>5. Deliver(r, c) = w
    BY DEF Deliver, w, u, t, v
  <2> HIDE DEF w
  <2> QED
    BY <2>2, <2>3, <2>4, <2>5, SameFifoTransitive
<1> QED
  BY <1>1, <1>3, <1>4, <1>5, SameFifoTransitive DEF sio_check_im2

\* A channel reset leaves the characters where they are.
LEMMA ChannelResetFifo ==
    ASSUME NEW t \in SioState, NEW c \in Chan
    PROVE  SameFifo(t, sio_channel_reset(t, c))
<1> DEFINE b == IF c = "A" THEN FALSE ELSE t.rr1int
           z == [t EXCEPT !.chan[c].rx = FALSE, !.chan[c].txe = TRUE,
                          !.chan[c].nodcd = TRUE, !.chan[c].ovr = FALSE,
                          !.chan[c].rr2 = 0, !.rr1int = b]
<1>1. b \in BOOLEAN
  BY DEF SioState
<1>2. [t.chan[c] EXCEPT !.rx = FALSE, !.txe = TRUE, !.nodcd = TRUE, !.ovr = FALSE, !.rr2 = 0]
        \in ChanState
  <2>1. 0 \in Byte
    BY DEF Byte
  <2> QED
    BY <2>1, UpdReset DEF SioState
<1> HIDE DEF b
<1>3. z \in SioState
  BY ZenonT(60), <1>1, <1>2 DEF SioState
<1>4. SameFifo(t, z)
  BY DEF SameFifo, SameChars, SioState, ChanState
<1>5. z = [t EXCEPT !.chan[c].rx = FALSE, !.chan[c].txe = TRUE,
                    !.chan[c].nodcd = TRUE, !.chan[c].ovr = FALSE,
                    !.chan[c].rr2 = 0, !.rr1int = IF c = "A" THEN FALSE ELSE @]
  BY DEF z, b
<1> HIDE DEF z
<1>6. SameFifo(z, sio_clear_int(z, c, IntBits))
  BY <1>3, ClearIntFifo
<1> QED
  BY <1>4, <1>5, <1>6, SameFifoTransitive DEF sio_channel_reset

\* A WR0 command, the channel reset included.
LEMMA CommandFifo ==
    ASSUME NEW s \in SioState, NEW c \in Chan, NEW cmd \in Command, NEW reg \in 0 .. 7
    PROVE  SameFifo(s, WriteCommand(s, c, cmd, reg))
<1> DEFINE t == [s EXCEPT !.chan[c].reg = reg]
           e == sio_clear_int(t, c, {INT_ERR})
           a == [t EXCEPT !.chan["A"].irq = FALSE, !.rr1int = FALSE]
           o == [e EXCEPT !.chan[c].ovr = FALSE]
           p == [t EXCEPT !.chan[c].ovr = FALSE]
           f == sio_clear_int(a, "A", IntBits)
<1>1. t \in SioState /\ SameFifo(s, t)
  <2>1. t \in SioState
    BY UpdReg DEF SioState
  <2>2. SameFifo(s, t)
    BY DEF SameFifo, SameChars, SioState, ChanState
  <2> QED
    BY <2>1, <2>2
<1> HIDE DEF t
<1>2. {INT_ERR} \in SUBSET IntBits /\ {INT_TX} \in SUBSET IntBits /\ "A" \in Chan /\ "B" \in Chan
  BY DEF IntBits, Chan
<1>3. SameFifo(t, e) /\ e \in SioState /\ SameFifo(t, sio_clear_int(t, c, {INT_TX}))
  BY <1>1, <1>2, ClearIntFifo, ClearIntType
<1>4. SameFifo(t, o)
  <2> HIDE DEF e
  <2>1. SameFifo(e, o)
    BY <1>3 DEF SameFifo, SameChars, SioState, ChanState
  <2> HIDE DEF o
  <2> QED
    BY <1>3, <2>1, SameFifoTransitive
<1>5. SameFifo(t, p)
  BY <1>1 DEF SameFifo, SameChars, SioState, ChanState
<1>6. SameFifo(t, sio_channel_reset(t, c))
  BY <1>1, ChannelResetFifo
<1>7. a \in SioState /\ SameFifo(t, a)
  <2>1. a \in SioState
    BY <1>1, <1>2, UpdIrq DEF SioState
  <2>2. SameFifo(t, a)
    BY <1>1 DEF SameFifo, SameChars, SioState, ChanState
  <2> QED
    BY <2>1, <2>2
<1>8. f \in SioState /\ SameFifo(t, f)
  <2> HIDE DEF a
  <2> QED
    BY <1>2, <1>7, ClearIntType, ClearIntFifo, SameFifoTransitive
<1>9. SameFifo(t, sio_clear_int(f, "B", IntBits))
  <2> HIDE DEF f
  <2> QED
    BY <1>2, <1>8, ClearIntFifo, SameFifoTransitive
<1>10. SameFifo(t, WriteCommand(s, c, cmd, reg))
  <2>1. SameFifo(t, t)
    BY DEF SameFifo, SameChars
  <2> QED
    BY <2>1, <1>3, <1>4, <1>5, <1>6, <1>9 DEF WriteCommand, Command, t
<1> QED
  BY <1>1, <1>10, SameFifoTransitive

\* Channel d has become channel e: it has the same characters, has taken one
\* more, or has given up its oldest.
Keeps(d, e) == e.dptr = d.dptr /\ \A i \in 0 .. d.dptr - 1 : e.data[i] = d.data[i]

Gets(d, e) ==
    /\ d.dptr < 2 /\ e.dptr = d.dptr + 1
    /\ e.data[d.dptr] \in Char
    /\ \A i \in 0 .. d.dptr - 1 : e.data[i] = d.data[i]

Gives(d, e) ==
    /\ d.dptr > 0 /\ e.dptr = d.dptr - 1
    /\ \A i \in 0 .. e.dptr - 1 : e.data[i] = d.data[i + 1]

FifoMoves(d, e) == Keeps(d, e) \/ Gets(d, e) \/ Gives(d, e)

LEMMA SameFifoMoves ==
    ASSUME NEW s, NEW r, NEW q, NEW c, FifoMoves(s.chan[c], r.chan[c]), SameChars(r, q, c)
    PROVE  FifoMoves(s.chan[c], q.chan[c])
  BY DEF SameChars, FifoMoves, Keeps, Gets, Gives

LEMMA MovesSameFifo ==
    ASSUME NEW s, NEW r, NEW q, NEW c, SameChars(s, r, c), FifoMoves(r.chan[c], q.chan[c])
    PROVE  FifoMoves(s.chan[c], q.chan[c])
  BY DEF SameChars, FifoMoves, Keeps, Gets, Gives

LEMMA SameMoves ==
    ASSUME NEW s, NEW r, NEW c, SameChars(s, r, c)
    PROVE  FifoMoves(s.chan[c], r.chan[c])
  BY DEF SameChars, FifoMoves, Keeps

\* sio_queue puts a character at the end, or drops it behind the end.
LEMMA QueueMoves ==
    ASSUME NEW s \in SioState, NEW c \in Chan, NEW ch \in Char
    PROVE  /\ FifoMoves(s.chan[c], sio_queue(s, c, ch).chan[c])
           /\ \A e \in Chan \ {c} : SameChars(s, sio_queue(s, c, ch), e)
<1> DEFINE ptr  == s.chan[c].dptr
           full == [s EXCEPT !.chan[c].data[2] = ch, !.chan[c].ovr = TRUE]
           more == [s EXCEPT !.chan[c].data[ptr] = ch, !.chan[c].dptr = ptr + 1,
                             !.chan[c].rx = TRUE]
           q    == sio_queue(s, c, ch)
<1>1. /\ s.chan[c] \in ChanState
      /\ ptr \in 0 .. 2
      /\ s.chan[c].data \in [0 .. 2 -> Char]
  BY DEF SioState, ChanState
<1>2. \A e \in Chan : Keeps(s.chan[e], s.chan[e])
  BY DEF Keeps
<1>3. CASE ~s.chan[c].rxen
  BY <1>2, <1>3 DEF sio_queue, FifoMoves, SameChars
<1>4. CASE s.chan[c].rxen /\ ptr = 2
  <2>1. full \in SioState
    <3>1. [s.chan[c].data EXCEPT ![2] = ch] \in [0 .. 2 -> Char]
      BY <1>1
    <3> QED
      BY <1>1, <3>1, UpdOverrun DEF SioState
  <2>2. /\ full.chan[c].dptr = 2 /\ full.chan[c].data = [s.chan[c].data EXCEPT ![2] = ch]
        /\ \A e \in Chan \ {c} : full.chan[e] = s.chan[e]
    BY <1>1, <1>4 DEF SioState, ChanState
  <2> HIDE DEF full
  <2>3. FifoMoves(s.chan[c], full.chan[c])
    BY <1>1, <1>2, <1>4, <2>2 DEF FifoMoves, Keeps
  <2>4. SameFifo(full, q)
    <3>1. q = sio_raise_int(full, c, {INT_ERR}, FALSE)
      BY <1>4 DEF sio_queue, full
    <3> HIDE DEF q
    <3> QED
      BY <2>1, <3>1, RaiseIntFifo DEF IntBits
  <2> HIDE DEF q
  <2>5. FifoMoves(s.chan[c], q.chan[c])
    BY <2>3, <2>4, SameFifoMoves DEF SameFifo
  <2>6. \A e \in Chan \ {c} : SameChars(s, q, e)
    BY <2>2, <2>4 DEF SameFifo, SameChars
  <2> QED
    BY <2>5, <2>6 DEF q
<1>5. CASE s.chan[c].rxen /\ ptr # 2
  <2> HIDE DEF ptr
  <2>0. [s.chan[c].data EXCEPT ![ptr] = ch] \in [0 .. 2 -> Char] /\ ptr + 1 \in 0 .. 2
    BY <1>1, <1>5
  <2>1. more \in SioState
    BY <1>1, <2>0, UpdFifo DEF SioState
  <2>2. /\ more.chan[c].dptr = ptr + 1 /\ more.chan[c].data = [s.chan[c].data EXCEPT ![ptr] = ch]
        /\ \A e \in Chan \ {c} : more.chan[e] = s.chan[e]
    BY <1>1 DEF SioState, ChanState
  <2> HIDE DEF more
  <2>3. FifoMoves(s.chan[c], more.chan[c])
    <3>1. Gets(s.chan[c], more.chan[c])
      BY <1>1, <1>5, <2>2 DEF Gets, ptr
    <3> QED
      BY <3>1 DEF FifoMoves
  <2>5. SameFifo(more, q)
    <3>1. q \in {more, sio_raise_int(more, c, {INT_RX}, FALSE)}
      BY <1>5 DEF sio_queue, more, ptr
    <3>2. SameFifo(more, more)
      BY DEF SameFifo, SameChars
    <3> HIDE DEF q
    <3> QED
      BY <2>1, <3>1, <3>2, RaiseIntFifo DEF IntBits
  <2> HIDE DEF q
  <2>6. FifoMoves(s.chan[c], q.chan[c])
    BY <2>3, <2>5, SameFifoMoves DEF SameFifo
  <2>7. \A e \in Chan \ {c} : SameChars(s, q, e)
    BY <2>2, <2>5 DEF SameFifo, SameChars
  <2> QED
    BY <2>6, <2>7 DEF q
<1> QED
  BY <1>3, <1>4, <1>5

\* sio_channel_timer receives at most one character, on its own channel.
LEMMA ChannelTimerMoves ==
    ASSUME NEW s \in SioState, NEW c \in Chan, NEW ch \in Char \cup {NoChar},
           NEW txrdy \in BOOLEAN
    PROVE  /\ FifoMoves(s.chan[c], sio_channel_timer(s, c, ch, txrdy).chan[c])
           /\ \A e \in Chan \ {c} : SameChars(s, sio_channel_timer(s, c, ch, txrdy), e)
<1> DEFINE t == IF ch = NoChar THEN s ELSE sio_queue(s, c, ch)
           u == [t EXCEPT !.chan[c].txe = TRUE]
           w == sio_raise_int(u, c, {INT_TX}, FALSE)
           r == sio_channel_timer(s, c, ch, txrdy)
<1>1. \A e \in Chan : SameChars(s, s, e)
  BY DEF SameChars
<1>2. /\ t \in SioState
      /\ FifoMoves(s.chan[c], t.chan[c])
      /\ \A e \in Chan \ {c} : SameChars(s, t, e)
  BY <1>1, QueueType, QueueMoves, SameMoves
<1>3. r \in {t, u, w}
  BY DEF sio_channel_timer
<1> HIDE DEF t, r
<1>4. u \in SioState
  BY <1>2, UpdTxe DEF SioState
<1>5. SameFifo(t, u) /\ SameFifo(t, t)
  BY <1>2 DEF SameFifo, SameChars, SioState, ChanState
<1> HIDE DEF u
<1>6. SameFifo(u, w)
  BY <1>4, RaiseIntFifo DEF IntBits
<1> HIDE DEF w
<1>7. SameFifo(t, r)
  BY <1>3, <1>5, <1>6, SameFifoTransitive
<1>8. FifoMoves(s.chan[c], r.chan[c])
  BY <1>2, <1>7, SameFifoMoves DEF SameFifo
<1>9. \A e \in Chan \ {c} : SameChars(s, r, e)
  BY <1>2, <1>7 DEF SameFifo, SameChars
<1> QED
  BY <1>8, <1>9 DEF r

\* sio_timer: at most one character on each.
LEMMA TimerMoves ==
    ASSUME NEW s \in SioState, NEW ch \in [Chan -> Char \cup {NoChar}],
           NEW txrdy \in [Chan -> BOOLEAN]
    PROVE  \A e \in Chan : FifoMoves(s.chan[e], sio_timer(s, ch, txrdy).chan[e])
<1> DEFINE a == sio_channel_timer(s, "A", ch["A"], txrdy["A"])
           b == sio_channel_timer(a, "B", ch["B"], txrdy["B"])
<1>1. "A" \in Chan \ {"B"} /\ "B" \in Chan \ {"A"}
  BY DEF Chan
<1>2. a \in SioState /\ FifoMoves(s.chan["A"], a.chan["A"]) /\ SameChars(s, a, "B")
  BY <1>1, ChannelTimerType, ChannelTimerMoves
<1> HIDE DEF a
<1>3. FifoMoves(a.chan["B"], b.chan["B"]) /\ SameChars(a, b, "A")
  BY <1>1, <1>2, ChannelTimerMoves
<1> HIDE DEF b
<1>4. FifoMoves(s.chan["A"], b.chan["A"])
  BY <1>2, <1>3, SameFifoMoves
<1>5. FifoMoves(s.chan["B"], b.chan["B"])
  BY <1>2, <1>3, MovesSameFifo
<1> QED
  BY <1>4, <1>5 DEF Chan, sio_timer, a, b

\* A data read takes the oldest character, if there is one.
LEMMA ReadDataMoves ==
    ASSUME NEW s \in SioState, NEW c \in Chan
    PROVE  \A e \in Chan : FifoMoves(s.chan[e], ReadData(s, c).chan[e])
<1> DEFINE d    == s.chan[c].data
           f    == [d EXCEPT ![0] = d[1], ![1] = d[2]]
           left == IF s.chan[c].dptr = 0 THEN 0 ELSE s.chan[c].dptr - 1
           b    == s.chan[c].rx /\ left # 0
           t    == [s EXCEPT !.chan[c].data = f, !.chan[c].dptr = left, !.chan[c].rx = b]
           u    == sio_clear_int(t, c, {INT_RX})
           w    == sio_raise_int(u, c, {INT_RX}, FALSE)
           r    == ReadData(s, c)
<1>1. /\ s.chan[c] \in ChanState
      /\ s.chan[c].dptr \in 0 .. 2
      /\ d \in [0 .. 2 -> Char]
  BY DEF SioState, ChanState
<1>2. /\ f \in [0 .. 2 -> Char] /\ f[0] = d[1] /\ f[1] = d[2]
      /\ left \in 0 .. 2
      /\ b \in BOOLEAN
  BY <1>1
<1>3. r \in {u, w}
  BY DEF ReadData
<1>4. Keeps(s.chan[c], [s.chan[c] EXCEPT !.data = f, !.dptr = left, !.rx = b])
        \/ Gives(s.chan[c], [s.chan[c] EXCEPT !.data = f, !.dptr = left, !.rx = b])
  <2>1. CASE s.chan[c].dptr = 0
    <3>1. left = 0
      BY <2>1
    <3> HIDE DEF f, left, b
    <3> QED
      BY <1>1, <2>1, <3>1 DEF Keeps, ChanState
  <2>2. CASE s.chan[c].dptr # 0
    <3>1. left = s.chan[c].dptr - 1
      BY <2>2
    <3>2. \A i \in 0 .. left - 1 : f[i] = d[i + 1]
      BY <1>1, <1>2, <3>1
    <3> HIDE DEF f, left, b
    <3> QED
      BY <1>1, <2>2, <3>1, <3>2 DEF Gives, ChanState
  <2> QED
    BY <2>1, <2>2
<1> HIDE DEF f, left, b, r
<1>5. t \in SioState
  BY <1>1, <1>2, UpdFifo DEF SioState
<1>6. FifoMoves(s.chan[c], t.chan[c]) /\ \A e \in Chan \ {c} : SameChars(s, t, e)
  <2>1. t.chan[c] = [s.chan[c] EXCEPT !.data = f, !.dptr = left, !.rx = b]
    BY DEF SioState
  <2>2. \A e \in Chan \ {c} : SameChars(s, t, e)
    BY DEF SioState, SameChars
  <2> HIDE DEF t
  <2> QED
    BY <1>4, <2>1, <2>2 DEF FifoMoves
<1> HIDE DEF t
<1>7. \A e \in Chan : FifoMoves(s.chan[e], t.chan[e])
  BY <1>6, SameMoves
<1>8. u \in SioState /\ SameFifo(t, u)
  BY <1>5, ClearIntType, ClearIntFifo DEF IntBits
<1> HIDE DEF u
<1>9. SameFifo(u, w)
  BY <1>8, RaiseIntFifo DEF IntBits
<1> HIDE DEF w
<1>10. SameFifo(t, r)
  BY <1>3, <1>8, <1>9, SameFifoTransitive
<1>11. \A e \in Chan : FifoMoves(s.chan[e], r.chan[e])
  BY <1>7, <1>10, SameFifoMoves DEF SameFifo
<1> QED
  BY <1>11 DEF r


\* A sequence that is known element by element.
LEMMA IsAppend ==
    ASSUME NEW S, NEW q \in Seq(S), NEW r \in Seq(S), NEW x \in S, Len(r) = Len(q) + 1,
           r[Len(r)] = x, \A i \in 1 .. Len(q) : r[i] = q[i]
    PROVE  r = Append(q, x)
<1> DEFINE p == Append(q, x)
<1>1. p \in Seq(S) /\ Len(p) = Len(r) /\ Len(r) \in Nat
  OBVIOUS
<1>2. \A i \in 1 .. Len(r) : p[i] = r[i]
  OBVIOUS
<1> HIDE DEF p
<1>3. p = r
  <2>1. /\ p = [i \in 1 .. Len(p) |-> p[i]]
        /\ r = [i \in 1 .. Len(r) |-> r[i]]
    BY <1>1
  <2> QED
    BY <1>1, <1>2, <2>1
<1> QED
  BY <1>3 DEF p

LEMMA IsTail ==
    ASSUME NEW S, NEW q \in Seq(S), NEW r \in Seq(S), q # << >>, Len(r) = Len(q) - 1,
           \A i \in 1 .. Len(r) : r[i] = q[i + 1]
    PROVE  r = Tail(q)
<1> DEFINE p == Tail(q)
<1>1. p \in Seq(S) /\ Len(p) = Len(r) /\ Len(r) \in Nat
  OBVIOUS
<1>2. \A i \in 1 .. Len(r) : p[i] = r[i]
  OBVIOUS
<1> HIDE DEF p
<1>3. p = r
  <2>1. /\ p = [i \in 1 .. Len(p) |-> p[i]]
        /\ r = [i \in 1 .. Len(r) |-> r[i]]
    BY <1>1
  <2> QED
    BY <1>1, <1>2, <2>1
<1> QED
  BY <1>3 DEF p

\* The characters of a channel, oldest first, move as the abstract FIFO does.
Chars(d) == [i \in 1 .. d.dptr |-> d.data[i - 1]]

LEMMA MoveIsFifoStep ==
    ASSUME NEW d \in ChanState, NEW e \in ChanState, FifoMoves(d, e)
    PROVE  \/ Chars(e) = Chars(d)
           \/ Chars(d) # << >> /\ Chars(e) = Tail(Chars(d))
           \/ \E x \in Char : Len(Chars(d)) < 2 /\ Chars(e) = Append(Chars(d), x)
<1> DEFINE q == Chars(d)
           r == Chars(e)
<1> USE DEF Chars
<1>1. /\ d.dptr \in 0 .. 2 /\ d.data \in [0 .. 2 -> Char]
      /\ e.dptr \in 0 .. 2 /\ e.data \in [0 .. 2 -> Char]
  BY DEF ChanState
<1>2. q \in Seq(Char) /\ r \in Seq(Char) /\ Len(q) = d.dptr /\ Len(r) = e.dptr
  <2>1. \A i \in 1 .. d.dptr : d.data[i - 1] \in Char
    BY <1>1
  <2>2. \A i \in 1 .. e.dptr : e.data[i - 1] \in Char
    BY <1>1
  <2> QED
    BY <1>1, <2>1, <2>2
<1>3. CASE Keeps(d, e)
  <2>1. \A i \in 1 .. d.dptr : r[i] = q[i]
    BY <1>1, <1>3 DEF Keeps
  <2> QED
    BY <1>1, <1>3, <2>1 DEF Keeps
<1>4. CASE Gets(d, e)
  <2> DEFINE x == e.data[d.dptr]
  <2>1. x \in Char /\ Len(q) < 2 /\ Len(r) = Len(q) + 1 /\ r[Len(r)] = x
    BY <1>1, <1>2, <1>4 DEF Gets
  <2>2. \A i \in 1 .. Len(q) : r[i] = q[i]
    BY <1>1, <1>2, <1>4 DEF Gets
  <2> HIDE DEF x
  <2>3. r = Append(q, x)
    <3> HIDE DEF q, r
    <3> QED
      BY <1>2, <2>1, <2>2, IsAppend
  <2> QED
    BY <2>1, <2>3
<1>5. CASE Gives(d, e)
  <2>1. q # << >> /\ Len(r) = Len(q) - 1
    BY <1>1, <1>2, <1>5 DEF Gives
  <2>2. \A i \in 1 .. Len(r) : r[i] = q[i + 1]
    BY <1>1, <1>2, <1>5 DEF Gives
  <2>3. r = Tail(q)
    <3> HIDE DEF q, r
    <3> QED
      BY <1>2, <2>1, <2>2, IsTail
  <2> QED
    BY <2>1, <2>3
<1> QED
  BY <1>3, <1>4, <1>5 DEF FifoMoves

\* A chip nobody has used is empty.
LEMMA CreatedEmpty == \A c \in Chan : SioCreated.chan[c].dptr = 0
<1> DEFINE d == [reg |-> 0, wr1 |-> WR1Off, wr2 |-> 0, rxen |-> FALSE,
                 rx |-> FALSE, txe |-> FALSE, nodcd |-> FALSE, ovr |-> FALSE,
                 rr2 |-> 0, data |-> [i \in 0 .. 2 |-> 0], dptr |-> 0,
                 irq |-> FALSE, intbits |-> {}, vector |-> 0]
           s == [chan |-> [c \in Chan |-> d],
                 irqchan |-> NoChan, vector |-> 0, rr1int |-> FALSE]
           a == sio_channel_reset(s, "A")
           b == sio_channel_reset(a, "B")
<1>1. d \in ChanState /\ d.dptr = 0
  BY CharAssumption DEF ChanState, WR1Off, WR1, Byte
<1> HIDE DEF d
<1>2. s \in SioState /\ \A c \in Chan : s.chan[c].dptr = 0
  BY <1>1 DEF SioState, Byte
<1>3. "A" \in Chan /\ "B" \in Chan
  BY DEF Chan
<1> HIDE DEF s
<1>4. a \in SioState /\ \A c \in Chan : a.chan[c].dptr = 0
  BY <1>2, <1>3, ChannelResetType, ChannelResetFifo DEF SameFifo, SameChars
<1> HIDE DEF a
<1>5. b \in SioState /\ \A c \in Chan : b.chan[c].dptr = 0
  BY <1>3, <1>4, ChannelResetType, ChannelResetFifo DEF SameFifo, SameChars
<1> HIDE DEF b
<1>6. \A c \in Chan : [b EXCEPT !.irqchan = NoChan].chan[c].dptr = 0
  BY <1>5 DEF SioState
<1>7. SioCreated = [b EXCEPT !.irqchan = NoChan]
  BY DEF SioCreated, sio_reset, b, a, s, d
<1> QED
  BY <1>6, <1>7

-----------------------------------------------------------------------------
(* Who is served first *)

\* sio_check_im2 turns to channel B only when channel A has nothing pending:
\* sio_recalc_interrupts has set the irq flag of every channel that has.
LEMMA CheckIm2AFirst ==
    ASSUME NEW s \in SioState, s.irqchan = NoChan, sio_check_im2(s).irqchan = "B"
    PROVE  s.chan["A"].intbits = {}
<1> DEFINE a == sio_raise_int(s, "A", {}, TRUE)
           r == sio_raise_int(a, "B", {}, TRUE)
<1>1. "A" \in Chan /\ "B" \in Chan /\ {} \in SUBSET IntBits /\ NoChan # "B" /\ "A" # "B"
  BY NoneAssumption DEF Chan
<1>2. a \in SioState /\ a.irqchan = s.irqchan
  BY <1>1, RaiseIntType, ClearRaiseKeep
<1>3. s.chan["A"].intbits # {} => a.chan["A"].irq
  <2>1. s.chan["A"] \in ChanState
    BY <1>1 DEF SioState
  <2>2. s.chan["A"].intbits \cup {} = s.chan["A"].intbits
    OBVIOUS
  <2> QED
    BY <1>1, <2>1, <2>2 DEF sio_raise_int, SioState, ChanState
<1> HIDE DEF a
<1>4. r \in SioState /\ r.irqchan = s.irqchan
  BY <1>1, <1>2, RaiseIntType, ClearRaiseKeep
<1>5. r.chan["A"] = a.chan["A"]
  BY <1>1, <1>2 DEF sio_raise_int, SioState
<1>6. sio_recalc_interrupts(s) = r
  BY DEF sio_recalc_interrupts, a
<1> HIDE DEF r
<1>7. Deliver(r, "A").irqchan = "A"
  <2> DEFINE v == DeliveredVector(r, "A")
             t == [r EXCEPT !.chan["A"].vector = v]
             u == sio_clear_int(t, "A", {INT_TX})
  <2>1. v \in Byte
    BY <1>1, <1>4, DeliveredVectorType
  <2>2. Deliver(r, "A") = [u EXCEPT !.vector = v, !.irqchan = "A"]
    BY DEF Deliver
  <2> HIDE DEF v
  <2>3. t \in SioState
    BY <1>1, <1>4, <2>1, UpdVector DEF SioState
  <2> HIDE DEF t
  <2>4. u \in SioState
    BY <1>1, <2>3, ClearIntType DEF IntBits
  <2> HIDE DEF u
  <2> QED
    BY <2>2, <2>4 DEF SioState
<1> QED
  BY <1>1, <1>3, <1>4, <1>5, <1>6, <1>7 DEF sio_check_im2

-----------------------------------------------------------------------------
(* The vector on the bus *)

IsChip(s) == "vector" \in DOMAIN s

\* r shows the vector s showed.
SameVector(s, r) == IsChip(s) => IsChip(r) /\ r.vector = s.vector

LEMMA SioIsChip == \A s \in SioState : IsChip(s)
  BY DEF SioState, IsChip

LEMMA ChanVector ==
    ASSUME NEW s, NEW d, NEW r, r = [s EXCEPT !.chan = d]
    PROVE  SameVector(s, r)
  BY DEF IsChip, SameVector

LEMMA ClearIntVector ==
    ASSUME NEW s, NEW c, NEW bits
    PROVE  SameVector(s, sio_clear_int(s, c, bits))
<1> DEFINE d == [s.chan EXCEPT ![c].intbits = @ \ bits]
           t == [s EXCEPT !.chan = d]
           q == IF t.irqchan = c THEN NoChan ELSE t.irqchan
           e == [t.chan EXCEPT ![c].irq = FALSE]
           u == [t EXCEPT !.rr1int = FALSE, !.chan = e, !.irqchan = q]
<1>1. sio_clear_int(s, c, bits) \in {t, u}
  BY DEF sio_clear_int
<1>2. SameVector(s, t)
  BY ChanVector
<1> HIDE DEF t, q, e
<1>3. SameVector(t, u)
  BY DEF IsChip, SameVector
<1> HIDE DEF u
<1> QED
  BY <1>1, <1>2, <1>3 DEF SameVector

LEMMA RaiseIntVector ==
    ASSUME NEW s, NEW c, NEW bits, NEW recalc
    PROVE  SameVector(s, sio_raise_int(s, c, bits, recalc))
<1> DEFINE t == [s EXCEPT !.chan[c].intbits = @ \cup bits]
           v == RaisedVector(t, c)
           u == [t EXCEPT !.chan[c].irq = TRUE, !.chan[c].vector = v, !.rr1int = TRUE]
<1>1. sio_raise_int(s, c, bits, recalc) \in {t, u}
  BY DEF sio_raise_int
<1>2. SameVector(s, t)
  BY ChanVector
<1> HIDE DEF t, v
<1>3. SameVector(t, u)
  BY DEF IsChip, SameVector
<1> HIDE DEF u
<1> QED
  BY <1>1, <1>2, <1>3 DEF SameVector

\* sio_check_im2 changes the vector only when it delivers.
LEMMA CheckIm2Vector ==
    ASSUME NEW s, ~Delivers(s)
    PROVE  SameVector(s, sio_check_im2(s))
<1> DEFINE a == sio_raise_int(s, "A", {}, TRUE)
           r == sio_raise_int(a, "B", {}, TRUE)
<1>1. SameVector(s, a)
  BY RaiseIntVector
<1>2. SameVector(a, r)
  <2> HIDE DEF a
  <2> QED
    BY RaiseIntVector
<1>3. sio_check_im2(s) = r
  <2>1. sio_recalc_interrupts(s) = r
    BY DEF sio_recalc_interrupts
  <2> HIDE DEF r
  <2> QED
    BY <2>1 DEF Delivers, sio_check_im2
<1> HIDE DEF a, r
<1> QED
  BY <1>1, <1>2, <1>3 DEF SameVector

LEMMA RetiVector ==
    ASSUME NEW s
    PROVE  SameVector(s, sio_reti(s))
<1> DEFINE d == [s.chan EXCEPT ![s.irqchan].irq = FALSE]
           t == [s EXCEPT !.irqchan = NoChan, !.chan = d]
<1>1. IsChip(s) => sio_reti(s) \in {s, t}
  BY DEF sio_reti, IsChip
<1> HIDE DEF d
<1>2. SameVector(s, t)
  BY DEF IsChip, SameVector
<1> QED
  BY <1>1, <1>2 DEF SameVector

LEMMA QueueVector ==
    ASSUME NEW s, NEW c, NEW x
    PROVE  SameVector(s, sio_queue(s, c, x))
<1> DEFINE ptr  == s.chan[c].dptr
           full == [s EXCEPT !.chan[c].data[2] = x, !.chan[c].ovr = TRUE]
           more == [s EXCEPT !.chan[c].data[ptr] = x, !.chan[c].dptr = ptr + 1,
                             !.chan[c].rx = TRUE]
           e == sio_raise_int(full, c, {INT_ERR}, FALSE)
           g == sio_raise_int(more, c, {INT_RX}, FALSE)
<1>1. SameVector(s, full) /\ SameVector(s, more)
  <2> HIDE DEF ptr
  <2> QED
    BY DEF IsChip, SameVector
<1>2. SameVector(full, e) /\ SameVector(more, g)
  <2> HIDE DEF full, more
  <2> QED
    BY RaiseIntVector
<1>3. sio_queue(s, c, x) \in {s, more, e, g}
  BY DEF sio_queue
<1> HIDE DEF e, g, full, more
<1> QED
  BY <1>1, <1>2, <1>3 DEF SameVector

LEMMA ChannelTimerVector ==
    ASSUME NEW s, NEW c, NEW x, NEW b
    PROVE  SameVector(s, sio_channel_timer(s, c, x, b))
<1> DEFINE t == IF x = NoChar THEN s ELSE sio_queue(s, c, x)
           u == [t EXCEPT !.chan[c].txe = TRUE]
           w == sio_raise_int(u, c, {INT_TX}, FALSE)
<1>1. SameVector(s, t)
  BY QueueVector DEF SameVector
<1>2. sio_channel_timer(s, c, x, b) \in {t, u, w}
  BY DEF sio_channel_timer
<1> HIDE DEF t
<1>3. SameVector(t, u)
  BY DEF IsChip, SameVector
<1> HIDE DEF u
<1>4. SameVector(u, w)
  BY RaiseIntVector
<1> HIDE DEF w
<1> QED
  BY <1>1, <1>2, <1>3, <1>4 DEF SameVector

LEMMA TimerVector ==
    ASSUME NEW s, NEW ch, NEW txrdy
    PROVE  SameVector(s, sio_timer(s, ch, txrdy))
<1> DEFINE a == sio_channel_timer(s, "A", ch["A"], txrdy["A"])
<1>1. SameVector(s, a)
  BY ChannelTimerVector
<1> HIDE DEF a
<1>2. SameVector(a, sio_channel_timer(a, "B", ch["B"], txrdy["B"]))
  BY ChannelTimerVector
<1> QED
  BY <1>1, <1>2 DEF sio_timer, a, SameVector

LEMMA DataVector ==
    ASSUME NEW s, NEW c
    PROVE  SameVector(s, ReadData(s, c)) /\ SameVector(s, WriteData(s, c))
<1> DEFINE d    == s.chan[c].data
           left == IF s.chan[c].dptr = 0 THEN 0 ELSE s.chan[c].dptr - 1
           t    == [s EXCEPT !.chan[c].data = [@ EXCEPT ![0] = d[1], ![1] = d[2]],
                             !.chan[c].dptr = left,
                             !.chan[c].rx   = @ /\ left # 0]
           u    == sio_clear_int(t, c, {INT_RX})
           w    == sio_raise_int(u, c, {INT_RX}, FALSE)
           p    == [s EXCEPT !.chan[c].txe = FALSE]
           q    == sio_clear_int(p, c, {INT_TX})
<1>1. ReadData(s, c) \in {u, w} /\ WriteData(s, c) = q
  BY DEF ReadData, WriteData
<1>2. SameVector(s, t) /\ SameVector(s, p)
  <2> HIDE DEF d, left
  <2> QED
    BY DEF IsChip, SameVector
<1> HIDE DEF t, p
<1>3. SameVector(t, u) /\ SameVector(p, q)
  BY ClearIntVector
<1> HIDE DEF u, q
<1>4. SameVector(u, w)
  BY RaiseIntVector
<1> HIDE DEF w
<1> QED
  BY <1>1, <1>2, <1>3, <1>4 DEF SameVector

LEMMA CommandVector ==
    ASSUME NEW s, NEW c, NEW cmd \in Command, NEW reg
    PROVE  SameVector(s, WriteCommand(s, c, cmd, reg))
<1> DEFINE t == [s EXCEPT !.chan[c].reg = reg]
           e == sio_clear_int(t, c, {INT_ERR})
           o == [e EXCEPT !.chan[c].ovr = FALSE]
           p == [t EXCEPT !.chan[c].ovr = FALSE]
           x == sio_clear_int(t, c, {INT_TX})
           a == [t EXCEPT !.chan["A"].irq = FALSE, !.rr1int = FALSE]
           f == sio_clear_int(a, "A", IntBits)
           g == sio_clear_int(f, "B", IntBits)
           b == IF c = "A" THEN FALSE ELSE t.rr1int
           z == [t EXCEPT !.chan[c].rx = FALSE, !.chan[c].txe = TRUE,
                          !.chan[c].nodcd = TRUE, !.chan[c].ovr = FALSE,
                          !.chan[c].rr2 = 0, !.rr1int = b]
           y == sio_clear_int(z, c, IntBits)
<1>1. WriteCommand(s, c, cmd, reg) \in {t, o, y, x, p, g}
  BY DEF WriteCommand, Command, sio_channel_reset
<1>2. SameVector(s, t)
  BY DEF IsChip, SameVector
<1> HIDE DEF t
<1>3. SameVector(t, e) /\ SameVector(t, x)
  BY ClearIntVector
<1>4. SameVector(t, p) /\ SameVector(t, a) /\ SameVector(t, z)
  <2> HIDE DEF b
  <2> QED
    BY DEF IsChip, SameVector
<1> HIDE DEF e, x, p, a, z
<1>5. SameVector(e, o)
  BY DEF IsChip, SameVector
<1>6. SameVector(z, y) /\ SameVector(a, f)
  BY ClearIntVector
<1> HIDE DEF o, y, f
<1>7. SameVector(f, g)
  BY ClearIntVector
<1> HIDE DEF g
<1> QED
  BY <1>1, <1>2, <1>3, <1>4, <1>5, <1>6, <1>7 DEF SameVector
=============================================================================
