------------------------------- MODULE Z80Sio -------------------------------
(***************************************************************************)
(* The Z80 SIO of z80sio.c: two serial channels that share one interrupt.  *)
(*                                                                         *)
(* The chip is one record, and every function of z80sio.c that changes it  *)
(* is an operator from records to records, so that the machine models can  *)
(* call it from inside their own actions.  SioSystem drives a chip alone.  *)
(*                                                                         *)
(* Left out: tracing; wr[4..7], which are stored and never used; rxint and *)
(* txint, which are set and never tested; the read-only bits of rr[0] and  *)
(* rr[1] that never change; and rr[0] bit 1, which sio_read recomputes     *)
(* each time before it can be seen.                                        *)
(***************************************************************************)
EXTENDS Integers, Sequences

CONSTANTS
    Char,       (* what a serial device can send; bytes *)
    Vector,     (* the values software loads into WR2; bytes *)
    Mode,       (* the values software loads into WR1; see WR1 below *)
    NoChan,     (* irqchan == NULL *)
    NoChar      (* the device has nothing to receive *)

Chan    == {"A", "B"}
INT_TX  == "TX"
INT_RX  == "RX"
INT_ERR == "ERR"
IntBits == {INT_TX, INT_RX, INT_ERR}
Byte    == 0 .. 255

\* WR1: bit 0, bit 1, bit 2 (of channel B: status affects vector), bits 3-4.
WR1 == [ext : BOOLEAN, tx : BOOLEAN, sav : BOOLEAN, rx : {"off", "first", "all"}]

ASSUME CharAssumption   == Char \subseteq Byte /\ 0 \in Char
ASSUME VectorAssumption == Vector \subseteq Byte
ASSUME ModeAssumption   == Mode \subseteq WR1
ASSUME NoneAssumption   == NoChan \notin Chan /\ NoChar \notin Char

WR1Off == [ext |-> FALSE, tx |-> FALSE, sav |-> FALSE, rx |-> "off"]

\* struct z80_sio_chan.  rx, txe and nodcd are bits 0, 2 and 3 of rr[0], ovr
\* is bit 5 of rr[1], reg is the register pointer in the low bits of wr[0].
ChanState ==
    [reg  : 0 .. 7, wr1 : WR1, wr2 : Byte, rxen : BOOLEAN,
     rx   : BOOLEAN, txe : BOOLEAN, nodcd : BOOLEAN, ovr : BOOLEAN, rr2 : Byte,
     data : [0 .. 2 -> Char], dptr : 0 .. 2,
     irq  : BOOLEAN, intbits : SUBSET IntBits, vector : Byte]

\* struct z80_sio.  rr1int is bit 1 of channel A's rr[1].
SioState ==
    [chan : [Chan -> ChanState], irqchan : Chan \cup {NoChan},
     vector : Byte, rr1int : BOOLEAN]

-----------------------------------------------------------------------------
(* Interrupt bookkeeping *)

sio_clear_int(s, c, m) ==
    LET t == [s EXCEPT !.chan[c].intbits = @ \ m]
    IN  IF t.chan["A"].intbits = {} /\ t.chan["B"].intbits = {}
        THEN [t EXCEPT !.rr1int      = FALSE,
                       !.chan[c].irq = FALSE,
                       !.irqchan     = IF @ = c THEN NoChan ELSE @]
        ELSE t

\* The vector sio_raise_int leaves in chan->vector.
RaisedVector(s, c) ==
    IF ~s.chan["B"].wr1.sav
    THEN 0
    ELSE (IF c = "A" THEN 8 ELSE 0) +
         (IF INT_RX \in s.chan[c].intbits THEN 4
          ELSE IF INT_ERR \in s.chan[c].intbits THEN 2 ELSE 0)

sio_raise_int(s, c, m, recalc) ==
    LET new == m \ s.chan[c].intbits
        t   == [s EXCEPT !.chan[c].intbits = @ \cup m]
    IN  IF /\ new # {} \/ recalc
           /\ t.chan[c].intbits # {}
           /\ ~t.chan[c].irq
        THEN [t EXCEPT !.chan[c].irq    = TRUE,
                       !.chan[c].vector = RaisedVector(t, c),
                       !.rr1int         = TRUE]
        ELSE t

sio_recalc_interrupts(s) ==
    sio_raise_int(sio_raise_int(s, "A", {}, TRUE), "B", {}, TRUE)

\* v & 0xF1: room for the status bits 1 to 3.
StatusBase(v) == v - (v % 16) + (v % 2)

\* The vector of a delivery.  The code adds 8 for the channel whose unit is 0,
\* but units are 'a' and 'b', so no channel gets it.
DeliveredVector(s, c) ==
    IF ~s.chan["B"].wr1.sav
    THEN s.chan["B"].wr2
    ELSE StatusBase(s.chan["B"].wr2) +
         (IF INT_RX \in s.chan[c].intbits THEN 4 ELSE 0) +
         (IF INT_ERR \in s.chan[c].intbits THEN 2 ELSE 0)

\* sio_check_im2_chan on a channel whose irq is set while none is in service.
Deliver(s, c) ==
    LET v == DeliveredVector(s, c)
        t == sio_clear_int([s EXCEPT !.chan[c].vector = v], c, {INT_TX})
    IN  [t EXCEPT !.vector = v, !.irqchan = c]

\* Does sio_check_im2 return a vector, or -1?
Delivers(s) ==
    LET r == sio_recalc_interrupts(s)
    IN  r.irqchan = NoChan /\ (r.chan["A"].irq \/ r.chan["B"].irq)

\* Mutant: does not look whether a channel is in service already.
sio_check_im2_preempts(s) ==
    LET r == sio_recalc_interrupts(s)
    IN  IF r.chan["A"].irq THEN Deliver(r, "A")
        ELSE IF r.chan["B"].irq THEN Deliver(r, "B") ELSE r

\* Mutant: forgets sio_recalc_interrupts, so that a flag sio_reti cleared stays clear.
sio_check_im2_norecalc(s) ==
    IF s.irqchan # NoChan \/ ~(s.chan["A"].irq \/ s.chan["B"].irq) THEN s
    ELSE IF s.chan["A"].irq THEN Deliver(s, "A") ELSE Deliver(s, "B")

sio_check_im2(s) ==
    LET r == sio_recalc_interrupts(s)
    IN  IF r.irqchan # NoChan \/ ~(r.chan["A"].irq \/ r.chan["B"].irq) THEN r
        ELSE IF r.chan["A"].irq THEN Deliver(r, "A") ELSE Deliver(r, "B")

sio_reti(s) ==
    IF s.irqchan = NoChan THEN s
    ELSE [s EXCEPT !.irqchan = NoChan, !.chan[s.irqchan].irq = FALSE]

-----------------------------------------------------------------------------
(* Receive and transmit *)

\* Mutant: uses the third slot of data[] as well.
sio_queue_full(s, c, ch) ==
    LET ptr == s.chan[c].dptr
    IN  IF ~s.chan[c].rxen THEN s
        ELSE IF ptr = 3 THEN sio_raise_int(s, c, {INT_ERR}, FALSE)
        ELSE [s EXCEPT !.chan[c].data[ptr] = ch, !.chan[c].dptr = ptr + 1,
                       !.chan[c].rx = TRUE]

sio_queue(s, c, ch) ==
    LET ptr  == s.chan[c].dptr
        full == [s EXCEPT !.chan[c].data[2] = ch, !.chan[c].ovr = TRUE]
        more == [s EXCEPT !.chan[c].data[ptr] = ch,
                          !.chan[c].dptr = ptr + 1,
                          !.chan[c].rx = TRUE]
        mode == s.chan[c].wr1.rx
    IN  IF ~s.chan[c].rxen THEN s
        ELSE IF ptr = 2 THEN sio_raise_int(full, c, {INT_ERR}, FALSE)
        ELSE IF mode = "all" \/ (mode = "first" /\ ptr = 0)
             THEN sio_raise_int(more, c, {INT_RX}, FALSE)
             ELSE more

\* ch is the character the device has ready, txrdy whether it takes another.
sio_channel_timer(s, c, ch, txrdy) ==
    LET t == IF ch = NoChar THEN s ELSE sio_queue(s, c, ch)
        u == [t EXCEPT !.chan[c].txe = TRUE]
    IN  IF ~txrdy \/ t.chan[c].txe THEN t
        ELSE IF t.chan[c].wr1.tx THEN sio_raise_int(u, c, {INT_TX}, FALSE)
        ELSE u

sio_timer(s, ch, txrdy) ==
    sio_channel_timer(sio_channel_timer(s, "A", ch["A"], txrdy["A"]),
                      "B", ch["B"], txrdy["B"])

sio_channel_reset(s, c) ==
    sio_clear_int([s EXCEPT !.chan[c].rx = FALSE, !.chan[c].txe = TRUE,
                            !.chan[c].nodcd = TRUE, !.chan[c].ovr = FALSE,
                            !.chan[c].rr2 = 0,
                            !.rr1int = IF c = "A" THEN FALSE ELSE @],
                  c, IntBits)

sio_reset(s) ==
    [sio_channel_reset(sio_channel_reset(s, "A"), "B") EXCEPT !.irqchan = NoChan]

sio_set_dcd(s, c, on) ==
    LET t == [s EXCEPT !.chan[c].nodcd = ~on]
    IN  IF s.chan[c].wr1.ext THEN sio_raise_int(t, c, {INT_ERR}, FALSE) ELSE t

-----------------------------------------------------------------------------
(* The CPU's side: sio_read and sio_write *)

ReadControl(s, c) == [s EXCEPT !.chan[c].reg = 0]

\* Mutant: leaves the "character available" bit set.
ReadData_staysready(s, c) ==
    LET d == s.chan[c].data
    IN  sio_clear_int([s EXCEPT !.chan[c].data = [@ EXCEPT ![0] = d[1], ![1] = d[2]],
                                !.chan[c].dptr = IF @ = 0 THEN 0 ELSE @ - 1],
                      c, {INT_RX})

\* Mutant: takes the newest character instead of shifting the FIFO.
ReadData_newest(s, c) ==
    [s EXCEPT !.chan[c].dptr = IF @ = 0 THEN 0 ELSE @ - 1]

ReadData(s, c) ==
    LET d    == s.chan[c].data
        left == IF s.chan[c].dptr = 0 THEN 0 ELSE s.chan[c].dptr - 1
        t    == [s EXCEPT !.chan[c].data = [@ EXCEPT ![0] = d[1], ![1] = d[2]],
                          !.chan[c].dptr = left,
                          !.chan[c].rx   = @ /\ left # 0]
        u    == sio_clear_int(t, c, {INT_RX})
    IN  IF left # 0 /\ s.chan[c].wr1.rx = "all"
        THEN sio_raise_int(u, c, {INT_RX}, FALSE)
        ELSE u

\* Mutant: the transmit interrupt stays pending.
WriteData_staypending(s, c) == [s EXCEPT !.chan[c].txe = FALSE]

WriteData(s, c) == sio_clear_int([s EXCEPT !.chan[c].txe = FALSE], c, {INT_TX})

\* A WR0 command; the ones left out change nothing that is modelled.
Command == {"null", "extreset", "chanreset", "txreset", "errreset", "reti"}

WriteCommand(s, c, cmd, reg) ==
    LET t == [s EXCEPT !.chan[c].reg = reg]
    IN  CASE cmd = "null"      -> t
          [] cmd = "extreset"  -> [sio_clear_int(t, c, {INT_ERR})
                                     EXCEPT !.chan[c].ovr = FALSE]
          [] cmd = "chanreset" -> sio_channel_reset(t, c)
          [] cmd = "txreset"   -> sio_clear_int(t, c, {INT_TX})
          [] cmd = "errreset"  -> [t EXCEPT !.chan[c].ovr = FALSE]
          [] cmd = "reti"      ->
               IF c # "A" THEN t
               ELSE sio_clear_int(
                      sio_clear_int([t EXCEPT !.chan["A"].irq = FALSE,
                                              !.rr1int = FALSE],
                                    "A", IntBits),
                      "B", IntBits)

WriteMode(s, c, mode) ==
    [s EXCEPT !.chan[c].reg = 0, !.chan[c].wr1 = mode]

WriteVector(s, c, v) ==
    [s EXCEPT !.chan[c].reg = 0, !.chan[c].wr2 = v,
              !.chan[c].rr2 = IF c = "B" THEN v ELSE @]

WriteRxEnable(s, c, on) ==
    [s EXCEPT !.chan[c].reg = 0, !.chan[c].rxen = on]

WriteUnused(s, c) == [s EXCEPT !.chan[c].reg = 0]

\* sio_create: everything zero, then sio_reset, which every machine that has
\* an SIO calls again at start-up and never later.
SioCreated ==
    sio_reset(
      [chan |-> [c \in Chan |->
                   [reg |-> 0, wr1 |-> WR1Off, wr2 |-> 0, rxen |-> FALSE,
                    rx |-> FALSE, txe |-> FALSE, nodcd |-> FALSE, ovr |-> FALSE,
                    rr2 |-> 0, data |-> [i \in 0 .. 2 |-> 0], dptr |-> 0,
                    irq |-> FALSE, intbits |-> {}, vector |-> 0]],
       irqchan |-> NoChan, vector |-> 0, rr1int |-> FALSE])
=============================================================================
