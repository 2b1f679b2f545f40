------------------------------- MODULE I2cRtc -------------------------------
(***************************************************************************)
(* The bit banged I2C bus of i2c_bitbang.c with the DS1307 clock of        *)
(* i2c_ds1307.c on it.  Software writes the two lines; the bus takes bits, *)
(* START and STOP from them and calls the clock chip once per byte.        *)
(*                                                                         *)
(* The lines are compared with what the protocol says of the bits since    *)
(* the last START, taken together.                                         *)
(***************************************************************************)
EXTENDS Powers, Sequences

CONSTANTS
    ByteBits,       (* bits of a byte: 8 *)
    RamSize,        (* cells of the clock chip: 64 *)
    TimeCells,      (* the cells that rtc_freeze fills: 0 to 6 *)
    RTC_ID,         (* its address: 0x68 *)
    TimeByte,       (* values of the time *)
    MaxBits         (* bound: bits that software clocks after a START *)

ASSUME I2cAssumption ==
    /\ ByteBits \in Nat \ {0, 1} /\ MaxBits \in Nat
    /\ RamSize \in 1 .. Pow2[ByteBits] /\ TimeCells \subseteq 0 .. RamSize - 1
    /\ RTC_ID \in 0 .. Pow2[ByteBits - 1] - 1 /\ TimeByte \subseteq 0 .. Pow2[ByteBits] - 1

VARIABLES
    i2c,            (* struct i2c_bus *)
    rtc,            (* struct ds1307 *)
    since,          (* history: the bits since the last START, <<>> when idle *)
    from            (* history: bp at the last START *)

i2cVars == <<i2c, rtc, since, from>>

Octet == 0 .. Pow2[ByteBits] - 1
Cell  == 0 .. RamSize - 1

I2cState ==
    [clk : 0 .. 1, data : 0 .. 1, byte : Octet, output : 0 .. 1, bitcnt : 0 .. ByteBits,
     state : {"IDLE", "ID", "DATA_IN", "DATA_OUT"}, stable : BOOLEAN, devid : Octet,
     current : BOOLEAN]

RtcState == [ram : [Cell -> Octet], bp : Cell, first : BOOLEAN]

-----------------------------------------------------------------------------
(* The clock chip.  Both parts change together: a machine is b, with the   *)
(* fields bus and rtc.                                                     *)

rtc_read(r) == [r EXCEPT !.bp = (@ + 1) % RamSize]

\* Mutant: every byte of a transaction sets the pointer.
rtc_write_pointer(r, v) == [r EXCEPT !.bp = v % RamSize, !.first = FALSE]

rtc_write(r, v) ==
    IF r.first THEN [r EXCEPT !.bp = v % RamSize, !.first = FALSE]
    ELSE [r EXCEPT !.ram[r.bp] = v, !.bp = (@ + 1) % RamSize]

\* time is what rtc_freeze makes of the host's clock.
rtc_freeze(r, time) == [r EXCEPT !.ram = [c \in Cell |-> IF c \in TimeCells THEN time ELSE @[c]]]

RtcStart(r, time) == [rtc_freeze(r, time) EXCEPT !.first = TRUE]

-----------------------------------------------------------------------------
(* The bus.                                                                *)

Machine(bus, r) == [bus |-> bus, rtc |-> r]

\* The byte is complete: it addresses a device or goes to one.
i2c_byte(b, time) ==
    CASE b.bus.state = "ID" ->
           LET here == b.bus.devid = RTC_ID
           IN  Machine([b.bus EXCEPT !.state = IF b.bus.byte % 2 = 1 THEN "DATA_OUT" ELSE "DATA_IN",
                                     !.current = here],
                       IF here THEN RtcStart(b.rtc, time) ELSE b.rtc)
      [] b.bus.state = "DATA_IN" /\ b.bus.current -> Machine(b.bus, rtc_write(b.rtc, b.bus.byte))
      [] OTHER -> b

\* After the last bit of a byte: the next byte of a device that is read, or
\* the acknowledgement.
Complete(b, time) ==
    LET c == i2c_byte(b, time)
    IN  IF c.bus.state # "DATA_OUT" THEN Machine([c.bus EXCEPT !.output = 0], c.rtc)
        ELSE IF c.bus.current
        THEN Machine([c.bus EXCEPT !.byte = c.rtc.ram[c.rtc.bp], !.output = 1], rtc_read(c.rtc))
        ELSE Machine([c.bus EXCEPT !.byte = Pow2[ByteBits] - 1, !.output = 1], c.rtc)

\* What follows the shift, by the number of bits that are in.
Shifted(t, r, time) ==
    CASE t.state = "ID" /\ t.bitcnt = ByteBits - 1 -> Machine([t EXCEPT !.devid = t.byte], r)
      [] t.bitcnt = ByteBits -> Complete(Machine(t, r), time)
      [] t.bitcnt = ByteBits + 1 -> Machine([t EXCEPT !.bitcnt = 0], r)
      [] OTHER -> Machine(t, r)

\* Mutant: a device that is read sends its bits one clock late.
i2c_databit_late(b, data, time) ==
    LET bit == IF b.bus.state = "DATA_OUT" THEN 0 ELSE data
    IN  Shifted([b.bus EXCEPT !.output = b.bus.byte \div Pow2[ByteBits - 1],
                              !.byte = IF b.bus.state = "DATA_OUT" /\ b.bus.bitcnt = ByteBits THEN @
                                       ELSE (@ * 2 + bit) % Pow2[ByteBits],
                              !.bitcnt = @ + 1], b.rtc, time)

i2c_databit(b, data, time) ==
    LET bit == IF b.bus.state = "DATA_OUT" THEN 0 ELSE data
    IN  Shifted([b.bus EXCEPT !.output = b.bus.byte \div Pow2[ByteBits - 1],
                              !.byte = (@ * 2 + bit) % Pow2[ByteBits],
                              !.bitcnt = @ + 1], b.rtc, time)

\* END does nothing in the clock chip.
i2c_end(t) == [t EXCEPT !.state = "IDLE", !.byte = 0, !.bitcnt = 0, !.current = FALSE]

i2c_start(t) == [i2c_end(t) EXCEPT !.state = "ID"]

\* The clock goes low: a bit, or what the data line did while it was high.
FallingClock(b, data, time) ==
    IF b.bus.stable THEN i2c_databit(b, data, time)
    ELSE Machine([(IF data = 0 THEN i2c_start(b.bus) ELSE i2c_end(b.bus)) EXCEPT !.stable = TRUE], b.rtc)

i2c_write(b, clk, data, time) ==
    LET c == IF clk = 0 /\ b.bus.clk = 1 THEN FallingClock(b, data, time) ELSE b
    IN  Machine([c.bus EXCEPT !.stable = @ /\ ~(clk = 1 /\ data # b.bus.data), !.clk = clk, !.data = data],
                c.rtc)

-----------------------------------------------------------------------------

I2cCreated ==
    [clk |-> 1, data |-> 1, byte |-> 0, output |-> 0, bitcnt |-> 0, state |-> "IDLE",
     stable |-> TRUE, devid |-> 0, current |-> FALSE]

I2cInit ==
    /\ i2c = I2cCreated
    /\ rtc = [ram |-> [c \in Cell |-> 0], bp |-> 0, first |-> FALSE]
    /\ since = <<>> /\ from = 0

\* Software moves one of the lines, or both in one write.
I2cLines(clk, data) ==
    /\ clk # i2c.clk \/ data # i2c.data
    /\ \E time \in TimeByte :
        LET b == i2c_write(Machine(i2c, rtc), clk, data, time)
        IN  i2c' = b.bus /\ rtc' = b.rtc
    /\ LET falls == clk = 0 /\ i2c.clk = 1
           bit   == falls /\ i2c.stable /\ i2c.state # "IDLE"
       IN  /\ bit => Len(since) < MaxBits
           /\ since' = IF bit THEN Append(since, data)
                       ELSE IF falls /\ ~i2c.stable THEN <<>> ELSE since
           /\ from' = IF falls /\ ~i2c.stable THEN rtc.bp ELSE from

I2cNext == \E clk, data \in 0 .. 1 : I2cLines(clk, data)

I2cSpec == I2cInit /\ [][I2cNext]_i2cVars

-----------------------------------------------------------------------------

I2cTypeOK == i2c \in I2cState /\ rtc \in RtcState

\* The value of the bits of s from i on, n of them, first one highest.
Value(s, i, n) ==
    LET v[k \in 0 .. n] == IF k = 0 THEN 0 ELSE v[k - 1] * 2 + s[i + k - 1]
    IN  v[n]

Group == ByteBits + 1

\* Byte number k of the transaction; number 0 is the address.
ByteAt(k) == Value(since, k * Group + 1, ByteBits)

\* A transaction is what its bits say, taken in bytes and acknowledgements,
\* although the bus takes them one at a time and the clock chip byte by byte.
\* The address selects the chip and the direction; the first byte written
\* sets the pointer and the others are stored behind it, round the end of the
\* chip; each byte is acknowledged; and a chip that is read has each bit on
\* the line before the clock goes up for it.
I2cInStep ==
    i2c.state # "IDLE" =>
        LET n     == Len(since)
            done  == (n + 1) \div Group
            pos   == n % Group
            write == since[ByteBits] = 0
            mine  == Value(since, 1, ByteBits - 1) = RTC_ID
        IN  IF done = 0 THEN i2c.state = "ID"
            ELSE /\ i2c.current = mine
                 /\ i2c.state = IF write THEN "DATA_IN" ELSE "DATA_OUT"
                 /\ write /\ pos = ByteBits => i2c.output = 0
                 /\ write /\ mine => (rtc.first <=> done = 1)
                 /\ write /\ mine /\ done > 1 =>
                        /\ rtc.bp = (ByteAt(1) + done - 2) % RamSize
                        /\ \A k \in 2 .. done - 1 :
                               k + RamSize >= done => rtc.ram[(ByteAt(1) + k - 2) % RamSize] = ByteAt(k)
                 /\ ~write /\ mine /\ pos < ByteBits /\ n > ByteBits =>
                        i2c.output = (rtc.ram[(from + (n \div Group) - 1) % RamSize]
                                         \div Pow2[ByteBits - 1 - pos]) % 2
=============================================================================
