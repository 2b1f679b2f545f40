# EmulatorKit: interrupts, serial chips, storage and bus protocols, specified

EmulatorKit is a collection of emulators for small retrocomputers. Each
machine is a C program of its own (`rc2014.c`, `searle.c`, `linc80.c`, ...)
that links a CPU core, the chips on its cards and a user interface. Everything
runs in one thread: the main program gives the CPU a slice of T states, then
calls the timer of every device, then recomputes the interrupt line, and once
a frame it deals with the slow things and sleeps. Nothing is pre-empted, and
yet the devices see a concurrent world: where an instruction falls between two
device timers is up to the program that runs on the emulated CPU, and every
port access, character arrival, interrupt acknowledgement and return from
interrupt can come before or after any other.

These modules specify the parts of that which are hardest to test: the Zilog
style interrupts of the RC2014 machine, with the SIO, the CTC, the daisy chain
and the way the emulator finds out that a Z80 has executed RETI; the other
serial chips, alone and behind the RC2014's second interrupt path; the storage
controllers with hosts that do anything in the middle of a transfer; and the
devices that follow a protocol bit by bit or byte by byte, the PS/2 keyboard,
the I2C clock and the Wiznet network chip.

## 1. Inventory

| Part | Source | State | Operations | Correct means |
|---|---|---|---|---|
| Z80 SIO | `z80sio.c` | two channels: registers, status bits, three byte FIFO array with `dptr`, pending bits `intbits`, flag `irq`; `irqchan`, the channel in service | `sio_timer` (main loop), `sio_read`, `sio_write` (CPU), `sio_check_im2`, `sio_reti` (interrupt logic), `sio_set_dcd` (machine) | the receiver is a FIFO, pending bits have causes, one service at a time |
| Z80 CTC | `rc2014.c` 1083-1272 | four counters with control word, 16 bit fixed point count, reload value; the mask of channels that want to interrupt; a vector | `ctc_tick`, `ctc_receive_pulse` (main loop), `ctc_write` (CPU), `ctc_check_im2`, `ctc_reti` | no time is lost however it is sliced; the chain divides exactly |
| Interrupt fabric | `rc2014.c` 2719-2817 | `live_irq`, `intvec`, `live_nonim2`; the Z80's interrupt pin | `set_interrupt`, `poll_irq_nonim2`, `poll_irq_event`, `reti_event` | the fabric and the devices agree on who is in service; every request is served |
| Main loop | `rc2014.c` 3489-3588 | position in the frame | slices, ticks, frames | every device gets its turn |
| RETI decoder | `rc2014.c` 880-906 | `rstate` | `mem_read` | `reti_event` is called when, and only when, a RETI executes |
| Z80 core | `libz80` | registers; `IFF1`, `defer_int`, `int_req`, `int_vector` | `do_execute`, `do_int`, `Z80INT`, `Z80NOINT` | interrupts are taken at the right instruction boundary |
| 6850 ACIA, 16x50 UART, 6551, 68681 | `acia.c`, `16x50.c`, `6551.c`, `duart.c` | registers, one character each way, pending bits | timer or event, read, write, irq_pending | as the SIO; no lost or phantom interrupt |
| IDE, CompactFlash and 8255 adaptor | `ide.c`, `ppide.c` | task file, state, 512 byte buffer, position | register reads and writes, command execution | a command ends in a defined state, DRQ tells the truth, errors do not leave a half transfer |
| SD card | `sdcard.c` | SPI command state, buffers | byte in, byte out | responses match the command, a lost byte does not wedge the card |
| Floppy controllers | `wd17xx.c`, `lib765/`, `tarbell_fdc.c` | track, status, transfer position | ticks, register accesses | a command ends; DRQ and INTRQ in order |
| SCSI, SASI | `ncr5380.c`, `sasi.c` | bus phase, command, block position | selection, byte in, byte out, reset | phases belong to the command; a good status means every block moved |
| Z80 DMA | `z80dma.c` | programmed block, position | `dma_run`, writes | linked into `rc2014` and never called |
| Z180 I/O | `z180_io.c` | two ASCI, two PRT, DMA | as above | as above |
| Timers and parallel ports | `6522.c`, `6840.c`, `6821.c`, `i82c55a.c`, `tms9902.c` | registers | ticks, reads, writes | flags and interrupt line agree |
| Network | `w5100.c` | four sockets with two rings, their pointers, a queue of datagram lengths | register accesses, `w5100_process` | rings hold the stream in order; what was to be sent is sent |
| Bit banged buses | `ps2.c`, `rtc_bitbang.c`, `i2c_bitbang.c`, `i2c_ds1307.c` | line and shift states | line changes | a byte is sent whole; a transaction is what its bits say |
| Co-processor cards | `z80copro.c`, `z180copro.c` | latches, a second CPU | slices, latch accesses | no byte is lost between the two |
| CPU cores | `6502.c`, `6800.c`, `e6809.c`, `m68k/`, `lib65c816/`, `80x86/`, `ns32k/`, `z280/`, ... | registers | instructions | the instruction set |
| User interface, video, gdb | `*_sdl2.c`, `tms9918a.c`, `ef9345.c`, `gdb-server.c` | host resources | events | - |

How the modelled parts meet: the main loop calls `sio_timer` and
`poll_irq_nonim2` after every slice, `ctc_tick` after every hundred slices,
and `poll_irq_event` at the end of a frame when nothing is live. The Z80 calls
`sio_read`, `sio_write` and `ctc_write` by port accesses, and `mem_read` by
every memory read, which calls `reti_event` when the bytes look like a RETI.
`poll_irq_event` asks the SIO (`sio_check_im2`), then the CTC
(`ctc_check_im2`), and `set_interrupt` puts the answer on the Z80's pin.
`live_irq`, the fabric's idea of who is in service, and `irqchan`, the SIO's,
are two variables in two files that have to agree.

The serial chips without IM2 and the video chip share `live_nonim2`, which
`poll_irq_nonim2` samples from their lines after each slice. IDE, SD card,
floppy and SASI live entirely in the CPU's port accesses; `ps2_event` runs
after every slice and `w5100_process` after every frame.

Hard behaviours. Ordering of arrivals, port accesses, acknowledgements and
RETI; flags that lag behind the state they summarise (`irq`, `live_irq`,
`live_nonim2`, the vector on the line); FIFOs, rings and sector buffers at their
limit; resets that clear half of the state; fixed point arithmetic with 0
meaning 256 in one place and 0 in another; interrupts that are only looked for
at two points of the main loop; decoders that see bytes and not instructions;
commands, selections and resets in the middle of a transfer; images and hosts
that fail between two sectors or bytes; a 16 bit pointer written in two halves
with the main loop between them.
`PROJECT.json` lists each at its line.

## 2. The modules

| Module | Models | Uses |
|---|---|---|
| `Z80Sio` | every function of `z80sio.c` that changes the chip, as operators on one record | |
| `SioSystem` | an SIO among its three callers in any order | `Z80Sio`, `BoundedFifo` |
| `BoundedFifo` | abstract specification of a receiver | |
| `Z80Ctc` | the CTC functions, as operators on one record | |
| `CtcSystem` | a CTC with any program and any slicing | `Z80Ctc` |
| `CtcChain` | channel 2 clocking channel 3, with the code's own prescalers | `Z80Ctc` |
| `Rc2014Irq` | the fabric, the Z80's interrupt logic, the main loop, any program | `Z80Sio`, `Z80Ctc` |
| `Rc2014Driver` | the same machine running a program that follows the rules, with fairness | `Rc2014Irq` |
| `RetiDecoder` | `mem_read`'s decoder beside `do_execute`'s | |
| `Acia`, `Uart16x50`, `M6551`, `Duart` | the chips of `acia.c`, `16x50.c`, `6551.c` and `duart.c`, each with any software | |
| `Rc2014Serial` | an RC2014 with an ACIA or a 16x50, the second interrupt path and a handler, with fairness | `Acia`, `Uart16x50` |
| `Ide`, `SdCard`, `Wd17xx`, `Sasi` | the storage devices of `ide.c`, `sdcard.c`, `wd17xx.c` and `sasi.c` with their hosts | |
| `Ps2`, `I2cRtc`, `W5100` | the keyboard of `ps2.c`, the bus of `i2c_bitbang.c` with the clock of `i2c_ds1307.c`, the sockets of `w5100.c` | the first two `Powers` |
| `Powers` | what the shifts of `ps2.c` and `i2c_bitbang.c` multiply by | |
| `Z80SioProofs`, `Z80CtcProofs`, `CtcChainProofs`, `CtcProofs`, `Rc2014Proofs`, `SerialProofs`, `StorageProofs`, `ProtocolProofs` | theorems (section 4) | the modules they are about |
| `MCSio`, `MCRc2014`, `MCDriver` | values of constants for TLC | |
| `MCCtc`, `MCSerial`, `MCStorage`, `MCProtocols` | several modules in one run; `fitted` says which part is there | |

Operators carry the names of the C functions. A chip is one record (`SioState`,
`CtcState`) because the machine embeds it: `Rc2014Irq`'s variable `m` holds the
SIO, the CTC, `live_irq`, `intvec`, `live_nonim2` and the Z80's interrupt
fields, and each function of `rc2014.c` is an operator on such a record. An
action is then a whole step of the code. `EndSlice`, for instance, is
`sio_timer` followed by `poll_irq_nonim2`, with the `set_interrupt` at its end.

### Z80Sio and SioSystem

`rx`, `txe`, `nodcd` are bits 0, 2, 3 of `rr[0]`; `ovr` is bit 5 of `rr[1]`;
`rr1int` is bit 1 of channel A's `rr[1]`; `reg` the register pointer. `wr1` is
a record of the bits of WR1 that the code tests. `data` has three slots, as in
the code, of which the third is written on overrun only. Left out: tracing,
`wr[4..7]`, `rxint` and `txint` (set, never tested), the constant bits of the
read registers.

`SioSystem` starts with a chip that software has programmed, any way it
likes; `Timer` lets the device of each channel have a character or none and be
ready for one or not.

### Z80Ctc, CtcSystem, CtcChain

Counts are kept in the code's fixed point unit. `Scale`, `Ratio` and `Wrap`
are the code's 256, 16 and 256: `CtcChain` uses just these, `CtcSystem` small
ones so that TLC can take every control word at every moment. `ctc_tick`'s
while loop is `Wraps`, the number of its turns, in closed form; what each turn
does to channel 3 is a recursive function over those turns.

### Rc2014Irq

`i` and `j` place the main loop in the frame. The Z80's instructions are: one
that touches nothing here, EI, DI, RETI, a port access to the SIO or the CTC.
`Accepts` is `Z80Execute`'s test; an interrupt clears `IFF1` and `int_req`.
`defer_int` keeps the instruction after EI or DI free of interrupts. In this
machine software uses the data ports, the commands in `SioCmd`, and any byte
to the CTC; WR1 to WR3 are programmed before the model starts, and `SioSystem`
is where they are rewritten on the run. `isr` is a history variable: the
sources of interrupts taken and not returned from. The boards without IM2
(VDP, ACIA, 16x50) are the set `Legacy`, and each of them may pull or release
the line after any slice. Not modelled here: a HALT with interrupts disabled,
which ends the emulation, and the NMI, which nothing on this machine drives.

### Rc2014Driver

A handler that reads one or more of the waiting characters, resets the
channels that have overrun, and ends with EI and RETI. It has to do what the
emulated chip needs: command 060 clears the overrun flag and leaves its
interrupt pending, so the handler uses command 020.

### RetiDecoder

Bytes are five classes, as the two decoders tell no more apart: DD and FD, CB,
ED, 4D, all others. `table` is the opcode table `do_execute` is in; the third
and fourth bytes of DD CB are read with M1, as the code does. The program uses
opcodes that `opcodes.lst` defines.

### Acia, Uart16x50, M6551, Duart

One record per chip with the status bits the code tests; characters are only
counted (`unread`, `kept`: how many have come since software last read one). An
action is one call: the timer or event with the device having a character or
not and being ready or not, a read or a write of each register, a move of a
modem line or pin, a reset. The 16x50's clock interrupt on DSR is there
(`DsrTimer`). `M6551`'s line goes up with a request while bit 4 of the command
register is set, as the code has it, and not by the transmit register as its
comment wants (section 5). `Duart`'s `due` is a history variable, the phase its
counter should have. Divisors, mode registers, vectors and scratch registers,
which are stored and not used, are left out.

### Rc2014Serial

The card's line, `live_nonim2` and the pin are three variables that follow each
other: `poll_irq_nonim2` runs at the end of a slice, `set_interrupt` copies
`live_nonim2` to the pin. The program is a handler that reads status and data
until the card has no more, one access per step, so that slices end between
its status read and its data read.

### Ide, SdCard, Wd17xx, Sasi

Each has the controller's fields, the operations of the code under their own
names, and a host. A disk image is a position and, where writes are checked,
its contents; reading or writing a sector may fail at any time. `job`,
`reader`, `excuse`/`untold` and `order` are history variables: what was asked
for, and how much of it has been done. The host of `Ide`, `Wd17xx` and `Sasi`
does anything at any moment. SASI has several disks, each with its own phase
and index: a selection changes the disk at once and the phase lines only when
SEL goes down, so reads in between (`SasiReadByte`, which is `sasi_ack_bus` and
looks at the lines only) move the new disk on in the phase of the old one, and
so do reads while RST is up. `SasiOp` says which commands the host gives each
disk; `SenseBytes`, `DriveBytes`, `AlternateBytes` are the lengths of the short
transfers, `DataBytes` that of `dbuf`, and `DptrValues` the width of the index.
The host of `SdCard` follows the protocol but
gives up anywhere, by raising the select line, except between a command and
its response: the code keeps `sd_stuff` then, and the next command's first
bytes are swallowed.

### Ps2

`ps2_clocks` lets the state functions run until the clocks are used up: each
state function gives the keyboard and the clocks that are left, `Turn` is a
turn of the loop, and the loop is a recursive function of the number of turns.
It stops at `clocks + FreeTurns` turns, since up to two turns use no clocks
(some state functions only go on to another state and pass their clocks on);
`Ps2LoopEnds` proves that no more are ever needed. A queue has room for one
byte at least, the AA that `ps2_create` queues (16 in the code). Software moves
both lines between any two events. `heard` is what a host has read of the frame
from the lines (`ps2_get_clock`, `ps2_get_data`: either end pulls a line down),
a bit at each fall of the clock line. It is `Broken` when the host itself held
clock or data down at an edge of the keyboard's, for then it has missed the bit
or read its own 0; `ended` holds the bytes that left a queue, with what came
over the lines for them. Commands are classes of bytes (`Decode`), replies are
bytes (`Reply`).

### I2cRtc

`i2c_databit` is the shift and then `Shifted`, what the code does by the number
of bits that are in; `Machine` is the bus with the chip behind it. Software
writes the two lines in any way, both at once included. `since` is the
bits since the last START; the chip is compared with what those bits mean when
they are read as bytes.

### W5100

A byte of a stream is its position in the stream. `half` is the pointer of
which software has written the high byte and not yet the low one, and
`w5100_process` may run in between. `traffic` says which direction an instance
uses: no step looks at both rings. System calls answer in every way the code
distinguishes. `Scanned` is the set of sockets that a call of `w5100_process`
looks at: socket 0 only (section 5). Software in the model respects three
limits of the code: it does not move TX_WR while a stream is being sent, as
`w5100_socket_process_tcp_write` reads it live; it gives no more SENDs between
two calls than `datagram_lengths` has room for; it reads no more than was
received.

## 3. What is checked

`tlc -workers 2 -config <cfg> <module>` in this directory.

| Run | Question | Result |
|---|---|---|
| `sio_receive` (`MCSio`, `SioRx.cfg`) | With every register, every command, a channel reset and a moving carrier line: do `dptr` and the other fields keep their range, does each channel implement `BoundedFifo`, does the status bit tell the truth? | holds |
| `sio_interrupts` (`MCSio`, `SioIrq.cfg`) | With both channels receiving and transmitting: does every pending bit have its cause, can one channel take the service of the other, does B ever go before A? | holds |
| `sio_overrun` | Does an overrun replace the last character? | no: finding |
| `sio_vector` | Is the vector delivered the one that was raised? | no: finding |
| `ctc` (`MCCtc`, `Ctc.cfg`) | Is `ctc_tick(a); ctc_tick(b)` the same as `ctc_tick(a + b)` in every reachable state? Does a disabled channel keep silent? Do the counts and the interrupt of the chained pair agree with the closed form of what it should have counted? | holds |
| `rc2014_im2` (`MCRc2014`, `Rc2014Im2.cfg`) | With any program: do SIO and fabric agree on who is in service, is the vector on the line the right one, does only RETI change the source? | holds |
| `rc2014_wedge` | Is the SIO's service always live without IM2? | no: finding |
| `rc2014_driver` (`MCDriver`, `Rc2014Driver.cfg`) | With the rule-abiding program: is every character read, every timer interrupt serviced, and is the handler left alone? | holds, under fairness |
| `serial` (`MCSerial`, `Serial.cfg`) | Do the lines and status bits of the four chips tell the truth under any software; is a lost character always told; in the RC2014, are all characters read, and do needless interrupts and reads have no other reason than the sampling? | holds, the characters under fairness |
| `storage` (`MCStorage`, `Storage.cfg`) | Do requests, phases and positions stay in step with the command through errors, resets and reselections; does a command end; is a sector written that was not asked for, or in part? | holds, the answers under fairness |
| `protocols` (`MCProtocols`, `Protocols.cfg`) | Is anything else taken for a RETI, and each RETI behind a plain byte seen? Does a keyboard byte leave its queue only when the host has read it whole or has itself held a line down at a bit of it? Is an I2C transaction what its bits say? Do the W5100's rings hold the streams, and is what was to be sent sent? | holds, the last under fairness |
| `reti_missed` | Is every RETI seen? | no: finding |

Properties, and how they could have been false. `ReceiverIsFifo` is a
refinement of `BoundedFifo` for each channel, with the readable part of `data`
as the queue; the code's overrun path writes past it, the channel reset clears
the status and keeps the characters, and the data read shifts an array whose
third slot may hold an overrun character. It is about the order and the number
of what is in the queue; `BoundedFifo` does not say that every arrival is put
in, and the overrun's character is turned away there. `ServiceNotPreempted`
forbids that one channel takes over the other's service; a read that takes the
cause away may still end a service before its RETI. `PendingHasCause` needs
every function that takes a cause away to take the bit away too.
`ChannelAFirst` is about flags: `irq` lags behind `intbits`, and only
`sio_recalc_interrupts` makes the order of the two tests in `sio_check_im2`
mean anything. `SlicingIsInvisible` quantifies over two slices in every
reachable state, so it catches what is lost in the middle of a tick.
`ServiceIsLive` relates the SIO's `irqchan` to the fabric's `live_irq`, which
change in different functions; `LiveNotReplaced` is an action property of the
same pair.

`AciaOverrunTold` and `M6551Truth` relate a flag to the number of characters
that came, through resets and reads at any moment. `M6551Truth` says that the
status bit is there exactly when a cause is and that the line is never up
without it; when the line does go up is not part of it, since code and comment
differ. `UartLineTruth` holds although `irqline` keeps the sources it went up
with. `DuartTruth` holds although the counter goes below zero by several
periods. `PhantomOnlyAfterRace` and `SpuriousOnlyInSlice` name the only ways in
which the polling makes the handler work for nothing. `IdeInStep` says where
the image file stands at every moment of a transfer, `SdInStep` that card and
host mean the same byte, `WdEndIsTold` what a host that waits for INTRQ is
waiting for, `SasiPhaseTruth` and `SasiBlocksInStep` that phase lines, counters
and status belong to the command that was given, whatever was broken off by a
selection or a reset and whatever was read while SEL was up. `WritesAsked` is
an action property of the images: a block is written whole and where the
command said, or not at all. A floppy write whose registers or select lines the
host moved meanwhile is excepted: the code writes where they point at the end.
`Ps2SendsWhole` fails if the keyboard resumes a frame it has broken off, or
takes the byte from the wrong queue; frames the host spoilt without the
keyboard's noticing are excepted (`Broken`). `W5100RxInStep` fails if the place
of new data is computed from the pointer software is moving; `W5100TxInStep` if
SEND forgets where the last datagram ended.

Bounds. `SioRx`: one driven channel, two characters (order is visible), FIFO
depth is the code's. `SioIrq`: two channels, one character value, as the
interrupt logic never looks at it. `Ctc`: channels 2 and 3, scale 2 and wrap 3,
so that constants 0, 1 below the wrap and in between exist, slices of 1 clock
and of 6, which is several periods. Its chained pair has the code's constants,
the slices of the RC2014 (3650) and of the Micro80 (921), and time bounded by
`MaxClock` (a million counts), where it stops. `Rc2014Im2`: one SIO
channel, two CTC channels, a board without IM2, a tick of one slice and a
frame of one tick: positions in the frame only decide when the polls come, and
with one slice each poll may come after any instruction. Receive interrupts
only: transmit interrupts are `SioIrq`'s. `Rc2014Driver`: both channels, two
slices and two ticks, four characters in all (`Arrivals`), so that overruns
happen; a timer that expires in every tick.

`Serial`: two modem lines, masks that enable nothing, receiving, and
everything; the DUART's counter is 20, between its 11 and 184 clocks per tick,
so that a tick ends no period, one or many; five characters come to the
machine, enough to overrun and to be read in several interrupts. `Storage`:
sectors of two bytes, the least that has a middle; SASI commands of two bytes
where the code has six, all transfers of two bytes, counts 0 and 1, disks of
three blocks, and an index of three values, so that it goes past a status
phase's end and round; two disks, of which one takes every command and the
other writes, so that each phase of the first is met by a broken-off write of
the second; elsewhere images of two to four sectors, so that transfers reach
the end; one IDE drive and an empty place for the other (two drives make more
than fifteen million states); the SD card answers after two or four bytes;
floppy tracks 0 to 2 of which the last is not on the disk, one drive with two
sides and an empty one. `Protocols`: five reads for the decoder, which is a
prefixed instruction, a RETI and a byte, and its memory is one byte; bytes of
two bits for keyboard and clock, as both count bits and never look at one by
name; two bytes of queue; nine bits after a START, which are an address and two
bytes with their acknowledgements, and two memory cells, so that the pointer
goes round; one socket with rings of two bytes and pointers of two bits in two
halves, so that both go round, a header of one byte and two datagrams.
`CHECK_DEADLOCK` is off where such a bound stops a run.

In `serial`, `storage` and `protocols` one part is fitted at a time: the parts
share no state, so running two together would only multiply what each does
alone.

Fairness. `Rc2014Driver`: the main loop goes on for ever (`[]<><<LoopStep>>`).
The code justifies it: `Z80ExecuteTStates` returns when the T states of its
slice are used up, every instruction uses some, and nothing in the loop waits
for another party. The slice ends only after at least one instruction (`ran`),
which is what `Z80ExecuteTStates` does, so the program gets on as well.
`Serial`: weak fairness of the CPU's step and of the end of a slice in the
RC2014, for the same reason. `Storage`: weak fairness of the SD host's poll
(`StoragePoll`); it is an assumption about the host, the polling loop every
driver has, and none about the card. `Protocols`: weak fairness of a call of
`w5100_process` in which the host's network takes something (`ProtocolTakes`);
the main loop calls it every frame, and that the network accepts data some
time is the assumption TCP itself makes. Nothing is assumed about characters;
that they are read is a leads-to from the moment they are in the FIFO.

Each property has, in `PROJECT.json`, a mutated operator that violates it; the
mutants stand before the operators they change, marked "Mutant".

## 4. What is proved

With TLAPS, for all values of the constants that satisfy the modules' named
assumptions (characters and vectors are bytes, modes are WR1 values, `NoChan`
is no channel, `HaveIm2` a Boolean, a ring is shorter than its pointers are
wide, a density is a number, and so on). TLC evaluates those assumptions in the
runs. The modules with proofs:

| Module | Theorems |
|---|---|
| `Z80SioProofs` | lemmas, one or more per function of `z80sio.c` |
| `Z80CtcProofs` | lemmas about `ctc_tick` and `ctc_pulse` |
| `CtcChainProofs` | `PairCounts` |
| `CtcProofs` | `CtcCorrect`, `SlicesAddUp`, `PairOfTheRun` |
| `Rc2014Proofs` | `ServiceAgreed`, `MachineTypeCorrect`, `VectorTrue`, `LiveKept`, `HandlerWhole` |
| `SerialProofs` | `SioTypeCorrect`, `InterruptsHaveCause`, `AvailableIsTrue`, `NoPreemption`, `AHasPriority`, `ReceiversAreFifos`; `AciaLineFollows`, `AciaCorrect`, `UartCorrect`, `M6551Correct`, `DuartCorrect`, `PhantomsExplained`, `SpuriousExplained`, `SerialInRange` |
| `StorageProofs` | `IdeCorrect`, `SdTogether`, `FloppyTells`, `SasiPhases`, `SasiBlocks`, `StorageInRange`, `FloppyWrites`, `SdWrites`, `StorageWrites` |
| `ProtocolProofs` | `RetiIsSeen`, `W5100TypeCorrect`, `W5100Receives`, `W5100Transmits`, `Ps2Whole`, `Ps2LoopEnds`, `I2cInvariant`, `I2cStepsWell`, `ProtocolTypes` |

### The SIO

* `SioTypeCorrect`: `Spec => []TypeOK`. `TypeOK` is inductive. `Z80SioProofs`
  states of each function that it maps `SioState` to itself, from the `Upd`
  lemmas about single assignments.
* `InterruptsHaveCause` and `AvailableIsTrue`: the inductive invariant is
  `TypeOK /\ Sound(sio)`, where `Sound` says both properties of each channel;
  the type is needed because the FIFO arithmetic only makes sense in range.
  `ClearIntEffect` and `RaiseIntEffect` say what the two bookkeeping functions
  do to status, pending bits and service; every other function is sound because
  it calls them in the right order: the cause is set before the bit is raised,
  the bit is dropped with the cause.
* `NoPreemption` and `AHasPriority`: from `TypeOK` and one lemma per function
  that it keeps `irqchan`, clears it or, in `sio_check_im2` only, sets it.
* `ReceiversAreFifos`: the refinement of `BoundedFifo` by both receivers. Each
  step of the chip is a step of the abstract FIFO of each channel, or leaves it
  alone; `Contents`, the first `dptr` slots of `data`, is the refinement
  mapping.

### The CTC

What the turns of `ctc_tick`'s loop do to channel 3 is a recursive function.
What it computes for any number of turns is proved by induction, with
`SetInduction`, a lemma derived from the well-founded order of the naturals
that speaks of a set instead of an operator (the library's own induction
theorems take an operator, which the provers cannot instantiate). `CtcCorrect`
has the type and the silence of disabled channels as its inductive invariant.
`SlicesAddUp` rests on `TickAdd`: a count that has run for `a` and then for `b`
has wrapped as often, and stands where, it would after `a + b`; and the pulses
channel 2 sends are the sum of those of the parts.

`PairCounts`: `ChainConst => (Spec => []PairCountsExactly)`. `ChainConst` says
what the pair is: the channels are chained, the constants are time constants,
and the counter's is not 0, as a counter with constant 0 is another case of the
code. The property alone is not inductive: `NoDrift` is a remainder, and
`DividesExactly` is about the number of timeouts in closed form, and neither
says how many periods the count has gone through. `ChainInv` keeps that number:
there is a `t` such that the timer's count, plus the time, is `t` whole periods,
and the counter stands where `t` pulses leave it and has interrupted if they
reached its constant (`PairGood`). `TimerExact` gives a tick's turns `w`,
`CountsAll` what `w` pulses do to the counter (again by `SetInduction`), and
`TickPair` puts them together: `t` becomes `t + w`. `ChainExact` then finds that
`t` is `Timeouts`. `MCCtc` has the same pair as an instance with the code's
numbers; `PairOfTheRun` is that instance of `PairCounts`.

### The RC2014 machine

* `ServiceAgreed`: `HaveIm2 /\ Spec => []ServiceIsLive`. The inductive
  invariant is `Agrees(m)`: the machine is a record with a well typed SIO, and
  the SIO in service is live. Only `sio_check_im2` starts a service,
  `poll_irq_event` calls it only when nothing is live, and then by the invariant
  nothing is in service; `live_irq` leaves the SIO only in `reti_event`, which
  ends the service first. `ctc_write` may drop `live_irq`, but never when it
  names the SIO. Without IM2 the statement is false, which the run
  `rc2014_wedge` shows.
* `MachineTypeCorrect` and `VectorTrue`: `Invariant`, the type of the whole
  machine (with the CTC's, from `Z80CtcProofs`) and the vector the SIO shows
  while its interrupt is live.
* `LiveKept`: an action property from the same lemmas.
* `HandlerWhole`: `MaxNest >= 1 /\ DSpec => []HandlerNotInterrupted`. The
  inductive invariant `Handling` says where in the handler IFF1 and the
  deferral of EI stand; the history has to remember one handler at least, hence
  the hypothesis.

### The serial chips and their machine

* `AciaLineFollows`, `AciaCorrect`: `AciaInv` is the conjunction of the type,
  the line and the overrun. `AciaComputed` says that `acia_irq_compute` makes
  the line true whatever it was, so each action only has to be shown to end in
  it, or, in the early way out of `acia_timer`, to have changed nothing.
* `UartCorrect`: `UartInv` is the type and the three parts of `UartLineTruth`,
  stated of a record (`UartSane`) because the functions of `16x50.c` call each
  other: `UartRecalc` says that `recalc_iir` restores the first two parts
  whatever they were, given the third, and the other lemmas that each caller
  keeps the third.
* `M6551Correct`: `M6551Inv` adds to type and property when the line is up: with
  the status bit, while bit 4 of `cmd` is set (`M6551Line`).
* `DuartCorrect`: `DuartInv` adds to the property that the line follows the
  status bits and, per port, the receive request the character; the phase of
  the counter (`ct % ctr = due`) is kept by lemmas on the remainders in
  `duart_count`, for every constant and however many periods end in a tick.
* `PhantomsExplained`, `SpuriousExplained`: `SerialMachine` holds the two
  chips' invariants and three links between chip, fabric and program:
  `LineFollowed` (the pin follows `live_nonim2`, which follows the card unless
  the cause was cleared in this slice), `ReadyBelieved` (what the program has
  seen of the data ready bit) and `HandlerMasked` (IFF1 is off in the handler).
  None of them is inductive alone.
* `SerialInRange`: the types of the four chips, from their invariants, and that
  of the machine around them (`MachineTypeOK`, lemma `MachineTyped`).

### Storage

* `IdeCorrect`: `IdeInv` adds to `IdeInStep` that the drive's offset is never
  the "missing" one of an address outside the disk while a transfer is due, and
  that an identify ends before the image is asked. Busy shows during a reset
  only.
* `SdTogether`: `SdInv` relates the card's mode to the place of the host in the
  protocol. The strengthening is `SdReadyFor`: while the response is still
  coming, the mode the card will be in afterwards is the one the host will take
  it for, and the length of what follows is right. It holds for a host that
  deselects and resets at any moment but between a command and its response.
* `FloppyTells`: `WdInv` adds that a write has stopped the count of status
  reads, and that the place of a write is settled (`Settled`) unless the
  history names a reason. `FloppyWrites` needs the second part.
* `SasiPhases`, `SasiBlocks`: one invariant, `SasiInv`, with a case per phase
  (`InPhase`): command, data in, data out, status. While SEL is up it asks only
  for a disk and for the types; that the end of SEL makes the rest true whatever
  the reads before have left behind is what `sasi_device_begin` is for.
* `StorageInRange`, `StorageWrites`: the devices in one specification that fits
  one of them per behaviour. A step of one stutters for the others, so each
  keeps its own invariant.

### RETI and the W5100

* `RetiIsSeen`: `RetiInv` says for each table the Z80 is in which states of
  `mem_read`'s decoder go with it, and that a decoder that is behind has a
  prefix byte to blame.
  `RetiTypeOK` is a part of it.
* `W5100TypeCorrect`, `W5100Receives`, `W5100Transmits`: `W5100Inv` is the type
  and `SockGood` of every socket. `RxGood`: the ring holds the stream in order
  from the old RX_RD, and RX_RD, or the value it is half way to, is not ahead
  of what was received. `TxGood`: the same of the transmit ring and TX_WR, with
  the datagrams that wait adding up to the distance from TX_RR to the last SEND
  (`TotalLength`, again by induction, `NatSetInduction`). `PendingGood`: a
  pending write belongs to an open socket, unless the socket was closed under
  it, which the history keeps in `aborted`. That the count of datagrams keeps
  its range rests on the software of the model, which gives no more SENDs
  between two calls than there is room for; `w5100_socket_send` does not look
  (section 5). All pointer arithmetic is modulo `Wide`, and the proofs need a
  ring to be shorter than that (`Ring < Wide`; 2048 and 65536 in the code).

The proof of the receive ring found a gap in the model. `w5100_process` may
reset a socket between the two halves of a pointer write; the second half of
the code replaces the low byte only (`src/w5100.c:660-662`, `668-670`), and so
the pointer is not the one software meant. `LowByte` now does just that.
Constants such as 65535 have names (`WordMax`) because the provers expand a
literal that size.

### The keyboard and the I2C clock

Shifts multiply and divide by powers of two, of which the provers know nothing;
`Pow2` is a recursive function, and `Pow2Is` and the lemmas behind it (its
values are positive, a sum of exponents is a product of powers) come from
`NatSetInduction`.

* `Ps2Whole`: `Ps2Inv` is `KeyboardGood` of the keyboard, `HeardGood` of it
  with what the host has heard (the frame so far, or `Broken`), and the
  property. It has to say how far the frame has got: in the send state `send`
  is what is left of the frame of the byte at the head of the queue that is to
  be served, and `heard` the bits that have gone; the byte that leaves is the
  one whose frame it was, although replies may have come meanwhile, because
  `replymode` is decided when the frame begins. The lemmas go through the state
  functions one by one, and `ClocksGood` takes the loop by induction over its
  turns.
* `Ps2LoopEnds`: each turn either uses clocks or is one of the few that
  `FreeBit` counts, so that clocks plus free turns go down (`Uses`). The while
  of the code has no other bound.
* `I2cInvariant`: `I2cInv` says with the number of bits since START, as whole
  groups and a rest, which state the bus is in, what its shift register holds
  of the byte that is coming or going, and what pointer and cells the bytes so
  far have made (`Writing`, `Reading`). The shift register is not in
  `I2cInStep`, which compares at byte boundaries: without it the step that
  completes a byte could not be proved. `I2cStepsWell` is the property.
* `ProtocolTypes`: the four parts in one specification that fits one of them per
  behaviour, each with its invariant (`ProtocolInv`) and its type, the decoder's
  included; a step of one stutters for the others.

Two things were changed for these proofs. The loop of `ps2_clocks` was a
RECURSIVE operator and is a function; and `BufSize` may no longer be 0, for
which not even the initial state has its type.

### Model-checked only

Every invariant of the passing runs is stated by a theorem. What TLC alone
checks:

* Liveness: `AllCharactersRead`, `SdAnswers`, `W5100Sends` and the others.
  TLAPS does not do fairness or ENABLED.
* The runs that refute a statement (section 5): a counterexample is a run, not a
  theorem.
* That the constants of the `MC` modules satisfy the assumptions.

## 5. Disagreements between code and comments

* `z80sio.c:126` says an overrun replaces the last character in the FIFO. It
  goes to `data[2]`, which is never read (`sio_overrun`).
* `z80sio.c:98` compares `chan->unit`, a letter, with 0. Channel A delivers
  channel B's vector, not the one `sio_raise_int` computed (`sio_vector`).
* `rc2014.c:2766`: without IM2 the CTC replaces the SIO in `live_irq`;
  disabling the CTC channel then leaves the SIO in service with nothing live
  (`rc2014_wedge`).
* `rc2014.c:891`: the second byte of `SET 1,E` (CB CB) or of an instruction
  like it looks like a prefix, and the RETI after it is missed (`reti_missed`).

Seen while modelling. No run is about these: the model does what the code
does, and the repository promises nothing else, or the property says what is
excepted.

* 6551: the comment at `6551.c:32-33` puts the line up "if the IRQB is asserted,
  and the transmit data register is empty"; the code tests bit 4 of the command
  register and never the transmit register.
* 16x50: the transmitter-empty interrupt is taken from bit 1 of `lsr`. DUART:
  `(value & 0xE0) >> 4` for the mode of the counter; the read of IPCR does not
  recompute the line.
* IDE: CHS addresses of the second drive always fail; after an error the
  address is advanced by 512 where sectors are counted; a missing drive ends a
  command without INTRQ.
* SD card: the select line raised between command and response leaves
  `sd_stuff` behind.
* WD17xx: a read of a sector that is not there sets INDEX, which is DRQ's bit;
  a read error leaves `rd` set with the old size; a forced interrupt leaves
  DRQ; a wrong density ends a command without INTRQ; a one sided disk takes a
  write to side 1 on side 0; a write to an empty drive ends the emulator.
* SASI: a selection with SEL raised before the address skips
  `sasi_device_begin`; a read that ends with the last block reports a check
  condition; a format error ends with a good status; a write behind the end
  makes the image longer. `sasi_ack_bus` looks at the lines and not at the state
  of the bus (and `max80.c:227` calls it alone): reads while SEL is up go on in
  the phase of the disk before on the one now selected, where they reach the
  "state error" of line 380 if a write was broken off there, and take the index
  of a status phase past its two bytes.
* W5100: the inner loop of `w5100_process` (line 992) counts with the outer
  loop's `i`, so only socket 0 is ever added to the sets; CLOSE leaves
  `write_pending` set, so the next socket opened in its place sends old
  datagrams or reports SEND_OK (`aborted` in the model); a failed connection
  raises CON; a connection in CLOSE_WAIT is never read again; more than 32
  SENDs between two calls write behind `datagram_lengths`.
* PS/2: the byte after F0 or FD is executed as a command too; parity is not
  checked. The comment at `ps2.c:176-177` says that the keyboard will abort if
  the host pulls the clock low again, but it looks at the clock only at the
  first step of a bit (lines 120-127): a host that holds a line down at a later
  step and lets go again loses the bit, and the byte leaves its queue.
* I2C: a read fetches one byte more than it hands out, so the next one starts
  a byte later; an absent device is acknowledged when it is written, and a
  read is not acknowledged by the device.

## 6. Plan

Done: SIO, CTC, fabric, RETI decoder, the other serial chips, IDE, SD card,
WD17xx, SASI, W5100, PS/2 and the I2C clock, modelled and checked, and all their
invariants proved.

Left, in this order: the 6522 and 6840 timers; the Z180's ASCI and timers;
`ncr5380.c` over `Sasi`; the co-processor card, two CPUs in turns with a latch
between them.

## 7. Not modelled

Most of the repository's 157 000 lines are CPU cores, disassemblers, vendored
libraries and the memory maps and option parsing of some sixty machines. There
is little in them for a model checker, and the share of lines the modules cover
is small for that reason: they cover the devices, where the orderings are.

* CPU cores: what an instruction computes is best tested against the
  processors' own test suites.
* `z80dma.c`: linked into `rc2014`, never called, and unfinished.
* `ncr5380.c`, 6522, 6840, 6821, 8255, TMS9902, 8251, the Z180's on-chip
  devices, `rtc_bitbang.c`, the co-processor cards: within reach, see the
  plan.
* `lib765` and other vendored libraries.
* Rendering and user interface, the gdb server, memory banking.
* The other machines' main programs, several of which share the interrupt
  scheme above.

The reasons are given component by component in `PROJECT.json`.
