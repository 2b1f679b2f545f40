-------------------------------- MODULE Sasi --------------------------------
(***************************************************************************)
(* The SASI bus of sasi.c with its disks.  The disk drives the phase lines *)
(* BSY, CD and IO, the host selects, writes and reads bytes and resets     *)
(* whenever it likes; what a byte means is decided by the lines at that    *)
(* moment.  A selection moves none of them before SEL goes down again, so  *)
(* until then a read goes on with the phase of the disk before, on the new *)
(* one.  The host puts the address on the bus before it raises SEL (see    *)
(* sasi_bus_control).  MSG is never driven, and REQ says nothing more than *)
(* that a disk is selected (sasi_bus_state).                               *)
(***************************************************************************)
EXTENDS Integers

CONSTANTS
    SasiDisk,       (* the disks on the bus *)
    Blocks,         (* the blocks of a disk *)
    SasiSector,     (* the bytes of a block: 512 in the code *)
    CommandBytes,   (* 6 in the code *)
    SenseBytes,     (* what REQUEST SENSE gives: 4 *)
    DriveBytes,     (* what INIT DRIVE takes: 8 *)
    AlternateBytes, (* what ASSIGN ALTERNATE takes: 3 *)
    DataBytes,      (* the bytes of dbuf: 516 in the code *)
    DptrValues,     (* what an unsigned int can hold: 2^32 in the code *)
    MaxBlocks,      (* what a count of 0 stands for: 256 in the code *)
    SasiOp,         (* the commands the host gives each disk *)
    SasiCount,      (* the counts the host uses *)
    SasiLba         (* the first blocks the host uses *)

\* The commands, by how they go on after the last command byte.
Moving  == {"read", "write"}
DataIn  == {"sense", "readbuffer", "read"}
DataOut == {"initdev", "alternate", "writebuffer", "write"}
Opcode  == {"ready", "format", "verify", "badlun", "unknown"} \cup DataIn \cup DataOut

ASSUME SasiAssumption ==
    /\ SasiDisk \subseteq 0 .. 7 /\ SasiDisk # {}
    /\ Blocks \in Nat \ {0} /\ CommandBytes \in Nat \ {0}
    /\ DptrValues \in Nat /\ DataBytes \in 2 .. DptrValues - 1
    /\ SasiSector \in 1 .. DataBytes /\ SenseBytes \in 1 .. DataBytes
    /\ DriveBytes \in 1 .. DataBytes /\ AlternateBytes \in 1 .. DataBytes
    /\ MaxBlocks \in Nat \ {0} /\ SasiCount \subseteq 0 .. MaxBlocks - 1
    /\ SasiLba \subseteq Nat /\ SasiOp \in [SasiDisk -> SUBSET Opcode]

VARIABLES
    bus,
    order           (* history: what the command under way asked of the image *)

sasiVars == <<bus, order>>

NoDisk == 8

SasiDiskState ==
    [lba : Nat, count : 0 .. MaxBlocks, cmd : Opcode, cmd_len : 0 .. CommandBytes,
     dptr : 0 .. DptrValues - 1, dlen : 0 .. DataBytes, status : {"good", "check"}]

BusState ==
    [state : {"idle", "reset", "transfer", "endsel"}, bsy : BOOLEAN, cd : BOOLEAN,
     io : BOOLEAN, selected : SasiDisk \cup {NoDisk}, disk : [SasiDisk -> SasiDiskState]]

DiskCreated ==
    [lba |-> 0, count |-> 0, cmd |-> "ready", cmd_len |-> 0, dptr |-> 0, dlen |-> 0,
     status |-> "good"]

BusCreated ==
    [state |-> "idle", bsy |-> FALSE, cd |-> FALSE, io |-> FALSE, selected |-> NoDisk,
     disk |-> [n \in SasiDisk |-> DiskCreated]]

\* The selected disk, changed.
With(b, d) == [b EXCEPT !.disk[b.selected] = d]

Chosen(b) == b.disk[b.selected]

sasi_status_in(b, d, status) ==
    [With(b, [d EXCEPT !.status = status, !.dptr = 0]) EXCEPT !.cd = TRUE, !.io = TRUE]

\* The sense data that come with an error are left out: nothing depends on them.
Fails(b, d) == sasi_status_in(b, d, "check")

sasi_data_out(b, d, length) ==
    [With(b, [d EXCEPT !.dptr = 0, !.dlen = length]) EXCEPT !.cd = FALSE, !.io = FALSE]

sasi_data_in(b, d, length) ==
    [With(b, [d EXCEPT !.dptr = 0, !.dlen = length]) EXCEPT !.cd = FALSE, !.io = TRUE]

sasi_check_lba(b, d, lba, len) ==
    IF lba + len >= Blocks THEN Fails(b, d) ELSE sasi_status_in(b, d, "good")

Advanced(d) == [d EXCEPT !.lba = @ + 1, !.count = @ - 1]

\* ok says whether the image delivers.  The end of the disk is looked at
\* first, so a read that ends with the last block fails after its data.
sasi_read_block(b, d, ok) ==
    IF d.lba = Blocks THEN Fails(b, d)
    ELSE IF d.count = 0 THEN sasi_status_in(b, d, "good")
    ELSE IF ~ok THEN Fails(b, d)
    ELSE sasi_data_in(b, Advanced(d), SasiSector)

\* Mutant: the block number moves on only with the next block.
sasi_write_block_stays(b, d, ok) ==
    IF d.lba = Blocks \/ ~ok THEN Fails(b, d)
    ELSE IF d.count = 1 THEN sasi_status_in(b, Advanced(d), "good")
    ELSE sasi_data_out(b, [d EXCEPT !.count = @ - 1], SasiSector)

sasi_write_block(b, d, ok) ==
    IF d.lba = Blocks \/ ~ok THEN Fails(b, d)
    ELSE IF d.count = 1 THEN sasi_status_in(b, Advanced(d), "good")
    ELSE sasi_data_out(b, Advanced(d), SasiSector)

\* An error of the image does not stop the loop, and the last status is good.
sasi_format_disk(b, d) ==
    IF d.lba >= Blocks THEN sasi_status_in(b, d, "check")
    ELSE sasi_status_in(b, [d EXCEPT !.lba = Blocks], "good")

\* The command is complete.
sasi_command_process(b, d, lba, len, ok) ==
    LET m == [d EXCEPT !.lba = lba, !.count = len]
    IN  CASE d.cmd = "ready"       -> sasi_status_in(b, d, "good")
          [] d.cmd = "sense"       -> sasi_data_in(b, d, SenseBytes)
          [] d.cmd = "format"      -> sasi_format_disk(b, [d EXCEPT !.lba = lba])
          [] d.cmd = "verify"      -> sasi_check_lba(b, d, lba, len)
          [] d.cmd = "read"        -> sasi_read_block(b, m, ok)
          [] d.cmd = "write"       -> sasi_data_out(b, m, SasiSector)
          [] d.cmd = "initdev"     -> sasi_data_out(b, d, DriveBytes)
          [] d.cmd = "alternate"   -> sasi_data_out(b, d, AlternateBytes)
          [] d.cmd = "writebuffer" -> sasi_data_out(b, d, SasiSector)
          [] d.cmd = "readbuffer"  -> sasi_data_in(b, d, SasiSector)
          [] OTHER                 -> Fails(b, d)

\* The bytes that were asked for have gone to the host.  The last case is the
\* "state error": a disk selected in another one's data phase.
sasi_command_execute_in(b, d, ok) ==
    IF d.cmd = "read" THEN sasi_read_block(b, d, ok)
    ELSE IF d.cmd \in DataIn THEN sasi_status_in(b, d, "good")
    ELSE With(b, d)

\* They have come from the host.
sasi_command_execute_out(b, d, ok) ==
    IF d.cmd = "write" THEN sasi_write_block(b, d, ok)
    ELSE IF d.cmd \in DataOut THEN sasi_status_in(b, d, "good")
    ELSE With(b, d)

sasi_device_select(b, n) == [b EXCEPT !.bsy = TRUE, !.selected = n, !.state = "endsel"]

\* Mutant: bytes of a command that was broken off are kept.
sasi_device_begin_keeps(b) ==
    [With(b, [Chosen(b) EXCEPT !.dptr = 0]) EXCEPT !.io = FALSE, !.cd = TRUE, !.bsy = TRUE]

sasi_device_begin(b) ==
    [With(b, [Chosen(b) EXCEPT !.dptr = 0, !.cmd_len = 0])
        EXCEPT !.io = FALSE, !.cd = TRUE, !.bsy = TRUE]

sasi_bus_idle(b) ==
    [b EXCEPT !.bsy = FALSE, !.cd = FALSE, !.io = FALSE, !.selected = NoDisk, !.state = "idle"]

\* One byte further.
Further(d) == [d EXCEPT !.dptr = (@ + 1) % DptrValues]

\* Status and message byte, then the bus is free.
sasi_disk_ack_status(b) ==
    LET d == Further(Chosen(b))
    IN  IF d.dptr = 2 THEN sasi_bus_idle(With(b, d)) ELSE With(b, d)

\* A read never goes on past the buffer.
sasi_disk_ack_read(b, ok) ==
    LET d == Further(Chosen(b))
        r == IF d.dptr = d.dlen THEN sasi_command_execute_in(b, d, ok) ELSE With(b, d)
    IN  IF Chosen(r).dptr >= DataBytes THEN With(r, [Chosen(r) EXCEPT !.dptr = 0]) ELSE r

sasi_disk_write(b, ok) ==
    LET d == Further(Chosen(b))
    IN  IF d.dptr = d.dlen THEN sasi_command_execute_out(b, d, ok) ELSE With(b, d)

-----------------------------------------------------------------------------

NoOrder == [cmd |-> "ready", lba |-> 0, len |-> 0, moved |-> 0]

SasiInit ==
    /\ bus = BusCreated
    /\ order = NoOrder

\* SEL goes up with the number of a disk on the bus, whatever the bus is doing:
\* while RST is up as well.
SasiSelect ==
    \E n \in SasiDisk :
        /\ bus' = sasi_device_select(bus, n)
        /\ order' = NoOrder

\* SEL goes down.
SasiEndSelect ==
    /\ bus.state = "endsel"
    /\ bus' = [sasi_device_begin(bus) EXCEPT !.state = "transfer"]
    /\ UNCHANGED order

\* RST goes up, and down again.
SasiReset ==
    /\ bus' = IF bus.state = "reset" THEN sasi_bus_idle(bus) ELSE [bus EXCEPT !.state = "reset"]
    /\ order' = NoOrder

\* A byte from the host in the command phase; the first one is the opcode.
\* The last one runs the command.
SasiCommand ==
    /\ bus.state = "transfer" /\ bus.cd /\ ~bus.io
    /\ \E op \in SasiOp[bus.selected], lba \in SasiLba, c \in SasiCount, ok \in BOOLEAN :
        LET d   == Chosen(bus)
            e   == [d EXCEPT !.cmd = IF d.cmd_len = 0 THEN op ELSE @, !.cmd_len = @ + 1]
            len == IF c = 0 THEN MaxBlocks ELSE c
        IN  IF e.cmd_len < CommandBytes
            THEN bus' = With(bus, e) /\ UNCHANGED order
            ELSE /\ bus' = sasi_command_process(bus, e, lba, len, ok)
                 /\ order' = [cmd |-> e.cmd, lba |-> lba, len |-> len, moved |-> 0]

\* A block has gone to or come from the image and through the data phase.
Counted(d, e) ==
    order' = [order EXCEPT !.moved = IF d.dptr + 1 = d.dlen /\ d.cmd \in Moving
                                        /\ (d.cmd = "write" => e.lba # d.lba)
                                     THEN @ + 1 ELSE @]

SasiWriteByte ==
    /\ bus.state = "transfer" /\ ~bus.cd /\ ~bus.io
    /\ \E ok \in BOOLEAN : bus' = sasi_disk_write(bus, ok)
    /\ Counted(Chosen(bus), bus'.disk[bus.selected])

\* sasi_ack_bus, as part of sasi_read_data or alone (max80.c), which looks at
\* the lines and not at the state: a disk that was selected in another one's data
\* or status phase moves on in it while SEL is up, and so does a disk while RST
\* is.  None of that belongs to a command the host has given.
SasiReadByte ==
    /\ bus.io
    /\ \/ /\ bus.cd /\ bus' = sasi_disk_ack_status(bus)
          /\ order' = IF bus'.state = "idle" THEN NoOrder ELSE order
       \/ /\ ~bus.cd
          /\ \E ok \in BOOLEAN : bus' = sasi_disk_ack_read(bus, ok)
          /\ IF bus.state = "transfer" THEN Counted(Chosen(bus), bus'.disk[bus.selected])
             ELSE UNCHANGED order

SasiNext ==
    \/ SasiSelect \/ SasiEndSelect \/ SasiReset \/ SasiCommand \/ SasiWriteByte \/ SasiReadByte

SasiSpec == SasiInit /\ [][SasiNext]_sasiVars

-----------------------------------------------------------------------------

SasiTypeOK == bus \in BusState

\* The phase lines agree with the command that was given since SEL went down: a
\* data phase belongs to a command that has data in that direction (so it does not
\* end in the "state error" of sasi_command_execute_in) and has bytes of it left,
\* a command phase has room in the command buffer, and a status phase has a byte
\* to give.  That holds whatever was broken off by a selection or a reset, and
\* whatever was read while SEL was up, which takes the disk to be selected through
\* phases it is not in: there the state error is met, and dptr runs past the end.
\* A selection never loses its disk, which the end of SEL works on, and a free bus
\* has none and shows no phase.
SasiPhaseTruth ==
    /\ bus.state \in {"transfer", "endsel"} => bus.bsy /\ bus.selected # NoDisk
    /\ bus.state = "idle" => ~bus.bsy /\ ~bus.cd /\ ~bus.io /\ bus.selected = NoDisk
    /\ bus.state = "transfer" =>
        LET d == Chosen(bus)
        IN  /\ bus.cd /\ ~bus.io => d.cmd_len < CommandBytes
            /\ bus.cd /\ bus.io  => d.dptr < 2
            /\ ~bus.cd => /\ d.cmd_len = CommandBytes /\ d.dptr < d.dlen
                          /\ d.cmd \in IF bus.io THEN DataIn ELSE DataOut

\* While a transfer runs, lba and count say how many blocks have been moved,
\* and a good status means that every block was.
SasiBlocksInStep ==
    bus.state = "transfer" /\ order.cmd \in Moving /\ Chosen(bus).cmd_len = CommandBytes =>
        LET d    == Chosen(bus)
            busy == IF order.cmd = "read" /\ ~bus.cd THEN 1 ELSE 0
        IN  /\ d.lba = order.lba + order.moved + busy
            /\ d.count = order.len - order.moved - busy
            /\ bus.cd /\ d.status = "good" => order.moved = order.len
=============================================================================
