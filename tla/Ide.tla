-------------------------------- MODULE Ide --------------------------------
(***************************************************************************)
(* The IDE controller of ide.c with its two drives.  Everything happens in *)
(* the register accesses of the host, in any order: a command may be given *)
(* in the middle of a transfer, the drives may be selected in turns, the   *)
(* task file may change under a running command, and the disk image may    *)
(* fail to deliver or to take a sector.                                    *)
(***************************************************************************)
EXTENDS Integers

CONSTANTS
    SectorBytes,    (* 512 in the code *)
    MaxCount,       (* what a sector count of 0 stands for: 256 in the code *)
    Geometry,       (* cylinders, heads and sectors of a drive *)
    Present,        (* the drives with an image *)
    LbaDrive,       (* the drives that know LBA *)
    Count,          (* the sector counts the host uses *)
    Block,          (* the block addresses the host uses *)
    MaxBlock        (* bound: the largest address a command is given with *)

IdeDrive == {0, 1}

ASSUME IdeAssumption ==
    /\ SectorBytes \in Nat \ {0} /\ SectorBytes % 2 = 0
    /\ MaxCount \in Nat \ {0}
    /\ Geometry \in [cylinders : Nat \ {0}, heads : Nat \ {0}, sectors : Nat \ {0}]
    /\ Present \subseteq IdeDrive /\ LbaDrive \subseteq IdeDrive
    /\ Count \subseteq 0 .. MaxCount - 1
    /\ Block \subseteq Nat /\ MaxBlock \in Nat

VARIABLES
    ide,
    job             (* history: the transfer a drive was last told to do *)

ideVars == <<ide, job>>

\* No such block.
NoBlock == -1

(***************************************************************************)
(* bsy, drq and err are bits 7, 3 and 0 of status.  The address registers  *)
(* are lba, the mode bit, and block, what the others name in that mode.    *)
(* dptr is an index into data[], pos the position of the image file and    *)
(* offset the code's own idea of it, in sectors.                           *)
(***************************************************************************)
DriveState ==
    [state : {"idle", "in", "out"}, bsy : BOOLEAN, drq : BOOLEAN, err : BOOLEAN,
     failed : BOOLEAN, eightbit : BOOLEAN, lba : BOOLEAN, block : Nat \cup {NoBlock},
     count : 0 .. MaxCount - 1, length : 0 .. MaxCount, dptr : 0 .. SectorBytes,
     pos : Nat, offset : Nat \cup {NoBlock}]

IdeState == [drive : [IdeDrive -> DriveState], selected : IdeDrive, srst : BOOLEAN]

DriveCreated ==
    [state |-> "idle", bsy |-> FALSE, drq |-> FALSE, err |-> FALSE, failed |-> FALSE,
     eightbit |-> FALSE, lba |-> FALSE, block |-> 0, count |-> 1 % MaxCount, length |-> 0,
     dptr |-> 0, pos |-> 2, offset |-> 0]

IdeCreated == [drive |-> [n \in IdeDrive |-> DriveCreated], selected |-> 0, srst |-> FALSE]

\* The image has a two sector header.  In cylinder mode the whole top register
\* is compared with the number of heads, so the select bit of drive 1 makes
\* every address too large, and so does the mode bit on a drive without LBA.
xlate_block(d, n) ==
    IF d.block = NoBlock THEN NoBlock
    ELSE IF d.lba THEN IF n \in LbaDrive THEN 2 + d.block ELSE NoBlock
    ELSE IF n = 1 \/ d.block >= Geometry.cylinders * Geometry.heads * Geometry.sectors
         THEN NoBlock ELSE 2 + d.block

\* Mutant: leaves the data request up.
ready_drq(d) == [d EXCEPT !.bsy = FALSE, !.state = "idle"]

ready(d) == [d EXCEPT !.bsy = FALSE, !.drq = FALSE, !.state = "idle"]

\* A command ends with the error bit set (drive_failed, and completed after
\* each of the error codes).
failing(d) == ready([d EXCEPT !.err = TRUE])

data_in_state(d) ==
    [d EXCEPT !.state = "in", !.dptr = SectorBytes, !.bsy = FALSE, !.drq = TRUE]

data_out_state(d) ==
    [d EXCEPT !.state = "out", !.dptr = 0, !.bsy = FALSE, !.drq = TRUE]

edd_setup(d) == ready([d EXCEPT !.lba = FALSE, !.block = 0, !.count = 1 % MaxCount])

\* Both drives, and drive 0 is selected.
ide_reset(c) ==
    [c EXCEPT !.drive = [n \in IdeDrive |->
                            IF n \in Present
                            THEN [edd_setup(c.drive[n]) EXCEPT !.err = FALSE, !.eightbit = FALSE]
                            ELSE c.drive[n]],
              !.selected = 0]

ide_srst_begin(c) ==
    LET r == ide_reset(c)
    IN  [r EXCEPT !.drive = [n \in IdeDrive |->
                                IF n \in Present THEN [r.drive[n] EXCEPT !.bsy = TRUE]
                                ELSE r.drive[n]]]

ide_srst_end(c) == [c EXCEPT !.drive = [n \in IdeDrive |-> ready(c.drive[n])]]

Length(d) == IF d.count = 0 THEN MaxCount ELSE d.count

\* The part of the read and write commands that finds the first sector.
Positioned(d, o) == [d EXCEPT !.offset = o, !.pos = IF o = NoBlock THEN @ ELSE o,
                              !.length = Length(d)]

cmd_readsectors(d, n) ==
    LET o == xlate_block(d, n)
    IN  IF d.failed THEN failing(d)
        ELSE IF o = NoBlock THEN failing(Positioned(d, o))
        ELSE data_in_state(Positioned(d, o))

\* Mutant: goes on from where the image file happens to be.
cmd_writesectors_noseek(d, n) ==
    LET o == xlate_block(d, n)
    IN  IF d.failed THEN failing(d)
        ELSE IF o = NoBlock THEN failing(Positioned(d, o))
        ELSE data_out_state([Positioned(d, o) EXCEPT !.pos = d.pos])

cmd_writesectors(d, n) ==
    LET o == xlate_block(d, n)
    IN  IF d.failed THEN failing(d)
        ELSE IF o = NoBlock THEN failing(Positioned(d, o))
        ELSE data_out_state(Positioned(d, o))

cmd_verifysectors(d, n) ==
    LET o == xlate_block(d, n)
    IN  IF d.failed THEN failing(d)
        ELSE IF o = NoBlock THEN failing(Positioned(d, o))
        ELSE ready([Positioned(d, o) EXCEPT !.pos = o + Length(d) - 1])

cmd_recalibrate(d, n) ==
    IF d.failed \/ xlate_block(d, n) = NoBlock THEN failing(d) ELSE ready(d)

\* Seeks although the drive has failed.
cmd_seek(d, n) ==
    LET o == xlate_block(d, n)
        s == [d EXCEPT !.offset = o, !.pos = IF o = NoBlock THEN @ ELSE o]
    IN  IF d.failed \/ o = NoBlock THEN failing(s) ELSE ready(s)

\* Identify data is in the buffer already, and counts as one sector.
cmd_identify(d) == [data_in_state(d) EXCEPT !.dptr = 0, !.length = 1]

cmd_initparam(d, matches) ==
    IF matches THEN ready([d EXCEPT !.failed = FALSE])
    ELSE failing([d EXCEPT !.failed = TRUE])

\* Mutant: the transfer width changes and the transfer goes on.
cmd_setfeatures_quiet(d, f) ==
    CASE f = "8bit"  -> [d EXCEPT !.eightbit = TRUE, !.bsy = FALSE]
      [] f = "16bit" -> [d EXCEPT !.eightbit = FALSE, !.bsy = FALSE]
      [] f = "pio"   -> ready(d)
      [] OTHER       -> failing(d)

cmd_setfeatures(d, f) ==
    CASE f = "8bit"  -> ready([d EXCEPT !.eightbit = TRUE])
      [] f = "16bit" -> ready([d EXCEPT !.eightbit = FALSE])
      [] f = "pio"   -> ready(d)
      [] OTHER       -> failing(d)

\* The address that ide_set_error leaves in cylinder mode.
ChsOf(o) ==
    LET g   == Geometry
        q   == o \div g.sectors
        hd  == q \div (g.cylinders * g.sectors)
        cyl == q % (g.cylinders * g.sectors)
    IN  IF hd >= g.heads \/ cyl >= g.cylinders THEN NoBlock
        ELSE (cyl * g.heads + hd) * g.sectors + (o % g.sectors)

\* The task file is to say which sector failed, and how many are left.
ide_set_error(d) ==
    failing([d EXCEPT !.block = IF d.lba THEN d.offset ELSE ChsOf(d.offset),
                      !.count = d.length % MaxCount])

\* A sector has gone from or to the image.  The code adds bytes to sectors.
Moved(d) == [d EXCEPT !.dptr = 0, !.pos = @ + 1, !.offset = @ + 512]

Step(d) == IF d.eightbit THEN 1 ELSE 2

\* The end of the buffer ends the sector, and the last sector the command.
SectorDone(d) ==
    IF d.length = 1 THEN ready([d EXCEPT !.length = 0]) ELSE [d EXCEPT !.length = @ - 1]

\* One read of the data register; ok says whether the image delivers.
ide_data_in(d, ok) ==
    IF d.state # "in" THEN d
    ELSE IF d.dptr = SectorBytes /\ ~ok THEN ide_set_error([d EXCEPT !.dptr = 0])
    ELSE LET s == IF d.dptr = SectorBytes THEN Moved(d) ELSE d
             r == [s EXCEPT !.dptr = @ + Step(d)]
         IN  IF r.dptr = SectorBytes THEN SectorDone(r) ELSE r

ide_data_out(d, ok) ==
    IF d.state # "out" THEN d
    ELSE LET r == [d EXCEPT !.dptr = @ + Step(d)]
         IN  IF r.dptr # SectorBytes THEN r
             ELSE IF ok THEN SectorDone(Moved(r)) ELSE ide_set_error([r EXCEPT !.dptr = 0])

\* ide_issue_command sets bsy, and every command clears it again.
Issued(d) == [d EXCEPT !.err = FALSE, !.bsy = TRUE]

-----------------------------------------------------------------------------

IdeInit ==
    /\ ide = IdeCreated
    /\ job = [n \in IdeDrive |-> [first |-> 0, total |-> 0]]

Sel == ide.selected
SelDrive == ide.drive[Sel]

\* Writes are refused while the drive is busy, and by a drive that is absent.
Writable == ~SelDrive.bsy /\ Sel \in Present

IdeReadData ==
    \E ok \in BOOLEAN : ide' = [ide EXCEPT !.drive[Sel] = ide_data_in(@, ok)] /\ UNCHANGED job

IdeWriteData ==
    /\ Writable
    /\ \E ok \in BOOLEAN : ide' = [ide EXCEPT !.drive[Sel] = ide_data_out(@, ok)]
    /\ UNCHANGED job

IdeSelect ==
    /\ ~SelDrive.bsy
    /\ \E n \in IdeDrive, lba \in BOOLEAN :
           ide' = [ide EXCEPT !.selected = n, !.drive[n].lba = lba]
    /\ UNCHANGED job

\* The count and the other address registers.
IdeWriteTask ==
    /\ Writable
    /\ \/ \E v \in Count : ide' = [ide EXCEPT !.drive[Sel].count = v]
       \/ \E b \in Block \cup {NoBlock} : ide' = [ide EXCEPT !.drive[Sel].block = b]
    /\ UNCHANGED job

IdeTransfer ==
    /\ Writable /\ SelDrive.block <= MaxBlock
    /\ \/ ide' = [ide EXCEPT !.drive[Sel] = cmd_readsectors(Issued(@), Sel)]
       \/ ide' = [ide EXCEPT !.drive[Sel] = cmd_writesectors(Issued(@), Sel)]
    /\ job' = [job EXCEPT ![Sel] = [first |-> xlate_block(SelDrive, Sel), total |-> Length(SelDrive)]]

IdeIdentify ==
    /\ Writable
    /\ ide' = [ide EXCEPT !.drive[Sel] = cmd_identify(Issued(@))]
    /\ job' = [job EXCEPT ![Sel] = [first |-> NoBlock, total |-> 1]]

IdeControl ==
    /\ Writable /\ SelDrive.block <= MaxBlock
    /\ \/ ide' = [ide EXCEPT !.drive[Sel] = cmd_verifysectors(Issued(@), Sel)]
       \/ ide' = [ide EXCEPT !.drive[Sel] = cmd_recalibrate(Issued(@), Sel)]
       \/ ide' = [ide EXCEPT !.drive[Sel] = cmd_seek(Issued(@), Sel)]
       \/ \E ok \in BOOLEAN : ide' = [ide EXCEPT !.drive[Sel] = cmd_initparam(Issued(@), ok)]
       \/ \E f \in {"8bit", "16bit", "pio", "other"} :
              ide' = [ide EXCEPT !.drive[Sel] = cmd_setfeatures(Issued(@), f)]
       \/ ide' = [ide EXCEPT !.drive[Sel] = failing(Issued(@))]
    /\ UNCHANGED job

\* Execute device diagnostics: both drives answer.
IdeDiagnose ==
    /\ Writable
    /\ ide' = [ide EXCEPT !.drive = [n \in IdeDrive |->
                    LET d == IF n = Sel THEN Issued(ide.drive[n]) ELSE ide.drive[n]
                    IN  IF n \in Present THEN edd_setup(d) ELSE d],
                          !.selected = 0]
    /\ UNCHANGED job

\* Device control is the one register that is always writable.
IdeDevctrl ==
    /\ \E on \in BOOLEAN :
           ide' = [IF on = ide.srst THEN ide
                   ELSE IF on THEN ide_srst_begin(ide) ELSE ide_srst_end(ide)
                   EXCEPT !.srst = on]
    /\ UNCHANGED job

\* The machine's reset line, which ppide drives from port C.
IdeHardReset == ide' = ide_reset(ide) /\ UNCHANGED job

IdeNext ==
    \/ IdeReadData \/ IdeWriteData \/ IdeSelect \/ IdeWriteTask \/ IdeTransfer
    \/ IdeIdentify \/ IdeControl \/ IdeDiagnose \/ IdeDevctrl \/ IdeHardReset

IdeSpec == IdeInit /\ [][IdeNext]_ideVars

-----------------------------------------------------------------------------

IdeTypeOK == ide \in IdeState

\* A drive asks for data exactly while a transfer has sectors left, and is
\* busy only while the host holds the reset: no command, no error and no
\* reset in the middle of a transfer leaves a request that nothing answers or
\* a drive that refuses commands for ever.
IdeStatusTruth ==
    \A n \in IdeDrive :
        LET d == ide.drive[n]
        IN  /\ d.drq <=> d.state # "idle"
            /\ d.state # "idle" => d.length > 0
            /\ d.bsy => ide.srst

\* The end of the sector buffer is found by comparing for equality, so an odd
\* position in 16 bit mode would run past it; the width only changes by
\* commands and resets that end the transfer, and a write never waits at the
\* end of the buffer.
IdeStaysInBuffer ==
    \A n \in IdeDrive :
        LET d == ide.drive[n]
        IN  /\ d.state # "idle" /\ ~d.eightbit => d.dptr % 2 = 0
            /\ d.state = "out" => d.dptr < SectorBytes

\* Whatever the host does to the task file, to the other drive or to the
\* transfer width, the image file of a drive in a transfer stands at the
\* sector that is due: the first one plus those done, and one more while a
\* sector that was read is being handed out.
IdeTransferInStep ==
    \A n \in IdeDrive :
        LET d    == ide.drive[n]
            done == job[n].total - d.length
        IN  d.state # "idle" /\ job[n].first # NoBlock =>
              d.pos = job[n].first + done
                        + (IF d.state = "in" /\ d.dptr # SectorBytes THEN 1 ELSE 0)

\* Status and image position of a drive follow the command it was given to the
\* end, whatever happens to the registers, the other drive and the reset line.
IdeInStep == IdeStatusTruth /\ IdeTransferInStep
=============================================================================
