------------------------------- MODULE Wd17xx -------------------------------
(***************************************************************************)
(* The floppy disk controller of wd17xx.c.  The host writes its registers  *)
(* and commands, turns the drive select and the side lines, moves data and *)
(* reads the status in any order; a status read is also what makes time    *)
(* pass for a command (busy).  Bit 1 of status is INDEX or DRQ and bit 4   *)
(* is SEEKERR or RECNFERR, whichever the last command makes of it.  The    *)
(* motor and the bits that are only reported (TRACK0, HEADLOAD, motor on)  *)
(* are left out: nothing the controller does depends on them.  Sectors are *)
(* numbered from 1 and tracks alike on both sides, the values of           *)
(* wd17xx_create.                                                          *)
(***************************************************************************)
EXTENDS Integers

CONSTANTS
    WdDisk,         (* per drive: tracks, sides, spt, secsize, den; tracks = 0 if empty *)
    WdType,         (* 1772, 1791, 1797, ... *)
    BusyReads,      (* status reads before a command ends: 64 in the code *)
    AddressBytes,   (* what read address delivers: 7 in the code *)
    WdDensity,      (* the densities the host sets; 0 is "any" *)
    WdTrack,        (* the tracks the host asks for *)
    WdSector,       (* the sectors the host asks for; the first one is 1 *)
    MaxTrack        (* bound: the last track a command is given on *)

WdDrive == DOMAIN WdDisk
NO_DRIVE == 255

ASSUME WdAssumption ==
    /\ WdDisk \in [WdDrive -> [tracks : Nat, sides : {1, 2}, spt : Nat \ {0},
                               secsize : Nat \ {0}, den : Nat]]
    /\ WdDrive \subseteq 0 .. 3 /\ 0 \in WdDrive
    /\ BusyReads \in Nat \ {0} /\ AddressBytes \in Nat /\ AddressBytes > 1
    /\ WdDensity \subseteq Nat /\ WdTrack \subseteq 0 .. 255 /\ WdSector \subseteq 0 .. 255
    /\ MaxTrack \in 0 .. 127

VARIABLES
    fdc,
    asked,          (* history: the sector the transfer in progress was given for *)
    untold,         (* history: a command has begun and not raised INTRQ yet *)
    excuse          (* history: what keeps it from ever doing so *)

wdVars == <<fdc, asked, untold, excuse>>

StatusBit == {"NOTREADY", "ERR", "DRQ", "BUSY"}
INDEX == "DRQ"

\* buf0 is buf[0], which the seek command takes its track from.
WdState ==
    [drive : WdDrive \cup {NO_DRIVE}, pos : Nat, wr : BOOLEAN, rd : BOOLEAN, rdsize : Nat,
     track : 0 .. 255, sector : 0 .. 255, status : SUBSET StatusBit, side : {0, 1},
     intrq : BOOLEAN, density : Nat, stepdir : {-1, 0, 1},
     busy : 0 .. BusyReads, buf0 : 0 .. 255]

WdCreated ==
    [drive |-> 0, pos |-> 0, wr |-> FALSE, rd |-> FALSE, rdsize |-> 0, track |-> 0,
     sector |-> 0, status |-> {}, side |-> 0, intrq |-> FALSE, density |-> 0,
     stepdir |-> 0, busy |-> 0, buf0 |-> 0]

Loaded(f) == f.drive # NO_DRIVE /\ WdDisk[f.drive].tracks > 0

Disk(f) == WdDisk[f.drive]

\* Mutant: the sides are not interleaved.
wd17xx_diskseek_flat(f) == f.track * Disk(f).spt + f.sector - 1

\* The block of the image, with the sides of a track after one another.
wd17xx_diskseek(f) ==
    f.track * Disk(f).spt * Disk(f).sides + f.sector - 1
        + (IF Disk(f).sides = 2 /\ f.side = 1 THEN Disk(f).spt ELSE 0)

\* The end of a transfer.
Finished(f) == [f EXCEPT !.status = @ \ {"DRQ", "BUSY"}, !.intrq = TRUE]

\* Reads past the end give the last byte once more.  When there are no bytes, the
\* end wraps to the largest number and is not met.
wd17xx_read_data(f) ==
    IF ~f.rd THEN f
    ELSE IF f.pos = f.rdsize - 1 THEN [Finished(f) EXCEPT !.rd = FALSE]
    ELSE IF f.rdsize = 0 \/ f.pos < f.rdsize - 1 THEN [f EXCEPT !.pos = @ + 1]
    ELSE f

\* An error of the image is printed and not reported.
wd17xx_write_data(f, v) ==
    IF ~f.wr THEN [f EXCEPT !.buf0 = v]
    ELSE IF f.pos >= Disk(f).secsize THEN f
    ELSE LET g == [f EXCEPT !.pos = @ + 1, !.buf0 = IF f.pos = 0 THEN v ELSE @]
         IN  IF g.pos = Disk(f).secsize THEN [Finished(g) EXCEPT !.wr = FALSE] ELSE g

wd17xx_side_control(f, s) ==
    IF WdType \in {1795, 1797, 2795, 2797} THEN [f EXCEPT !.side = s] ELSE f

Mismatch(f) == f.density # 0 /\ Disk(f).den # 0 /\ f.density # Disk(f).den

\* A disk that cannot be read: the request and BUSY go with the other bits.
wd17xx_check_density(f) ==
    IF Mismatch(f) THEN [f EXCEPT !.status = {"ERR"}] ELSE f

Flag(f, bits) == [f EXCEPT !.status = @ \cup bits]

NoSide(f) == f.side >= Disk(f).sides

\* The commands that move the head look at the disk if they are to verify.
Verify(f, v) ==
    IF ~v THEN f ELSE IF NoSide(f) THEN Flag(f, {"ERR"}) ELSE wd17xx_check_density(f)

Restore(f, v, s) == Verify(Flag([f EXCEPT !.track = 0, !.stepdir = 1], {INDEX}), v)

Seek(f, v, s) ==
    LET dir == IF f.track < f.buf0 THEN 1 ELSE IF f.track > f.buf0 THEN -1 ELSE f.stepdir
        g   == Flag([f EXCEPT !.stepdir = dir, !.track = f.buf0], {INDEX})
    IN  IF g.track >= Disk(f).tracks THEN Flag(g, {"ERR"}) ELSE Verify(g, v)

\* In step and step out a missing side ends the command at once.
VerifyNow(f, v) ==
    IF v /\ NoSide(f) THEN [f EXCEPT !.status = {"ERR"}, !.intrq = TRUE] ELSE Verify(f, v)

StepOn(f, v, s) ==
    LET t == IF f.track > 0 /\ f.stepdir = -1 THEN f.track - 1
             ELSE IF f.track < 128 /\ f.stepdir = 1 THEN f.track + 1 ELSE f.track
    IN  VerifyNow(Flag([f EXCEPT !.track = t], {INDEX}), v)

\* Where the side is missing the direction is not noted, here and below.
Directed(f, v, dir) == [f EXCEPT !.stepdir = IF v /\ NoSide(f) THEN @ ELSE dir]

StepIn(f, v, s) ==
    LET g == [f EXCEPT !.track = IF f.track < 128 THEN @ + 1 ELSE @]
    IN  Verify(Directed(Flag(g, {INDEX}), v, 1), v)

\* Step out forgets BUSY, but not the count that ends it.
StepOut(f, v, s) ==
    LET g == [f EXCEPT !.track = IF f.track > 0 THEN @ - 1 ELSE @, !.status = {INDEX}]
    IN  VerifyNow(Directed(g, v, -1), v)

\* Sectors are numbered from 1; a smaller one wraps round and is too large.
Absent(f) ==
    f.track >= Disk(f).tracks \/ f.sector = 0 \/ f.sector > Disk(f).spt \/ NoSide(f)

\* A sector that is not there sets INDEX, which is DRQ to this command.
ReadSector(f, v, s) ==
    LET g == wd17xx_side_control(f, s)
    IN  IF Absent(f) THEN Flag(f, {INDEX, "ERR"})
        ELSE wd17xx_check_density(
                 Flag([g EXCEPT !.rd = TRUE, !.rdsize = Disk(f).secsize, !.busy = 0], {"DRQ"}))

\* The image does not deliver.
ReadFails(f, v, s) ==
    IF Absent(f) THEN Flag(f, {INDEX, "ERR"})
    ELSE Flag([wd17xx_side_control(f, s) EXCEPT !.rd = TRUE, !.intrq = TRUE], {"ERR"})

WriteSector(f, v, s) ==
    IF Absent(f) THEN Flag(f, {"ERR"})
    ELSE wd17xx_check_density(
             wd17xx_side_control(Flag([f EXCEPT !.busy = 0, !.wr = TRUE], {"DRQ"}), s))

\* The sector register takes the track.
ReadAddress(f, v, s) ==
    LET g == wd17xx_side_control(f, s)
        h == [g EXCEPT !.rd = TRUE, !.rdsize = AddressBytes, !.sector = f.track, !.buf0 = 0,
                       !.pos = IF WdType = 1772 THEN 1 ELSE 0, !.intrq = TRUE]
    IN  IF NoSide(g) THEN Flag(g, {"ERR"}) ELSE wd17xx_check_density(Flag(h, {"DRQ"}))

\* Commands on several sectors or on tracks: not emulated.
Unemulated(f, v, s) == [f EXCEPT !.status = @ \ {"DRQ"}]

\* Ends a command at once; a request for data stays up if there was one.
ForceInterrupt(f, told) ==
    [f EXCEPT !.rd = FALSE, !.wr = FALSE, !.pos = 0, !.busy = 0,
              !.status = IF "BUSY" \in @ THEN @ \ {"BUSY"} ELSE {}, !.intrq = @ \/ told]

\* What every command but that one does first.
Begun(f) ==
    [f EXCEPT !.status = {"BUSY"}, !.busy = BusyReads, !.rd = FALSE, !.wr = FALSE,
              !.pos = 0, !.intrq = FALSE]

\* Mutant: the count runs on without an end.
wd17xx_status_mute(f) ==
    IF f.busy # 1 THEN [f EXCEPT !.intrq = FALSE, !.busy = IF @ > 0 THEN @ - 1 ELSE 0]
    ELSE [f EXCEPT !.busy = 0, !.status = @ \ {"BUSY"}, !.intrq = FALSE]

wd17xx_status(f) ==
    IF f.busy # 1 THEN [f EXCEPT !.intrq = FALSE, !.busy = IF @ > 0 THEN @ - 1 ELSE 0]
    ELSE [f EXCEPT !.busy = 0, !.status = @ \ {"BUSY"}, !.intrq = TRUE]

wd17xx_status_noclear(f) ==
    IF f.busy # 1 THEN [f EXCEPT !.busy = IF @ > 0 THEN @ - 1 ELSE 0]
    ELSE [f EXCEPT !.busy = 0, !.status = @ \ {"BUSY"}, !.intrq = TRUE]

-----------------------------------------------------------------------------

\* A sector as the host names it.
Place(f) == [drive |-> f.drive, track |-> f.track, side |-> f.side, sector |-> f.sector]

WdInit ==
    /\ fdc = WdCreated
    /\ asked = Place(WdCreated) /\ untold = FALSE /\ excuse = "none"

\* History of a step that is not a command.
Told == untold' = (untold /\ ~fdc'.intrq) /\ UNCHANGED <<asked, excuse>>

\* The registers, the select lines and the density; the machine changes them
\* whenever it likes.
WdSetting ==
    /\ \/ \E v \in WdTrack : fdc' = [fdc EXCEPT !.track = v]
       \/ \E v \in WdSector : fdc' = [fdc EXCEPT !.sector = v]
       \/ \E d \in WdDrive \cup {NO_DRIVE} : fdc' = [fdc EXCEPT !.drive = d]
       \/ \E s \in {0, 1} : fdc' = [fdc EXCEPT !.side = s]
       \/ \E d \in WdDensity : fdc' = [fdc EXCEPT !.density = d]
    /\ excuse' = IF fdc.wr /\ Place(fdc') # Place(fdc) THEN "moved" ELSE excuse
    /\ UNCHANGED <<asked, untold>>

\* The host moves data while the controller asks for it.
WdReadData == "DRQ" \in fdc.status /\ fdc' = wd17xx_read_data(fdc) /\ Told

\* (An empty drive has no file to write to, and the emulator exits.)
WdWriteData ==
    /\ Loaded(fdc) /\ (fdc.wr => "DRQ" \in fdc.status)
    /\ \E v \in WdTrack : fdc' = wd17xx_write_data(fdc, v)
    /\ Told

WdStatus ==
    /\ \/ fdc' = wd17xx_status(fdc)
       \/ fdc' = wd17xx_status_noclear(fdc)
    /\ Told

WdEmpty ==
    /\ ~Loaded(fdc)
    /\ fdc' = [fdc EXCEPT !.status = {"NOTREADY"}]
    /\ excuse' = "empty" /\ UNCHANGED <<asked, untold>>

WdForce ==
    /\ Loaded(fdc)
    /\ \E told \in BOOLEAN : fdc' = ForceInterrupt(fdc, told)
    /\ untold' = FALSE /\ excuse' = "none" /\ UNCHANGED asked

\* A command to a busy controller is lost, and takes the count with it.
WdRefused ==
    /\ Loaded(fdc) /\ "BUSY" \in fdc.status
    /\ fdc' = [fdc EXCEPT !.busy = 0]
    /\ excuse' = IF fdc.busy > 0 THEN "refused" ELSE excuse
    /\ UNCHANGED <<asked, untold>>

Command(f, v, s) ==
    {Restore(f, v, s), Seek(f, v, s), StepOn(f, v, s), StepIn(f, v, s), StepOut(f, v, s),
     ReadSector(f, v, s), ReadFails(f, v, s), WriteSector(f, v, s), ReadAddress(f, v, s),
     Unemulated(f, v, s)}

WdCommand ==
    /\ Loaded(fdc) /\ "BUSY" \notin fdc.status /\ fdc.track < MaxTrack
    /\ \E v \in BOOLEAN, s \in {0, 1} : fdc' \in Command(Begun(fdc), v, s)
    /\ asked' = Place(IF fdc'.wr THEN fdc' ELSE WdCreated)
    /\ untold' = ~fdc'.intrq
    /\ excuse' = IF Mismatch(fdc) /\ (fdc'.rd \/ fdc'.wr) THEN "density" ELSE "none"

WdNext ==
    \/ WdSetting \/ WdReadData \/ WdWriteData \/ WdStatus
    \/ WdEmpty \/ WdForce \/ WdRefused \/ WdCommand

WdSpec == WdInit /\ [][WdNext]_wdVars

-----------------------------------------------------------------------------

WdTypeOK == fdc \in WdState

\* Every command comes to an end that the host is told of: until INTRQ is up
\* either the count of status reads runs or a transfer has bytes left.  A host
\* that waits for INTRQ hangs only if the density is wrong, the drive is empty
\* by the next command, a command was given too early, or the drive was
\* changed under a write.
WdEndIsTold ==
    untold /\ excuse = "none" =>
        \/ fdc.busy > 0
        \/ /\ "DRQ" \in fdc.status /\ "BUSY" \in fdc.status
           /\ \/ fdc.rd /\ fdc.pos < fdc.rdsize
              \/ fdc.wr /\ fdc.drive # NO_DRIVE /\ fdc.pos < Disk(fdc).secsize

\* A sector is written to the place in the image that belongs to the track,
\* side and sector of the command, and to no other sector of the disk,
\* unless the host moves the registers or the select lines in the meantime.
\* (The check for a missing side is made before the command's own side bit
\* counts, so a one sided disk takes a write to side 1 on side 0.)
WdWritesAsked ==
    [][LET d == Disk(fdc)
       IN  fdc.wr /\ ~fdc'.wr /\ fdc'.pos # 0 /\ excuse # "moved" /\ asked.side < d.sides =>
             /\ fdc.drive = asked.drive
             /\ wd17xx_diskseek(fdc) = (asked.track * d.sides + asked.side) * d.spt + asked.sector - 1
             /\ wd17xx_diskseek(fdc) \in 0 .. d.tracks * d.sides * d.spt - 1]_wdVars
=============================================================================
