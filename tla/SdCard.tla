------------------------------- MODULE SdCard -------------------------------
(***************************************************************************)
(* The SD card of sdcard.c on its SPI bus, and a host that reads and       *)
(* writes blocks through it.  The card sees nothing but the select line    *)
(* and one byte at a time, and every byte may mean something else in       *)
(* another mode.  The host may give up at any point by raising the select  *)
(* line, except between a command and its response.                        *)
(***************************************************************************)
EXTENDS Integers, Sequences

CONSTANTS
    SdBlock,    (* the bytes of a block: 512 in the code *)
    SdStuff,    (* how long a card may take to answer: 2 .. 9 in the code *)
    SdOp,       (* the commands the host gives *)
    SdArg,      (* the block addresses, as bytes of a command *)
    SdData      (* the bytes the host writes *)

ASSUME SdAssumption ==
    /\ SdBlock \in Nat \ {0}
    /\ SdStuff \subseteq Nat \ {0} /\ SdStuff # {}
    /\ SdOp \subseteq 64 .. 127 /\ SdArg \subseteq 0 .. 255 /\ SdData \subseteq 0 .. 255

VARIABLES
    sd,
    image,      (* the blocks of the card *)
    reader      (* the host *)

sdVars == <<sd, image, reader>>

Byte == 0 .. 255
CMD(n) == 64 + n

\* What a command makes the card send after the response: how many bytes.
OutputLength(op) ==
    CASE op \in {CMD(8), CMD(58)}  -> 4
      [] op \in {CMD(9), CMD(10)}  -> 17
      [] op = CMD(13)              -> 1
      [] op = CMD(17)              -> SdBlock + 2
      [] OTHER                     -> 0

\* cmd is sd_cmd[0], lba the address in it, in as much of sd_in as is filled
\* and outleft the part of sd_out that is still to go.
SdState ==
    [mode : {"idle", "command", "out", "in", "sync"}, cmdp : 0 .. 5, ext : BOOLEAN,
     cmd : Byte, lba : Byte, stuff : Nat, poststuff : {0, 1, 127},
     outleft : Nat, in : Seq(Byte), cs : BOOLEAN]

SdCreated ==
    [mode |-> "idle", cmdp |-> 0, ext |-> FALSE, cmd |-> 0, lba |-> 0, stuff |-> 0,
     poststuff |-> 0, outleft |-> 0, in |-> <<>>, cs |-> TRUE]

\* After an application prefix only command 41 is known.
Response(c, ok) ==
    IF c.ext THEN IF c.cmd = CMD(41) THEN 0 ELSE 127
    ELSE CASE c.cmd \in {CMD(0), CMD(8), CMD(55)}                        -> 1
           [] c.cmd \in {CMD(1), CMD(9), CMD(10), CMD(13), CMD(16), CMD(24), CMD(58)} -> 0
           [] c.cmd = CMD(17)                                           -> IF ok THEN 0 ELSE 1
           [] OTHER                                                     -> 127

\* Mutant: the delay is a random number that may be 0.
sd_process_command_nowait(c, ok, n) ==
    LET reads == ~c.ext /\ OutputLength(c.cmd) > 0 /\ (c.cmd = CMD(17) => ok)
        sends == ~c.ext /\ c.cmd = CMD(24)
    IN  [c EXCEPT !.stuff = n - 2, !.poststuff = Response(c, ok),
                  !.ext = ~c.ext /\ c.cmd = CMD(55),
                  !.mode = IF reads THEN "out" ELSE IF sends THEN "sync" ELSE "idle",
                  !.outleft = IF reads THEN OutputLength(c.cmd) ELSE @,
                  !.in = IF sends THEN <<>> ELSE @]

\* The command is complete.  ok says whether the image delivers the block, n
\* is the time the card takes to answer.
sd_process_command(c, ok, n) ==
    LET reads == ~c.ext /\ OutputLength(c.cmd) > 0 /\ (c.cmd = CMD(17) => ok)
        sends == ~c.ext /\ c.cmd = CMD(24)
    IN  [c EXCEPT !.stuff = n, !.poststuff = Response(c, ok),
                  !.ext = ~c.ext /\ c.cmd = CMD(55),
                  !.mode = IF reads THEN "out" ELSE IF sends THEN "sync" ELSE "idle",
                  !.outleft = IF reads THEN OutputLength(c.cmd) ELSE @,
                  !.in = IF sends THEN <<>> ELSE @]

\* Stuffing on commands, before anything else is looked at.
Stuffed(c) == [c EXCEPT !.stuff = @ - 1]

\* In the idle mode the two filler bytes are skipped.
Opened(c, b) ==
    IF b \in {0, 255} THEN c ELSE [c EXCEPT !.mode = "command", !.cmdp = 1, !.cmd = b]

\* The fifth byte is the last of the address, the sixth ends the command.
Collected(c, b, ok, n) ==
    LET d == [c EXCEPT !.lba = IF c.cmdp = 4 THEN b ELSE @]
    IN  IF c.cmdp < 5 THEN [d EXCEPT !.cmdp = @ + 1]
        ELSE sd_process_command([d EXCEPT !.cmdp = 0, !.mode = "idle"], ok, n)

Sent(c) == [c EXCEPT !.outleft = @ - 1, !.mode = IF c.outleft = 1 THEN "idle" ELSE @]

\* A block and three more bytes: two of checksum and the one that is answered.
SdInLength == SdBlock + 3

Taken(c, b) ==
    [c EXCEPT !.in = Append(@, b), !.mode = IF Len(c.in) + 1 = SdInLength THEN "idle" ELSE @]

Synced(c, b) == IF b = 254 THEN [c EXCEPT !.mode = "in"] ELSE c

sd_card_byte(c, b, ok, n) ==
    IF c.stuff > 0 THEN Stuffed(c)
    ELSE CASE c.mode = "idle"    -> Opened(c, b)
           [] c.mode = "command" -> Collected(c, b, ok, n)
           [] c.mode = "out"     -> Sent(c)
           [] c.mode = "in"      -> Taken(c, b)
           [] c.mode = "sync"    -> Synced(c, b)

\* The byte the host gets in exchange: the response, or filler (only whether
\* it is filler matters to this host).
Answers(c) == c.stuff = 1

\* Mutant: the select line leaves the mode alone.
sd_spi_raise_cs_only(c) == [c EXCEPT !.cs = TRUE]

sd_spi_raise_cs(c) == [c EXCEPT !.mode = "idle", !.cs = TRUE]

sd_spi_lower_cs(c) == [c EXCEPT !.cs = FALSE]

sd_reset(c) == [c EXCEPT !.cs = TRUE, !.mode = "idle"]

\* Mutant: writes as soon as the data is there, before the checksum.
WritesBlock_short(c) == ~c.cs /\ c.stuff = 0 /\ c.mode = "in" /\ Len(c.in) = SdBlock

\* sd_process_data runs on the last byte of the block.
WritesBlock(c) == ~c.cs /\ c.stuff = 0 /\ c.mode = "in" /\ Len(c.in) + 1 = SdInLength

-----------------------------------------------------------------------------

\* A host with no command under way.
Between(where) == [at |-> where, n |-> 0, op |-> 0, arg |-> 0, data |-> 0]

SdInit ==
    /\ sd = SdCreated
    /\ image = [a \in SdArg |-> <<>>]
    /\ reader = Between("off")

\* One byte from the host to the selected card.
Exchange(b) ==
    /\ \E ok \in BOOLEAN, n \in SdStuff : sd' = sd_card_byte(sd, b, ok, n)
    /\ IF WritesBlock(sd)
       THEN \E ok \in BOOLEAN :
                image' = IF ok THEN [image EXCEPT ![sd.lba] = SubSeq(sd.in, 1, SdBlock)] ELSE image
       ELSE UNCHANGED image

At(where, n) == reader' = [reader EXCEPT !.at = where, !.n = n]

SdSelect ==
    /\ reader.at = "off" /\ reader' = Between("ready")
    /\ sd' = sd_spi_lower_cs(sd) /\ UNCHANGED image

\* Giving up, or being done.
SdDeselect ==
    /\ reader.at \notin {"off", "poll"} /\ reader' = Between("off")
    /\ sd' = sd_spi_raise_cs(sd) /\ UNCHANGED image

\* The machine is reset, and the host with it, while no response is due.
SdMachineReset ==
    /\ reader.at # "poll" /\ reader' = Between("off")
    /\ sd' = sd_reset(sd) /\ UNCHANGED image

SdBegin ==
    /\ reader.at = "ready"
    /\ \E op \in SdOp, arg \in SdArg :
       \E data \in IF op = CMD(24) THEN SdData ELSE {0} :
           /\ reader' = [at |-> "command", n |-> 1, op |-> op, arg |-> arg, data |-> data]
           /\ Exchange(op)

\* Three bytes that are not looked at, the address and the checksum.
SdArgument ==
    /\ reader.at = "command"
    /\ Exchange(IF reader.n = 4 THEN reader.arg ELSE 0)
    /\ IF reader.n < 5 THEN At("command", reader.n + 1) ELSE At("poll", 0)

\* Command 8 is answered in the idle state, the others with data are not.
Accepted(op, response) == response = IF op = CMD(8) THEN 1 ELSE 0

\* The host reads until it sees something, and believes what it sees.
SdPoll ==
    /\ reader.at = "poll"
    /\ Exchange(255)
    /\ IF ~Answers(sd) THEN UNCHANGED reader
       ELSE IF ~Accepted(reader.op, sd.poststuff) THEN reader' = Between("ready")
       ELSE IF reader.op = CMD(24) THEN At("token", 0)
       ELSE IF OutputLength(reader.op) > 0 THEN At("read", OutputLength(reader.op))
       ELSE reader' = Between("ready")

SdReadByte ==
    /\ reader.at = "read"
    /\ Exchange(255)
    /\ IF reader.n > 1 THEN At("read", reader.n - 1) ELSE reader' = Between("ready")

SdToken ==
    /\ reader.at = "token"
    /\ \/ Exchange(255) /\ UNCHANGED reader
       \/ Exchange(254) /\ At("write", SdInLength)

SdWriteByte ==
    /\ reader.at = "write"
    /\ Exchange(reader.data)
    /\ IF reader.n > 1 THEN At("write", reader.n - 1) ELSE reader' = Between("ready")

SdNext ==
    \/ SdSelect \/ SdDeselect \/ SdMachineReset \/ SdBegin \/ SdArgument
    \/ SdPoll \/ SdReadByte \/ SdToken \/ SdWriteByte

SdSpec == SdInit /\ [][SdNext]_sdVars /\ WF_sdVars(SdPoll)

-----------------------------------------------------------------------------

SdTypeOK ==
    /\ sd \in SdState /\ Len(sd.in) <= SdInLength
    /\ \A a \in SdArg : image[a] = <<>> \/ image[a] \in [1 .. SdBlock -> SdData]

\* Card and host never lose step: the card collects exactly the command the
\* host is sending, and takes data bytes for data only, although any of them
\* could open a command, although the host gives up halfway and although the
\* card swallows a random number of bytes before it answers.
SdInStep ==
    LET where == reader.at
    IN  CASE where = "off"     -> sd.cs /\ sd.mode = "idle" /\ sd.stuff = 0
          [] where = "ready"   -> sd.mode = "idle" /\ sd.stuff = 0
          [] where = "command" -> sd.mode = "command" /\ sd.cmdp = reader.n /\ sd.cmd = reader.op
          [] where = "poll"    -> sd.stuff > 0 /\ sd.cmd = reader.op /\ sd.lba = reader.arg
          [] where = "token"   -> sd.mode = "sync" /\ sd.lba = reader.arg
          [] where = "read"    -> sd.mode = "out" /\ sd.outleft = reader.n
          [] where = "write"   -> sd.mode = "in" /\ Len(sd.in) + reader.n = SdInLength

\* A block of the card changes only by a write command to that very block
\* whose data the host has sent to the end; a write that is given up leaves
\* every block alone.
SdWritesAsked ==
    [][\A a \in SdArg : image'[a] # image[a] =>
           /\ reader.op = CMD(24) /\ reader.arg = a
           /\ reader.at = "write" /\ reader.n = 1
           /\ image'[a] = [i \in 1 .. SdBlock |-> reader.data]]_sdVars

\* Every command is answered: a host that polls gets past its command.
SdAnswers == reader.at = "poll" ~> reader.at # "poll"
=============================================================================
