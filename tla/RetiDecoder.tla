---------------------------- MODULE RetiDecoder ----------------------------
(***************************************************************************)
(* How rc2014.c learns of a RETI: the Z80 does not tell it, so mem_read    *)
(* watches the bytes go by, as the peripherals do on the real bus.  The    *)
(* decoder of mem_read (rstate) runs here beside the one that decides what *)
(* is executed, the opcode tables of do_execute in libz80.                 *)
(*                                                                         *)
(* Bytes are classes: DD and FD act alike in both decoders.                *)
(***************************************************************************)
EXTENDS Integers, Sequences

CONSTANT MaxReads       (* bound: how many reads are watched *)

ASSUME ReadsAssumption == MaxReads \in Nat

ByteClass == {"DDFD", "CB", "ED", "4D", "other"}

VARIABLES
    table,      (* do_execute: the opcode table in use; "main" between instructions *)
    rstate,     (* mem_read: 0, 1 after an ED, 2 after a prefix *)
    seen,       (* history: did the last read call reti_event? *)
    executed,   (* history: did the last read complete a RETI? *)
    reads       (* history: the bytes read, with the state of the M1 line *)

retiVars == <<table, rstate, seen, executed, reads>>

RetiInit ==
    /\ table = "main" /\ rstate = 0
    /\ seen = FALSE /\ executed = FALSE
    /\ reads = <<>>

\* Mutant: takes no notice of DD, FD and CB.
mem_read_noprefix(b, m1) ==
    /\ rstate' = IF m1 /\ b = "ED" /\ rstate = 0 THEN 1 ELSE 0
    /\ seen' = (b = "4D" /\ rstate = 1)
    /\ Len(reads) < MaxReads
    /\ reads' = Append(reads, [byte |-> b, m1 |-> m1])

\* Mutant: a data read does not reset the decoder.
mem_read_sticky(b, m1) ==
    /\ rstate' = IF ~m1 THEN rstate
                 ELSE IF b \in {"DDFD", "CB"} THEN 2
                 ELSE IF b = "ED" /\ rstate = 0 THEN 1
                 ELSE 0
    /\ seen' = (b = "4D" /\ rstate = 1)
    /\ Len(reads) < MaxReads
    /\ reads' = Append(reads, [byte |-> b, m1 |-> m1])

\* mem_read's own state machine.
mem_read(b, m1) ==
    /\ rstate' = IF m1 /\ b \in {"DDFD", "CB"} THEN 2
                 ELSE IF m1 /\ b = "ED" /\ rstate = 0 THEN 1
                 ELSE 0
    /\ seen' = (b = "4D" /\ rstate = 1)
    /\ Len(reads) < MaxReads
    /\ reads' = Append(reads, [byte |-> b, m1 |-> m1])

\* The table that decodes the byte after b.
NextTable(b) ==
    CASE table = "main" /\ b = "DDFD" -> "ddfd"
      [] table = "main" /\ b = "CB"   -> "cb"
      [] table = "main" /\ b = "ED"   -> "ed"
      [] table = "ddfd" /\ b = "CB"   -> "ddcb"
      [] OTHER                        -> "main"

\* The program uses opcodes that exist: opcodes.lst has none that begins with
\* DD DD, DD ED, ED DD, ED CB or ED ED.
Defined(b) ==
    /\ table = "ddfd" => b \notin {"DDFD", "ED"}
    /\ table = "ed"   => b \notin {"DDFD", "CB", "ED"}

\* do_execute fetches an opcode byte.
Fetch(b) ==
    /\ Defined(b)
    /\ mem_read(b, TRUE)
    /\ table' = NextTable(b)
    /\ executed' = (table = "ed" /\ b = "4D")

\* An instruction, or the acceptance of an interrupt, reads an operand or data.
ReadData(b) ==
    /\ table = "main"
    /\ mem_read(b, FALSE)
    /\ executed' = FALSE
    /\ UNCHANGED table

RetiNext == \E b \in ByteClass : Fetch(b) \/ ReadData(b)

RetiSpec == RetiInit /\ [][RetiNext]_retiVars

-----------------------------------------------------------------------------

\* The two decoders keep to their states, and the history to its bound.
RetiTypeOK ==
    /\ table \in {"main", "ddfd", "cb", "ed", "ddcb"} /\ rstate \in 0 .. 2
    /\ seen \in BOOLEAN /\ executed \in BOOLEAN
    /\ reads \in Seq([byte : ByteClass, m1 : BOOLEAN]) /\ Len(reads) <= MaxReads

\* No operand, data byte or prefixed instruction passes for a RETI.
NoFalseReti == seen => executed

\* Was the byte before the last n reads fetched with M1 and DD, FD or CB?
PrefixBefore(n) ==
    /\ Len(reads) > n
    /\ reads[Len(reads) - n] \in [byte : {"DDFD", "CB"}, m1 : {TRUE}]

\* A RETI is seen unless the opcode byte before it looks like a prefix, as the
\* second byte of SET 1,E (CB CB) does.
SeenAfterPlainByte == executed /\ ~PrefixBefore(2) => seen

\* What mem_read takes for a RETI is what do_execute executes as one, but for
\* the ones behind something that looks like a prefix.
RetiSeenAsExecuted == NoFalseReti /\ SeenAfterPlainByte

\* "Look for ED with M1, followed directly by 4D and if so trigger the
\* interrupt chain": every RETI the Z80 executes is seen.
EveryRetiSeen == executed => seen
=============================================================================
