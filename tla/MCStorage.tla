----------------------------- MODULE MCStorage -----------------------------
(***************************************************************************)
(* The storage devices, one at a time.  No two of them share state, so one *)
(* is fitted and the others stay as they were made.                        *)
(***************************************************************************)
EXTENDS Ide, SdCard, Wd17xx, Sasi

VARIABLE fitted

storageVars == <<fitted, ideVars, sdVars, wdVars, sasiVars>>

MCGeometry == [cylinders |-> 1, heads |-> 1, sectors |-> 2]

\* A two sided disk, and a drive with none.
MCDisk ==
    [d \in {0, 1} |->
        IF d = 0 THEN [tracks |-> 2, sides |-> 2, spt |-> 1, secsize |-> 2, den |-> 1]
        ELSE [tracks |-> 0, sides |-> 1, spt |-> 1, secsize |-> 1, den |-> 0]]

\* A second disk, whose writes may be broken off.
MCSasiOp == [n \in {0, 1} |-> IF n = 0 THEN Opcode ELSE {"write"}]

StorageInit ==
    /\ fitted \in {"ide", "sd", "wd", "sasi"}
    /\ IdeInit /\ SdInit /\ WdInit /\ SasiInit

StorageIde  == fitted = "ide"  /\ IdeNext  /\ UNCHANGED <<fitted, sdVars, wdVars, sasiVars>>
StorageSd   == fitted = "sd"   /\ SdNext   /\ UNCHANGED <<fitted, ideVars, wdVars, sasiVars>>
StorageWd   == fitted = "wd"   /\ WdNext   /\ UNCHANGED <<fitted, ideVars, sdVars, sasiVars>>
StorageSasi == fitted = "sasi" /\ SasiNext /\ UNCHANGED <<fitted, ideVars, sdVars, wdVars>>

StorageNext == StorageIde \/ StorageSd \/ StorageWd \/ StorageSasi

StoragePoll == fitted = "sd" /\ SdPoll /\ UNCHANGED <<fitted, ideVars, wdVars, sasiVars>>

StorageSpec == StorageInit /\ [][StorageNext]_storageVars /\ WF_storageVars(StoragePoll)

\* Every field of every device keeps its range; the positions in the sector
\* buffers, which are only compared for equality with their ends, among them.
StorageTypeOK == IdeTypeOK /\ IdeStaysInBuffer /\ SdTypeOK /\ WdTypeOK /\ SasiTypeOK

\* The card's blocks and the floppy's sectors change only where, and only when,
\* a write command that was carried through asked for it; of the floppy this is
\* said of writes whose registers and select lines the host has left alone, and
\* of the sides a disk has.
WritesAsked == SdWritesAsked /\ WdWritesAsked
=============================================================================
