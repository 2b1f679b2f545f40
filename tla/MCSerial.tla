------------------------------ MODULE MCSerial ------------------------------
(***************************************************************************)
(* The serial chips, one at a time: each with any software, and the ACIA   *)
(* and the 16x50 in an RC2014 as well.  No two of them share state, so one *)
(* is fitted and the others stay as they were made.                        *)
(***************************************************************************)
EXTENDS Rc2014Serial, M6551, Duart

VARIABLE fitted

machineVars == <<card, host, live_nonim2, cpu, pc, ran, hist>>
allVars == <<fitted, serialVars, m6551Vars, duartVars>>

MCCommand(misc, rxon, rxoff, txon, txoff) ==
    [misc |-> misc, rxon |-> rxon, rxoff |-> rxoff, txon |-> txon, txoff |-> txoff]

MCDuartCmd ==
    {MCCommand(1, FALSE, FALSE, FALSE, FALSE), MCCommand(0, TRUE, FALSE, FALSE, FALSE),
     MCCommand(0, FALSE, FALSE, TRUE, FALSE), MCCommand(2, TRUE, TRUE, TRUE, TRUE)}

MCInit ==
    /\ fitted \in {"acia", "uart", "m6551", "duart", "rc2014"}
    /\ SerialInit(IF fitted = "rc2014" THEN {"acia", "uart"} ELSE {"none"})
    /\ M6551Init
    /\ IF fitted = "duart" THEN DuartInit ELSE duart = DuartCreated /\ due = -1

\* The chips alone start where software in the machine has left them.
AloneAcia  == fitted = "acia"  /\ AciaNext  /\ UNCHANGED <<fitted, uartVars, machineVars, m6551Vars, duartVars>>
AloneUart  == fitted = "uart"  /\ UartNext  /\ UNCHANGED <<fitted, aciaVars, machineVars, m6551Vars, duartVars>>
AloneM6551 == fitted = "m6551" /\ M6551Next /\ UNCHANGED <<fitted, serialVars, duartVars>>
AloneDuart == fitted = "duart" /\ DuartNext /\ UNCHANGED <<fitted, serialVars, m6551Vars>>
RestOfRc2014 == UNCHANGED <<fitted, m6551Vars, duartVars>>

MachineCpu   == fitted = "rc2014" /\ SerialCpu /\ RestOfRc2014
MachineSlice == fitted = "rc2014" /\ SerialSlice /\ RestOfRc2014
MachineHost  == fitted = "rc2014" /\ Arrive /\ RestOfRc2014

MCNext ==
    \/ AloneAcia \/ AloneUart \/ AloneM6551 \/ AloneDuart
    \/ MachineCpu \/ MachineSlice \/ MachineHost

MCFairness == WF_allVars(MachineCpu) /\ WF_allVars(MachineSlice)

MCSpec == MCInit /\ [][MCNext]_allVars /\ MCFairness

\* Every field of every chip, and of the machine around them, keeps its range; in
\* particular the DUART's count is a 16 bit value again after each tick, although
\* duart_count takes it below zero.
SerialTypeOK == AciaTypeOK /\ UartTypeOK /\ M6551TypeOK /\ DuartTypeOK /\ MachineTypeOK
=============================================================================
