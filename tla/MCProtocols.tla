---------------------------- MODULE MCProtocols ----------------------------
(***************************************************************************)
(* The parts that follow a protocol bit by bit or byte by byte, one at a   *)
(* time: no two of them share state, so one is fitted and the others stay  *)
(* as they were made.                                                      *)
(***************************************************************************)
EXTENDS RetiDecoder, Ps2, I2cRtc, W5100, TLC

VARIABLE fitted

\* Bytes of two bits: a command with a following byte, one with two replies,
\* the one that repeats, and the byte that is no command.
MCDecode == 0 :> "query" @@ 1 :> "resend" @@ 2 :> "scanset" @@ 3 :> "id"
MCReply  == [r \in {"FA", "AB", "83", "AA", "EE", "FE", "02"} |-> IF r \in {"83", "02"} THEN 2 ELSE 1]

protocolVars == <<fitted, retiVars, ps2Vars, i2cVars, w5100Vars>>

ProtocolInit ==
    /\ fitted \in {"reti", "ps2", "i2c", "w5100"}
    /\ RetiInit /\ Ps2Init /\ I2cInit /\ W5100Init
    /\ fitted # "w5100" => traffic = "in"

ProtocolReti  == fitted = "reti"  /\ RetiNext  /\ UNCHANGED <<fitted, ps2Vars, i2cVars, w5100Vars>>
ProtocolPs2   == fitted = "ps2"   /\ Ps2Next   /\ UNCHANGED <<fitted, retiVars, i2cVars, w5100Vars>>
ProtocolI2c   == fitted = "i2c"   /\ I2cNext   /\ UNCHANGED <<fitted, retiVars, ps2Vars, w5100Vars>>
ProtocolW5100 == fitted = "w5100" /\ W5100Next /\ UNCHANGED <<fitted, retiVars, ps2Vars, i2cVars>>

ProtocolNext == ProtocolReti \/ ProtocolPs2 \/ ProtocolI2c \/ ProtocolW5100

ProtocolTakes ==
    /\ fitted = "w5100" /\ W5100Takes /\ RecordAborted
    /\ UNCHANGED <<fitted, traffic, retiVars, ps2Vars, i2cVars>>

ProtocolSpec == ProtocolInit /\ [][ProtocolNext]_protocolVars /\ WF_protocolVars(ProtocolTakes)

\* Every field of the part that is fitted keeps its range.
ProtocolTypeOK ==
    CASE fitted = "reti"  -> RetiTypeOK
      [] fitted = "ps2"   -> Ps2TypeOK
      [] fitted = "i2c"   -> I2cTypeOK
      [] fitted = "w5100" -> W5100TypeOK
=============================================================================
