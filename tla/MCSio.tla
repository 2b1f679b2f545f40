------------------------------- MODULE MCSio -------------------------------
(* Values for the constants of SioSystem. *)
EXTENDS SioSystem

RxTx    == [ext |-> FALSE, tx |-> TRUE,  sav |-> TRUE,  rx |-> "all"]
RxFirst == [ext |-> TRUE,  tx |-> FALSE, sav |-> FALSE, rx |-> "first"]

RxModes  == {RxTx, RxFirst}
IrqModes == {RxTx}
=============================================================================
