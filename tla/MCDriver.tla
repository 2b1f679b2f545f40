------------------------------ MODULE MCDriver ------------------------------
(* Values for the constants of Rc2014Driver. *)
EXTENDS Rc2014Driver

RxAll == [ext |-> FALSE, tx |-> FALSE, sav |-> TRUE, rx |-> "all"]
DriverModes == {RxAll}
=============================================================================
