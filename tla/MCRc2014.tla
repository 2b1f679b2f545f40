------------------------------ MODULE MCRc2014 ------------------------------
(* Values for the constants of Rc2014Irq. *)
EXTENDS Rc2014Irq

RxAll == [ext |-> FALSE, tx |-> FALSE, sav |-> TRUE, rx |-> "all"]
IrqModes == {RxAll}

Word(irq, tconst) ==
    [irq |-> irq, counter |-> FALSE, presc |-> FALSE, tconst |-> tconst, reset |-> TRUE]

\* Start a timer with interrupts, and stop its interrupts.
StartStop == {Word(TRUE, TRUE), Word(FALSE, FALSE)}
=============================================================================
