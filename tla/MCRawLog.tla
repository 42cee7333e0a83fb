------------------------------ MODULE MCRawLog ------------------------------
(* Instances of RawLog: two interchangeable processes, both of them serving   *)
(* the requests of an administrator.                                          *)
EXTENDS RawLog, TLC

CONSTANTS p1, p2, l1, l2

Archiving == [retention |-> 1, archive |-> TRUE, password |-> TRUE]
Plain     == [retention |-> 1, archive |-> FALSE, password |-> FALSE]
Locked    == [retention |-> 2, archive |-> TRUE, password |-> FALSE]
Starts    == {Archiving, Locked}
PlainForm == {Plain}

ProcSymmetry == Permutations(Procs)
=============================================================================
