----------------------------- MODULE MCSocCycle -----------------------------
(* A small instance of SocCycle for TLC.                                   *)
EXTENDS SocCycle, TLC

CONSTANTS p1, p2, r1, a, b

ProcSymmetry == Permutations(Procs)

\* A behaviour has one of these troubles or visits, or two of them.
None  == [k \in {"fails", "crashes", "reviews", "manuals", "logins"} |-> 0]
Pairs == { [None EXCEPT !.fails = 1, !.crashes = 1],
           [None EXCEPT !.fails = 1, !.reviews = 1],
           [None EXCEPT !.fails = 1, !.logins = 1],
           [None EXCEPT !.manuals = 2] }
=============================================================================
