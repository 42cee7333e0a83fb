--------------------------- MODULE MCSyslogForward ---------------------------
(* Instances of SyslogForward for TLC. *)
EXTENDS SyslogForward, TLC

CONSTANTS p1, p2

ProcSymmetry == Permutations({p1, p2})
=============================================================================
