--------------------------- MODULE MCPortMonitor ---------------------------
(* An instance of PortMonitor: one published port that a request protects or  *)
(* unprotects while the threads of two processes watch it.                    *)
EXTENDS PortMonitor

CONSTANT a

OnePort == {[action |-> "protect_host_port", arg |-> a],
            [action |-> "unprotect_host_port", arg |-> a]}
=============================================================================
