--------------------------- MODULE MCBackupWorker ---------------------------
(* An instance of BackupWorker: two processes of which one also serves the    *)
(* manual backup, days of two units.                                          *)
EXTENDS BackupWorker

CONSTANTS p1, p2

Daily    == [enabled |-> TRUE, hour |-> 1, retention |-> 2]
Midnight == [enabled |-> TRUE, hour |-> 0, retention |-> 1]

Each     == [k \in Kinds |-> 1]
OneForm  == {Midnight}
=============================================================================
