---- MODULE MCSnapshotPages ----
(* Three snapshots over a few ticks with a retention of one: some leave    *)
(* the history, some enter it late, some are taken at the same time; a     *)
(* kill falls anywhere, and a client fetches pages of one snapshot of      *)
(* either end of the time while all that goes on.                          *)
EXTENDS SnapshotPages

MCWindows == {<<0, 1>>, <<1, 2>>}
====
