---- MODULE MCSnapshotLoop ----
(* Three snapshots over a few ticks with a retention of one: some leave    *)
(* the history, some enter it late, and a crash falls anywhere.            *)
EXTENDS SnapshotLoop
====
