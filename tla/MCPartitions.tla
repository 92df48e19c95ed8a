---------------------------- MODULE MCPartitions ----------------------------
(* Small instances of Partitions for TLC.                                  *)
EXTENDS Partitions

\* The database is new, or the backends have been down for days.
FewMigrated == {-4, 0}
=============================================================================
