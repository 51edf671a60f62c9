--------------------------- MODULE MCBackupStore ---------------------------
(***************************************************************************)
(* Instances of BackupStore for TLC.                                       *)
(***************************************************************************)
EXTENDS BackupStore, TLC

\* Keep one snapshot, for a day, and empty the trash after a day.
OnePolicy == {[keep |-> 1, age |-> 1, trash |-> 1]}

WorkerSymmetry == Permutations(Workers)
=============================================================================
