----------------------------- MODULE MCTaskQueue -----------------------------
(* Instances of TaskQueue for TLC.                                         *)
EXTENDS TaskQueue, TLC

AllKinds    == {"task", "delayed", "cancel"}
TaskOnly    == {"task"}
DelayedOnly == {"delayed"}
Symmetry    == Permutations(Posters)
=============================================================================
