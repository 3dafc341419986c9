------------------------------ MODULE MCTmSem ------------------------------
(* Instances of TmSem for TLC.                                             *)
EXTENDS TmSem, TLC

Symmetry == Permutations(Signallers) \cup Permutations(Timed)
              \cup Permutations(Waiters \ Timed)
=============================================================================
