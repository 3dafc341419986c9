------------------------------ MODULE MCMpmcB ------------------------------
(* Instances of MpmcB for TLC: the calls threads make, and symmetry.       *)
EXTENDS MpmcB, TLC

(* The plain calls of prepare, and those of a task queue: put signal 0 on  *)
(* success, fall back on signal 2.                                         *)
Plain   == [replace |-> FALSE, sig |-> 0, fallback |-> {}]
Posting == [replace |-> TRUE, sig |-> 0, fallback |-> {2}]

PlainCalls   == {Plain}
PostingCalls == {Posting}

NoSigCalls == {}
SetTwo ==
  {[side |-> "push", tmatch |-> TRUE, expected |-> 0, desired |-> 2],
   [side |-> "push", tmatch |-> FALSE, expected |-> 0, desired |-> 2]}

Symmetry ==
  Permutations(MP) \cup Permutations(MC) \cup Permutations(Blockers)
=============================================================================
