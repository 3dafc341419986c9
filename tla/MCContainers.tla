---------------------------- MODULE MCContainers ----------------------------
(* An instance of Containers for TLC: deadlines before and after now.      *)
EXTENDS Containers

CONSTANTS i1, i2, i3, i4, x1, x2

NearDelays == {-1, 2}
NextDelay  == {1}

Symmetry == Permutations(Ids) \cup Permutations(Chars)
=============================================================================
