--------------------------- MODULE MCPooledQueue ---------------------------
(* An instance of PooledQueue for TLC.  As a queue: one producer, two      *)
(* consumers and a thread that sets the producers' signal.  As an          *)
(* allocator: two producers and the consumer of the list.                  *)
EXTENDS PooledQueue, TLC

CONSTANTS q1, a1, a2, c1, c2, s1

Plain(n) == [slots |-> n, replace |-> FALSE, sig |-> 0, fallback |-> {}]

(* Put signal 0 on success, fall back on signal 1.                         *)
Posting(n) == [slots |-> n, replace |-> TRUE, sig |-> 0, fallback |-> {1}]

UseMembers == [queue |-> {q1, c1, c2, s1}, allocator |-> {a1, a2, c1}]
UseCalls   == [queue |-> {Plain(1), Posting(2)}, allocator |-> {Plain(1), Plain(2)}]
UseBound   == [queue |-> 6, allocator |-> 4]

SetOne == {[side |-> "push", expected |-> 0, desired |-> 1]}

Symmetry == Permutations({a1, a2})
=============================================================================
