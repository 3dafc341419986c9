\* Three commands for a queue of two and a deadline list of two, and a clock of
\* ten time points that wraps at its second tick.
\* The system stops once the queue is destroyed, or, at the bound on posts, when
\* the worker sleeps for ever.
SPECIFICATION Spec
CONSTANTS
  p1 = p1
  p2 = p2
  b1 = b1
  Posters = {p1, p2}
  Blockers = {b1}
  Kinds <- AllKinds
  Times = {9, 10}
  Starts = {8}
  Timeouts = {0, 1, 5}
  Capacity = 2
  Delayable = 2
  Tmin = 0
  HalfTurn = 5
  MaxDelay = 2
  MaxLate = 2
  MaxStale = 2
  MaxPosts = 3
  MaxTime = 10
CHECK_DEADLOCK FALSE
SYMMETRY Symmetry
INVARIANTS Comparable TypeOK NoLostWakeup Conserved OnTime AnswersAreTrue
PROPERTIES DueOrder Sealed
