\* The first shutdown procedure of task_queue.h, with tasks only.
\* The system stops once the queue is destroyed, or, at the bound on posts, when
\* the worker sleeps for ever.
SPECIFICATION Spec
CONSTANTS
  p1 = p1
  p2 = p2
  b1 = b1
  Posters = {p1, p2}
  Blockers = {b1}
  Kinds <- TaskOnly
  Times = {1}
  Starts = {0}
  Timeouts = {0, 1}
  Capacity = 2
  Delayable = 1
  Tmin = 0
  HalfTurn = 8
  MaxDelay = 2
  MaxLate = 3
  MaxStale = 3
  MaxPosts = 2
  MaxTime = 2
CHECK_DEADLOCK FALSE
INVARIANTS PlannedIsCalled
