\* Delayed tasks posted to a worker that has had none for half of eight time
\* points.  The system stops at the bounds on posts and on the clock.
SPECIFICATION Spec
CONSTANTS
  p1 = p1
  Posters = {p1}
  Blockers = {}
  Kinds <- DelayedOnly
  Times = {6}
  Starts = {0}
  Timeouts = {0, 1, 5}
  Capacity = 1
  Delayable = 1
  Tmin = 0
  HalfTurn = 4
  MaxDelay = 1
  MaxLate = 1
  MaxStale = 8
  MaxPosts = 1
  MaxTime = 8
CHECK_DEADLOCK FALSE
INVARIANTS OnTime
