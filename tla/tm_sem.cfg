\* As many waiters as the wait field has room for; the counts reach SigMax.
\* The system stops once the semaphore is destroyed.
SPECIFICATION FairSpec
CONSTANTS
  s1 = s1
  s2 = s2
  w1 = w1
  w2 = w2
  o1 = o1
  Signallers = {s1, s2}
  Waiters = {w1, w2}
  Timed = {w1}
  Owners = {o1}
  SigMax = 2
  WaitMax = 2
CHECK_DEADLOCK FALSE
INVARIANTS TypeOK WaitersCounted NoLostWakeup
PROPERTIES SignalTaken ImplementsPromise
