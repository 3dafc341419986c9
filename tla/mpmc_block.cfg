SPECIFICATION Spec
CONSTANTS
  p1 = p1
  p2 = p2
  c1 = c1
  b1 = b1
  s1 = s1
  MP = {p1, p2}
  FP = {}
  SP = {}
  MC = {c1}
  SC = {}
  Blockers = {b1}
  Signallers = {s1}
  SlotCount = 2
  TicketMod = 64
  SigMod = 3
  Calls <- PostingCalls
  SigCalls <- SetTwo
  MaxTicket = 3
  MaxLag = 58
SYMMETRY Symmetry
PROPERTIES BlockHolds LockedIsTrue FallbackHolds ErrorsAreTrue ImplementsPromise
