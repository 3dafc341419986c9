SPECIFICATION FairSpec
CONSTANTS
  p1 = p1
  c1 = c1
  c2 = c2
  MP = {}
  FP = {}
  SP = {p1}
  MC = {c1, c2}
  SC = {}
  Blockers = {}
  Signallers = {}
  SlotCount = 2
  TicketMod = 64
  SigMod = 3
  Calls <- PlainCalls
  SigCalls <- NoSigCalls
  MaxTicket = 4
  MaxLag = 58
PROPERTIES Returns ErrorsAreTrue ImplementsPromise
