SPECIFICATION FairSpec
CONSTANTS
  p1 = p1
  p2 = p2
  c1 = c1
  MP = {}
  FP = {p1, p2}
  SP = {}
  MC = {}
  SC = {c1}
  Blockers = {}
  Signallers = {}
  SlotCount = 4
  TicketMod = 64
  SigMod = 3
  Calls <- PlainCalls
  SigCalls <- NoSigCalls
  MaxTicket = 6
  MaxLag = 52
PROPERTIES Consumed ImplementsPromise
