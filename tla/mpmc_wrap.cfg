SPECIFICATION Spec
CONSTANTS
  p1 = p1
  p2 = p2
  c1 = c1
  c2 = c2
  MP = {p1}
  FP = {p2}
  SP = {}
  MC = {c1, c2}
  SC = {}
  Blockers = {}
  Signallers = {}
  SlotCount = 2
  TicketMod = 8
  SigMod = 3
  Calls <- PlainCalls
  SigCalls <- NoSigCalls
  MaxTicket = 9
  MaxLag = 2
SYMMETRY Symmetry
INVARIANTS ExclusiveChunk ReadsItsTicket Inv
