\* Four slots, chunks of one and two; six tickets of the queue, and of the
\* allocator as many as two producers take that begin before the fourth.
SPECIFICATION PoolSpec
CONSTANTS
  q1 = q1
  a1 = a1
  a2 = a2
  c1 = c1
  c2 = c2
  s1 = s1
  Producers = {q1, a1, a2}
  Consumers = {c1, c2}
  Signallers = {s1}
  Puller = c1
  SlotCount = 4
  SlotMax = 2
  TicketMod = 64
  SigMod = 2
  Uses = {"queue", "allocator"}
  Members <- UseMembers
  Calls <- UseCalls
  SigCalls <- SetOne
  MaxTicket <- UseBound
  Stable = Stable
  Null = Null
  Tags = {0, 1}
  MaxBatch = 2
SYMMETRY Symmetry
INVARIANTS PoolTypeOK ChunksApart PayloadKept NoLateWrite ListAnswersAreTrue
PROPERTIES AnswersAreTrue NodesInOrder
