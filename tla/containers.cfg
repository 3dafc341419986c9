\* Rings and lists of four; a clock of twelve time points that wraps after two
\* ticks.
SPECIFICATION ContSpec
CONSTANTS
  i1 = i1
  i2 = i2
  i3 = i3
  i4 = i4
  x1 = x1
  x2 = x2
  Capacity = 4
  Blank = Blank
  Ids = {i1, i2, i3, i4}
  TimeMod = 12
  Delays <- NearDelays
  Starts = {10}
  MaxNow = 12
  PollEvery = 2
  MaxStale = 2
  Kinds = {"ring", "ordered", "deadlines", "single", "double", "array", "string"}
  Values = {0, 1, 2}
  End = 4
  Chars = {x1, x2}
  Junk = Junk
  Nul = Nul
  MaxLen = 6
  MinAlloc = 2
  DefaultHint = 4
  StackMatches = 1
  CharValues = 4
  Word = 64
  MaxReplaced = 8
  Faults = {}
  Hints = {0, 1}
SYMMETRY Symmetry
INVARIANTS RingHolds ListHolds TextHolds
PROPERTIES AnswersAreTrue DeadlinesAreTrue
