SPECIFICATION Spec
CONSTANTS
  c1 = c1
  c2 = c2
  Cmd = {c1, c2}
  Delay <- OneSlow
  Slowest = c1
  Cap = 3
  StopLen = 1
  Size = 1
  IntMax = 7
  MaxBytes = 2
  Used <- FirstAndAll
  MaxOpens = 2
  MaxStarts = 2
INVARIANTS TypeOK Accounting BcstAccounting PacedSlowest HaltsOnlyUnread DiscardsFirst
PROPERTIES DiscardJustified BytesTaken
CHECK_DEADLOCK FALSE
