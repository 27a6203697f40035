SPECIFICATION Spec
CONSTANTS
  c1 = c1
  c2 = c2
  NIno = 7
  Name = {"a", "b", "pid", "cmds", "lcmds", "ttys", "bcst"}
  Builds <- AllBuilds
  MaxKnown = 2
  Cmd = {c1, c2}
  NameLen <- NameLens
  LinkLen <- LinkLens
  LineLen <- LineLens
  PidLen = 1
  BcstLen = 1
  MonLen = 1
  Base = 2
  Request = 4
  MaxOps = 3
INVARIANTS
  TypeOK
  FreeListSound
  DirsAgree
  BehindScan
  CleanupSound
  SizeExact
  WholeRead
  AddsOnlyCutShort
PROPERTIES
  CleanupEnds
\* yar ends in the states in which nothing more happens
CHECK_DEADLOCK FALSE
