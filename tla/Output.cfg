SPECIFICATION Spec
CONSTANTS
  Size = 3
  Char = {"a", "b", "n"}
  NL = "n"
  Zero = "0"
  ReadyStr <- ReadyABA
  Controls = {"line", "prefix", "add", "drain"}
  MaxN = 7
  MaxOf = 3
INVARIANTS
  TypeOK
  ReadyHeard
PROPERTIES
  PromiseKept
\* the bound on bufn ends every behaviour
CHECK_DEADLOCK FALSE
