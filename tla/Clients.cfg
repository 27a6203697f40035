SPECIFICATION Spec
CONSTANTS
  c1 = c1
  c2 = c2
  Bcst = Bcst
  NoCmd = NoCmd
  Dangling = Dangling
  Cmd = {c1}
  Initial = {}
  Delay <- NoDelay
  Char = {"a"}
  ReadyStr <- ReadyA
  BcstPath = TRUE
  ExitOnIdle = FALSE
  Inputs = {"add", "del", "drain", "restart"}
  MaxClients = 2
  MaxOpens = 2
  MaxNotify = 2
  MaxPending = 0
  MaxOut = 1
INVARIANTS
  ReadyNotLost
PROPERTIES
  NotAbandoned
