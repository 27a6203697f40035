SPECIFICATION Spec
CONSTANTS
  c1 = c1
  c2 = c2
  Bcst = Bcst
  NoCmd = NoCmd
  Dangling = Dangling
  Cmd = {c1}
  Initial = {c1}
  Delay <- NoDelay
  Char = {}
  ReadyStr <- NoReady
  BcstPath = FALSE
  ExitOnIdle = FALSE
  Inputs = {"del"}
  MaxClients = 1
  MaxOpens = 2
  MaxNotify = 2
  MaxPending = 1
  MaxOut = 0
INVARIANTS
  NoFreedEvent
