SPECIFICATION FairSpec
CONSTANTS
  c1 = c1
  c2 = c2
  Bcst = Bcst
  NoCmd = NoCmd
  Dangling = Dangling
  Cmd = {c1}
  Initial = {c1}
  Delay <- NoDelay
  Char = {}
  ReadyStr <- NoReady
  BcstPath = FALSE
  ExitOnIdle = FALSE
  Inputs = {"signal", "exit"}
  MaxClients = 1
  MaxOpens = 2
  MaxNotify = 4
  MaxPending = 3
  MaxOut = 0
PROPERTIES
  ExitHandled
  OpenStarts
  AllClosedStops
