SPECIFICATION Spec
CONSTANTS
  c1 = c1
  c2 = c2
  Bcst = Bcst
  NoCmd = NoCmd
  Dangling = Dangling
  Cmd = {c1, c2}
  Initial = {c1}
  Delay <- OneSlow
  Char = {}
  ReadyStr <- NoReady
  BcstPath = FALSE
  ExitOnIdle = FALSE
  Inputs = {"add", "del", "idleexit"}
  MaxClients = 1
  MaxOpens = 1
  MaxNotify = 1
  MaxPending = 1
  MaxOut = 0
INVARIANTS
  OneProcess
  TypeOK
  EventsFresh
  ExitReapsAll
PROPERTIES
  StopsOnlyWhenIdle
  PacedUntilDeleted
  DeathsWindDown
