SPECIFICATION Spec
CONSTANTS
  c1 = c1
  c2 = c2
  pm = pm
  pf = pf
  p1 = p1
  p2 = p2
  p3 = p3
  pb = pb
  Cmd = {c1, c2}
  Initial <- OneInitial
  Explicit = {c1}
  UseLog = TRUE
  Path = {pm, pf, p1, p2, p3, pb}
  Links <- SharedNames
  MntPt = pf
  NFd = 19
  Faults = {"pty", "sub", "inotify", "watch", "mount"}
  MaxUser = 1
  MaxLost = 2
  MaxOps = 4
PROPERTIES UserFilesKept
CHECK_DEADLOCK FALSE
