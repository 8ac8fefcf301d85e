SPECIFICATION Spec
CONSTANTS
  d1 = d1
  c1 = c1
  p1 = p1
  p2 = p2
  Device = {d1}
  Client = {c1}
  Pid = {p1, p2}
  NoPid = NoPid
  Blank = Blank
  Daemon = Daemon
PROPERTY StopIsKept
