SPECIFICATION Spec
CONSTANTS
  d1 = d1
  c1 = c1
  c2 = c2
  x = x
  y = y
  Device = {d1}
  Client = {c1, c2}
  Data = {x, y}
  Daemon = Daemon
SYMMETRY Symmetric
INVARIANT RemovedIsSilent
CONSTRAINT NoReset
