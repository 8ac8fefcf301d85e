SPECIFICATION Spec
CONSTANTS
  c1 = c1
  c2 = c2
  Command = {c1, c2}
  MaxAddress = 3
  TypeOrder <- TwoTypes
  Requests <- SmallRequests
  Updates <- EachUpdate
  MaxRows = 6
  MaxCommands = 2
  Gone = Gone
SYMMETRY Symmetric
INVARIANTS TypeOK AloneSucceeds LabAsAsked InterfacesMatch QuietExports
PROPERTY Atomic
CHECK_DEADLOCK FALSE
