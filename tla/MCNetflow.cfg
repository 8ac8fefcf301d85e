SPECIFICATION Spec
CONSTANTS
  c1 = c1
  Device = {1, 2}
  Client = {c1}
  None = None
  MaxSent = 3
CONSTRAINTS FewPackets OnlyCrashes
INVARIANTS TypeOK IInv NeverOvercounted CountedWhenCalm SettingsKept BlindAtMostTwice LateAtMostOnce
