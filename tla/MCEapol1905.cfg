SPECIFICATION FairSpec
CONSTANTS
  Ctrl = Ctrl
  Agents = {a1}
  GtkIds = {0, 3, 255}
  Rekeys = {"ptk", "gtk"}
  MaxStarts = 2
  MaxRestarts = 1
  MaxRekeys = 2
  MaxFaults = 1
INVARIANTS NoReinstall PeerHasKey
PROPERTIES Secures
CHECK_DEADLOCK FALSE
