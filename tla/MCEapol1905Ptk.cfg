SPECIFICATION FairSpec
CONSTANTS
  Ctrl = Ctrl
  Agents = {a1}
  GtkIds = {0}
  Rekeys = {"ptk"}
  MaxStarts = 1
  MaxRestarts = 0
  MaxRekeys = 1
  MaxFaults = 0
PROPERTIES RekeyInstalls
CHECK_DEADLOCK FALSE
