SPECIFICATION Spec
CONSTANTS
  Procs = {p1, p2}
  Found <- MCFound
  Tries = 2
  MaxStarts = 2
  MaxFails = 1
INVARIANTS SettingsKept ServedKeyLasts
PROPERTIES ServeHears
CHECK_DEADLOCK FALSE
