CONSTANTS
  s1 = s1
  s2 = s2
  t1 = t1
  v1 = v1
  dflt = dflt
  mixed = mixed
  none = none
  sc0 = sc0
  sc1 = sc1
  Shines = {s1, s2}
  Toads = {t1}
  Scenarios = {sc0, sc1}
  NoScenario = sc0
  Saves = {v1}
  Default = dflt
  Mixed = mixed
  None = none
  Amounts <- SetTo
  MaxCrashes = 2
  MaxCommands = 1
SPECIFICATION Spec
SYMMETRY Symmetry
CHECK_DEADLOCK FALSE
INVARIANTS ToadsKept
