CONSTANTS
  Proc = {p1, p2}
  Version = {v1, v2}
  MaxEdits = 1
SPECIFICATION Spec
INVARIANT AlwaysRunsCurrentSources
