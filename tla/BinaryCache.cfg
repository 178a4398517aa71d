CONSTANTS
  Proc = {p1, p2}
  Version = {v1, v2}
  MaxEdits = 2
SPECIFICATION Spec
INVARIANTS
  TypeOK
  EntriesMatchTheirKey
  RunsCurrentSources
  NeverPartial
  TempOnlyFromKilled
PROPERTY CompiledRuns
