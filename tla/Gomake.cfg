CONSTANT MaxSignals = 3
SPECIFICATION Spec
INVARIANTS
  TypeOK
  BuildDirRemoved
  SuccessIsReal
  OrphanOnlyBySignal
  ProgressInTime
PROPERTY ProcessEnds
