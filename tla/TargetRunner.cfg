CONSTANT MaxSignals = 3
SPECIFICATION Spec
INVARIANTS
  TypeOK
  SuccessIsReal
  DeadlineCodeIsOurs
  AbandonsOnlyWhenAllowed
  CwdRestoredOrReported
  InterruptDiesBySignal
PROPERTIES
  RunKeepsPromise
  RunEnds
