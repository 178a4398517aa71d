CONSTANT MaxSignals = 1
SPECIFICATION Spec
INVARIANT InterruptedRunDies
