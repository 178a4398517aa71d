CONSTANTS
  Name = {a, b}
  Leaf = a
  Type = {A, B, C}
  MaxPath = 6
SPECIFICATION Spec
INVARIANTS
  SplitPathParses
  DeliversNearest
  FirstSourceDecides
  CopyMeansTheSame
  OneViewOfSources
  NamesResolve
  TargetsMerged
  TrailsFound
PROPERTY AddTypeEnds
