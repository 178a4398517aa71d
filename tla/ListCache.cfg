CONSTANTS
  Proc = {p1}
  Import = {i1}
  Own = {o1}
  Namespace = {n1, n2}
  MaxTags = 2
  MaxEdits = 1
SPECIFICATION Spec
INVARIANTS
  TypeOK
  EntriesMatchTheirKey
  LikeGoList
  ResolvedAsTagged
PROPERTY ResolutionEnds
