CONSTANT Import = {i1, i2}
SPECIFICATION Spec
INVARIANTS
  TypeOK
  BorrowedIsReturned
  TreeRestored
  CopyIsolatesSource
  InstalledAsAsked
  WorkspaceWithoutModMod
