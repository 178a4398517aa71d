CONSTANTS
  Name = {a, b}
  Leaf = a
  Type = {A, B}
  MaxPath = 2
SPECIFICATION Spec
INVARIANT NamesAreFree
