CONSTANT Import = {i1}
SPECIFICATION Spec
INVARIANT CloneNeverTouched
