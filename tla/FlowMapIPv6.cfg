SPECIFICATION Spec
CONSTANT Flow <- MCFlow
INVARIANTS
  FiledIsFound
