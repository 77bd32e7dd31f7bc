SPECIFICATION Spec
CONSTANTS
  None = None
  c1 = c1
  c2 = c2
  i1 = i1
  o1 = o1
  Creations <- MCCreations
  Ids <- MCIds
  IdOf <- MCIdOf
  Resumes <- MCResumes
  Owners <- MCOwners
  OwnerOf <- MCOwnerOf
CHECK_DEADLOCK FALSE
INVARIANTS
  OwnerAwaitsQuiescence
