SPECIFICATION Spec
CONSTANTS
  l1 = l1
  l2 = l2
  l3 = l3
  l4 = l4
  Owner <- MCOwner
  NoIndex = NoIndex
  MaxIndex = 2
INVARIANT
  NoDuplicateAllocation
