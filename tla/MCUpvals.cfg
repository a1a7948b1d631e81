SPECIFICATION Spec
CONSTANTS
  Vals = {v, c}
  Closable = {c}
  Nil = nil
  None = none
  UpvIds = {u1, u2}
  MaxSlot = 4
  MaxDepth = 4
  MAXDELTA = 2
INVARIANTS TypeOK OpenListSorted UpvalSeesVariable TbcListExact PendingIntact OutcomeIntact
SYMMETRY UpvSymmetry
