SPECIFICATION Spec
CONSTANTS
  Programs <- MCPrograms
  x = x
  y = y
  Value = {x}
  Empty = Empty
  Idle = Idle
  LimForLast = 2
  MaxVicinity = 1
  MaxItems = 3
  Weak = FALSE
  Outcomes = {"ok", "retry", "fail"}
INVARIANTS TypeOK ChainsSound NextNeverFails LengthIsBorder SizesOptimal
PROPERTY IsDict
