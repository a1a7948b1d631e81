SPECIFICATION Spec
CONSTANTS
  Programs <- WeakPrograms
  x = x
  y = y
  Value = {x, y}
  Empty = Empty
  Idle = Idle
  LimForLast = 2
  MaxVicinity = 1
  MaxItems = 5
  Weak = TRUE
  Outcomes = {"ok", "retry"}
INVARIANT NoFreedValue
