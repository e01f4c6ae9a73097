\* A sticky listener added while bindApplication runs.
CONSTANTS
  e1 = e1
  x1 = x1
  x2 = x2
  b1 = b1
  b2 = b2
  Servers = {x1, x2}
  Embedded = {}
  Binders = {b1, b2}
  None = None
  MaxSends = 1
  MaxActs = 0
  MaxGets = 0
  MaxDeaths = 2
  Sticky = TRUE
SPECIFICATION Spec
INVARIANT StickyIsTold
