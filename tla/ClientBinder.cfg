\* Two installed servers, one after the other, and a sticky listener; one server dies.
CONSTANTS
  e1 = e1
  x1 = x1
  x2 = x2
  b1 = b1
  b2 = b2
  Servers = {x1, x2}
  Embedded = {}
  Binders = {b1}
  None = None
  MaxSends = 1
  MaxActs = 0
  MaxGets = 0
  MaxDeaths = 1
  Sticky = TRUE
INVARIANTS LiveBinderIsWatched CurrentIsAttached
SPECIFICATION FairSpec
PROPERTIES DeadIsDropped Recovers
