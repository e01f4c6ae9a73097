\* An embedded and an installed server and a getBinder call, and one act of the user, such as a mode switch.
CONSTANTS
  e1 = e1
  x1 = x1
  x2 = x2
  b1 = b1
  b2 = b2
  Servers = {e1, x1}
  Embedded = {e1}
  Binders = {b1}
  None = None
  MaxSends = 1
  MaxActs = 1
  MaxGets = 1
  MaxDeaths = 0
  Sticky = FALSE
SPECIFICATION FairSpec
PROPERTY Recovers
