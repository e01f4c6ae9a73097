\* One client keeps binding while its package is revoked and upgraded.
SPECIFICATION Spec
CONSTANTS
  c1 = c1
  c2 = c2
  k1 = k1
  k2 = k2
  p1 = p1
  Clients = {c1}
  Keys = {k1}
  Packages = {p1}
  PackageOf <- MCPackageOf
  Versions = {1}
  MaxRecords = 2
  MaxRevokes = 1
  MaxUpgrades = 1
INVARIANT RevokedStayRemoved
PROPERTY KeepsRegistry
\* Clients may stop calling, and the bounds end a behaviour.
CHECK_DEADLOCK FALSE
