\* One client unbinds without removing the service, or dies while binding, and the service outlives it.
SPECIFICATION FairSpec
CONSTANTS
  c1 = c1
  c2 = c2
  k1 = k1
  k2 = k2
  p1 = p1
  Clients = {c1}
  Keys = {k1}
  Packages = {p1}
  PackageOf <- MCPackageOf
  Versions = {1}
  MaxRecords = 1
  MaxRevokes = 0
  MaxUpgrades = 0
PROPERTY NonDaemonStops
\* Clients may stop calling, and the bounds end a behaviour.
CHECK_DEADLOCK FALSE
