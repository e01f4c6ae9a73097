\* Two clients, one record, a revocation and an upgrade: a start that never answers, answers late or dies is resolved, and a
\* non-daemon service goes with the last of its connections, in whatever order they die.
SPECIFICATION FairSpec
CONSTANTS
  c1 = c1
  c2 = c2
  k1 = k1
  k2 = k2
  p1 = p1
  Clients = {c1, c2}
  Keys = {k1}
  Packages = {p1}
  PackageOf <- MCPackageOf
  Versions = {1}
  MaxRecords = 1
  MaxRevokes = 1
  MaxUpgrades = 1
PROPERTIES StartResolves LastConnectionStops
\* Clients may stop calling, and the bounds end a behaviour.
CHECK_DEADLOCK FALSE
