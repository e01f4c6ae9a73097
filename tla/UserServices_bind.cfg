\* Two clients bind, peek and unbind one key with two versions.
SPECIFICATION Spec
CONSTANTS
  c1 = c1
  c2 = c2
  k1 = k1
  k2 = k2
  p1 = p1
  Clients = {c1, c2}
  Keys = {k1}
  Packages = {p1}
  PackageOf <- MCPackageOf
  Versions = {1, 2}
  MaxRecords = 2
  MaxRevokes = 0
  MaxUpgrades = 0
SYMMETRY MCSymmetry
INVARIANTS TypeOK NoOrphanService OneServicePerKey NoMissedBinder StartIsBounded
PROPERTIES RetiredForGood KeepsRegistry
\* Clients may stop calling, and the bounds end a behaviour.
CHECK_DEADLOCK FALSE
