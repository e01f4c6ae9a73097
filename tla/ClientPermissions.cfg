\* A uid with two processes, declaring the permission or not, two attaches, two calls of the manager.
SPECIFICATION Spec
CONSTANTS
  Uids = {u1}
  Pids = {p1, p2}
  UidOf <- MCUidOf
  Attaches = {a1, a2}
  Calls = {c1, c2}
SYMMETRY Symmetry
INVARIANTS RevokeDurable GrantDurable UnsavedIsScheduled RecordsFollowConfig RefusedUnlessAllowed GrantedIsServed
