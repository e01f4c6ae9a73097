\* Three starts, two connections: late accept threads of earlier starts, and threads and
\* connections that must end.
SPECIFICATION FairSpec
CONSTANTS
  c1 = c1
  c2 = c2
  MaxStarts = 3
  Conns = {c1, c2}
INVARIANTS TypeOK RunningIsServed ListenerIsReachable ExecutorIsReachable AcceptedIsHeld
PROPERTIES ThreadsEnd ConnectionsEnd
