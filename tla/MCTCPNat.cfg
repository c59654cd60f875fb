SPECIFICATION Spec
CONSTANTS
  Threads = {t1, t2}
  Checker = checker
  Nobody = nobody
  Keys = {k1, k2, k3}
  Sessions = {s1, s2, s3}
  NoKey = noKey
  NoSession = noSession
  MinPort = 1
  MaxPort = 2
  Timeout = 2
  Grain = 1
  MaxTime = 3
SYMMETRY SessionSymmetry
INVARIANT MapsAgree
PROPERTIES EvictsOnlyIdle Linearizable
