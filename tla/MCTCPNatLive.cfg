\* Two callers that contend for the flows, the ports and the locks.
SPECIFICATION FairSpec
CONSTANTS
  Threads = {t1, t2}
  Checker = checker
  Nobody = nobody
  Keys = {k1, k2}
  Sessions = {s1, s2}
  NoKey = noKey
  NoSession = noSession
  MinPort = 1
  MaxPort = 2
  Timeout = 0
  Grain = 0
  MaxTime = 1
PROPERTIES CallsReturn IdleIsEvicted
