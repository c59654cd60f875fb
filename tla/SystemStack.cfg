SPECIFICATION StackSpec
CONSTANTS
  Tun = tun
  Accept = accept
  Threads = {tun, accept}
  Keys = {f1, f2, f3, local}
  Local = {local}
  Ports = {p1, p2}
  NoKey = noKey
  NoPort = noPort
  MaxPackets = 2
SYMMETRY FlowSymmetry
INVARIANT OrphansWereEvicted
PROPERTIES HandlerSeesOpener ReplyReachesOpener
