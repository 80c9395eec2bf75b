SPECIFICATION NetSpec
CONSTANTS
  Size = 2
  IPs = {host, h1, zero}
  MACs = {m1, m2}
  HostIP = host
  ZeroIP = zero
  ZeroMac = nomac
  DefaultMac = defmac
  IdMod = 2
INVARIANTS ToLatestAddress
 
CHECK_DEADLOCK FALSE
