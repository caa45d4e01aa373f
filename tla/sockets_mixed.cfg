CONSTANTS
  MAX_SOCK_NUM = 2
  RxCap = 1
  Ports = {80, 81, 68}
  Ephemeral = eph
  ServerPorts = {80, 81}
  Clients = {c1, o1}
  Outgoing = {o1}
  Udps = {u1}
  UdpPort = 68
  None = none
SPECIFICATION FairThreadSpec
INVARIANTS ListenerRegistered AtMostOneListener
PROPERTY CallsReturn
CHECK_DEADLOCK FALSE
