CONSTANTS
  MAX_SOCK_NUM = 3
  RxCap = 1
  Ports = {80, 81, 68}
  Ephemeral = eph
  ServerPorts = {80, 81}
  Clients = {c1}
  Outgoing = {}
  Udps = {}
  UdpPort = 68
  None = none
SPECIFICATION Spec
INVARIANTS TypeOK AcceptReapsOnlyFinished OwnConnectionsServed
