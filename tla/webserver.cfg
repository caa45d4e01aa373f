CONSTANTS
  MAX_SOCK_NUM = 3
  RxCap = 2
  Ports = {80, 68}
  Ephemeral = eph
  ServerPorts = {80}
  Clients = {c}
  Outgoing = {}
  Udps = {}
  UdpPort = 68
  None = none
  localServer = 80
  connectedClient = c
  ReplyWrites = 2
SPECIFICATION FairLoopSpec
INVARIANTS LoopTypeOK HandleStaysOwn
PROPERTIES ServerListensAgain ConnectionLetGo
