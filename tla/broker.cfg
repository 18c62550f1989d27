CONSTANTS
  p = p
  q = q
  s = s
  star = star
  udp = udp
  nochannel = nochannel
  Star = star
  NoChannel = nochannel
  NoTransport = NoTransport
  Network = Network
  NoClient = NoClient
  Clients = {p, q, s}
  Transports = {udp}
  Channels <- MCChannels
  Routes <- MCRoutes
  Menu <- MenuMixed
  Arrivals <- NoArrivals
  NodeId = 1
  RequireRoute = TRUE
  BridgeBroadcast = TRUE
  TxCap = 1
  RxCap = 2
  SockCap = 1
  MaxSubs = 2
  MaxWrites <- WritesMixed
  MaxConns <- OneConnection
  Leavers = {s}
  MaxArrivals = 0
SPECIFICATION Spec
CHECK_DEADLOCK FALSE
INVARIANT TypeOK
 
INVARIANT InOrder
INVARIANT NoLoss
PROPERTY QosOneHandedOver
