CONSTANTS
  p = p
  q = q
  s = s
  star = star
  udp = udp
  nochannel = nochannel
  Star = star
  NoChannel = nochannel
  NoTransport = NoTransport
  Network = Network
  NoClient = NoClient
  Clients = {p, q, s}
  Transports = {udp}
  Channels <- MCChannels
  Routes <- MCRoutes
  Menu <- MenuPlain
  Arrivals <- NoArrivals
  NodeId = 1
  RequireRoute = FALSE
  BridgeBroadcast = TRUE
  TxCap = 1
  RxCap = 2
  SockCap = 1
  MaxSubs = 2
  MaxWrites <- WritesPlain
  MaxConns <- OneConnection
  Leavers = {s}
  MaxArrivals = 0
SPECIFICATION Spec
CHECK_DEADLOCK FALSE
INVARIANT RetryIsComing
