CONSTANTS
  p = p
  q = q
  s = s
  star = star
  udp = udp
  nochannel = nochannel
  Star = star
  NoChannel = nochannel
  NoTransport = NoTransport
  Network = Network
  NoClient = NoClient
  Clients = {p, s}
  Transports = {udp}
  Channels <- MCChannels
  Routes <- MCRoutes
  Menu <- MenuBridged
  Arrivals <- ArrivalsBridged
  NodeId = 1
  RequireRoute = TRUE
  BridgeBroadcast = TRUE
  TxCap = 2
  RxCap = 2
  SockCap = 1
  MaxSubs = 2
  MaxWrites <- WritesBridged
  MaxConns <- ReconnectingS
  Leavers = {s}
  MaxArrivals = 1
CHECK_DEADLOCK FALSE
SPECIFICATION FairSpec
INVARIANT InOrder
INVARIANT NoLoss
INVARIANT NothingSurvivesClose
INVARIANT ArmedWhileQueued
PROPERTY RetryAfterDrain
