CONSTANTS
  Peers <- MCPeers
  Times <- MCTimes
  Methods <- MCSend
  MaxReqPerPeer = 1
  MaxRetries = 2
  TimeoutMs = 3
  MaxCalls = 2
  MaxStartUps = 1
  MaxFaults = 2
SPECIFICATION Spec
CHECK_DEADLOCK FALSE
INVARIANT ErrorMeansNotDelivered
