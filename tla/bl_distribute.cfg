CONSTANTS
  Peers <- MCPeers
  Times <- MCTimes
  Methods <- MCSend
  MaxReqPerPeer = 1
  MaxRetries = 1
  TimeoutMs = 3
  MaxCalls = 1
  MaxStartUps = 1
  MaxFaults = 0
SPECIFICATION Spec
CHECK_DEADLOCK FALSE
PROPERTY SendDistributesToPeers
