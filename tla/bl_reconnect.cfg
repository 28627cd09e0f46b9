CONSTANTS
  Peers <- MCPeers
  Times <- MCTimes
  Methods <- MCQuery
  MaxReqPerPeer = 1
  MaxRetries = 2
  TimeoutMs = 3
  MaxCalls = 3
  MaxStartUps = 1
  MaxFaults = 2
SPECIFICATION Spec
CHECK_DEADLOCK FALSE
PROPERTY ReconnectsRecoveredPeers
