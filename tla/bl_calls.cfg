CONSTANTS
  Peers <- MCPeers
  Times <- MCTimes
  Methods <- MCCalls
  MaxReqPerPeer = 1
  MaxRetries = 2
  TimeoutMs = 3
  MaxCalls = 3
  MaxStartUps = 1
  MaxFaults = 2
SPECIFICATION Spec
CHECK_DEADLOCK FALSE
INVARIANT TypeOK
INVARIANT ResultOkOnlyIfServed
INVARIANT ConsensusBlockIsTwoThirds
PROPERTY BalancerSpec
