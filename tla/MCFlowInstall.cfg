CONSTANTS
  Scenarios = {"single-rack", "leaf-spine", "incast"}
  FatTreeK = 4
  FatTreeServers = 4
  LeafServers = 2
  LeafCount = 3
  RackServers = 9
  SendNum = 20
  IncastPort = 50000
  PortStart = 10000
  PortDraws = {10000, 50000}
  RequestRate = 1
  MaxFlowsPerServer = 2
  MaxFlows = 4
SPECIFICATION FairSpec
INVARIANTS TypeOK DestOutsideSourceGroup SinkPortsDistinct
PROPERTY InstallationTerminates
