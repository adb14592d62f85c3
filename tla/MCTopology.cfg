CONSTANTS
  Scenarios = {"fat-tree", "leaf-spine", "single-rack", "incast"}
  FatTreeK = 4
  FatTreeServers = 4
  LeafServers = 8
  LeafCount = 4
  SpineCount = 4
  LinkCount = 1
  RackServers = 9
  SendNum = 20
SPECIFICATION Spec
INVARIANTS TypeOK IndicesInRange ServersConnected HostsAddressed FatTreeShape MonitorsBottleneck
