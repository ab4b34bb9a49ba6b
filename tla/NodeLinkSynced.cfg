SPECIFICATION FairSpec
CONSTANTS
  loopback = loopback
  remote = remote
  typo = typo
  Hosts <- TwoHosts
  Loopback = loopback
  NoHost = NoHost
  Resolves <- SomeResolve
  Ports = {1}
  HighPorts = {}
  KnownPeers <- SomePeers
  DefaultPeers <- SomeDefaults
  MaxChanges = 0
  MaxCalls = 1
  MaxEvents = 1
PROPERTY UsesSyncedNode
