SPECIFICATION Spec
CONSTANTS
  loopback = loopback
  remote = remote
  typo = typo
  Hosts <- SomeHosts
  Loopback = loopback
  NoHost = NoHost
  Resolves <- SomeResolve
  Ports = {1, 2}
  HighPorts = {2}
  KnownPeers <- SomePeers
  DefaultPeers <- SomeDefaults
  MaxChanges = 1
  MaxCalls = 1
  MaxEvents = 1
INVARIANTS TypeOK SettledValidity ToggleTellsTruth RemoteIsTold
PROPERTIES SavesWhatWasApplied CancelRestores
