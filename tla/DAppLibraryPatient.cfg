SPECIFICATION FairSpec
CONSTANTS
  DApps = {maps}
  NoDApp = NoDApp
  MaxVersion = 3
  Bundled <- NoneBundled
  Slots = {s1}
  MaxCalls = 2
  MaxArmed = 2
  Honest = FALSE
  Patient = TRUE
  Faulty = TRUE
  Crashing = TRUE
INVARIANT RemovalFindsItsApp
PROPERTIES KeepsThePromise ListCatchesUp
