SPECIFICATION Spec
CONSTANTS
  DApps = {maps}
  NoDApp = NoDApp
  MaxVersion = 2
  Bundled <- AllBundled
  Slots = {s1, s2}
  MaxCalls = 1
  MaxArmed = 2
  Honest = FALSE
  Patient = FALSE
  Faulty = TRUE
  Crashing = TRUE
INVARIANT TypeOK
PROPERTY UpdateKeepsACopy
