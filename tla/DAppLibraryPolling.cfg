SPECIFICATION Spec
CONSTANTS
  DApps = {maps}
  NoDApp = NoDApp
  MaxVersion = 1
  Bundled <- NoneBundled
  Slots = {s1}
  MaxCalls = 1
  MaxArmed = 1
  Honest = TRUE
  Patient = TRUE
  Faulty = FALSE
  Crashing = FALSE
PROPERTY NoPollingWhileLaunched
