SPECIFICATION Spec
CONSTANTS
  DApps = {maps, chat}
  NoDApp = NoDApp
  MaxVersion = 1
  Bundled <- NoneBundled
  Slots = {s1}
  MaxCalls = 1
  MaxArmed = 2
  Honest = TRUE
  Patient = FALSE
  Faulty = FALSE
  Crashing = FALSE
PROPERTY RemovesWhatItNames
