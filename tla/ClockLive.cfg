SPECIFICATION FairSpec
CONSTANTS
  Near = {5}
  Far = {20}
  Skews = {100, 5000}
  MaxSteps = 1
  MayLose = TRUE
  MinHistory = 2
  Window = 3
  MaxHistory = 4
  MaxSkewSamples = 3
  Horizon = 2500
  MaxPings = 6
  Endless = TRUE
INVARIANTS
  SteadyHasNoDrift

  
