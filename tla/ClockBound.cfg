SPECIFICATION Spec
CONSTANTS
  Near = {5, 60, 1200}
  Far = {400, 2600}
  Skews = {1900, 5000}
  MaxSteps = 0
  MayLose = TRUE
  MinHistory = 2
  Window = 1
  MaxHistory = 1
  MaxSkewSamples = 4
  Horizon = 0
  MaxPings = 6
  Endless = FALSE
INVARIANTS
  TypeOK
  OffsetIsBounded
  FewCannotMislead
