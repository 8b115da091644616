SPECIFICATION Spec
CONSTANTS
  None = None
  Stream = {cam1}
  Receiver = {b1}
  MaxJoins = 1
  MaxIce = 2
  WithChannel = {cam1}
  OfferMayFail = FALSE
  MayClose = FALSE
SYMMETRY Symmetry
INVARIANTS
  KeepAliveSurvives
