SPECIFICATION Spec
CONSTANTS
  None = None
  Stream = {cam1, cam2}
  Receiver = {b1}
  MaxJoins = 1
  MaxIce = 2
  WithChannel = {}
  OfferMayFail = TRUE
  MayClose = TRUE
SYMMETRY Symmetry
INVARIANTS
  IceTracked
  DeadIsReleased
