SPECIFICATION FairSpec
CONSTANTS
  None = None
  Stream = {cam1}
  Receiver = {b1, b2}
  MaxJoins = 2
  MaxIce = 2
  WithChannel = {cam1}
  OfferMayFail = FALSE
  MayClose = FALSE
INVARIANTS
  TypeOK
  ActiveIsPresent
  OpenHasChannel
  NoOfferBeforeReceiver
PROPERTIES
  AcceptedIsOffered
