SPECIFICATION Spec
CONSTANTS
  Stream = {cam1}
  MaxTracked = 2
  MaxFrames = 4
  MaxTime = 3
INVARIANTS
  TypeOK
  KeptAreNewest
  OnlyLaggardsFail
  StampsAreOwn
