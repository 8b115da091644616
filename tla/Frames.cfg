SPECIFICATION Spec
CONSTANTS
  Encoding <- Encodings
  EncLimit = 3
  PktLimit = 2
  RawSamples = 1
  MaxDelay = 1
  MaxFrames = 2
  MaxTime = 4
INVARIANTS
  TypeOK
  
  PushedIsRGB
  PtsIsRunningTime
  LateAtMostOnce

  
