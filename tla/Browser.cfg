SPECIFICATION FairSpec
CONSTANTS
  None = None
  Manager = {m1, m2}
  Socket = {w1, w2, w3, w4}
  PC = {p1, p2}
  Stream = {cam1, cam2}
INVARIANTS
  TypeOK
  NoLeakedPeer
  AnswerGoesBack
  NoCardAfterDisconnect
  SocketInUse
  QuitStaysDown
  PageIsTrue
PROPERTIES
  LossIsRetried
CHECK_DEADLOCK FALSE
