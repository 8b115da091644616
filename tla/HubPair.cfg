SPECIFICATION Spec
CONSTANTS
  s1 = s1
  r1 = r1
  r2 = r2
  ids = ids
  idr = idr
  NoConn = NoConn
  Conn <- PairConn
  RoleOf <- RoleByName
  IdOf <- IdByRole
  Ident = {ids, idr}
  SendCap = 1
  Stable = {}
  MaxReads <- OneRead
INVARIANTS
  TypeOK
  NoSendOnClosedChannel
  BroadcastSeesOneRegistry
  OffersInSession
  SessionIsListed
PROPERTIES
  ImplementsPresence
