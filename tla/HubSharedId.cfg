SPECIFICATION Spec
CONSTANTS
  s1 = s1
  r1 = r1
  r2 = r2
  ids = ids
  idr = idr
  NoConn = NoConn
  Conn <- ReconnectConn
  RoleOf <- RoleByName
  IdOf <- IdByRole
  Ident = {ids, idr}
  SendCap = 1
  Stable = {s1}
  MaxReads <- NoReads
INVARIANTS
  SessionIsListed
