SPECIFICATION Spec
CONSTANTS
  None = None
  Firefox = Firefox
  Email = {ann, bob}
  Password = {p1, p2}
  Token = {t1, t2}
  Id = {i1}
  Content = {x1, x2}
  Profile = {moderate}
  Connection = {c1, c2}
  Browser = {Firefox}
  BrowserOf <- MC_BrowserOf
  TTL = 1
  LastClock = 1
INVARIANTS
  TypeOK
  ServedAsOwner
  DeadSessionsRejected
PROPERTIES
  SessionsEndForCause
  OnlyOwnersChange
SYMMETRY Symmetric
