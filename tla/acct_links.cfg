CONSTANTS
  u1 = u1
  u2 = u2
  t1 = t1
  t2 = t2
  l1 = l1
  r1 = r1
  r2 = r2
  Users = {u1, u2}
  Tokens = {t1}
  Links = {l1}
  Reqs = {r1, r2}
  MaxPwd = 2
  CanFail = TRUE
  NoUser = NoUser
  NoToken = NoToken
  NoLink = NoLink
  NoAcct = NoAcct
  NoSession = NoSession
SPECIFICATION LinksSpec
SYMMETRY Symmetry
INVARIANT TemporaryPasswordIsFlagged
PROPERTY LinkSetsOnePassword
CHECK_DEADLOCK FALSE
