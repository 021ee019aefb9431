CONSTANTS
  p1 = p1
  p2 = p2
  q = q
  c = c
  c2 = c2
  g1 = g1
  g2 = g2
  t = t
  agree = agree
  AnySource = AnySource
  AnyTag = AnyTag
  NULL = NULL
  Kept = {agree}
  Proc = {p1, p2}
  Remote = {q}
  Comm = {c, c2, g1, g2}
  CtxId <- MCCtxId
  Members <- MCMembers
  Program <- AllPrograms
SPECIFICATION Spec
CHECK_DEADLOCK FALSE
INVARIANTS NoLostWakeup NothingLost CancelTakesOwn PendingAgrees SenderHasMessage NonOvertaking
PROPERTIES RefinesMatchQueues RevokeCleans
