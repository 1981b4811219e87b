CONSTANTS
  p1 = p1  p2 = p2  e1 = e1  e2 = e2  w1 = w1  w2 = w2  o1 = o1  o2 = o2
  k1 = k1  k2 = k2  t1 = t1  t2 = t2
  None = None
  Publishers = {p1, p2}
  Keys = {k1, k2}
  EventTypes = {t1, t2}
  Endpoints = {e1, e2}
  Subscriptions <- Subscribed
  MaxAttempts <- MixedAttempts
  Operators = {}
  Workers = {w1}
  MaxFaults = 1
SPECIFICATION Spec
CHECK_DEADLOCK FALSE
SYMMETRY Interchangeable
INVARIANTS OneEventPerKey SameKeySameReply PublishersMove FanOutIsAtomic NoPhantomPost
