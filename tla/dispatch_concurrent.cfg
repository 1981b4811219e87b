CONSTANTS
  p1 = p1  p2 = p2  e1 = e1  e2 = e2  w1 = w1  w2 = w2  o1 = o1  o2 = o2
  k1 = k1  k2 = k2  t1 = t1  t2 = t2
  None = None
  Publishers = {p1}
  Keys = {k1}
  EventTypes = {t1}
  Endpoints = {e1}
  Subscriptions <- Subscribed
  MaxAttempts <- TwoAttempts
  Operators = {o1, o2}
  Workers = {w1, w2}
  MaxFaults = 1
SPECIFICATION Spec
CHECK_DEADLOCK FALSE
SYMMETRY Interchangeable
INVARIANTS TypeOK SuccessMeansAccepted DlqMeansExhausted AttemptsWereMade StrandedOnlyByLoss
