CONSTANTS
  u1 = u1  a = a  b = b  c = c  r1 = r1  r2 = r2  r3 = r3
  None = None
  Users = {u1}
  Tokens = {a, b, c}
  Requests = {r1, r2}
  Lifetime = 2
  AccessLifetime = 1
  MaxTime = 2
  MaxFaults = 0
SPECIFICATION Spec
CHECK_DEADLOCK FALSE
INVARIANT SignedOutIsOut
