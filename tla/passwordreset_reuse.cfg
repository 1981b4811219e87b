CONSTANTS
  u1 = u1  u2 = u2  a = a  b = b  c = c  r1 = r1  r2 = r2  r3 = r3  r4 = r4
  None = None
  Users = {u1, u2}
  Tokens = {a, b, c}
  Requests = {r1, r2, r3, r4}
  Lifetime = 2
  MaxTime = 3
  MaxFaults = 0
SPECIFICATION Spec
CHECK_DEADLOCK FALSE
SYMMETRY Interchangeable
INVARIANT SingleUse
