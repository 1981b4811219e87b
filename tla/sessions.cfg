CONSTANTS
  u1 = u1  a = a  b = b  c = c  r1 = r1  r2 = r2  r3 = r3
  None = None
  Users = {u1}
  Tokens = {a, b, c}
  Requests = {r1, r2, r3}
  Lifetime = 2
  AccessLifetime = 1
  MaxTime = 2
  MaxFaults = 1
SPECIFICATION Spec
CHECK_DEADLOCK FALSE
SYMMETRY Interchangeable
INVARIANTS TypeOK RevokedTokenIsRefused DeactivatedUserIsOut PredecessorIsRevoked BlacklistCoversRevoked OnlyFailuresOrphan SomeoneMoves
