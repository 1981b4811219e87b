CONSTANTS
  e1 = e1  c1 = c1  r1 = r1  r2 = r2  r3 = r3  s1 = s1  s2 = s2
  None = None
  Emails = {e1}
  Clients = {c1}
  Admin = e1
  Client = c1
  Requests = {r1, r2, r3}
  Seeders = {s1}
  PoolSize = 2
  MaxFaults = 1
SPECIFICATION FairSpec
CHECK_DEADLOCK FALSE
INVARIANTS TypeOK OneAccountPerName RefusalsAreAudited AuditIsTrue OnlyRefusalsStall SeededForGood
PROPERTY RequestsEnd
