CONSTANTS
  r1 = r1  r2 = r2  r3 = r3
  Requests = {r1, r2, r3}
  MaxRequests = 2
  Window = 3
  MaxCount = 4
  MaxFaults = 1
SPECIFICATION FairSpec
PROPERTY BlockEnds
