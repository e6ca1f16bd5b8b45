CONSTANTS
  Requests = {r1, r2}
  Keepalives = {k}
  Sharing = {}
  Common = common
  Nobody = nobody
  MaxIssued = 2
SPECIFICATION Spec
INVARIANTS
  SingleFlight
