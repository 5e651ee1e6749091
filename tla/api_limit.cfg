SPECIFICATION Spec
CONSTANTS
  r1 = r1  r2 = r2  v1 = v1  v2 = v2  OtherVin = OtherVin
  Vehicles <- TwoVehicles
  Account = {v1, v2}
  Requests = {r1, r2}
  Limit = 1
  VehicleCap = 1
  ClientFails = TRUE
  AllowCrash = TRUE
INVARIANT LimitEnforced
CHECK_DEADLOCK FALSE
