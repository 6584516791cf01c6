SPECIFICATION Spec
CONSTANTS
  r1 = r1
  r2 = r2
  Replicas = {r1, r2}
  Defaults <- MCOneDefault
  MaxCustomers = 3
  MaxEnvironments = 3
  MaxFaults = 0
  Edits = FALSE
INVARIANT
  DefaultsOnce
