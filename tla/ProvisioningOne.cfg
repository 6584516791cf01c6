SPECIFICATION Spec
CONSTANTS
  r1 = r1
  r2 = r2
  Replicas = {r1}
  Defaults <- MCDefaults
  MaxCustomers = 3
  MaxEnvironments = 3
  MaxFaults = 2
  Edits = TRUE
INVARIANT
  DefaultsOnce
