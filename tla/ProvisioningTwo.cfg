SPECIFICATION FairSpec
CONSTANTS
  r1 = r1
  r2 = r2
  Replicas = {r1, r2}
  Defaults <- MCDefaults
  MaxCustomers = 4
  MaxEnvironments = 4
  MaxFaults = 1
  Edits = FALSE
INVARIANTS
  TypeOK
  StartFillsEnvironments
  CopiesBounded
PROPERTY
  AppearsWhole
  EveryReplicaServes
