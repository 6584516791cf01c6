SPECIFICATION Spec
CONSTANTS
  alice = alice
  bob = bob
  Acme = Acme
  Globex = Globex
  Cpu = Cpu
  Memory = Memory
  w1 = w1
  w2 = w2
  Users <- MCUsers
  Customers <- MCCustomers
  Environments <- MCEnvironments
  CustomerOf <- MCCustomerOf
  SeedClusters <- MCOneCluster
  SeedGrants <- MCOneGrant
  Tokens <- MCTwoTokens
  Workers = {w1, w2}
  Operations <- WriteOperations
  Bodies = {Cpu, Memory}
  MaxClusterId = 2
  MaxPanelId = 1
  MinPosition = 0
  MaxPosition = 0
  Faults = TRUE
SYMMETRY Workers2
INVARIANTS
  AccessHeld
PROPERTIES
  DeletedPanelStaysDeleted
  IsBoard
