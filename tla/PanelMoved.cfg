SPECIFICATION Spec
CONSTANTS
  alice = alice
  bob = bob
  Acme = Acme
  Globex = Globex
  Cpu = Cpu
  Memory = Memory
  w1 = w1
  w2 = w2
  Users <- MCUsers
  Customers <- MCCustomers
  Environments <- MCEnvironments
  CustomerOf <- MCCustomerOf
  SeedClusters <- MCSeedClusters
  SeedGrants <- MCSeedGrants
  Tokens <- MCTokens
  Workers = {w1}
  Operations <- WriteOperations
  Bodies = {Cpu}
  MaxClusterId = 2
  MaxPanelId = 1
  MinPosition = 0
  MaxPosition = 0
  Faults = FALSE
PROPERTY
  PanelInClusterEnvironment
