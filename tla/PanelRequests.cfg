SPECIFICATION FairSpec
CONSTANTS
  alice = alice
  bob = bob
  Acme = Acme
  Globex = Globex
  Cpu = Cpu
  Memory = Memory
  w1 = w1
  w2 = w2
  Users <- MCUsers
  Customers <- MCCustomers
  Environments <- MCEnvironments
  CustomerOf <- MCCustomerOf
  SeedClusters <- MCOneCluster
  SeedGrants <- MCOneGrant
  Tokens <- MCThreeTokens
  Workers = {w1}
  Operations <- Endpoints
  Bodies = {Cpu}
  MaxClusterId = 2
  MaxPanelId = 2
  MinPosition = 0
  MaxPosition = 1
  Faults = FALSE
INVARIANTS
  TypeOK
  Confined
  TenantIsolation
  NoSpuriousDenial
PROPERTIES
  RequestsAnswered
  OnlyMembersWrite
