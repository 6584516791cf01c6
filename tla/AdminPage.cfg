SPECIFICATION FairSpec
CONSTANTS
  Acme = Acme
  Globex = Globex
  None = None
  Gone = Gone
  Organizations = {Acme, Globex}
  MaxCluster = 4
  MaxEnvironment = 4
  FirstClusters <- MCFirstClusters
  FirstEnvironments <- MCFirstEnvironments
  MaxLoads = 3
  MaxWrites = 2
  MaxFaults = 2
INVARIANTS
  TypeOK
  SavesWhatWasOpened
  StaysInOrganization
  ShowsOwnChanges
PROPERTIES
  SecretsKept
  Responds
