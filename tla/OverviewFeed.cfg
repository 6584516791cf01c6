SPECIFICATION FairSpec
CONSTANTS
  c1 = c1
  c2 = c2
  dev = dev
  prod = prod
  Cpu = Cpu
  web = web
  all = all
  None = None
  Clusters = {c1, c2}
  Environments = {dev, prod}
  FirstClusters <- MCFirstClusters
  Namespaces = {web}
  All = all
  Names = {Cpu}
  MaxPanelId = 3
  FirstRows <- MCFirstRows
  BadExprs = {2}
  First = c1
  MaxReads = 2
  Operations = {"elsewhere"}
  MaxSelections = 2
  MaxWrites = 1
  MaxFaults = 1
INVARIANT
  StaleOnlyIfLate
PROPERTIES
  BecomesCurrent
  IsFeed
