SPECIFICATION Spec
CONSTANTS
  c1 = c1
  c2 = c2
  dev = dev
  prod = prod
  Cpu = Cpu
  web = web
  all = all
  None = None
  Clusters = {c1, c2}
  Environments = {dev, prod}
  FirstClusters <- MCFirstClusters
  Namespaces = {}
  All = all
  Names = {Cpu}
  MaxPanelId = 3
  FirstRows <- MCFirstRows
  BadExprs = {}
  First = c1
  MaxReads = 2
  Operations = {"edit", "add", "elsewhere"}
  MaxSelections = 1
  MaxWrites = 1
  MaxFaults = 1
INVARIANTS
  TypeOK
  EditStaysHome
  CopyIsOwn
  WaitsForAnswers
