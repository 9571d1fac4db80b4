SPECIFICATION FleetSpec
CONSTANTS
  t1 = t1
  worker = worker
  r1 = r1
  Tasks = {t1}
  NoTask = NoTask
  NoAgent = NoAgent
  Agents = {worker}
  Workers = {worker}
  Routes = {r1}
  Files = {}
  Kind <- MCKind
  Parent <- MCParent
  Above <- MCAbove
  Rank <- MCRank
  Under = {}
  CanRun <- MCCanRun
  Protocol2 = {worker}
  ReviewRequired = {}
  InitDeps <- MCDeps
  InitFiles <- MCFiles
  InitChain <- MCChain
  PullableBy <- MCPullableBy
  Batches <- MCBatches
  DepPatches = {}
  FilePatches = {}
  ChainPatches = {}
  MaxAttempt = 2
  MaxCrashes = 1
  MaxFaults = 2
  FaultKinds = {"crash", "stop", "cut", "hubcut", "break"}
  MaxWire = 0
  Inputs = {"accept", "complete", "fail", "quota", "decline", "busy", "status", "close", "leadfail", "lease", "tick"}
CONSTRAINT FewFaults
INVARIANTS
  NoLostTask
  KeptOutcomeCounts
  GhostOnlyAfterFault
PROPERTIES
  NothingUnconfirmedDropped
  ErrandSpec
CHECK_DEADLOCK FALSE
