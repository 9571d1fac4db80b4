SPECIFICATION FairFleet
CONSTANTS
  t1 = t1
  worker = worker
  r1 = r1
  Tasks = {t1}
  NoTask = NoTask
  NoAgent = NoAgent
  Agents = {worker}
  Workers = {worker}
  Routes = {r1}
  Files = {}
  Kind <- MCKind
  Parent <- MCParent
  Above <- MCAbove
  Rank <- MCRank
  Under = {}
  CanRun <- MCCanRun
  Protocol2 = {worker}
  ReviewRequired = {}
  InitDeps <- MCDeps
  InitFiles <- MCFiles
  InitChain <- MCChain
  PullableBy <- MCPullableBy
  Batches <- MCBatches
  DepPatches = {}
  FilePatches = {}
  ChainPatches = {}
  MaxAttempt = 1
  MaxCrashes = 0
  MaxFaults = 2
  FaultKinds = {"cut", "break"}
  MaxWire = 0
  Inputs = {"accept", "complete", "fail", "quota", "decline", "busy", "status", "close", "leadfail"}
PROPERTIES
  BusyViewEnds
CHECK_DEADLOCK FALSE
