SPECIFICATION Spec
CONSTANTS
  t1 = t1
  t2 = t2
  worker = worker
  session = session
  f1 = f1
  r1 = r1
  Tasks = {t1, t2}
  NoTask = NoTask
  NoAgent = NoAgent
  Agents = {worker, session}
  Routes = {r1}
  Files = {}
  Kind <- MCKind
  Parent <- MCParent
  Above <- MCAbove
  Rank <- MCRank
  Under = {}
  CanRun <- MCCanRun
  Protocol2 = {worker}
  ReviewRequired = {}
  InitDeps <- MCDeps
  InitFiles <- MCFiles
  InitChain <- MCChain
  PullableBy <- MCPullableBy
  Batches <- MCBatches
  DepPatches = {}
  FilePatches = {}
  ChainPatches = {}
  MaxAttempt = 2
  MaxCrashes = 1
  Inputs = {"accept", "progress", "complete", "pull", "rest", "lease", "gone", "close", "tick"}
INVARIANTS
  TypeOK
  HolderAndLease
  OnePushedTask
  AttemptSettledOnce
  ListStaysTrue
PROPERTIES
  LifeSpec
