SPECIFICATION FairSpec
CONSTANTS
  t1 = t1
  t2 = t2
  worker = worker
  session = session
  f1 = f1
  r1 = r1
  Tasks = {t1, t2}
  NoTask = NoTask
  NoAgent = NoAgent
  Agents = {worker, session}
  Routes = {r1}
  Files = {}
  Kind <- MCKind
  Parent <- MCParent
  Above <- MCAbove
  Rank <- MCRank
  Under = {}
  CanRun <- MCCanRun
  Protocol2 = {worker}
  ReviewRequired = {}
  InitDeps <- MCDeps
  InitFiles <- MCFiles
  InitChain <- MCChain
  PullableBy <- MCFlagged
  Batches <- MCBatches
  DepPatches = {}
  FilePatches = {}
  ChainPatches = {}
  MaxAttempt = 2
  MaxCrashes = 1
  Inputs = {"accept", "progress", "pull", "fail", "quota", "quotareset", "lease", "gone", "close", "tick"}
PROPERTIES
  ExpiredLeaseEnds
  GoneWorkerLosesTask
  OfferedInTheEnd
