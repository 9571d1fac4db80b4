SPECIFICATION Spec
CONSTANTS
  first = first
  w1 = w1
  w2 = w2
  second = second
  a1 = a1
  r1 = r1
  Tasks = {w1, w2, first, second}
  NoTask = NoTask
  NoAgent = NoAgent
  Agents = {a1}
  Routes = {r1}
  Files = {}
  Kind <- MCKind
  Parent <- MCParent
  Above <- MCAbove
  Rank <- MCRank
  Under = {}
  CanRun <- MCCanRun
  Protocol2 = {}
  ReviewRequired = {}
  InitDeps <- MCDeps
  InitFiles <- MCFiles
  InitChain <- MCChain
  PullableBy <- MCPullableBy
  Batches <- MCBatches
  DepPatches <- MCDepPatches
  FilePatches = {}
  ChainPatches = {}
  MaxAttempt = 2
  MaxCrashes = 0
  Inputs = {"complete", "rejectgate", "reroute"}
INVARIANTS
  NoWaitCycle
