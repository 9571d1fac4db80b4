SPECIFICATION Spec
CONSTANTS
  root = root
  w1 = w1
  w2 = w2
  w3 = w3
  gate = gate
  a1 = a1
  r1 = r1
  Tasks = {root, w1, w2, w3, gate}
  NoTask = NoTask
  NoAgent = NoAgent
  Agents = {a1}
  Routes = {r1}
  Files = {}
  Kind <- MCKind
  Parent <- MCParent
  Above <- MCAbove
  Rank <- MCRank
  Under = {}
  CanRun <- MCCanRun
  Protocol2 = {}
  ReviewRequired = {}
  InitDeps <- MCDeps
  InitFiles <- MCFiles
  InitChain <- MCChain
  PullableBy <- MCPullableBy
  Batches <- MCBatches
  DepPatches <- MCDepPatches
  FilePatches = {}
  ChainPatches = {}
  MaxAttempt = 1
  MaxCrashes = 0
  Inputs = {"complete", "cancel", "approve", "reroute"}
INVARIANTS
  NoLostUnblock
  NoWaitCycle
