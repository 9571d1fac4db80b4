SPECIFICATION Spec
CONSTANTS
  root = root
  sub = sub
  w1 = w1
  w2 = w2
  early = early
  late = late
  w3 = w3
  a1 = a1
  r1 = r1
  Tasks = {root, sub, w1, w2, early, late, w3}
  NoTask = NoTask
  NoAgent = NoAgent
  Agents = {a1}
  Routes = {r1}
  Files = {}
  Kind <- MCKind
  Parent <- MCParent
  Above <- MCAbove
  Rank <- MCRank
  Under = {}
  CanRun <- MCCanRun
  Protocol2 = {}
  ReviewRequired = {w2}
  InitDeps <- MCDeps
  InitFiles <- MCFiles
  InitChain <- MCChain
  PullableBy <- MCPullableBy
  Batches <- MCBatches
  DepPatches = {}
  FilePatches = {}
  ChainPatches = {}
  MaxAttempt = 2
  MaxCrashes = 1
  Inputs = {"complete", "review", "leadcomplete", "cancel", "approve", "reject", "rejectgate"}
INVARIANTS
  NoLostUnblock
  GateStandsOnFinishedWork
  GroupsFollowChildren
PROPERTIES
  FinishedStaysFinished
  LifeSpec
