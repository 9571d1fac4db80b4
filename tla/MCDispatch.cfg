SPECIFICATION Spec
CONSTANTS
  t1 = t1
  t2 = t2
  both = both
  half = half
  dir = dir
  file = file
  r2 = r2
  r1 = r1
  Tasks = {t1, t2}
  NoTask = NoTask
  NoAgent = NoAgent
  Agents = {both, half}
  Routes = {r1, r2}
  Files = {dir, file}
  Kind <- MCKind
  Parent <- MCParent
  Above <- MCAbove
  Rank <- MCRank
  Under <- MCUnder
  CanRun <- MCCanRun
  Protocol2 = {}
  ReviewRequired = {}
  InitDeps <- MCDeps
  InitFiles <- MCFiles
  InitChain <- MCChain
  PullableBy <- MCPullableBy
  Batches <- MCBatches
  DepPatches = {}
  FilePatches = {}
  ChainPatches <- MCChainPatches
  MaxAttempt = 2
  MaxCrashes = 0
  Inputs = {"complete", "fail", "leadfail", "quota", "quotareset", "tick", "decline", "busy", "status", "sendfail", "reroute"}
CONSTRAINT OneOfEach
INVARIANTS
  LocksExclusive
  DeclinedStaysAway
  EscalationStops
  NoMissedDispatch
PROPERTIES
  FailedRoutesLast
