SPECIFICATION ServicesSpec
CONSTANTS
  main = main
  feature = feature
  x = x
  y = y
  z = z
  Branches = {main, feature}
  Default = main
  Chunks = {x, y, z}
  Commits = {1, 2}
  Tree <- MCTree
  MaxJobs = 3
  MaxMishaps = 1
  search = search
  reindex = reindex
  chat = chat
  s1 = s1
  s2 = s2
  Requests = {search, reindex, chat}
  Chats = {chat}
  Slots = {s1, s2}
  Gemini = {s2}
  Retries = 1
  Budget = 3
  Concurrency = 2
  Size <- MCSize
  Callers <- MCCallers
  Background <- MCBackground
INVARIANTS
  IndexedBranchIsWhole
  NeverHalfEmpty
  NoPushLost
  GateSafe
  AnswerFromOneSlot
PROPERTIES
  QueriesFirst
  QueueComesToRest
  RequestsEnd
CHECK_DEADLOCK FALSE
