SPECIFICATION MachineSpec
CONSTANTS
  t1 = t1
  t2 = t2
  worker = worker
  Workers = {worker}
  Tasks = {t1, t2}
  NoTask = NoTask
  MaxAttempt = 1
  MaxFaults = 1
  FaultKinds = {"crash", "stop", "cut", "break"}
  MaxWire = 1
  m1 = m1
  m2 = m2
  p1 = p1
  p2 = p2
  Machines = {m1, m2}
  Pieces = {p1, p2}
  MaxRuns = 3
SYMMETRY MCSymmetry
PROPERTIES
  CommittedWorkKept
CHECK_DEADLOCK FALSE
