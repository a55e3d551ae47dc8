SPECIFICATION Spec
CONSTANTS
  p1 = p1
  p2 = p2
  c1 = c1
  b1 = b1
  b2 = b2
  Procs = {p1, p2}
  Cases = {c1}
  Restarted = {c1}
  Bases = {b1, b2}
  Commands <- PairOrWorkflow
  MaxInvocations = 2
  None = None
INVARIANTS
  TypeOK
  WholeRuns
  PairedStartAlike
PROPERTIES
  Archived
CHECK_DEADLOCK FALSE
SYMMETRY Symmetry
