SPECIFICATION Spec
CONSTANTS
  c1 = c1
  c2 = c2
  q1 = q1
  x1 = x1
  t1 = t1
  NoName = NoName
  Conns = {c1, c2}
  Queues = {q1}
  Exchanges = {}
  Tags = {t1}
  Flags <- FlagSets
  Notices <- AckTimeout
  Faults <- CloseMethods
  MaxShown = 3
  MaxOps = 2
  MaxBehind = 1
INVARIANT AckTimeoutNamed
