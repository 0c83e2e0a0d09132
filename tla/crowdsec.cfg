SPECIFICATION FairSpec
CONSTANTS
  Decision = {d1, d2, bad}
  Bad = {bad}
  Addr = {a1}
  Faults <- AnyFault
  None = None
  d1 = d1
  d2 = d2
  bad = bad
  a1 = a1

INVARIANTS NoneLost NoneStale
PROPERTY Converges
