\* A poll and a selection of one host overlap.
SPECIFICATION Spec
CONSTANTS
  h0 = h0
  h1 = h1
  t1 = t1
  t2 = t2
  Mac = {m1}
  Hostname = {h0}
  Target = {t1}
  InitTarget = NOTARGET
  Poller = {p1}
  Operator = {o1}
  Policy <- OnlyT1
  MaxRetry = 2
  ExpireAfter = 1
  MaxLag = 0
  Faults = {}
  NoState = NoState
  Idle = Idle
INVARIANT SelectionKept
