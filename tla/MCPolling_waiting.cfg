\* Three polls of one host overlap and nobody selects.
SPECIFICATION FairSpec
CONSTANTS
  h0 = h0
  h1 = h1
  t1 = t1
  t2 = t2
  Mac = {m1}
  Hostname = {h0}
  Target = {t1}
  InitTarget = NOTARGET
  Poller = {p1, p2, p3}
  Operator = {}
  Policy <- OnlyT1
  MaxRetry = 2
  ExpireAfter = 0
  MaxLag = 1
  Faults = {}
  NoState = NoState
  Idle = Idle
PROPERTY WaitingEnds
