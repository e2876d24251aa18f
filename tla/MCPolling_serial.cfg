\* The requests of a host come one after the other.
SPECIFICATION SerialSpec
CONSTANTS
  h0 = h0
  h1 = h1
  t1 = t1
  t2 = t2
  Mac = {m1}
  Hostname = {h0, h1}
  Target = {t1, t2}
  InitTarget = NOTARGET
  Poller = {p1}
  Operator = {o1}
  Policy <- MatchedByName
  MaxRetry = 2
  ExpireAfter = 1
  MaxLag = 0
  Faults = {"GetState", "SaveState", "DeleteState"}
  NoState = NoState
  Idle = Idle
INVARIANT SelectionKept
PROPERTY ImplementsQueue
