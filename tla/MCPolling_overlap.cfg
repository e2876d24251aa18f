\* Overlapping polls and selections of one host.
SPECIFICATION Spec
CONSTANTS
  h0 = h0
  h1 = h1
  t1 = t1
  t2 = t2
  Mac = {m1}
  Hostname = {h0}
  Target = {t1, t2}
  InitTarget = NOTARGET
  Poller = {p1, p2}
  Operator = {o1}
  Policy <- OnlyT1
  MaxRetry = 1
  ExpireAfter = 0
  MaxLag = 1
  Faults = {"GetState", "Resolve", "SaveState", "DeleteState", "AppendEvent", "CreateSession", "Render", "Clean", "Crash"}
  NoState = NoState
  Idle = Idle
SYMMETRY Slots
INVARIANTS TypeOK AuditTrail DeliveredAllowed
PROPERTY ImplementsLedger
