\* Racing appends, the sweeper, failures and restarts, on both backends.
SPECIFICATION FairSpec
CONSTANTS
  Mac = {m1}
  Writer = {w1, w2}
  Retention = 1
  MaxTime = 2
  MaxEvents = 3
  Faults = {"Append", "Sweep", "Crash"}
  Idle = Idle
INVARIANTS TypeOK EventsRetained HistoryInOrder
PROPERTY OldEventsDeleted
