\* Two sessions, their lookups and the sweeper, with failures and restarts.
SPECIFICATION FairSpec
CONSTANTS
  Ref = {r1, r2}
  Snapshot = {x1, x2}
  Creator = {c1}
  Installer = {i1}
  Retention = 2
  MaxTime = 4
  Faults = {"Create", "Lookup", "Sweep", "Crash"}
  Idle = Idle
INVARIANTS TypeOK UnexpiredKept MissingMeansExpired FoundMeansOwn
PROPERTY ExpiredRemoved
