SPECIFICATION Spec
CONSTANTS
  p1 = p1
  p2 = p2
  r1 = r1
  r2 = r2
  r3 = r3
  s1 = s1
  s2 = s2
  c1 = c1
  c2 = c2
  PR = {p1, p2}
  Run = {r1, r2, r3}
  AnyRun = AnyRun
  NoHolder = NoHolder
  TTL = 1
  DefaultTTL = 4
  Second = 2
  Stack = {s1, s2}
  PRof <- MCPRof
  CommitOf <- MCCommitOf
  Casts <- MCCasts
  MaxTime = 1
CHECK_DEADLOCK FALSE
INVARIANTS EngineHoldsLock NothingLeftHeld RecordsTrue
SYMMETRY TwinRuns
