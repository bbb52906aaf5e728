SPECIFICATION Spec
CONSTANTS
  p1 = p1
  p2 = p2
  r1 = r1
  r2 = r2
  r3 = r3
  PR = {p1, p2}
  Run = {r1, r3}
  AnyRun = AnyRun
  NoHolder = NoHolder
  TTL = 1
  DefaultTTL = 3
  Second = 1
  Key = {"k1", "k2"}
  Admin = {adm}
  Commands = {"reap", "unlock", "force_unlock"}
  PRof <- MCPRof
  Skews = {0}
  MaxTime = 2
  Absent = Absent
  Worlds <- MCWorlds
  MaxBusy = 2
  Seeds = {}
SYMMETRY Twins
INVARIANTS LeaseHonoured SweptClean
PROPERTIES Atomic
CHECK_DEADLOCK FALSE
