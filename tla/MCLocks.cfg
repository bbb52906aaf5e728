SPECIFICATION Spec
CONSTANTS
  p1 = p1
  p2 = p2
  p3 = p3
  r1 = r1
  r2 = r2
  r3 = r3
  r4 = r4
  PR = {p1, p2, p3}
  Run = {r1, r2, r3, r4}
  AnyRun = AnyRun
  NoHolder = NoHolder
  TTL = 2
  DefaultTTL = 3
  Second = 1
  Key = {k1}
  Admin = {adm}
  Commands = {"reap", "unlock", "force_unlock"}
  PRof <- MCPRof
  Skews = {0}
  MaxTime = 3
  Seeds <- MCSeeds
INVARIANT QueuesOK
PROPERTIES NoOvertaking NoEarlyEviction
