SPECIFICATION DecisionSpec
CONSTANTS
  author = author
  u1 = u1
  u2 = u2
  t1 = t1
  t2 = t2
  mail = mail
  c1 = c1
  c2 = c2
  User = {author, u1, u2}
  Team = {t1, t2}
  Email = {mail}
  NoSHA = NoSHA
  NoTime = NoTime
  NoActor = NoActor
  MaxFireScan = 2
  p1 = p1
  p2 = p2
  p3 = p3
  r1 = r1
  r2 = r2
  r3 = r3
  r4 = r4
  PR = {p1, p2, p3}
  Run = {r1, r2, r3, r4}
  AnyRun = AnyRun
  NoHolder = NoHolder
  TTL = 3
  DefaultTTL = 3
  Second = 2
  Now = 4
  Question <- MCQuestion
INVARIANTS ApprovalsEarned BindingGates FreezeHolds EmergencySound ExplainIsSound
CHECK_DEADLOCK FALSE
