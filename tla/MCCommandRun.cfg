SPECIFICATION Spec
CONSTANTS
  None = None
  s1 = s1
  s2 = s2
  s3 = s3
  d1 = d1
  d2 = d2
  p1 = p1
  p2 = p2
  w1 = w1
  w2 = w2
  Main = Main
  Worker = {w1, w2}
  Consumer = {Main, w1, w2}
  Provider = {p1, p2}
  StateProvider = p1
  Stack = {s1, s2, s3}
  Dir <- MCDir
  Name <- MCName
  Needs <- MCNeeds
  MaxMint = 3
  Worlds <- MCWorlds
INVARIANTS CleanupSound RebindIsFresh AwaitedIsUnderWay PlannedInOwnWorkspace SilentBeforeApproval
