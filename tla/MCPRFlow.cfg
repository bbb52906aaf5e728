SPECIFICATION Spec
CONSTANTS
  c1 = c1
  c2 = c2
  s1 = s1
  s2 = s2
  v1 = v1
  v2 = v2
  v3 = v3
  v4 = v4
  a1 = a1
  a2 = a2
  a3 = a3
  old = old
  Nothing = Nothing
  Commit = {c1, c2}
  Stack = {s1, s2}
  Scopes <- MCScopes
  Preview = {v1, v2, v3, v4}
  Apply = {a1, a2, a3}
  Ident <- MCIdent
  Expected = {v1, v2, v3, a1}
  Forced = {a2}
  BreakGlass = {a2}
  Freshness <- MCFreshness
  Retention = 1
  Setups <- MCSetups
  Faults = {"put_plan", "delete"}
  MaxTime = 2
  MaxPush = 1
INVARIANTS AppliedAsPreviewed NewestDecides
PROPERTY YoungKept
CHECK_DEADLOCK FALSE
