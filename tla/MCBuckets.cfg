SPECIFICATION Spec
CONSTANTS
  k1 = k1
  k2 = k2
  m1 = m1
  m2 = m2
  x = x
  y = y
  Client = {m1, m2, x, y}
  Key = {k1, k2}
  Rounds = 2
  Worlds <- MCWorlds
  Shard <- MCShard
  Crashes = 1
INVARIANTS ReplacedAsSeen ListedIsDeleted VerdictsAreTrue
