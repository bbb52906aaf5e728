SPECIFICATION MessagesSpec
CONSTANTS
  p1 = p1
  p2 = p2
  p3 = p3
  u1 = u1
  u2 = u2
  bot = bot
  ada = ada
  None = None
  Proc = {p1, p2, p3}
  Account <- MCAccount
  Hidden = {bot}
  Actions = {p1, p2}
  Bot = bot
  MaxFaults = 2
  Legacy <- MCLegacy
  Retries = 3
  Trigger = "ready"
  SaveTries = 3
  Casts <- MCCasts
INVARIANTS FinishJoinsStart AloneIsExact RepliesUnderAnchor
PROPERTIES HistoryKept AnchorKept
