SPECIFICATION FairSpec
CONSTANTS
  s1 = s1
  pager = pager
  chat = chat
  StackOrder <- OneStack
  Answers <- MCAnswers
  Failed = Failed
  Channel = {pager, chat}
  On <- MCOn
  Configs <- MCConfigs
  Retries = 1
  SuppressFor = {2}
  Faults = {"load", "save", "publish", "list", "mark", "deliver", "clear", "die"}
  MaxFaults = 1
  MaxTime = 3
INVARIANTS IncidentsSettle AcceptedIsSilent
PROPERTIES MarkersKept AlertIsNews Redelivered
