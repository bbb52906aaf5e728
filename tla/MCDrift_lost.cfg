SPECIFICATION Spec
CONSTANTS
  s1 = s1
  pager = pager
  chat = chat
  StackOrder <- OneStack
  Answers <- FewAnswers
  Failed = Failed
  Channel = {pager}
  On <- MCOn
  Configs <- Plain
  Retries = 1
  SuppressFor = {}
  Faults = {"die"}
  MaxFaults = 1
  MaxTime = 4
INVARIANT AlertsSurvive
