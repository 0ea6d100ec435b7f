SPECIFICATION Spec
CONSTANTS
  NULL = NULL
  l1 = l1
  l2 = l2
  r1 = r1
  r2 = r2
  r3 = r3
  Items <- MCItems
  Remote <- MCRemote
  SizeMax = 15
  CanFail = TRUE
  Serial = TRUE
  PromptPop = TRUE
CHECK_DEADLOCK FALSE
INVARIANTS
  TypeOK
PROPERTIES
  IsFifo
  CleanseComplete
