SPECIFICATION SessionFairSpec
CONSTANTS
  NULL = NULL
  t1 = t1
  t2 = t2
  alice = alice
  bob = bob
  Threads <- MCThreads
  Clients <- MCClients
  SpuriousWakeups = FALSE
  PollingWait = FALSE
  PromptWait = TRUE
  PromptExit = TRUE
CHECK_DEADLOCK FALSE
INVARIANTS
  TypeOK
  OneSocketThread
  ConnectedRuns
  OwnFiles
  SenderFindsBuffer
PROPERTIES
  InitCallReturns
  CloseCallReturns
  PacketsLeave
