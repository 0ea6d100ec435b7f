SPECIFICATION FairStreamSpec
CONSTANTS
  NULL = NULL
  b1 = b1
  b2 = b2
  t1 = t1
  t2 = t2
  Files <- MCLong
  Playable <- MCNone
  NotWav <- MCNone
  Chunks <- MCChunks
  Commands <- MCSkip
  ClientCommands <- MCSkip
  Buffers <- MCBuffers
  Threads <- MCThreads
  MaxQueued = 0
  MaxCalls = 3
  Window = 2
  PromptStart = TRUE
CHECK_DEADLOCK FALSE
INVARIANTS
  StreamTypeOK
  QueueMirror
  StartComplete
  WriteTarget
  RequestIsHead
PROPERTIES
  RequestedSongBegins
  SkipReturns
  CallsReturn
