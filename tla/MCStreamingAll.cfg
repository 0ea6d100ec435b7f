SPECIFICATION FairStreamSpec
CONSTANTS
  NULL = NULL
  b1 = b1
  b2 = b2
  t1 = t1
  t2 = t2
  Files <- MCMissing
  Playable <- MCNone
  NotWav <- MCNone
  Chunks <- MCChunks
  Commands <- MCNone
  ClientCommands <- MCCommands
  Buffers <- MCBuffers
  Threads <- MCThreads
  MaxQueued = 0
  MaxCalls = 3
  Window = 2
  PromptStart = TRUE
CHECK_DEADLOCK FALSE
INVARIANT OneSongAtATime
