SPECIFICATION RequestsSpec
CONSTANTS
  NULL = NULL
  b1 = b1
  b2 = b2
  b3 = b3
  t1 = t1
  t2 = t2
  Files <- MCFiles
  Playable <- MCPlayable
  NotWav <- MCNotWav
  Commands <- MCCommands
  Buffers <- MCBuffers
  Threads <- MCThreads
  MaxQueued = 3
  MaxSkips = 2
  PromptStart = TRUE
INVARIANT SkipHitsCurrentSong
