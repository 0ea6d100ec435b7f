SPECIFICATION FairSpec
CONSTANTS
  Builds <- MCBuilds
  Lengths <- MCLengths
  Room = 2
INVARIANTS
  TypeOK
  WholeSong
  DataOutlivesDevice
PROPERTIES
  SongEnds
  StopEnds
