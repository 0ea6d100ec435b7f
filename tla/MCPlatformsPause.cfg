SPECIFICATION FairSpec
CONSTANTS
  Builds <- MCLinux
  Lengths <- MCLengths
  Room = 2
INVARIANT
  PausedSilent
